---------------------------- MODULE MCSupervisor ----------------------------
(***************************************************************************)
(* Instances of Supervisor for TLC.  In ChainDeps task t2 depends on t1;   *)
(* in OneGated t3 is behind operator approval.                             *)
(***************************************************************************)
EXTENDS SupervisorLedger

CONSTANTS t1, t2, t3

ChainDeps == [t \in Task |-> IF t = t2 THEN {t1} ELSE {}]
OneGated == [t \in Task |-> IF t = t3 THEN "approval" ELSE "open"]
AllOpen == [t \in Task |-> "open"]
EachTask == {{t} : t \in Task}
(* t3, gated, also depends on t1 *)
GatedDeps == [t \in Task |-> IF t = t3 THEN {t1} ELSE {}]

(* the tallies runs, lost and begun are read by none of the properties of the
   shared runs and by no action: states that differ only there are one *)
WithoutTallies == <<files, pc, sid, mem, drained, sel, buf, verdict, reason, idlePolls,
                    control, clients, starts, finished>>
=============================================================================
