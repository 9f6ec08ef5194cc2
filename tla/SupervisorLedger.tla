-------------------------- MODULE SupervisorLedger --------------------------
(***************************************************************************)
(* The queue of a supervisor that is its only writer implements the task   *)
(* ledger: the file's statuses are the phases, whatever crashes, stops and *)
(* resumes happen between a load of the queue and its write.               *)
(***************************************************************************)
EXTENDS Supervisor

LedgerPhase(status) ==
    CASE status = "absent"                        -> "absent"
      [] status \in {"pending", "needs_approval"} -> "open"
      [] status = "running"                       -> "active"
      [] status = "completed"                     -> "done"
      [] OTHER                                    -> "failed"

Ledger == INSTANCE TaskLedger WITH
    phase <- [t \in Task |-> LedgerPhase(queue[t].status)],
    tries <- [t \in Task |-> queue[t].retries]

(* Every step of the system is a step of the ledger or leaves it alone: no
   attempt, result, retry or reclaim is lost, repeated or applied to a task
   that is already settled.  (scheduler.py 63-147 under supervisor.py
   109-513) *)
ImplementsLedger == Ledger!LedgerSpec
=============================================================================
