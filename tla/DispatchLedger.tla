--------------------------- MODULE DispatchLedger ---------------------------
(***************************************************************************)
(* A dispatch to a node that one worker serves implements the job ledger,  *)
(* whatever workers crash and restart and whenever the controller gives    *)
(* up.  A job on a shared node is left out of the mapping: nothing is      *)
(* promised of it.                                                         *)
(***************************************************************************)
EXTENDS NodeDispatch

Alone(j) == Solo(job[j].node)

(* what the dispatching thread makes of the job's result *)
Told(answer) ==
    CASE answer = "success" -> "completed"
      [] answer \in {"failed", "refused"} -> answer
      [] answer \in {"timed_out", "unavailable"} -> "no result"
      [] OTHER -> "none"

PhaseOf(j) == IF Alone(j) THEN job[j].status ELSE "none"
RunsOf(j) == IF Alone(j) THEN ran[j] ELSE 0
VerdictOf(j) == IF Alone(j) THEN Told(asker[j]) ELSE "none"

Ledger == INSTANCE JobLedger WITH
    phase <- [j \in Job |-> PhaseOf(j)],
    runs <- [j \in Job |-> RunsOf(j)],
    verdict <- [j \in Job |-> VerdictOf(j)]

(* Every step of controllers and workers is a step of the job ledger or leaves
   it alone: no job is queued, taken or executed twice, no result is replaced,
   a refused job was not executed, and the controller is given the result the
   job has for good. (node_dispatcher.py 36-100, worker.py 47-84,
   task_chain_runner.py 739-745) *)
ImplementsJobLedger == Ledger!LedgerSpec
=============================================================================
