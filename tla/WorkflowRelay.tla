--------------------------- MODULE WorkflowRelay ---------------------------
(***************************************************************************)
(* Workflows and confirmations implement the step relay, whatever chat     *)
(* threads, sweeps and expiries do between two operations of the stores.   *)
(* The records in the workflow store are no part of the mapping: who may   *)
(* go on is decided by the threads and the confirmations.                  *)
(***************************************************************************)
EXTENDS Workflows

Sweeping == {"sweep", "purge", "purged"}

(* A sweep is on the way to where the thread goes after it. *)
Place(t) == IF pc[t] \in Sweeping THEN next[t] ELSE pc[t]

(* A thread that is to carry out a step of its workflow, or may pause it; a *)
(* confirmation that can still let a thread do that.                        *)
Executing == {"begin", "start", "run", "succeeded", "asked", "attach", "resume"}
Executes(t, w) == Place(t) \in Executing /\ wf[t] = w
Waits(c, w) == conf[c].state = "pending" /\ conf[c].wf = w

HandOf(w) ==
  IF w \notin born THEN "new"
  ELSE IF \E t \in Thread : Executes(t, w) THEN "held"
  ELSE IF \E c \in Confirmation : Waits(c, w) THEN "offered"
  ELSE "over"

TriedOf(w) == {i \in 1..Steps : ran[w][i] > 0}

Relay == INSTANCE StepRelay WITH
  hand <- [w \in Workflow |-> HandOf(w)],
  tried <- [w \in Workflow |-> TriedOf(w)],
  done <- passed

(* Every step of threads, timer and time is a step of the relay or leaves  *)
(* it alone: a workflow passes from the thread that asks to its            *)
(* confirmation and from there to one thread that was approved, which      *)
(* takes it up at the step that asked. One whose step failed, or whose     *)
(* confirmation expired or was rejected, is not taken up again; what its   *)
(* record in the store says meanwhile makes no difference.                 *)
(* (workflow_executor.py 217-367, 414-585, confirmation_store.py 74-129)   *)
ImplementsRelay == Relay!RelaySpec
=============================================================================
