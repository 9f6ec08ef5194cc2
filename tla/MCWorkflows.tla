----------------------------- MODULE MCWorkflows -----------------------------
(* Constants for TLC.                                                       *)
EXTENDS WorkflowRelay, TLC

CONSTANTS h1, h2, timer

(* One chat beside the window's timer, or two: the second is a stopped     *)
(* polling loop at its last command.                                       *)
SomeLimits == {h1 :> 3 @@ h2 :> 0 @@ timer :> 1, h1 :> 2 @@ h2 :> 1 @@ timer :> 0}

(* Where a thread goes after a sweep matters only during one, and the ways  *)
(* a workflow ended differ only in that the expired ones are trimmed first. *)
EndedAlike(r) ==
  IF r # None /\ r.state \in Terminal \ {"expired"} THEN [r EXCEPT !.state = "completed"] ELSE r

WithoutLeftovers ==
  <<[w \in Workflow |-> EndedAlike(store[w])], [t \in Thread |-> EndedAlike(rec[t])],
    bucket, late, conf, pc, wf, step, cid, found, told, born, left, history,
    [t \in Thread |-> IF pc[t] \in {"sweep", "purge", "purged"} THEN next[t] ELSE "idle"]>>
=============================================================================
