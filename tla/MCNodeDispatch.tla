---------------------------- MODULE MCNodeDispatch ----------------------------
(***************************************************************************)
(* Instances of NodeDispatch for TLC.                                      *)
(***************************************************************************)
EXTENDS DispatchLedger, TLC

CONSTANTS n1, n2, w1, w2

(* two workers, each with a node of its own or both with the same id *)
OneEach == w1 :> n1 @@ w2 :> n2
SharedNode == w1 :> n1 @@ w2 :> n1
EitherSetup == {OneEach, SharedNode}
SomeStarts == OneEach :> 3 @@ SharedNode :> 2

(* the node of a job matters once one is resolved, of a node's file only how *)
(* the node is offered while a job is still to be resolved, of a wait that   *)
(* is over only that it is, and what a worker declares if it is enabled      *)
JobsAsKnown ==
    [j \in Job |-> IF asker[j] = "none" THEN [job[j] EXCEPT !.node = n1] ELSE job[j]]
FilesAsRead ==
    [n \in Node |-> IF Offered(n) /\ \E j \in Job : asker[j] = "none"
                    THEN file[n].status ELSE "absent"]
WaitsAsGoing == [j \in Job |-> IF asker[j] \in Verdicts THEN "unavailable" ELSE asker[j]]
DeclaresAsAsked == [w \in Worker |-> declares[w] \/ ~enabled[w]]
WithoutLeftovers ==
    <<serves, JobsAsKnown, FilesAsRead, WaitsAsGoing, wpc, wjob, outcome, DeclaresAsAsked, enabled, starts,
      ran, abandoned>>
=============================================================================
