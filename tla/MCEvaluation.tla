----------------------------- MODULE MCEvaluation -----------------------------
(***************************************************************************)
(* Instances of Evaluation for TLC.                                        *)
(***************************************************************************)
EXTENDS Evaluation, TLC

Session(most, failures, threshold, paced, remote) ==
    [runs |-> most, failures |-> failures, threshold |-> threshold,
     paced |-> paced, remote |-> remote]

(* Three runs, so that the run before the last is not the first: with and
   without an interval, local and dispatched.  Two runs where calls race. *)
LongSessions ==
    {Session(3, 3, 1, TRUE, FALSE), Session(3, 3, 1, FALSE, FALSE),
     Session(3, 3, 2, TRUE, TRUE)}
RacedSessions == {Session(2, 2, 1, TRUE, FALSE), Session(2, 2, 1, FALSE, FALSE)}
SomeSessions == LongSessions \cup RacedSessions
SomeCalls == [s \in SomeSessions |-> IF s \in RacedSessions THEN 3 ELSE 1]

(* what a thread holds matters only while it is going to use it *)
WithoutLeftovers ==
    <<cfg, rec, runs, registered, pc, cpc, ops, crashes, lost, stopped, skipped, orphaned,
      [l \in Loop |-> IF pc[l] \in {"begin", "run", "store", "next", "settle"} THEN copy[l]
                      ELSE rec],
      [l \in Loop |-> pc[l] # "idle" /\ ev[l]],
      [c \in Client |-> IF cpc[c] \in {"idle", "shutdown"} THEN rec ELSE held[c]]>>
=============================================================================
