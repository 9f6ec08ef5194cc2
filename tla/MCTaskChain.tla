----------------------------- MODULE MCTaskChain -----------------------------
(***************************************************************************)
(* Instances of TaskChain for TLC.                                         *)
(***************************************************************************)
EXTENDS TaskChain, TLC

(* every kind with every target and limits that cut its path short or not *)
EveryConfig == {c \in Config({2, 4}) : c.failures = 4 \/ c.idle = 4}

Limits(kind, fallback, steps, failures, idle) ==
    [kind |-> kind, primary |-> "remote", fallback |-> fallback,
     steps |-> steps, failures |-> failures, idle |-> idle]

(* one chain of either policy version, long enough to be overtaken *)
OvertakenConfigs ==
    {Limits("dispatch_validate_recover", "local", 3, 2, 2),
     Limits("dispatch_recover_resume", "local", 3, 3, 3)}

(* a start and what may follow it on every path; three calls where they race *)
SomeConfigs == EveryConfig \cup OvertakenConfigs
Unlimited(c) == c.steps = 4 /\ c.failures = 4 /\ c.idle = 4
SomeCalls ==
    [c \in SomeConfigs |->
        IF c \in OvertakenConfigs THEN 3
        ELSE IF c.kind \in V2Kinds /\ Unlimited(c) THEN 2
        ELSE 1]

(* what a thread holds matters only while it is going to use it *)
WithoutLeftovers ==
    <<cfg, rec, logged, registered, pc, ev, cpc, ops, crashes, lost, orphaned,
      [l \in Loop |-> IF pc[l] \in {"settle", "step", "store"} THEN copy[l] ELSE rec],
      [c \in Client |-> IF cpc[c] \in {"idle", "shutdown"} THEN rec ELSE held[c]],
      [l \in Loop |-> IF pc[l] = "idle" THEN 0 ELSE late[l]]>>
=============================================================================
