--------------------------- MODULE MCContractQueue ---------------------------
(***************************************************************************)
(* Instances of ContractQueue for TLC.                                     *)
(***************************************************************************)
EXTENDS ContractQueue, TLC

Opt(m, a, d) == [mode |-> m, ask |-> a, deny |-> d]
Nightly == {Opt("nightly", TRUE, TRUE)}
Unattended == Nightly \cup {Opt("cycle", TRUE, FALSE), Opt("cycle", FALSE, TRUE)}
Loops == <<0, 2>>

(* one process after another, or a program with an operator or another *)
Bounds(slots, start, op, options) ==
    [slots |-> slots, starts |-> start, ops |-> op, options |-> options]
SomeLimits ==
    {Bounds(1, 3, 1, Unattended), Bounds(2, 2, 0, Nightly),
     Bounds(2, 1, 1, Unattended \cup {Opt("once", TRUE, TRUE)})}

(* What a program read and chose matters only while it is going to use it; *)
(* what is recorded for the properties only until two processes overlap.   *)
WithoutLeftovers ==
    LET At(p, places) == pc[p] \in places
        tasked(p) == HasTask(p) \/ pc[p] = "reopen"
        cycle(p) == Up(p) /\ opt[p].mode = "cycle"
    IN <<queue, approvals, pc, limit, starts, ops, overlap,
         [p \in Program |-> IF Up(p) THEN opt[p] ELSE 0],
         [p \in Program |-> IF At(p, {"sync", "halt", "reopen", "mark", "end"}) THEN copy[p] ELSE 0],
         [p \in Program |-> IF At(p, {"spend"}) THEN seen[p] ELSE 0],
         [p \in Program |-> IF tasked(p) THEN <<cur[p], tries[p], rewritten[p]>> ELSE 0],
         [p \in Program |-> IF At(p, {"endLoad", "end", "decide", "spend", "return"})
                              THEN verdict[p] ELSE "none"],
         [p \in Program |-> IF cycle(p) THEN <<executed[p], exhausted[p]>> ELSE 0],
         [p \in Program |-> IF cycle(p) /\ HasTask(p) THEN calls[p] ELSE 0],
         opc, IF opc = "idle" THEN 0 ELSE <<otask, ocopy>>, IF opc = "add" THEN oseen ELSE 0,
         IF overlap THEN 0 ELSE <<waits, [t \in Task |-> granted[t] - spent[t]]>>>>
=============================================================================
