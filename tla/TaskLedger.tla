----------------------------- MODULE TaskLedger -----------------------------
(***************************************************************************)
(* What the task queue promises, with no files, copies, sessions or        *)
(* crashes: every task is opened, claimed, and in the end done or failed;  *)
(* a claim needs the task's dependencies done; a failed attempt is tried   *)
(* again a bounded number of times; done and failed are for ever.          *)
(***************************************************************************)
EXTENDS Naturals

CONSTANTS Task, Deps, MaxRetries

VARIABLES phase, tries

ledger == <<phase, tries>>

Phases == {"absent", "open", "active", "done", "failed"}

LedgerTypeOK ==
    /\ phase \in [Task -> Phases]
    /\ tries \in [Task -> Nat]

LedgerInit ==
    /\ phase \in [Task -> {"absent", "open", "failed"}]
    /\ tries = [t \in Task |-> 0]

Move(t, from, to) ==
    /\ phase[t] = from
    /\ phase' = [phase EXCEPT ![t] = to]

Claim(t) ==
    /\ Move(t, "open", "active")
    /\ \A d \in Deps[t] : phase[d] = "done"
    /\ UNCHANGED tries

Finish(t) == Move(t, "active", "done") /\ UNCHANGED tries

(* refused before it was claimed, or judged hopeless *)
Refuse(t) == Move(t, "open", "failed") /\ UNCHANGED tries

GiveUp(t) == Move(t, "active", "failed") /\ UNCHANGED tries

Retry(t) ==
    /\ tries[t] + 1 < MaxRetries
    /\ Move(t, "active", "open")
    /\ tries' = [tries EXCEPT ![t] = @ + 1]

Exhaust(t) ==
    /\ tries[t] + 1 = MaxRetries
    /\ Move(t, "active", "failed")
    /\ tries' = [tries EXCEPT ![t] = @ + 1]

(* claims whose worker is gone are opened again together *)
Reclaim(S) ==
    /\ \A t \in S : phase[t] = "active"
    /\ phase' = [t \in Task |-> IF t \in S THEN "open" ELSE phase[t]]
    /\ UNCHANGED tries

LedgerNext ==
    \/ \E t \in Task : \/ Claim(t) \/ Finish(t) \/ Refuse(t) \/ GiveUp(t)
                       \/ Retry(t) \/ Exhaust(t)
    \/ \E S \in SUBSET Task : Reclaim(S)

LedgerSpec == LedgerInit /\ [][LedgerNext]_ledger

-----------------------------------------------------------------------------
(* work is claimed or done only on top of work that is done *)
BuiltOnDone ==
    \A t \in Task : phase[t] \in {"active", "done"} =>
        \A d \in Deps[t] : phase[d] = "done"
=============================================================================
