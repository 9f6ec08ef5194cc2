------------------------------ MODULE JobLedger ------------------------------
(***************************************************************************)
(* What a dispatch promises, with no files, nodes, workers or polls: a job *)
(* is queued once, taken once, executed at most once while it is taken,    *)
(* and finished for ever.  Whoever waits for it is given its result, or    *)
(* gives up before there is one.                                           *)
(***************************************************************************)
EXTENDS Naturals

CONSTANT Job

VARIABLES
    phase,      \* job -> how far it is, or its result
    runs,       \* job -> how often it was executed
    verdict     \* job -> what the one that waits for it was told

ledger == <<phase, runs, verdict>>

Results == {"completed", "failed", "refused"}

LedgerInit ==
    /\ phase = [j \in Job |-> "none"]
    /\ runs = [j \in Job |-> 0]
    /\ verdict = [j \in Job |-> "none"]

Move(j, from, to) ==
    /\ phase[j] = from
    /\ phase' = [phase EXCEPT ![j] = to]
    /\ UNCHANGED verdict

Submit(j) == Move(j, "none", "queued") /\ UNCHANGED runs

Take(j) == Move(j, "queued", "running") /\ UNCHANGED runs

Run(j) ==
    /\ phase[j] = "running" /\ runs[j] = 0
    /\ runs' = [runs EXCEPT ![j] = 1]
    /\ UNCHANGED <<phase, verdict>>

(* what completed was executed, and what was refused was not *)
Finish(j, result) ==
    /\ result = "completed" => runs[j] = 1
    /\ result = "refused" => runs[j] = 0
    /\ Move(j, "running", result)
    /\ UNCHANGED runs

Learn(j) ==
    /\ verdict[j] = "none" /\ phase[j] \in Results
    /\ verdict' = [verdict EXCEPT ![j] = phase[j]]
    /\ UNCHANGED <<phase, runs>>

GiveUp(j) ==
    /\ verdict[j] = "none" /\ phase[j] \notin Results
    /\ verdict' = [verdict EXCEPT ![j] = "no result"]
    /\ UNCHANGED <<phase, runs>>

LedgerNext ==
    \E j \in Job :
        \/ Submit(j) \/ Take(j) \/ Run(j) \/ Learn(j) \/ GiveUp(j)
        \/ \E result \in Results : Finish(j, result)

LedgerSpec == LedgerInit /\ [][LedgerNext]_ledger

----------------------------------------------------------------------------
(* a result that was given out is the job's result, and a success stands for
   one execution *)
ResultsAreTrue ==
    \A j \in Job :
        /\ verdict[j] \in Results => phase[j] = verdict[j]
        /\ phase[j] = "completed" => runs[j] = 1
        /\ phase[j] = "refused" => runs[j] = 0
=============================================================================
