------------------------------ MODULE Evaluation ------------------------------
(***************************************************************************)
(* An evaluation session under its runner                                  *)
(* (app/controller/evaluation_runner.py): one bounded command is run again *)
(* and again, at once or every interval, each run is compared with the one *)
(* before it, and the session record keeps the counts.  Like a task chain  *)
(* the session has a background thread, and calls that read and write back *)
(* the whole record; unlike it, the loop that is told to stop settles the  *)
(* record only where it waits for the next run.                            *)
(***************************************************************************)
EXTENDS Naturals, Sequences, FiniteSets

CONSTANTS
    Loop,       \* loop threads
    NoLoop,     \* nothing is registered for the session
    Client,     \* threads on which calls arrive
    Configs,    \* session definitions: [runs, failures, threshold : limits,
                \*   paced : is there an interval, remote : is it dispatched]
    MaxOps,     \* bound: calls, for each definition
    MaxCrashes  \* bound: ends of the controller process

ASSUME LoopAssumption == NoLoop \notin Loop
ASSUME ConfigAssumption ==
    Configs \subseteq [runs : Nat \ {0}, failures : Nat \ {0}, threshold : Nat \ {0},
                       paced : BOOLEAN, remote : BOOLEAN]

VARIABLES
    cfg,        \* the session's definition
    rec,        \* the stored session record
    runs,       \* the stored runs as runs_for_session sorts them
    registered, \* the loop in _threads and _stop_events, or NoLoop
    pc, copy, ev,   \* loop thread -> place, the record it holds, its stop event
    cpc, held,      \* client thread -> place, the record its call holds
    ops, crashes,
    lost,       \* history: runs whose count was set back or never written
    stopped,    \* history: a stop was asked for since the last start
    skipped,    \* history: a stop set an event but had read a settled record
    orphaned    \* history: a loop ended by a failure or with the process

vars == <<cfg, rec, runs, registered, pc, copy, ev, cpc, held, ops, crashes,
          lost, stopped, skipped, orphaned>>
loopVars == <<registered, pc, copy, ev>>
callVars == <<cfg, cpc, held, ops, crashes, stopped, skipped>>

Settled == {"completed", "failed", "stopped", "blocked"}

SessionRecord ==
    [status : Settled \cup {"created", "running"},
     done : Nat, good : Nat, bad : Nat,       \* runs, successes, failures
     regressions : Nat, recoveries : Nat,
     streak : Nat]                            \* dispatch errors in a row

Created == [status |-> "created", done |-> 0, good |-> 0, bad |-> 0,
            regressions |-> 0, recoveries |-> 0, streak |-> 0]

Init ==
    /\ cfg \in Configs
    /\ rec = Created
    /\ runs = <<>>
    /\ registered = NoLoop
    /\ pc = [l \in Loop |-> "idle"] /\ copy = [l \in Loop |-> rec]
    /\ ev = [l \in Loop |-> FALSE]
    /\ cpc = [c \in Client |-> "idle"] /\ held = [c \in Client |-> rec]
    /\ ops = 0 /\ crashes = 0 /\ lost = 0
    /\ stopped = FALSE /\ skipped = FALSE /\ orphaned = FALSE

Write(record) ==
    /\ rec' = record
    /\ lost' = lost + (IF rec.done > record.done THEN rec.done - record.done ELSE 0)

----------------------------------------------------------------------------
(* What a run makes of the session.                                        *)

(* the results a run can have: whether it succeeded, whether a job was
   dispatched for it, and whether it could not run for want of a node *)
Results ==
    {r \in [ok : BOOLEAN, job : BOOLEAN, unavailable : BOOLEAN] :
        /\ r.unavailable => ~r.ok /\ ~r.job
        /\ IF cfg.remote THEN r.ok => r.job ELSE ~r.job}

(* a run is stored between the others by its iteration; runs of the same
   iteration are in either order, their start times being rounded *)
Stored(run) ==
    {SubSeq(runs, 1, i) \o <<run>> \o SubSeq(runs, i + 1, Len(runs)) :
        i \in {i \in 0 .. Len(runs) : /\ i > 0 => runs[i].iteration <= run.iteration
                                      /\ i < Len(runs) => runs[i + 1].iteration >= run.iteration}}

(* mutant: a run is compared with the first *)
BaselineOf(list) == list[1].ok

(* the run is compared with the last but one of the stored runs *)
PreviousOk(list) == list[Len(list) - 1].ok
Regression(list, ok) == Len(list) >= 2 /\ PreviousOk(list) /\ ~ok
Recovery(list, ok) == Len(list) >= 2 /\ ~PreviousOk(list) /\ ok

(* _apply_run_outcome *)
Outcome(session, result, list) ==
    LET ok == result.ok
        counted == [session EXCEPT
                      !.done = @ + 1,
                      !.good = @ + (IF ok THEN 1 ELSE 0),
                      !.bad = @ + (IF ok THEN 0 ELSE 1),
                      !.regressions = @ + (IF Regression(list, ok) THEN 1 ELSE 0),
                      !.recoveries = @ + (IF Recovery(list, ok) THEN 1 ELSE 0),
                      !.streak = IF ~result.job THEN @ ELSE IF ok THEN 0 ELSE @ + 1]
    IN  IF result.unavailable THEN [counted EXCEPT !.status = "blocked"]
        ELSE IF \/ result.job /\ counted.streak >= cfg.threshold
                \/ counted.bad >= cfg.failures
             THEN [counted EXCEPT !.status = "failed"]
        ELSE counted

----------------------------------------------------------------------------
(* The calls: start_session, stop_session and shutdown.                    *)

Call(c, op) ==
    /\ cpc[c] = "idle" /\ ops < MaxOps[cfg]
    /\ cpc' = [cpc EXCEPT ![c] = op]
    /\ held' = [held EXCEPT ![c] = rec]
    /\ ops' = ops + 1
    /\ UNCHANGED <<cfg, rec, runs, loopVars, crashes, lost, stopped, skipped, orphaned>>

Alive(l) == l # NoLoop /\ pc[l] # "idle"

Return(c) == cpc' = [cpc EXCEPT ![c] = "idle"]

StartRefused(c) ==
    /\ cpc[c] = "start" /\ Alive(registered)
    /\ Return(c)
    /\ UNCHANGED <<cfg, rec, runs, loopVars, held, ops, crashes, lost, stopped, skipped,
                   orphaned>>

StartSession(c, l) ==
    /\ cpc[c] = "start" /\ ~Alive(registered) /\ pc[l] = "idle"
    /\ Write([held[c] EXCEPT !.status = "running"])
    /\ pc' = [pc EXCEPT ![l] = "head"]
    /\ registered' = l
    /\ ev' = [ev EXCEPT ![l] = FALSE]
    /\ stopped' = FALSE /\ skipped' = FALSE /\ orphaned' = FALSE
    /\ Return(c)
    /\ UNCHANGED <<cfg, runs, copy, held, ops, crashes>>

SignalLoop == ev' = [l \in Loop |-> ev[l] \/ l = registered] /\ stopped' = TRUE

StopSession(c) ==
    /\ cpc[c] = "stop"
    /\ SignalLoop
    /\ IF held[c].status \in Settled
       THEN Return(c) /\ skipped' = TRUE /\ UNCHANGED held
       ELSE /\ cpc' = [cpc EXCEPT ![c] = "write"]
            /\ held' = [held EXCEPT ![c].status = "stopped"]
            /\ UNCHANGED skipped
    /\ UNCHANGED <<cfg, rec, runs, registered, pc, copy, ops, crashes, lost, orphaned>>

WriteStopped(c) ==
    /\ cpc[c] = "write"
    /\ Write(held[c])
    /\ Return(c)
    /\ UNCHANGED <<cfg, runs, loopVars, held, ops, crashes, stopped, skipped, orphaned>>

Shutdown(c) ==
    /\ cpc[c] = "idle" /\ ops < MaxOps[cfg] /\ registered # NoLoop
    /\ SignalLoop
    /\ cpc' = [cpc EXCEPT ![c] = "shutdown"]
    /\ ops' = ops + 1
    /\ UNCHANGED <<cfg, rec, runs, registered, pc, copy, held, crashes, lost, skipped, orphaned>>

ShutdownRead(c) ==
    /\ cpc[c] = "shutdown"
    /\ IF rec.status = "running"
       THEN /\ cpc' = [cpc EXCEPT ![c] = "write"]
            /\ held' = [held EXCEPT ![c] = [rec EXCEPT !.status = "stopped"]]
       ELSE Return(c) /\ UNCHANGED held
    /\ UNCHANGED <<cfg, rec, runs, loopVars, ops, crashes, lost, stopped, skipped, orphaned>>

----------------------------------------------------------------------------
(* The loop thread: _run_session_loop.                                     *)
Goto(l, place) == pc' = [pc EXCEPT ![l] = place]

(* an event that is set ends the loop, and nothing is written *)
CheckEvent(l) ==
    /\ pc[l] = "head"
    /\ Goto(l, IF ev[l] THEN "cleanup" ELSE "read")
    /\ UNCHANGED <<callVars, rec, runs, registered, copy, ev, lost, orphaned>>

(* mutant: one run more than the limit *)
LateLimit(session) ==
    IF session.done > cfg.runs THEN "completed"
    ELSE IF session.bad >= cfg.failures THEN "failed" ELSE "running"

(* what the limits settle a session as *)
Limit(session) ==
    IF session.done >= cfg.runs THEN "completed"
    ELSE IF session.bad >= cfg.failures THEN "failed" ELSE "running"

ReadAndDecide(l) ==
    /\ pc[l] = "read"
    /\ copy' = [copy EXCEPT ![l] = [rec EXCEPT !.status =
                  IF @ = "running" THEN Limit(rec) ELSE @]]
    /\ Goto(l, IF rec.status # "running" THEN "cleanup"
               ELSE IF Limit(rec) # "running" THEN "settle" ELSE "begin")
    /\ UNCHANGED <<callVars, rec, runs, registered, ev, lost, orphaned>>

(* last_started_at is written with everything else that was read *)
Begin(l) ==
    /\ pc[l] = "begin"
    /\ Write(copy[l])
    /\ Goto(l, "run")
    /\ UNCHANGED <<callVars, runs, registered, copy, ev, orphaned>>

(* the run ends, is stored, compared and applied to the record it began with *)
RunEnds(l) ==
    /\ pc[l] = "run"
    /\ \E result \in Results :
       \E list \in Stored([iteration |-> copy[l].done + 1, ok |-> result.ok]) :
          /\ runs' = list
          /\ copy' = [copy EXCEPT ![l] = Outcome(@, result, list)]
    /\ Goto(l, "store")
    /\ UNCHANGED <<callVars, rec, registered, ev, lost, orphaned>>

StoreOutcome(l) ==
    /\ pc[l] = "store"
    /\ Write(copy[l])
    /\ copy' = [copy EXCEPT ![l].status = IF @ = "running" THEN Limit(copy[l]) ELSE @]
    /\ Goto(l, IF copy[l].status \in Settled THEN "cleanup"
               ELSE IF Limit(copy[l]) # "running" THEN "settle"
               ELSE IF cfg.paced THEN "next" ELSE "head")
    /\ UNCHANGED <<callVars, runs, registered, ev, orphaned>>

(* next_run_at is written, again with everything else *)
ScheduleNext(l) ==
    /\ pc[l] = "next"
    /\ Write(copy[l])
    /\ Goto(l, "wait")
    /\ UNCHANGED <<callVars, runs, registered, copy, ev, orphaned>>

(* mutant: the wait ends the loop like its head does *)
WaitLeaves(l) ==
    /\ pc[l] = "wait"
    /\ Goto(l, IF ev[l] THEN "cleanup" ELSE "head")
    /\ UNCHANGED <<callVars, rec, runs, registered, copy, ev, lost, orphaned>>

(* the interval passes, or the event ends it and the record read then is
   finished as stopped *)
Wait(l) ==
    /\ pc[l] = "wait"
    /\ Goto(l, IF ev[l] THEN "woken" ELSE "head")
    /\ UNCHANGED <<callVars, rec, runs, registered, copy, ev, lost, orphaned>>

Woken(l) ==
    /\ pc[l] = "woken"
    /\ copy' = [copy EXCEPT ![l] = [rec EXCEPT !.status = "stopped"]]
    /\ Goto(l, "settle")
    /\ UNCHANGED <<callVars, rec, runs, registered, ev, lost, orphaned>>

(* _finish_session *)
Settle(l) ==
    /\ pc[l] = "settle"
    /\ Write(copy[l])
    /\ Goto(l, "cleanup")
    /\ UNCHANGED <<callVars, runs, registered, copy, ev, orphaned>>

Cleanup(l) ==
    /\ pc[l] = "cleanup"
    /\ registered' = IF registered = l THEN NoLoop ELSE registered
    /\ Goto(l, "idle")
    /\ UNCHANGED <<callVars, rec, runs, copy, ev, lost, orphaned>>

(* a request that cannot be built, a capture that fails, a file that cannot
   be read or written: the exception leaves the loop *)
LoopFails(l) ==
    /\ pc[l] \in {"read", "begin", "run", "store", "next", "woken", "settle"}
    /\ Goto(l, "cleanup")
    /\ lost' = IF pc[l] = "store" THEN lost + 1 ELSE lost
    /\ orphaned' = TRUE
    /\ UNCHANGED <<callVars, rec, runs, registered, copy, ev>>

ControllerEnds ==
    /\ crashes < MaxCrashes
    /\ crashes' = crashes + 1
    /\ registered' = NoLoop
    /\ pc' = [l \in Loop |-> "idle"]
    /\ ev' = [l \in Loop |-> FALSE]
    /\ cpc' = [c \in Client |-> "idle"]
    /\ lost' = IF \E l \in Loop : pc[l] = "store" THEN lost + 1 ELSE lost
    /\ orphaned' = TRUE
    /\ UNCHANGED <<cfg, rec, runs, copy, held, ops, stopped, skipped>>

----------------------------------------------------------------------------
LoopStep(l) ==
    \/ CheckEvent(l) \/ ReadAndDecide(l) \/ Begin(l) \/ RunEnds(l) \/ StoreOutcome(l)
    \/ ScheduleNext(l) \/ Wait(l) \/ Woken(l) \/ Settle(l) \/ Cleanup(l)

ClientStep(c) ==
    \/ StartRefused(c) \/ (\E l \in Loop : StartSession(c, l))
    \/ StopSession(c) \/ WriteStopped(c) \/ ShutdownRead(c)

Next ==
    \/ \E l \in Loop : LoopStep(l) \/ LoopFails(l)
    \/ \E c \in Client :
          \/ \E op \in {"start", "stop"} : Call(c, op)
          \/ Shutdown(c) \/ ClientStep(c)
    \/ ControllerEnds

Fairness ==
    /\ \A l \in Loop : WF_vars(LoopStep(l))
    /\ \A c \in Client : WF_vars(ClientStep(c))

Spec == Init /\ [][Next]_vars
FairSpec == Spec /\ Fairness
----------------------------------------------------------------------------
TypeOK ==
    /\ cfg \in Configs
    /\ rec \in SessionRecord /\ copy \in [Loop -> SessionRecord]
    /\ held \in [Client -> SessionRecord]
    /\ runs \in Seq([iteration : Nat, ok : BOOLEAN])
    /\ registered \in Loop \cup {NoLoop}
    /\ pc \in [Loop -> {"idle", "head", "read", "begin", "run", "store", "next", "wait",
                        "woken", "settle", "cleanup"}]
    /\ ev \in [Loop -> BOOLEAN]
    /\ cpc \in [Client -> {"idle", "start", "stop", "write", "shutdown"}]
    /\ ops \in Nat /\ crashes \in Nat /\ lost \in Nat
    /\ stopped \in BOOLEAN /\ skipped \in BOOLEAN /\ orphaned \in BOOLEAN

(* The session's regressions and recoveries are those of its stored runs, in
   their order, as long as every stored run was counted (_apply_run_outcome
   compares with runs[-2], not with the run it remembers). *)
Changes(from) == Cardinality({i \in 2 .. Len(runs) : runs[i - 1].ok = from /\ runs[i].ok # from})

CountsMatchRuns ==
    lost = 0 /\ (\A l \in Loop : pc[l] # "store")
    => /\ rec.regressions = Changes(TRUE)
       /\ rec.recoveries = Changes(FALSE)
       /\ rec.done = Len(runs)

(* A session stores no more runs than max_runs, over any number of starts,
   but for runs whose count was set back or never written. *)
RunBudget == Len(runs) <= cfg.runs + lost

(* A paced session that runs comes to rest, so await_session can end, whatever
   stops and shutdowns met it where: the overwritten stop is written again when
   the wait is cut short.  (A stop that had read a settled record sets the
   event of a later loop and writes nothing.) *)
PacedComesToRest ==
    (cfg.paced /\ rec.status = "running") ~> (rec.status # "running" \/ orphaned \/ skipped)
=============================================================================
