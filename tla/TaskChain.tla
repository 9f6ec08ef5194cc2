------------------------------ MODULE TaskChain ------------------------------
(***************************************************************************)
(* A task chain under its runner (app/controller/task_chain_runner.py):    *)
(* the stored record, the background loop that executes its steps, and the *)
(* operator's calls, which arrive on other threads.  Every call reads the  *)
(* record, works on its copy and writes the whole copy back; the runner's  *)
(* lock covers only the thread and event dictionaries (and the write of a  *)
(* start).  The controller may end at any point; the record outlives it.   *)
(***************************************************************************)
EXTENDS ChainPolicy

CONSTANTS
    Loop,       \* loop threads: more than one, so that two at once can be seen
    NoLoop,     \* nothing is registered for the chain
    Client,     \* threads on which the operator's calls arrive
    Configs,    \* the chain definitions that are considered
    MaxOps,     \* bound: operator calls, for each definition
    MaxCrashes  \* bound: ends of the controller process

ASSUME LoopAssumption == NoLoop \notin Loop
ASSUME ConfigAssumption ==
    Configs \subseteq [kind : V1Kinds \cup V2Kinds, primary : {"local", "remote"},
                       fallback : {"stop", "local", "remote"},
                       steps : Nat \ {0}, failures : Nat \ {0}, idle : Nat \ {0}]

VARIABLES
    cfg,        \* the chain's definition
    rec,        \* the stored record
    logged,     \* how many step records the store holds
    registered, \* the loop in _threads and _stop_events, or NoLoop
    pc,         \* loop thread -> where it is
    copy,       \* loop thread -> the record it holds
    ev,         \* loop thread -> is its stop event set
    cpc,        \* client thread -> where its call is
    held,       \* client thread -> the record its call holds
    ops, crashes,
    lost,       \* history: steps whose count was overwritten or never written
    late,       \* history: loop thread -> steps begun after its event was set
    asked,      \* history: what the calls since the last start asked of the chain
    orphaned    \* history: the last loop ended by a failure or with the process

vars == <<cfg, rec, logged, registered, pc, copy, ev, cpc, held, ops, crashes,
          lost, late, asked, orphaned>>
loopVars == <<registered, pc, copy, ev, late, asked>>
callVars == <<cfg, cpc, held, ops, crashes, asked>>  \* no loop thread changes these

(* a record: its status, the stage, what the report will say and the counters *)
ChainRecord ==
    [status : Status, stage : Stage, report : Report,
     steps : Nat, succ : Nat, fail : Nat, idle : Nat, resumes : Nat]

Created(c) == [status |-> "created", stage |-> InitialStage(c.kind),
               report |-> "completed", steps |-> 0, succ |-> 0, fail |-> 0,
               idle |-> 0, resumes |-> 0]

Init ==
    /\ cfg \in Configs
    /\ rec = Created(cfg)
    /\ logged = 0
    /\ registered = NoLoop
    /\ pc = [l \in Loop |-> "idle"]
    /\ copy = [l \in Loop |-> rec]
    /\ ev = [l \in Loop |-> FALSE]
    /\ cpc = [c \in Client |-> "idle"]
    /\ held = [c \in Client |-> rec]
    /\ ops = 0
    /\ crashes = 0
    /\ lost = 0
    /\ late = [l \in Loop |-> 0]
    /\ asked = {}
    /\ orphaned = FALSE

(* a write of the whole record; the counts it sets back are lost *)
Write(record) ==
    /\ rec' = record
    /\ lost' = lost + (IF rec.steps > record.steps THEN rec.steps - record.steps ELSE 0)

----------------------------------------------------------------------------
(* The operator's calls.  Each begins by reading the record, outside the   *)
(* lock; start refuses a paused chain, resume any other.                   *)

Call(c, op) ==
    /\ cpc[c] = "idle" /\ ops < MaxOps[cfg]
    /\ op = "start" => rec.status # "paused"
    /\ op = "resume" => rec.status = "paused"
    /\ op \in {"start", "resume", "pause", "stop"}
    /\ cpc' = [cpc EXCEPT ![c] = op]
    /\ held' = [held EXCEPT ![c] = rec]
    /\ ops' = ops + 1
    /\ UNCHANGED <<cfg, rec, logged, loopVars, crashes, lost, orphaned>>

(* mutant: a thread counts as alive only while it executes a step *)
Executing(l) == l # NoLoop /\ pc[l] = "step"

Alive(l) == l # NoLoop /\ pc[l] # "idle"

Return(c) == cpc' = [cpc EXCEPT ![c] = "idle"]

(* a new thread with a new event, registered and started under the lock *)
Spawn(l) ==
    /\ pc[l] = "idle"
    /\ pc' = [pc EXCEPT ![l] = "head"]
    /\ registered' = l
    /\ ev' = [ev EXCEPT ![l] = FALSE]
    /\ late' = [late EXCEPT ![l] = 0]
    /\ UNCHANGED copy
    /\ asked' = {}
    /\ orphaned' = FALSE

(* what start and resume write: the copy, running again *)
Started(chain) == [chain EXCEPT !.status = "running"]
Resumed(chain) == [chain EXCEPT !.status = "running", !.resumes = @ + 1]

(* start_chain and resume_chain under the lock: with a live thread the call
   returns what it read *)
StartRefused(c) ==
    /\ cpc[c] \in {"start", "resume"} /\ Alive(registered)
    /\ Return(c)
    /\ UNCHANGED <<cfg, rec, logged, loopVars, held, ops, crashes, lost, orphaned>>

StartChain(c, l) ==
    /\ cpc[c] = "start" /\ ~Alive(registered)
    /\ Write(Started(held[c]))
    /\ Spawn(l)
    /\ Return(c)
    /\ UNCHANGED <<cfg, logged, held, ops, crashes>>

ResumeChain(c, l) ==
    /\ cpc[c] = "resume" /\ ~Alive(registered)
    /\ Write(Resumed(held[c]))
    /\ Spawn(l)
    /\ Return(c)
    /\ UNCHANGED <<cfg, logged, held, ops, crashes>>

SignalLoop(request) ==
    /\ ev' = [l \in Loop |-> ev[l] \/ l = registered]
    /\ asked' = asked \cup {request}

(* pause_chain and stop_chain: the event under the lock; a chain that was
   settled when it was read is left alone, else the copy is written back *)
SetStopEvent(c) ==
    /\ cpc[c] \in {"pause", "stop"}
    /\ SignalLoop(cpc[c])
    /\ IF held[c].status \in Settled THEN Return(c) /\ UNCHANGED held
       ELSE /\ cpc' = [cpc EXCEPT ![c] = "write"]
            /\ held' = [held EXCEPT ![c].status = IF cpc[c] = "pause" THEN "paused"
                                                  ELSE "stopped"]
    /\ UNCHANGED <<cfg, rec, logged, registered, pc, copy, ops, crashes, lost, late,
                   orphaned>>

WriteSettled(c) ==
    /\ cpc[c] = "write"
    /\ Write(held[c])
    /\ Return(c)
    /\ UNCHANGED <<cfg, logged, loopVars, held, ops, crashes, orphaned>>

(* shutdown: signal the registered loop, then read and, when it runs, stop *)
Shutdown(c) ==
    /\ cpc[c] = "idle" /\ ops < MaxOps[cfg] /\ registered # NoLoop
    /\ SignalLoop("stop")
    /\ cpc' = [cpc EXCEPT ![c] = "shutdown"]
    /\ ops' = ops + 1
    /\ UNCHANGED <<cfg, rec, logged, registered, pc, copy, held, crashes, lost, late,
                   orphaned>>

ShutdownRead(c) ==
    /\ cpc[c] = "shutdown"
    /\ IF rec.status = "running"
       THEN /\ cpc' = [cpc EXCEPT ![c] = "write"]
            /\ held' = [held EXCEPT ![c] = [rec EXCEPT !.status = "stopped"]]
       ELSE Return(c) /\ UNCHANGED held
    /\ UNCHANGED <<cfg, rec, logged, loopVars, ops, crashes, lost, orphaned>>

----------------------------------------------------------------------------
(* The loop thread: _run_chain_loop.                                       *)

(* mutant: the event is not looked at *)
IgnoreEvent(l) ==
    /\ pc[l] = "head"
    /\ pc' = [pc EXCEPT ![l] = "read"]
    /\ UNCHANGED <<callVars, rec, logged, registered, copy, ev, lost, late, orphaned>>

(* the head of the while loop *)
CheckEvent(l) ==
    /\ pc[l] = "head"
    /\ pc' = [pc EXCEPT ![l] = IF ev[l] THEN "after" ELSE "read"]
    /\ UNCHANGED <<callVars, rec, logged, registered, copy, ev, lost, late, orphaned>>

(* mutant: one step more than the limit *)
LateVerdict(chain) ==
    IF chain.steps > cfg.steps THEN "completed"
    ELSE IF chain.fail >= cfg.failures THEN "failed"
    ELSE IF chain.idle >= cfg.idle THEN "paused"
    ELSE IF NextFamily(cfg, chain) = "none" THEN "completed" ELSE "running"

(* what the checks before a step settle the chain as, or "running" *)
Verdict(chain) ==
    IF chain.steps >= cfg.steps THEN "completed"
    ELSE IF chain.fail >= cfg.failures THEN "failed"
    ELSE IF chain.idle >= cfg.idle
         THEN IF cfg.kind \in V2Kinds THEN "paused" ELSE "blocked"
    ELSE IF NextFamily(cfg, chain) = "none" THEN "completed" ELSE "running"

(* read the record and decide: leave, settle it, or begin a step *)
ReadAndDecide(l) ==
    /\ pc[l] = "read"
    /\ copy' = [copy EXCEPT ![l] = [rec EXCEPT !.status =
                  IF @ = "running" THEN Verdict(rec) ELSE @]]
    /\ pc' = [pc EXCEPT ![l] =
                IF rec.status # "running" THEN "cleanup"
                ELSE IF Verdict(rec) # "running" THEN "settle" ELSE "step"]
    /\ late' = [late EXCEPT ![l] =
                  IF ev[l] /\ rec.status = "running" /\ Verdict(rec) = "running"
                  THEN @ + 1 ELSE @]
    /\ UNCHANGED <<callVars, rec, logged, registered, ev, lost, orphaned>>

(* _finish_chain, or the write of a no-progress pause *)
Settle(l) ==
    /\ pc[l] = "settle"
    /\ Write(copy[l])
    /\ pc' = [pc EXCEPT ![l] = "cleanup"]
    /\ UNCHANGED <<callVars, logged, registered, copy, ev, late, orphaned>>

StepEnds(l) ==
    /\ pc[l] = "step"
    /\ \E status \in Results(cfg, copy[l]) :
          copy' = [copy EXCEPT ![l] = Outcome(cfg, copy[l], status)]
    /\ logged' = logged + 1
    /\ pc' = [pc EXCEPT ![l] = "store"]
    /\ UNCHANGED <<callVars, rec, registered, ev, lost, late, orphaned>>

(* the updated record is stored *)
StoreOutcome(l) ==
    /\ pc[l] = "store"
    /\ Write(copy[l])
    /\ pc' = [pc EXCEPT ![l] = IF copy[l].status \in Settled THEN "cleanup" ELSE "head"]
    /\ UNCHANGED <<callVars, logged, registered, copy, ev, late, orphaned>>

(* mutant: the loop leaves the record as it is *)
LeaveAfterStop(l) ==
    /\ pc[l] = "after"
    /\ pc' = [pc EXCEPT ![l] = "cleanup"]
    /\ UNCHANGED <<callVars, rec, copy, logged, registered, ev, lost, late, orphaned>>

(* after the loop was told to stop: a record still shown running is stopped *)
AfterStop(l) ==
    /\ pc[l] = "after"
    /\ copy' = [copy EXCEPT ![l] = [rec EXCEPT !.status = "stopped"]]
    /\ pc' = [pc EXCEPT ![l] = IF rec.status = "running" THEN "settle" ELSE "cleanup"]
    /\ UNCHANGED <<callVars, rec, logged, registered, ev, lost, late, orphaned>>

(* the finally block, under the lock *)
Cleanup(l) ==
    /\ pc[l] = "cleanup"
    /\ registered' = NoLoop
    /\ pc' = [pc EXCEPT ![l] = "idle"]
    /\ ev' = [ev EXCEPT ![l] = FALSE]
    /\ UNCHANGED <<callVars, rec, logged, copy, lost, late, orphaned>>

(* an exception the step does not catch (_build_local_request raises outside
   the try, a record cannot be written, the data capture between the step
   record and the chain record fails), or a record that cannot be read *)
LoopFails(l) ==
    /\ pc[l] \in {"read", "settle", "step", "store", "after"}
    /\ pc' = [pc EXCEPT ![l] = "cleanup"]
    /\ lost' = IF pc[l] = "store" THEN lost + 1 ELSE lost
    /\ orphaned' = TRUE
    /\ UNCHANGED <<callVars, rec, logged, registered, copy, ev, late>>

(* the controller ends, orderly or not: its daemon threads end with it *)
ControllerEnds ==
    /\ crashes < MaxCrashes
    /\ crashes' = crashes + 1
    /\ registered' = NoLoop
    /\ pc' = [l \in Loop |-> "idle"]
    /\ ev' = [l \in Loop |-> FALSE]
    /\ cpc' = [c \in Client |-> "idle"]
    /\ lost' = IF \E l \in Loop : pc[l] = "store" THEN lost + 1 ELSE lost
    /\ orphaned' = TRUE
    /\ UNCHANGED <<cfg, rec, logged, copy, held, ops, late, asked>>

----------------------------------------------------------------------------
LoopStep(l) ==
    \/ CheckEvent(l) \/ ReadAndDecide(l) \/ Settle(l) \/ StepEnds(l)
    \/ StoreOutcome(l) \/ AfterStop(l) \/ Cleanup(l)

ClientStep(c) ==
    \/ StartRefused(c)
    \/ \E l \in Loop : StartChain(c, l) \/ ResumeChain(c, l)
    \/ SetStopEvent(c) \/ WriteSettled(c) \/ ShutdownRead(c)

Next ==
    \/ \E l \in Loop : LoopStep(l) \/ LoopFails(l)
    \/ \E c \in Client :
          \/ \E op \in {"start", "resume", "pause", "stop"} : Call(c, op)
          \/ Shutdown(c) \/ ClientStep(c)
    \/ ControllerEnds

(* threads run when they can; nobody owes the chain a call or a failure *)
Fairness ==
    /\ \A l \in Loop : WF_vars(LoopStep(l))
    /\ \A c \in Client : WF_vars(ClientStep(c))

Spec == Init /\ [][Next]_vars
FairSpec == Spec /\ Fairness
----------------------------------------------------------------------------
(* Type correctness: of the record, the copies and the control state. *)
TypeOK ==
    /\ cfg \in Configs
    /\ rec \in ChainRecord /\ copy \in [Loop -> ChainRecord] /\ held \in [Client -> ChainRecord]
    /\ logged \in Nat /\ lost \in Nat /\ ops \in Nat /\ crashes \in Nat
    /\ registered \in Loop \cup {NoLoop}
    /\ pc \in [Loop -> {"idle", "head", "read", "settle", "step", "store", "after", "cleanup"}]
    /\ cpc \in [Client -> {"idle", "start", "resume", "pause", "stop", "write", "shutdown"}]
    /\ ev \in [Loop -> BOOLEAN] /\ late \in [Loop -> Nat]
    /\ asked \subseteq {"pause", "stop"} /\ orphaned \in BOOLEAN

(* However starts, resumes, stops and the ends of threads interleave, a loop
   that is alive is the one registered: there is never a second one, and a
   stop always finds the event of the loop that runs. *)
OneLoopReachable == \A l \in Loop : pc[l] # "idle" => registered = l

(* Once its stop event is set a loop begins at most one more step: the one
   it had already passed the check for. *)
StopIsPrompt == \A l \in Loop : late[l] <= 1

(* The record never counts a step whose step record is not stored: steps are
   appended before they are counted, whatever is overwritten or cut short. *)
StepsAreLogged == rec.steps <= logged

(* A chain runs no more steps than its limit, over any number of starts and
   resumes, but for steps whose count a write from an older copy set back or
   that were never counted because the thread ended. *)
StepBudget == logged <= cfg.steps + lost

(* A report that says completed rests on the validation it reports: of the
   kinds whose report depends on a result, one succeeded (of the gated kind,
   the gates as well), in the history of this record. *)
SuccessesBehind(kind) ==
    CASE kind = "feature_validate_gate" -> 4
      [] kind \in {"validate_then_report", "feature_validate_loop"} -> 1
      [] OTHER -> 2
ReportTruthful ==
    rec.stage = "done" /\ rec.report = "completed" => rec.succ >= SuccessesBehind(cfg.kind)

(* A chain shown as running has a loop that can run it: stopping, pausing
   and settling leave no record behind that says running, though the loop
   writes over the pause or the stop that reached it in the middle of a step.
   Only a loop that failed, or the end of the controller, leaves one. *)
RunningHasLoop == rec.status = "running" => registered # NoLoop \/ orphaned

(* A chain that runs comes to rest: await_chain has something to wait for. *)
ChainComesToRest == rec.status = "running" ~> (rec.status # "running" \/ orphaned)
=============================================================================
