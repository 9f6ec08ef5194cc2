--------------------------- MODULE RuntimeManager ---------------------------
(***************************************************************************)
(* OpenClawRuntimeManager (app/runtime/manager.py): one child process that *)
(* the window's worker threads start, stop and restart while a timer       *)
(* refreshes its status. Every method takes the lock for each of its parts *)
(* and lets it go while it waits: start_runtime to sleep, stop_runtime to  *)
(* stop the process it has seen.                                           *)
(***************************************************************************)
EXTENDS Naturals, FiniteSets

CONSTANTS
  Process,     \* the child processes the system can spawn: bounds the starts
  Caller,      \* the threads that call the service
  MaxCalls,    \* how many calls are made in all: bounds the runs
  NoProcess

ASSUME CallsAssumption == MaxCalls \in Nat
ASSUME NoProcessAssumption == NoProcess \notin Process

VARIABLES
  process,     \* _process
  status,      \* _status.runtime_state
  os,          \* what became of each process
  pc,          \* where each caller's call is
  held,        \* the process a call of stop_runtime is stopping
  again,       \* the call is a restart, with the start still to come
  calls,
  crossed      \* history: a start spawned its process while a stop was under way

vars == <<process, status, os, pc, held, again, calls, crossed>>

Places == {"idle", "start", "sleep", "settle", "stop", "stopping", "forget"}

TypeOK ==
  /\ process \in Process \cup {NoProcess}
  /\ status \in {"stopped", "starting", "running", "error"}
  /\ os \in [Process -> {"unborn", "live", "ended", "failed"}]
  /\ pc \in [Caller -> Places]
  /\ held \in [Caller -> Process \cup {NoProcess}]
  /\ again \in [Caller -> BOOLEAN]
  /\ calls \in 0..MaxCalls
  /\ crossed \in BOOLEAN

Live(p) == p # NoProcess /\ os[p] = "live"

(* refresh_status: what it leaves in _process and in the status. *)
Managed == IF Live(process) THEN process ELSE NoProcess

Observed ==
  IF process = NoProcess
    THEN IF status = "starting" THEN "stopped" ELSE status
    ELSE IF os[process] = "live"
           THEN IF status = "starting" THEN "starting" ELSE "running"
           ELSE IF os[process] = "failed" /\ status \in {"starting", "running"}
                  THEN "error"
                  ELSE "stopped"

Init ==
  /\ process = NoProcess
  /\ status = "stopped"
  /\ os = [p \in Process |-> "unborn"]
  /\ pc = [c \in Caller |-> "idle"]
  /\ held = [c \in Caller |-> NoProcess]
  /\ again = [c \in Caller |-> FALSE]
  /\ calls = 0
  /\ crossed = FALSE

Goto(c, place) == pc' = [pc EXCEPT ![c] = place]

(* A button of the window starts a thread with one call. *)
Call(c, verb) ==
  /\ pc[c] = "idle" /\ calls < MaxCalls
  /\ Goto(c, IF verb = "start" THEN "start" ELSE "stop")
  /\ again' = [again EXCEPT ![c] = verb = "restart"]
  /\ calls' = calls + 1
  /\ UNCHANGED <<process, status, os, held, crossed>>

(* refresh_status on the window's timer, and in every other reader. *)
Refresh ==
  /\ process' = Managed /\ status' = Observed
  /\ UNCHANGED <<os, pc, held, again, calls, crossed>>

(* start_runtime, when the refreshed status is starting or running. *)
AlreadyUp(c) ==
  /\ pc[c] = "start" /\ Observed \in {"starting", "running"}
  /\ process' = Managed /\ status' = Observed
  /\ Goto(c, "idle")
  /\ UNCHANGED <<os, held, again, calls, crossed>>

NotInstalled(c) ==
  /\ pc[c] = "start" /\ Observed \notin {"starting", "running"}
  /\ process' = Managed /\ status' = "error"
  /\ Goto(c, "idle")
  /\ UNCHANGED <<os, held, again, calls, crossed>>

(* spawn_process raises: the status is set before and stays. *)
SpawnFails(c) ==
  /\ pc[c] = "start" /\ Observed \notin {"starting", "running"}
  /\ process' = Managed /\ status' = "starting"
  /\ Goto(c, "idle")
  /\ UNCHANGED <<os, held, again, calls, crossed>>

Launch(c, p) ==
  /\ os[p] = "unborn"
  /\ process' = p /\ status' = "starting"
  /\ os' = [os EXCEPT ![p] = "live"]
  /\ crossed' = (crossed \/ \E d \in Caller : pc[d] \in {"stopping", "forget"})
  /\ Goto(c, "sleep")
  /\ UNCHANGED <<held, again, calls>>

Spawn(c, p) ==
  /\ pc[c] = "start" /\ Observed \notin {"starting", "running"}
  /\ Launch(c, p)

(* mutant: a start that has slept takes its process for running. *)
SettleBlindly(c) ==
  /\ pc[c] = "sleep"
  /\ status' = "running"
  /\ Goto(c, "settle")
  /\ UNCHANGED <<process, os, held, again, calls, crossed>>

(* After the sleep: the process of the moment, which another call may have *)
(* put there.                                                              *)
Settle(c) ==
  /\ pc[c] = "sleep"
  /\ status' = IF Live(process) THEN "running" ELSE status
  /\ Goto(c, "settle")
  /\ UNCHANGED <<process, os, held, again, calls, crossed>>

StartReturns(c) ==
  /\ pc[c] = "settle"
  /\ process' = Managed /\ status' = Observed
  /\ Goto(c, "idle")
  /\ UNCHANGED <<os, held, again, calls, crossed>>

(* Where a call of stop_runtime goes on: restart_runtime starts next, with *)
(* whatever status the stop has returned.                                  *)
StopReturns(c) ==
  /\ Goto(c, IF again[c] THEN "start" ELSE "idle")
  /\ again' = [again EXCEPT ![c] = FALSE]

NothingToStop(c) ==
  /\ pc[c] = "stop" /\ ~Live(process)
  /\ process' = NoProcess /\ status' = "stopped"
  /\ StopReturns(c)
  /\ UNCHANGED <<os, held, calls, crossed>>

StopBegins(c) ==
  /\ pc[c] = "stop" /\ Live(process)
  /\ held' = [held EXCEPT ![c] = process]
  /\ Goto(c, "stopping")
  /\ UNCHANGED <<process, status, os, again, calls, crossed>>

(* mutant: the process is let go before it is stopped. *)
TerminateLater(c) ==
  /\ pc[c] = "stopping"
  /\ Goto(c, "forget")
  /\ UNCHANGED <<process, status, os, held, again, calls, crossed>>

(* stop_process: terminate, and kill when that takes too long. *)
Terminate(c) ==
  /\ pc[c] = "stopping"
  /\ \E end \in {"ended", "failed"} :
       os' = IF Live(held[c]) THEN [os EXCEPT ![held[c]] = end] ELSE os
  /\ Goto(c, "forget")
  /\ UNCHANGED <<process, status, held, again, calls, crossed>>

(* mutant: the exception of stop_process is swallowed. *)
StopFailsSilently(c) ==
  /\ pc[c] = "stopping"
  /\ process' = Managed /\ status' = Observed
  /\ held' = [held EXCEPT ![c] = NoProcess]
  /\ StopReturns(c)
  /\ UNCHANGED <<os, calls, crossed>>

(* stop_process raises, the process being as it was. *)
StopFails(c) ==
  /\ pc[c] = "stopping"
  /\ process' = Managed /\ status' = "error"
  /\ held' = [held EXCEPT ![c] = NoProcess]
  /\ StopReturns(c)
  /\ UNCHANGED <<os, calls, crossed>>

Forget(c) ==
  /\ pc[c] = "forget"
  /\ process' = NoProcess /\ status' = "stopped"
  /\ held' = [held EXCEPT ![c] = NoProcess]
  /\ StopReturns(c)
  /\ UNCHANGED <<os, calls, crossed>>

(* The gateway exits by itself. *)
Exits(p) ==
  /\ os[p] = "live"
  /\ \E end \in {"ended", "failed"} : os' = [os EXCEPT ![p] = end]
  /\ UNCHANGED <<process, status, pc, held, again, calls, crossed>>

CallStep(c) ==
  \/ AlreadyUp(c) \/ NotInstalled(c) \/ SpawnFails(c)
  \/ \E p \in Process : Spawn(c, p)
  \/ Settle(c) \/ StartReturns(c)
  \/ NothingToStop(c) \/ StopBegins(c) \/ Terminate(c) \/ StopFails(c) \/ Forget(c)

Next ==
  \/ \E c \in Caller : CallStep(c)
  \/ \E c \in Caller, verb \in {"start", "stop", "restart"} : Call(c, verb)
  \/ \E p \in Process : Exits(p)
  \/ Refresh

Spec == Init /\ [][Next]_vars

(* The window's timer goes on, and the threads of the calls are scheduled; *)
(* stop_process and the spawn come back. Nothing makes a gateway exit.     *)
FairSpec ==
  /\ Spec
  /\ WF_vars(Refresh)
  /\ \A c \in Caller : WF_vars(CallStep(c))

-----------------------------------------------------------------------------

(* At most one gateway is alive (two of them would contend for the port),  *)
(* however calls overlap, as long as no start spawned its process while a  *)
(* stop was under way: stop_runtime has let the lock go then.              *)
OneProcess == ~crossed => Cardinality({p \in Process : os[p] = "live"}) <= 1

(* Under the same condition a gateway that is alive can still be stopped:  *)
(* overlapping stops, restarts, refreshes and failed stops never clear     *)
(* _process over a process that lives.                                     *)
NothingLeftBehind == ~crossed => \A p \in Process : Live(p) => p = process

(* refresh_status keeps the status running when _process is None, so no    *)
(* interleaving of starts, stops and refreshes may leave the two that way. *)
RunningHasProcess == status = "running" => process # NoProcess

(* A stop under way ends the process it holds, or the failure is shown.    *)
StopTakesEffect ==
  \A c \in Caller, p \in Process :
    (pc[c] = "stopping" /\ held[c] = p) ~> (~Live(p) \/ status = "error")
=============================================================================
