----------------------------- MODULE TelegramLoop -----------------------------
(***************************************************************************)
(* The chat polling loop of the controller service: start_telegram_loop,   *)
(* stop_telegram_loop, _telegram_loop_worker and _handle_telegram_update   *)
(* of app/controller/app_service.py, and the configuration file that keeps *)
(* the id of the last update processed (profile_store.py). The window runs *)
(* each button on a thread of its own and shows a status that may be 1.5 s *)
(* old, so that calls overlap and come in any state. stop waits five       *)
(* seconds for the loop and then goes on without it.                       *)
(***************************************************************************)
EXTENDS Naturals, FiniteSets

CONSTANTS
  MaxUpdate,   \* updates the chat sends, with ids 1, 2, ...
  Other,       \* those that are no messages, which get_updates leaves out
  Poison,      \* those whose handling raises every time, wherever in it
  PageSize,    \* updates the chat service returns at most
  Loop,        \* polling threads
  Caller,      \* threads of the window's buttons
  MaxCrashes,  \* bounds the crashes of the process
  None

Update == 1..MaxUpdate
Message == Update \ Other

ASSUME UpdateAssumption == MaxUpdate \in Nat /\ Other \subseteq Update /\ Poison \subseteq Message
ASSUME BoundAssumption == PageSize \in Nat \ {0} /\ MaxCrashes \in Nat
ASSUME ThreadAssumption == Loop \cap Caller = {} /\ None \notin Loop

VARIABLES
  sent,      \* updates sent so far
  dropped,   \* the chat service has forgotten the updates up to this id
  memory,    \* telegram_last_processed_update_id
  disk,      \* the same in the configuration file
  held,      \* _telegram_loop_thread and _telegram_loop_stop_event
  status,    \* state of the loop as the window shows it
  told,      \* loops whose stop event is set
  pc,        \* where each loop and each caller is
  offset,    \* the offset a loop asks for
  batch,     \* the updates it has not taken up yet
  now,       \* the update it handles
  snap,      \* the offset in the file image a thread is saving
  joined,    \* the loop a stop waits for
  crashes,
  handled,   \* history: 1 if an update's command was carried out once, 2 if more often;
             \*   repeating one that an exception cut off does not count
  cut,       \* history: updates carried out whose handling an exception cut off since
  overlap    \* history: two loops have run at once

process == <<held, status, told, pc, offset, batch, now, snap, joined>>
history == <<handled, cut, overlap>>
vars == <<sent, dropped, memory, disk, process, crashes, history>>

Thread == Loop \cup Caller
Place == {"unborn", "launch", "head", "asked", "next", "check", "execute", "send", "persist",
          "set", "image", "write", "report", "ended", "idle", "start", "join"}
Alive(l) == pc[l] \notin {"unborn", "ended"}

TypeOK ==
  /\ sent \in 0..MaxUpdate /\ dropped \in 0..MaxUpdate
  /\ memory \in 0..MaxUpdate /\ disk \in 0..MaxUpdate
  /\ held \in Loop \cup {None}
  /\ status \in {"stopped", "starting", "running", "error"}
  /\ told \subseteq Loop
  /\ pc \in [Thread -> Place]
  /\ offset \in [Loop -> 0..MaxUpdate]
  /\ batch \in [Loop -> SUBSET Message]
  /\ now \in [Loop -> Message \cup {0}]
  /\ snap \in [Thread -> 0..MaxUpdate]
  /\ joined \in [Caller -> Loop \cup {None}]
  /\ crashes \in Nat
  /\ handled \in [Message -> 0..2]
  /\ cut \subseteq Message \cup {0}
  /\ overlap \in BOOLEAN

Init ==
  /\ sent = 0 /\ dropped = 0 /\ memory = 0 /\ disk = 0
  /\ held = None /\ status = "stopped" /\ told = {}
  /\ pc = [t \in Thread |-> IF t \in Loop THEN "unborn" ELSE "idle"]
  /\ offset = [l \in Loop |-> 0]
  /\ batch = [l \in Loop |-> {}]
  /\ now = [l \in Loop |-> 0]
  /\ snap = [t \in Thread |-> 0]
  /\ joined = [c \in Caller |-> None]
  /\ crashes = 0
  /\ handled = [u \in Message |-> 0]
  /\ cut = {}
  /\ overlap = FALSE

At(t, place) == pc[t] = place
Goto(t, place) == pc' = [pc EXCEPT ![t] = place]

Arrive ==
  /\ sent < MaxUpdate /\ sent' = sent + 1
  /\ UNCHANGED <<dropped, memory, disk, process, crashes, history>>

-----------------------------------------------------------------------------
(* start_telegram_loop and stop_telegram_loop.                             *)

Start(c) ==
  /\ At(c, "idle")
  /\ snap' = [snap EXCEPT ![c] = memory]
  /\ Goto(c, "write")
  /\ UNCHANGED <<sent, dropped, memory, disk, held, status, told, offset, batch, now, joined,
                 crashes, history>>

(* _persist_telegram_status saves the whole configuration. *)
StartSaves(c) ==
  /\ c \in Caller /\ At(c, "write")
  /\ disk' = snap[c]
  /\ Goto(c, "start")
  /\ UNCHANGED <<sent, dropped, memory, held, status, told, offset, batch, now, snap, joined,
                 crashes, history>>

(* With the lock: a loop that is alive, or no token, or a new loop. *)
StartRefused(c) ==
  /\ At(c, "start")
  /\ \/ held # None /\ UNCHANGED status
     \/ held = None /\ status' = "error"
  /\ Goto(c, "idle")
  /\ UNCHANGED <<sent, dropped, memory, disk, held, told, offset, batch, now, snap, joined,
                 crashes, history>>

Launch(c, l) ==
  /\ At(c, "start") /\ held = None
  /\ At(l, "unborn")
  /\ held' = l /\ status' = "starting"
  /\ pc' = [pc EXCEPT ![c] = "idle", ![l] = "launch"]
  /\ overlap' = (overlap \/ \E k \in Loop : Alive(k))
  /\ UNCHANGED <<sent, dropped, memory, disk, told, offset, batch, now, snap, joined, crashes,
                 handled, cut>>

(* mutant: stop goes on to forget the loop without telling it. *)
StopQuietly(c) ==
  /\ At(c, "idle")
  /\ IF held = None
       THEN /\ status' = "stopped"
            /\ UNCHANGED <<told, pc, joined>>
       ELSE /\ joined' = [joined EXCEPT ![c] = held]
            /\ Goto(c, "join")
            /\ UNCHANGED <<told, status>>
  /\ UNCHANGED <<sent, dropped, memory, disk, held, offset, batch, now, snap, crashes, history>>

Stop(c) ==
  /\ At(c, "idle")
  /\ IF held = None
       THEN /\ status' = "stopped"
            /\ UNCHANGED <<told, pc, joined>>
       ELSE /\ told' = told \cup {held}
            /\ joined' = [joined EXCEPT ![c] = held]
            /\ Goto(c, "join")
            /\ UNCHANGED status
  /\ UNCHANGED <<sent, dropped, memory, disk, held, offset, batch, now, snap, crashes, history>>

(* The thread ended, or five seconds have passed. Whatever is held by then *)
(* is forgotten.                                                           *)
Stopped(c) ==
  /\ At(c, "join")
  /\ held' = None /\ status' = "stopped"
  /\ joined' = [joined EXCEPT ![c] = None]
  /\ Goto(c, "idle")
  /\ UNCHANGED <<sent, dropped, memory, disk, told, offset, batch, now, snap, crashes, history>>

-----------------------------------------------------------------------------
(* _telegram_loop_worker.                                                  *)

Begin(l) ==
  /\ At(l, "launch")
  /\ status' = "running"
  /\ Goto(l, "head")
  /\ UNCHANGED <<sent, dropped, memory, disk, held, told, offset, batch, now, snap, joined, crashes,
                 history>>

(* get_updates asks for what comes after the last processed update. *)
Ask(l) ==
  /\ At(l, "head") /\ l \notin told
  /\ status' = "running"
  /\ offset' = [offset EXCEPT ![l] = memory]
  /\ Goto(l, "asked")
  /\ UNCHANGED <<sent, dropped, memory, disk, held, told, batch, now, snap, joined, crashes,
                 history>>

(* The chat service forgets what is before the offset, and returns the     *)
(* first updates from there.                                               *)
Page(from) ==
  LET there == {u \in 1..sent : u > from}
  IN {u \in there : Cardinality({v \in there : v < u}) < PageSize}


Receive(l) ==
  /\ At(l, "asked")
  /\ dropped' = IF offset[l] > dropped THEN offset[l] ELSE dropped
  /\ batch' = [batch EXCEPT ![l] =
                 {u \in Page(IF offset[l] > dropped THEN offset[l] ELSE dropped) : u \in Message}]
  /\ Goto(l, "next")
  /\ UNCHANGED <<sent, memory, disk, held, status, told, offset, now, snap, joined, crashes,
                 history>>

(* An exception, of the chat service or of a handler, ends the batch; the  *)
(* loop waits and looks at its stop event.                                 *)
Wait(l) ==
  /\ status' = "error"
  /\ batch' = [batch EXCEPT ![l] = {}]
  /\ now' = [now EXCEPT ![l] = 0]
  /\ Goto(l, "head")
  /\ UNCHANGED <<held, told, offset, snap, joined>>

PollFails(l) ==
  /\ At(l, "asked")
  /\ Wait(l)
  /\ UNCHANGED <<sent, dropped, memory, disk, crashes, history>>

TakeUp(l) ==
  /\ At(l, "next")
  /\ \/ /\ l \notin told /\ batch[l] # {}
        /\ \E u \in batch[l] :
             /\ \A v \in batch[l] : u <= v
             /\ now' = [now EXCEPT ![l] = u]
             /\ batch' = [batch EXCEPT ![l] = @ \ {u}]
        /\ Goto(l, "check")
     \/ /\ l \in told \/ batch[l] = {}
        /\ batch' = [batch EXCEPT ![l] = {}]
        /\ now' = [now EXCEPT ![l] = 0]
        /\ Goto(l, "head")
  /\ UNCHANGED <<sent, dropped, memory, disk, held, status, told, offset, snap, joined, crashes,
                 history>>

(* The loop ends: it clears what is held only if that is itself. *)
Leave(l) ==
  /\ At(l, "head") /\ l \in told
  /\ Goto(l, "ended")
  /\ IF held = l THEN held' = None /\ status' = "stopped" ELSE UNCHANGED <<held, status>>
  /\ UNCHANGED <<sent, dropped, memory, disk, told, offset, batch, now, snap, joined, crashes,
                 history>>

-----------------------------------------------------------------------------
(* _handle_telegram_update.                                                *)

(* mutant: an update counts as processed from when it is taken up. *)
CheckCounting(l) ==
  /\ At(l, "check")
  /\ memory' = IF now[l] <= memory THEN memory ELSE now[l]
  /\ status' = "running"
  /\ Goto(l, IF now[l] <= memory THEN "next" ELSE "execute")
  /\ UNCHANGED <<sent, dropped, disk, held, told, offset, batch, now, snap, joined, crashes,
                 history>>

Check(l) ==
  /\ At(l, "check")
  /\ IF now[l] <= memory
       THEN /\ status' = IF status = "error" THEN "running" ELSE status
            /\ Goto(l, "next")
       ELSE /\ status' = "running"
            /\ Goto(l, "execute")
  /\ UNCHANGED <<sent, dropped, memory, disk, held, told, offset, batch, now, snap, joined, crashes,
                 history>>

(* _build_telegram_reply carries the command out. *)
Execute(l) ==
  /\ At(l, "execute")
  /\ handled' = IF now[l] \in cut THEN handled
                ELSE [handled EXCEPT ![now[l]] = IF @ = 0 THEN 1 ELSE 2]
  /\ cut' = cut \ {now[l]}
  /\ Goto(l, "send")
  /\ UNCHANGED <<sent, dropped, memory, disk, held, status, told, offset, batch, now, snap, joined,
                 crashes, overlap>>

(* An exception before the command did anything, *)
Raises(l) ==
  /\ At(l, "execute")
  /\ Wait(l)
  /\ UNCHANGED <<sent, dropped, memory, disk, crashes, history>>

(* or after it: of the command itself, of the audit and node files that    *)
(* remember its result, or of a reply whose failure is no TelegramApiError. *)
Breaks(l) ==
  /\ At(l, "send")
  /\ cut' = cut \cup {now[l]}
  /\ Wait(l)
  /\ UNCHANGED <<sent, dropped, memory, disk, crashes, handled, overlap>>

(* The update counts as processed whether its reply went out or the chat   *)
(* service refused it.                                                     *)
Send(l) ==
  /\ At(l, "send") /\ now[l] \notin Poison
  /\ \/ UNCHANGED status
     \/ status' = "error"
  /\ Goto(l, "persist")
  /\ UNCHANGED <<sent, dropped, memory, disk, held, told, offset, batch, now, snap, joined, crashes,
                 history>>

(* mutant: an update whose reply failed is not counted as processed. *)
PersistReplied(l) ==
  /\ At(l, "persist")
  /\ Goto(l, IF now[l] <= memory \/ status = "error" THEN "report" ELSE "set")
  /\ UNCHANGED <<sent, dropped, memory, disk, held, status, told, offset, batch, now, snap, joined,
                 crashes, history>>

(* _persist_telegram_offset: the check, the assignment, and the save, which *)
(* takes an image of the configuration and writes it.                      *)
Persist(l) ==
  /\ At(l, "persist")
  /\ Goto(l, IF now[l] <= memory THEN "report" ELSE "set")
  /\ UNCHANGED <<sent, dropped, memory, disk, held, status, told, offset, batch, now, snap, joined,
                 crashes, history>>

Set(l) ==
  /\ At(l, "set")
  /\ memory' = now[l]
  /\ Goto(l, "image")
  /\ UNCHANGED <<sent, dropped, disk, held, status, told, offset, batch, now, snap, joined, crashes,
                 history>>

Image(l) ==
  /\ At(l, "image")
  /\ snap' = [snap EXCEPT ![l] = memory]
  /\ Goto(l, "write")
  /\ UNCHANGED <<sent, dropped, memory, disk, held, status, told, offset, batch, now, joined,
                 crashes,
                 history>>

Write(l) ==
  /\ l \in Loop /\ At(l, "write")
  /\ disk' = snap[l]
  /\ Goto(l, "report")
  /\ UNCHANGED <<sent, dropped, memory, held, status, told, offset, batch, now, snap, joined,
                 crashes,
                 history>>

SaveFails(l) ==
  /\ l \in Loop /\ At(l, "write")
  /\ Wait(l)
  /\ UNCHANGED <<sent, dropped, memory, disk, crashes, history>>

(* After a reply that went out the status is written once more. *)
Report(l) ==
  /\ At(l, "report")
  /\ status' \in {status, "running"}
  /\ now' = [now EXCEPT ![l] = 0]
  /\ Goto(l, "next")
  /\ UNCHANGED <<sent, dropped, memory, disk, held, told, offset, batch, snap, joined, crashes,
                 history>>

-----------------------------------------------------------------------------
(* The process ends, by a crash or with its window, and is started again.  *)
(* A file cut off in a write is replaced by a fresh configuration.         *)
Crash ==
  /\ crashes < MaxCrashes /\ crashes' = crashes + 1
  /\ \E kept \in {disk} \cup {0 : t \in {s \in Thread : At(s, "write")}} :
       memory' = kept /\ disk' = kept
  /\ held' = None /\ status' = "stopped"
  /\ pc' = [t \in Thread |-> IF t \in Caller THEN "idle" ELSE IF Alive(t) THEN "ended" ELSE pc[t]]
  /\ batch' = [l \in Loop |-> {}]
  /\ now' = [l \in Loop |-> 0]
  /\ joined' = [c \in Caller |-> None]
  /\ UNCHANGED <<sent, dropped, told, offset, snap, history>>

CallStep(c) ==
  \/ StartSaves(c) \/ StartRefused(c) \/ Stopped(c)
  \/ \E l \in Loop : Launch(c, l)

LoopStep(l) ==
  \/ Begin(l) \/ Ask(l) \/ Receive(l) \/ PollFails(l) \/ TakeUp(l) \/ Leave(l)
  \/ Check(l) \/ Execute(l) \/ Raises(l) \/ Breaks(l) \/ Send(l)
  \/ Persist(l) \/ Set(l) \/ Image(l) \/ Write(l) \/ SaveFails(l) \/ Report(l)

Next ==
  \/ Arrive
  \/ \E c \in Caller : Start(c) \/ Stop(c) \/ CallStep(c)
  \/ \E l \in Loop : LoopStep(l)
  \/ Crash

Spec == Init /\ [][Next]_vars

(* Threads go on, and neither the chat service nor the handling of an      *)
(* update that can be answered raises for ever. Nothing says so of replies *)
(* the service refuses, or of saves.                                       *)
FairSpec ==
  /\ Spec
  /\ \A l \in Loop : /\ WF_vars(LoopStep(l)) /\ SF_vars(Receive(l)) /\ SF_vars(Send(l))
                     /\ SF_vars(Execute(l) /\ now[l] \notin Poison)
  /\ \A c \in Caller : WF_vars(CallStep(c))

-----------------------------------------------------------------------------

(* No message is lost: what counts as processed, in memory, in the file,   *)
(* or for the chat service, which then forgets it, was carried out.        *)
NoUpdateLost ==
  \A u \in Message : (u <= memory \/ u <= disk \/ u <= dropped) => handled[u] > 0

(* Without a crash, and as long as no two loops run at once, no command is *)
(* carried out again unless an exception cut its handling off before the   *)
(* update was counted, however often the loop is stopped and started and   *)
(* whichever replies are refused and saves fail.                           *)
OnlyOnce == (crashes = 0 /\ ~overlap) => \A u \in Message : handled[u] <= 1

(* Every loop that has not been told to stop is the one that is held, so   *)
(* that the stop button reaches it.                                        *)
LoopReachable == \A l \in Loop : Alive(l) /\ l \notin told => held = l

(* A message that can be answered, and none before it that cannot, is      *)
(* carried out if the loop is not stopped.                                 *)
Listening == \E l \in Loop : Alive(l) /\ l \notin told
=============================================================================
