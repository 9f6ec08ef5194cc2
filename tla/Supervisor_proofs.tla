-------------------------- MODULE Supervisor_proofs --------------------------
(***************************************************************************)
(* Proofs of the type invariant and of the safety properties of module     *)
(* Supervisor, for all values of its constants: any tasks, dependencies,   *)
(* sessions and numbers of clients, and no bound on crashes, resumes or    *)
(* operations.  The first part is about every interleaving.  The second is *)
(* about a supervisor that is the only writer of the queue (no intake and  *)
(* no approval runs beside it, while its own console, crashes, stops,      *)
(* resumes and any number of sessions are allowed), and about the session  *)
(* states.                                                                 *)
(***************************************************************************)
EXTENDS Supervisor, SupervisorLedger, TLAPS

(* Every operation on a loaded copy of the queue returns a queue
   (scheduler.py 63-147, task_intake.py 661-670, mutation_approval.py 36). *)
LEMMA QueueOperations ==
    ASSUME NEW q \in Queue
    PROVE  /\ \A t \in Task : /\ \A s \in Session : MarkRunning(q, t, s) \in Queue
                              /\ MarkCompleted(q, t) \in Queue
                              /\ MarkBlocked(q, t) \in Queue
                              /\ RequeueFailed(q, t) \in Queue
                              /\ ApproveTask(q, t) \in Queue
           /\ \A s \in Session : RecoverRunning(q, s) \in Queue
           /\ \A plan \in SUBSET Task : AppendTasks(q, plan) \in Queue
<1>1. \A u \in Task : q[u] \in Entry
  BY DEF Queue
<1>2. ASSUME NEW t \in Task, NEW s \in Session PROVE MarkRunning(q, t, s) \in Queue
  BY <1>1 DEF Queue, Entry, Statuses, MarkRunning
<1>3. ASSUME NEW t \in Task
      PROVE  MarkCompleted(q, t) \in Queue /\ MarkBlocked(q, t) \in Queue
  BY <1>1 DEF Queue, Entry, Statuses, MarkCompleted, MarkBlocked
<1>4. ASSUME NEW t \in Task PROVE RequeueFailed(q, t) \in Queue
  BY <1>1 DEF Queue, Entry, Statuses, RequeueFailed
<1>5. ASSUME NEW t \in Task PROVE ApproveTask(q, t) \in Queue
  BY <1>1 DEF Queue, Entry, Statuses, ApproveTask
<1>6. ASSUME NEW s \in Session PROVE RecoverRunning(q, s) \in Queue
  BY <1>1 DEF Queue, Entry, Statuses, RecoverRunning
<1>7. ASSUME NEW plan \in SUBSET Task PROVE AppendTasks(q, plan) \in Queue
  BY <1>1 DEF Queue, Entry, Statuses, AppendTasks, Absent, IntakeStatus
<1>8. QED
  BY <1>2, <1>3, <1>4, <1>5, <1>6, <1>7

(* The empty copy and the idle client are well formed. *)
LEMMA EmptyValues ==
    /\ NoTasks \in Queue
    /\ NoFile \in SessionState
    /\ FreshState \in SessionState
    /\ IdleClient \in ClientState
<1>1. NoTasks \in Queue
  BY DEF NoTasks, Absent, Queue, Entry, Statuses
<1>2. NoFile \in SessionState
  BY DEF NoFile, SessionState
<1>3. FreshState \in SessionState
  BY DEF NoFile, SessionState, FreshState
<1>4. IdleClient \in ClientState
  BY <1>1, <1>2 DEF IdleClient, ClientState, ClientSteps
<1>5. QED
  BY <1>1, <1>2, <1>3, <1>4

-----------------------------------------------------------------------------
(* Saving a session state, losing the process and the end of run() keep
   every variable typed. *)
LEMMA SaveTyped ==
    ASSUME TypeOK, pc # "down", NEW state \in SessionState, Save(state)
    PROVE  mem' \in SessionState /\ disk' \in [Session -> SessionState]
BY DEF TypeOK, FilesTypeOK, RunTypeOK, Save

(* The state of a process that has gone is typed. *)
LEMMA EndedTyped == Ended => RunTypeOK' /\ FlagTypeOK'
<1>1. Ended => RunTypeOK'
  BY EmptyValues DEF Ended, RunTypeOK, Locations, Verdicts, Reasons, Holding
<1>2. Ended => FlagTypeOK'
  BY DEF Ended, FlagTypeOK
<1>3. QED
  BY <1>1, <1>2

(* Counting the run a crash or a stop cut keeps the tally typed. *)
LEMMA LoseRunTyped == TypeOK /\ LoseRun => lost' \in [Task -> Nat]
<1> SUFFICES ASSUME TypeOK, LoseRun PROVE lost' \in [Task -> Nat]
  OBVIOUS
<1>1. CASE InFlight
  <2>1. sel \in Task
    BY <1>1 DEF InFlight, TypeOK, RunTypeOK, Holding
  <2>2. QED
    BY <1>1, <2>1 DEF LoseRun, TypeOK, TallyTypeOK
<1>2. CASE ~InFlight
  BY <1>2 DEF LoseRun, TypeOK, TallyTypeOK
<1>3. QED
  BY <1>1, <1>2

(* A dying process leaves typed files, clients and tallies. *)
LEMMA DiesTyped == TypeOK /\ Dies => TypeOK'
<1> SUFFICES ASSUME TypeOK, Dies PROVE TypeOK'
  OBVIOUS
<1>1. FilesTypeOK'
  BY DEF Dies, TypeOK, FilesTypeOK, files
<1>2. RunTypeOK' /\ FlagTypeOK'
  BY EndedTyped DEF Dies
<1>3. ClientTypeOK'
  <2>1. client' \in [Client -> ClientState]
    BY EmptyValues DEF Dies, TypeOK, ClientTypeOK
  <2>2. ASSUME NEW c \in Client, client'[c].at \notin {"idle", "apply"}
        PROVE  client'[c].session \in Session
    <3>1. client'[c] = client[c]
      BY <2>2 DEF Dies, IdleClient
    <3>2. QED
      BY <2>2, <3>1 DEF TypeOK, ClientTypeOK
  <2>3. QED
    BY <2>1, <2>2 DEF ClientTypeOK
<1>4. TallyTypeOK'
  BY LoseRunTyped DEF Dies, TypeOK, TallyTypeOK
<1>5. QED
  BY <1>1, <1>2, <1>3, <1>4 DEF TypeOK

(* A client's new local state keeps the clients typed. *)
LEMMA ClientTyped ==
    ASSUME TypeOK, NEW c \in Client, NEW v \in ClientState,
           v.at \notin {"idle", "apply"} => v.session \in Session,
           client' = [client EXCEPT ![c] = v]
    PROVE  ClientTypeOK'
<1>1. client' \in [Client -> ClientState]
  BY DEF TypeOK, ClientTypeOK
<1>2. \A d \in Client : client'[d] = IF d = c THEN v ELSE client[d]
  BY DEF TypeOK, ClientTypeOK
<1>3. QED
  BY <1>1, <1>2 DEF TypeOK, ClientTypeOK

(* Moving a client to its next step, or back to idle, keeps the clients typed. *)
LEMMA AdvanceTyped ==
    ASSUME TypeOK, NEW c \in Client, NEW at \in ClientSteps,
           client[c].session \in Session \/ at = "idle",
           Advance(c, at)
    PROVE  ClientTypeOK'
<1>1. CASE at = "idle"
  <2>1. IdleClient.at = "idle"
    BY DEF IdleClient
  <2>2. QED
    BY <1>1, <2>1, EmptyValues, ClientTyped DEF Advance
<1>2. CASE at # "idle"
  <2> DEFINE v == [client[c] EXCEPT !.at = at, !.held = FALSE, !.state = NoFile]
  <2>1. v \in ClientState /\ v.session = client[c].session
    BY EmptyValues DEF TypeOK, ClientTypeOK, ClientState
  <2>2. client' = [client EXCEPT ![c] = v]
    BY <1>2 DEF Advance
  <2>3. QED
    BY <1>2, <2>1, <2>2, ClientTyped
<1>3. QED
  BY <1>1, <1>2

(* A step of run() that writes neither the clients nor the tallies keeps
   them typed. *)
LEMMA Untouched ==
    /\ TypeOK /\ UNCHANGED clients => ClientTypeOK'
    /\ TypeOK /\ UNCHANGED <<ops, starts, history>> => TallyTypeOK'
    /\ TypeOK /\ UNCHANGED <<drained, control>> => FlagTypeOK'
    /\ TypeOK /\ UNCHANGED files => FilesTypeOK'
BY DEF TypeOK, ClientTypeOK, TallyTypeOK, FlagTypeOK, FilesTypeOK, clients, history,
       control, files

-----------------------------------------------------------------------------
(* Starting, resuming and the head of the loop. *)
LEMMA StartTyped ==
    ASSUME TypeOK, NEW s \in Session, NEW resume \in BOOLEAN, Start(s, resume)
    PROVE  TypeOK'
<1> DEFINE kept  == resume /\ disk[s].status # "none"
           state == IF kept THEN [disk[s] EXCEPT !.status = "running", !.resumed = TRUE]
                            ELSE FreshState
<1>1. state \in SessionState
  <2>1. disk[s] \in SessionState
    BY DEF TypeOK, FilesTypeOK
  <2>2. [disk[s] EXCEPT !.status = "running", !.resumed = TRUE] \in SessionState
    BY <2>1 DEF SessionState
  <2>3. QED
    BY <2>2, EmptyValues
<1>2. mem' = state /\ disk' = [disk EXCEPT ![s] = state]
  BY DEF Start
<1>3. FilesTypeOK'
  BY <1>1, <1>2 DEF Start, TypeOK, FilesTypeOK
<1>4. RunTypeOK'
  BY <1>1, <1>2 DEF Start, TypeOK, RunTypeOK, Locations, Holding
<1>5. FlagTypeOK'
  <2>1. expired' \in BOOLEAN
    BY DEF Start
  <2>2. QED
    BY <2>1 DEF Start, TypeOK, FlagTypeOK
<1>6. ClientTypeOK'
  BY Untouched DEF Start
<1>7. TallyTypeOK'
  <2>1. begun' \in [Session -> Nat]
    BY DEF Start, TypeOK, TallyTypeOK
  <2>2. starts' \in Nat
    BY DEF Start, TypeOK, TallyTypeOK
  <2>3. QED
    BY <2>1, <2>2 DEF Start, TypeOK, TallyTypeOK, clients
<1>8. QED
  BY <1>3, <1>4, <1>5, <1>6, <1>7 DEF TypeOK

(* Reclaiming the interrupted tasks of a resumed session (supervisor.py 114-149). *)
LEMMA RecoverTyped == TypeOK /\ (RecoverLoad \/ RecoverWrite) => TypeOK'
<1>1. ASSUME TypeOK, RecoverLoad PROVE TypeOK'
  <2>1. RunTypeOK'
    BY <1>1 DEF RecoverLoad, TypeOK, FilesTypeOK, RunTypeOK, Locations, Holding
  <2>2. QED
    BY <1>1, <2>1, Untouched DEF RecoverLoad, TypeOK, clients
<1>2. ASSUME TypeOK, RecoverWrite PROVE TypeOK'
  <2>1. pc # "down" /\ sid \in Session /\ mem \in SessionState /\ buf \in Queue
    BY <1>2 DEF RecoverWrite, TypeOK, RunTypeOK
  <2>2. disk' \in [Session -> SessionState] /\ mem' \in SessionState
    BY <1>2, <2>1, SaveTyped DEF RecoverWrite
  <2>3. queue' \in Queue
    BY <1>2, <2>1, QueueOperations DEF RecoverWrite
  <2>4. FilesTypeOK'
    BY <1>2, <2>2, <2>3 DEF RecoverWrite, TypeOK, FilesTypeOK
  <2>5. RunTypeOK'
    BY <1>2, <2>1, <2>2, EmptyValues
       DEF RecoverWrite, TypeOK, RunTypeOK, Locations, Holding
  <2>6. QED
    BY <1>2, <2>4, <2>5, Untouched DEF RecoverWrite, TypeOK, clients
<1>3. QED
  BY <1>1, <1>2

(* The head of the loop and the polling flag (supervisor.py 159-221). *)
LEMMA HeadTyped == TypeOK /\ (HeadStop \/ HeadIterate \/ Poll) => TypeOK'
<1>1. ASSUME TypeOK, HeadStop PROVE TypeOK'
  <2>1. RunTypeOK'
    BY <1>1 DEF HeadStop, StopReason, TypeOK, RunTypeOK, Locations, Holding, Reasons
  <2>2. QED
    BY <1>1, <2>1, Untouched DEF HeadStop, TypeOK, clients
<1>2. ASSUME TypeOK, HeadIterate PROVE TypeOK'
  <2>1. disk' \in [Session -> SessionState] /\ mem' \in SessionState
    BY <1>2, SaveTyped DEF HeadIterate, TypeOK, RunTypeOK
  <2>2. FilesTypeOK' /\ RunTypeOK'
    BY <1>2, <2>1
       DEF HeadIterate, TypeOK, FilesTypeOK, RunTypeOK, Locations, Holding
  <2>3. FlagTypeOK'
    BY <1>2 DEF HeadIterate, TypeOK, FlagTypeOK, control
  <2>4. QED
    BY <1>2, <2>2, <2>3, Untouched DEF HeadIterate, TypeOK, clients
<1>3. ASSUME TypeOK, Poll PROVE TypeOK'
  <2>1. disk' \in [Session -> SessionState] /\ mem' \in SessionState
    BY <1>3, SaveTyped DEF Poll, TypeOK, RunTypeOK, FilesTypeOK
  <2>2. FilesTypeOK' /\ RunTypeOK'
    BY <1>3, <2>1 DEF Poll, TypeOK, FilesTypeOK, RunTypeOK, Locations, Holding
  <2>3. QED
    BY <1>3, <2>2, Untouched DEF Poll, TypeOK, clients
<1>4. QED
  BY <1>1, <1>2, <1>3

(* A selection puts a task in hand (supervisor.py 300-321). *)
LEMMA SelectTyped ==
    ASSUME TypeOK, NEW t \in Task, Select(t)
    PROVE  TypeOK'
<1>1. disk' \in [Session -> SessionState] /\ mem' \in SessionState
  BY SaveTyped DEF Select, TypeOK, RunTypeOK
<1>2. FilesTypeOK' /\ RunTypeOK'
  BY <1>1 DEF Select, TypeOK, FilesTypeOK, RunTypeOK, Locations, Holding
<1>3. QED
  BY <1>2, Untouched DEF Select, TypeOK, clients

(* An iteration with nothing to select (supervisor.py 247-298). *)
LEMMA IdleTyped == TypeOK /\ Idle => TypeOK'
<1> SUFFICES ASSUME TypeOK, Idle PROVE TypeOK'
  OBVIOUS
<1>1. disk' \in [Session -> SessionState] /\ mem' \in SessionState
  BY SaveTyped DEF Idle, TypeOK, RunTypeOK
<1>2. idlePolls' \in Nat
  BY LimitsAssumption DEF Idle, TypeOK, RunTypeOK
<1>3. pc' \in {"head", "final"} /\ reason' \in Reasons
  BY DEF Idle, TypeOK, RunTypeOK, Reasons
<1>4. FilesTypeOK' /\ RunTypeOK'
  BY <1>1, <1>2, <1>3 DEF Idle, TypeOK, FilesTypeOK, RunTypeOK, Locations, Holding
<1>5. QED
  BY <1>4, Untouched DEF Idle, TypeOK, clients

-----------------------------------------------------------------------------
(* From the accepted task to its recorded result. *)
LEMMA LoadForTyped ==
    ASSUME TypeOK, pc \in Holding,
           NEW location \in {"startWrite", "settleWrite"}, NEW action \in Verdicts,
           LoadFor(location, action)
    PROVE  TypeOK'
<1>1. CASE Present(queue, sel)
  <2>1. RunTypeOK'
    BY <1>1 DEF LoadFor, TypeOK, FilesTypeOK, RunTypeOK, Locations, Holding
  <2>2. UNCHANGED <<files, clients, starts, history, drained, control>>
    BY <1>1 DEF LoadFor
  <2>3. QED
    BY <2>1, <2>2, Untouched DEF TypeOK, clients
<1>2. CASE ~Present(queue, sel)
  BY <1>2, DiesTyped DEF LoadFor
<1>3. QED
  BY <1>1, <1>2

(* The two loads of the queue ahead of a write. *)
LEMMA LoadsTyped == TypeOK /\ (Accept \/ Settle) => TypeOK'
<1>1. ASSUME TypeOK, Accept PROVE TypeOK'
  BY <1>1, LoadForTyped DEF Accept, Holding, Verdicts
<1>2. ASSUME TypeOK, Settle PROVE TypeOK'
  <2>1. verdict \in Verdicts
    BY <1>2 DEF TypeOK, RunTypeOK
  <2>2. QED
    BY <1>2, <2>1, LoadForTyped DEF Settle, Holding
<1>3. QED
  BY <1>1, <1>2

(* The two writes of the queue for the task in hand (scheduler.py 79-147). *)
LEMMA QueueWritesTyped == TypeOK /\ (StartWrite \/ SettleWrite) => TypeOK'
<1>1. ASSUME TypeOK, StartWrite PROVE TypeOK'
  <2>1. buf \in Queue /\ sel \in Task /\ sid \in Session
    BY <1>1 DEF StartWrite, TypeOK, RunTypeOK, Holding
  <2>2. FilesTypeOK'
    BY <1>1, <2>1, QueueOperations DEF StartWrite, TypeOK, FilesTypeOK
  <2>3. RunTypeOK'
    BY <1>1, <2>1, EmptyValues DEF StartWrite, TypeOK, RunTypeOK, Locations, Holding
  <2>4. QED
    BY <1>1, <2>2, <2>3, Untouched DEF StartWrite, TypeOK, clients
<1>2. ASSUME TypeOK, SettleWrite PROVE TypeOK'
  <2>1. buf \in Queue /\ sel \in Task
    BY <1>2 DEF SettleWrite, TypeOK, RunTypeOK, Holding
  <2>2. Settled(buf, sel) \in Queue
    BY <2>1, QueueOperations DEF Settled
  <2>3. FilesTypeOK'
    BY <1>2, <2>2 DEF SettleWrite, TypeOK, FilesTypeOK
  <2>4. RunTypeOK'
    BY <1>2, <2>1, EmptyValues DEF SettleWrite, TypeOK, RunTypeOK, Locations, Holding
  <2>5. QED
    BY <1>2, <2>3, <2>4, Untouched DEF SettleWrite, TypeOK, clients
<1>3. QED
  BY <1>1, <1>2

(* Recording that a task started (supervisor.py 355-362). *)
LEMMA BeginTyped == TypeOK /\ Begin => TypeOK'
<1> SUFFICES ASSUME TypeOK, Begin PROVE TypeOK'
  OBVIOUS
<1>1. sel \in Task /\ sid \in Session /\ mem \in SessionState
  BY DEF Begin, TypeOK, RunTypeOK, Holding
<1>2. [mem EXCEPT !.executed = @ + 1] \in SessionState
  BY <1>1 DEF SessionState
<1>3. disk' \in [Session -> SessionState] /\ mem' \in SessionState
  BY <1>2, SaveTyped DEF Begin
<1>4. FilesTypeOK' /\ RunTypeOK'
  BY <1>1, <1>3 DEF Begin, TypeOK, FilesTypeOK, RunTypeOK, Locations, Holding
<1>5. TallyTypeOK'
  BY <1>1 DEF Begin, TypeOK, TallyTypeOK, clients
<1>6. QED
  BY <1>4, <1>5, Untouched DEF Begin, TypeOK

(* The agent returns, or a stop request cuts it (supervisor.py 367-391). *)
LEMMA AgentTyped == TypeOK /\ (AgentCut \/ AgentReturns) => TypeOK'
<1>1. ASSUME TypeOK, AgentCut PROVE TypeOK'
  <2>1. disk' \in [Session -> SessionState] /\ mem' \in SessionState
    BY <1>1, SaveTyped DEF AgentCut, TypeOK, RunTypeOK
  <2>2. FilesTypeOK' /\ RunTypeOK'
    BY <1>1, <2>1
       DEF AgentCut, TypeOK, FilesTypeOK, RunTypeOK, Locations, Holding, Reasons
  <2>3. TallyTypeOK'
    BY <1>1, LoseRunTyped DEF AgentCut, TypeOK, TallyTypeOK, clients
  <2>4. QED
    BY <1>1, <2>2, <2>3, Untouched DEF AgentCut, TypeOK
<1>2. ASSUME TypeOK, AgentReturns PROVE TypeOK'
  <2>1. disk' \in [Session -> SessionState] /\ mem' \in SessionState
    BY <1>2, SaveTyped DEF AgentReturns, TypeOK, RunTypeOK
  <2>2. FilesTypeOK' /\ RunTypeOK'
    BY <1>2, <2>1
       DEF AgentReturns, TypeOK, FilesTypeOK, RunTypeOK, Locations, Holding, Verdicts
  <2>3. TallyTypeOK'
    <3>1. sel \in Task
      BY <1>2 DEF AgentReturns, TypeOK, RunTypeOK, Holding
    <3>2. QED
      BY <1>2, <3>1 DEF AgentReturns, TypeOK, TallyTypeOK, clients
  <2>4. QED
    BY <1>2, <2>2, <2>3, Untouched DEF AgentReturns, TypeOK
<1>3. QED
  BY <1>1, <1>2

(* The session state record_task_result saves is one (state_store.py 226-309). *)
LEMMA RecordState ==
    ASSUME TypeOK, pc = "record"
    PROVE  Recorded \in SessionState
<1>1. mem \in SessionState /\ sel \in Task
  BY DEF TypeOK, RunTypeOK, Holding
<1>2. [mem EXCEPT !.streak = @ + 1] \in SessionState
  BY <1>1 DEF SessionState
<1>3. mem.completed \cup {sel} \in SUBSET Task
  BY <1>1 DEF SessionState
<1>4. [mem EXCEPT !.completed = @ \cup {sel}, !.streak = 0] \in SessionState
  BY <1>1, <1>3 DEF SessionState
<1>5. QED
  BY <1>2, <1>4 DEF Recorded

(* Recording a result and checking the streak (supervisor.py 413-460). *)
LEMMA RecordTyped == TypeOK /\ Record => TypeOK'
<1> SUFFICES ASSUME TypeOK, Record PROVE TypeOK'
  OBVIOUS
<1>1. Recorded \in SessionState
  BY RecordState DEF Record
<1>2. disk' \in [Session -> SessionState] /\ mem' \in SessionState
  BY <1>1, SaveTyped DEF Record
<1>3. FilesTypeOK'
  BY <1>2 DEF Record, TypeOK, FilesTypeOK
<1>4. pc' \in {"head", "final"} /\ reason' \in Reasons
  BY DEF Record, TypeOK, RunTypeOK, Reasons
<1>5. RunTypeOK'
  BY <1>2, <1>4 DEF Record, TypeOK, RunTypeOK, Locations, Holding, Verdicts
<1>6. QED
  BY <1>3, <1>5, Untouched DEF Record, TypeOK, clients

(* Closing the session (supervisor.py 462-500). *)
LEMMA FinalizeTyped == TypeOK /\ Finalize => TypeOK'
<1> SUFFICES ASSUME TypeOK, Finalize PROVE TypeOK'
  OBVIOUS
<1>1. [mem EXCEPT !.status = "completed"] \in SessionState
  BY DEF TypeOK, RunTypeOK, SessionState
<1>2. FilesTypeOK'
  BY <1>1 DEF Finalize, TypeOK, FilesTypeOK
<1>3. QED
  BY <1>2, EndedTyped, Untouched DEF Finalize, TypeOK, clients

(* A stop request and the passing of time. *)
LEMMA SignalsTyped == TypeOK /\ (RequestStop \/ Clock) => TypeOK'
<1>1. ASSUME TypeOK, RequestStop \/ Clock PROVE RunTypeOK'
  BY <1>1 DEF RequestStop, Clock, TypeOK, RunTypeOK
<1>2. ASSUME TypeOK, RequestStop \/ Clock PROVE FlagTypeOK'
  BY <1>2 DEF RequestStop, Clock, TypeOK, FlagTypeOK
<1>3. QED
  BY <1>1, <1>2, Untouched DEF RequestStop, Clock, TypeOK, clients

-----------------------------------------------------------------------------
(* The clients. *)
LEMMA ClientsKeep ==
    TypeOK /\ UNCHANGED supVars =>
        /\ UNCHANGED <<drained, stopReq, expired, starts, history>>
        /\ queue' \in Queue /\ disk' \in [Session -> SessionState] /\ approvals' \subseteq Task
              => FilesTypeOK'
        /\ RunTypeOK'
        /\ polling' \in BOOLEAN => FlagTypeOK'
        /\ ops' \in Nat => TallyTypeOK'
BY DEF supVars, TypeOK, FilesTypeOK, RunTypeOK, FlagTypeOK, TallyTypeOK, history

(* A submitter takes an operator message (task_intake.py 388-405). *)
LEMMA IntakeMessageTyped ==
    ASSUME TypeOK, NEW c \in Submitter, NEW s \in Session, AcceptMessage(c, s)
    PROVE  TypeOK'
<1> DEFINE v == [IdleClient EXCEPT !.at = "intake", !.session = s]
<1>1. v \in ClientState /\ v.session = s
  BY EmptyValues DEF ClientState, ClientSteps
<1>2. c \in Client /\ client' = [client EXCEPT ![c] = v]
  BY DEF AcceptMessage, Client
<1>3. ClientTypeOK'
  BY <1>1, <1>2, ClientTyped
<1>4. QED
  BY <1>3, ClientsKeep
     DEF AcceptMessage, Begins, TypeOK, FilesTypeOK, FlagTypeOK, TallyTypeOK, files

(* Intake updates a session state (task_intake.py 1941-1947, 2168-2188). *)
LEMMA SessionUpdateTyped ==
    ASSUME TypeOK, NEW c \in Submitter, SessionLoad(c) \/ SessionSave(c)
    PROVE  TypeOK'
<1>1. c \in Client
  BY DEF Client
<1>2. client[c] \in ClientState /\ client[c].at \in DOMAIN NextUpdate
  BY <1>1 DEF SessionLoad, SessionSave, TypeOK, ClientTypeOK
<1>3. client[c].session \in Session
  BY <1>1, <1>2 DEF TypeOK, ClientTypeOK, NextUpdate
<1>4. NextUpdate[client[c].at] \in ClientSteps
  BY <1>2 DEF NextUpdate, ClientSteps
<1>5. ASSUME SessionLoad(c) PROVE ClientTypeOK'
  <2>1. CASE disk[client[c].session].status = "none"
    BY <1>1, <1>3, <1>4, <1>5, <2>1, AdvanceTyped DEF SessionLoad
  <2>2. CASE disk[client[c].session].status # "none"
    <3> DEFINE v == [client[c] EXCEPT !.held = TRUE, !.state = disk[client[c].session]]
    <3>1. disk[client[c].session] \in SessionState
      BY <1>3 DEF TypeOK, FilesTypeOK
    <3>2. v \in ClientState /\ v.session = client[c].session
      BY <1>2, <3>1 DEF ClientState
    <3>3. client' = [client EXCEPT ![c] = v]
      BY <1>5, <2>2 DEF SessionLoad
    <3>4. QED
      BY <1>1, <1>3, <3>2, <3>3, ClientTyped
  <2>3. QED
    BY <2>1, <2>2
<1>6. ASSUME SessionSave(c) PROVE ClientTypeOK'
  BY <1>1, <1>3, <1>4, <1>6, AdvanceTyped DEF SessionSave
<1>7. disk' \in [Session -> SessionState]
  <2>1. client[c].state \in SessionState
    BY <1>2 DEF ClientState
  <2>2. QED
    BY <1>3, <2>1 DEF SessionLoad, SessionSave, TypeOK, FilesTypeOK, files
<1>8. QED
  BY <1>5, <1>6, <1>7, ClientsKeep
     DEF SessionLoad, SessionSave, TypeOK, FilesTypeOK, FlagTypeOK, TallyTypeOK, files

(* Intake reads the queue and appends a plan (task_intake.py 425-670). *)
LEMMA IntakeQueueTyped ==
    ASSUME TypeOK, NEW c \in Submitter,
           IntakeWrite(c) \/ \E plan \in Plans : IntakeRead(c, plan)
    PROVE  TypeOK'
<1>1. c \in Client /\ client[c] \in ClientState
  BY DEF Client, TypeOK, ClientTypeOK
<1>2. ASSUME NEW plan \in Plans, IntakeRead(c, plan) PROVE TypeOK'
  <2> DEFINE v == [client[c] EXCEPT !.at = "decision", !.copy = queue, !.tasks = plan]
  <2>1. v \in ClientState /\ v.session = client[c].session
    BY <1>1, PlansAssumption DEF ClientState, ClientSteps, TypeOK, FilesTypeOK
  <2>2. client' = [client EXCEPT ![c] = v]
    BY <1>2 DEF IntakeRead
  <2>3. client[c].session \in Session
    BY <1>2, <1>1 DEF IntakeRead, TypeOK, ClientTypeOK
  <2>4. ClientTypeOK'
    BY <1>1, <2>1, <2>2, <2>3, ClientTyped
  <2>5. QED
    BY <1>2, <2>4, ClientsKeep
       DEF IntakeRead, TypeOK, FilesTypeOK, FlagTypeOK, TallyTypeOK, files
<1>3. ASSUME IntakeWrite(c) PROVE TypeOK'
  <2> DEFINE v == [client[c] EXCEPT !.at = "plan", !.copy = NoTasks]
  <2>1. v \in ClientState /\ v.session = client[c].session
    BY <1>1, EmptyValues DEF ClientState, ClientSteps
  <2>2. client' = [client EXCEPT ![c] = v]
    BY <1>3 DEF IntakeWrite
  <2>3. client[c].session \in Session
    BY <1>3, <1>1 DEF IntakeWrite, TypeOK, ClientTypeOK
  <2>4. ClientTypeOK'
    BY <1>1, <2>1, <2>2, <2>3, ClientTyped
  <2>5. queue' \in Queue
    BY <1>1, <1>3, QueueOperations DEF IntakeWrite, ClientState
  <2>6. QED
    BY <1>3, <2>4, <2>5, ClientsKeep
       DEF IntakeWrite, TypeOK, FilesTypeOK, FlagTypeOK, TallyTypeOK
<1>4. QED
  BY <1>2, <1>3

(* An approval reads the queue and writes its entry (mutation_approval.py 19-44). *)
LEMMA ApproverTyped ==
    ASSUME TypeOK, NEW c \in Approver, NEW t \in Task, ApproveRead(c, t) \/ ApproveWrite(c, t)
    PROVE  TypeOK'
<1>1. c \in Client /\ client[c] \in ClientState
  BY DEF Client, TypeOK, ClientTypeOK
<1>2. ASSUME ApproveRead(c, t) PROVE TypeOK'
  <2> DEFINE v == [IdleClient EXCEPT !.at = "apply", !.copy = queue, !.tasks = {t}]
  <2>1. v \in ClientState /\ v.at = "apply"
    BY EmptyValues DEF IdleClient, ClientState, ClientSteps, TypeOK, FilesTypeOK
  <2>2. client' = [client EXCEPT ![c] = v]
    BY <1>2 DEF ApproveRead
  <2>3. ClientTypeOK'
    BY <1>1, <2>1, <2>2, ClientTyped
  <2>4. QED
    BY <1>2, <2>3, ClientsKeep
       DEF ApproveRead, Begins, TypeOK, FilesTypeOK, FlagTypeOK, TallyTypeOK
<1>3. ASSUME ApproveWrite(c, t) PROVE TypeOK'
  <2>1. ClientTypeOK'
    BY <1>1, <1>3, AdvanceTyped DEF ApproveWrite, ClientSteps
  <2>2. queue' \in Queue
    BY <1>1, <1>3, QueueOperations DEF ApproveWrite, ClientState
  <2>3. QED
    BY <1>3, <2>1, <2>2, ClientsKeep
       DEF ApproveWrite, TypeOK, FilesTypeOK, FlagTypeOK, TallyTypeOK
<1>4. QED
  BY <1>2, <1>3

(* A pause or resume of polling (supervisor.py 993-1009). *)
LEMMA ConsoleTyped ==
    ASSUME TypeOK, NEW c \in Console,
           SavePolling(c) \/ \E enabled \in BOOLEAN : SetPolling(c, enabled)
    PROVE  TypeOK'
<1>1. c \in Client /\ client[c] \in ClientState
  BY DEF Client, TypeOK, ClientTypeOK
<1>2. ASSUME NEW enabled \in BOOLEAN, SetPolling(c, enabled) PROVE TypeOK'
  <2> DEFINE v == [IdleClient EXCEPT !.at = "flag", !.session = sid, !.held = TRUE,
                                     !.state = disk[sid]]
  <2>1. sid \in Session /\ disk[sid] \in SessionState
    BY <1>2 DEF SetPolling, TypeOK, RunTypeOK, FilesTypeOK
  <2>2. v \in ClientState /\ v.session \in Session
    BY <2>1, EmptyValues DEF IdleClient, ClientState, ClientSteps
  <2>3. client' = [client EXCEPT ![c] = v]
    BY <1>2 DEF SetPolling
  <2>4. ClientTypeOK'
    BY <1>1, <2>2, <2>3, ClientTyped
  <2>5. polling' \in BOOLEAN
    BY <1>2 DEF SetPolling
  <2>6. QED
    BY <1>2, <2>4, <2>5, ClientsKeep
       DEF SetPolling, Begins, TypeOK, FilesTypeOK, TallyTypeOK, files
<1>3. ASSUME SavePolling(c) PROVE TypeOK'
  <2>1. client[c].session \in Session /\ client[c].state \in SessionState
    BY <1>1, <1>3 DEF SavePolling, TypeOK, ClientTypeOK, ClientState
  <2>2. ClientTypeOK'
    BY <1>1, <1>3, AdvanceTyped DEF SavePolling, ClientSteps
  <2>3. disk' \in [Session -> SessionState]
    BY <1>3, <2>1 DEF SavePolling, TypeOK, FilesTypeOK
  <2>4. QED
    BY <1>3, <2>2, <2>3, ClientsKeep
       DEF SavePolling, TypeOK, FilesTypeOK, FlagTypeOK, TallyTypeOK
<1>4. QED
  BY <1>2, <1>3

-----------------------------------------------------------------------------
(* The initial state is typed. *)
LEMMA InitTyped == Init => TypeOK
<1> SUFFICES ASSUME Init PROVE TypeOK
  OBVIOUS
<1>1. FilesTypeOK
  BY EmptyValues, QueueOperations, TaskAssumption DEF Init, FilesTypeOK
<1>2. RunTypeOK
  BY EmptyValues DEF Init, RunTypeOK, Locations, Verdicts, Reasons, Holding
<1>3. FlagTypeOK
  BY DEF Init, FlagTypeOK
<1>4. ClientTypeOK
  BY EmptyValues DEF Init, ClientTypeOK, IdleClient
<1>5. TallyTypeOK
  BY DEF Init, TallyTypeOK
<1>6. QED
  BY <1>1, <1>2, <1>3, <1>4, <1>5 DEF TypeOK

(* A stutter keeps the types. *)
LEMMA StutterTyped == TypeOK /\ UNCHANGED vars => TypeOK'
BY DEF vars, TypeOK, FilesTypeOK, RunTypeOK, FlagTypeOK, ClientTypeOK, TallyTypeOK

(* Every step keeps the types: one step of the proof per action of Next. *)
LEMMA StepTyped == TypeOK /\ [Next]_vars => TypeOK'
<1> SUFFICES ASSUME TypeOK, [Next]_vars PROVE TypeOK'
  OBVIOUS
<1>1. ASSUME NEW s \in Session, NEW resume \in BOOLEAN, Start(s, resume) PROVE TypeOK'
  BY <1>1, StartTyped
<1>2. CASE SupervisorStep
  <2>1. CASE RecoverLoad \/ RecoverWrite
    BY <2>1, RecoverTyped
  <2>2. CASE HeadStop \/ HeadIterate \/ Poll
    BY <2>2, HeadTyped
  <2>3. ASSUME NEW t \in Task, Select(t) PROVE TypeOK'
    BY <2>3, SelectTyped
  <2>4. CASE Idle
    BY <2>4, IdleTyped
  <2>5. CASE Accept \/ Settle
    BY <2>5, LoadsTyped
  <2>6. CASE StartWrite \/ SettleWrite
    BY <2>6, QueueWritesTyped
  <2>7. CASE Begin
    BY <2>7, BeginTyped
  <2>8. CASE AgentCut \/ AgentReturns
    BY <2>8, AgentTyped
  <2>9. CASE Record
    BY <2>9, RecordTyped
  <2>10. CASE Finalize
    BY <2>10, FinalizeTyped
  <2>11. QED
    BY <1>2, <2>1, <2>2, <2>3, <2>4, <2>5, <2>6, <2>7, <2>8, <2>9, <2>10
       DEF SupervisorStep
<1>3. CASE Crash
  BY <1>3, DiesTyped DEF Crash
<1>4. CASE RequestStop \/ Clock
  BY <1>4, SignalsTyped
<1>5. ASSUME NEW c \in Submitter, SubmitterStep(c) PROVE TypeOK'
  BY <1>5, IntakeMessageTyped, SessionUpdateTyped, IntakeQueueTyped DEF SubmitterStep
<1>6. ASSUME NEW c \in Approver, ApproverStep(c) PROVE TypeOK'
  BY <1>6, ApproverTyped DEF ApproverStep
<1>7. ASSUME NEW c \in Console, ConsoleStep(c) PROVE TypeOK'
  BY <1>7, ConsoleTyped DEF ConsoleStep
<1>8. CASE UNCHANGED vars
  BY <1>8, StutterTyped
<1>9. QED
  BY <1>1, <1>2, <1>3, <1>4, <1>5, <1>6, <1>7, <1>8 DEF Next

(* Every variable keeps its type in every behaviour; in particular run()
   always has a task in hand where it uses one and writes the state file of
   a real session (supervisor.py 109-513). *)
THEOREM TypeCorrect == Spec => []TypeOK
<1>1. Init => TypeOK
  BY InitTyped
<1>2. TypeOK /\ [Next]_vars => TypeOK'
  BY StepTyped
<1>3. QED
  BY <1>1, <1>2, PTL DEF Spec

-----------------------------------------------------------------------------
(* Safety in every interleaving.  First the pure operations: a sound copy of
   the queue stays sound, if the task has been cleared where the operation
   makes it pending, running or completed. *)
LEMMA SoundOperations ==
    ASSUME NEW q \in Queue, CopySound(q)
    PROVE  /\ \A t \in Task :
                /\ CopySound(MarkBlocked(q, t))
                /\ Cleared(t) => /\ \A s \in Session : CopySound(MarkRunning(q, t, s))
                                 /\ CopySound(RequeueFailed(q, t))
                                 /\ t \in finished => CopySound(MarkCompleted(q, t))
                                 /\ CopySound(ApproveTask(q, t))
           /\ \A s \in Session : CopySound(RecoverRunning(q, s))
           /\ \A plan \in SUBSET Task : CopySound(AppendTasks(q, plan))
<1>1. \A t \in Task : q[t] \in Entry
  BY DEF Queue
<1>2. ASSUME NEW t \in Task PROVE CopySound(MarkBlocked(q, t))
  BY <1>1 DEF Queue, Entry, CopySound, MarkBlocked
<1>3. ASSUME NEW t \in Task, Cleared(t), NEW s \in Session
      PROVE  CopySound(MarkRunning(q, t, s))
  BY <1>1, <1>3 DEF Queue, Entry, CopySound, MarkRunning
<1>4. ASSUME NEW t \in Task, Cleared(t) PROVE CopySound(RequeueFailed(q, t))
  BY <1>1, <1>4 DEF Queue, Entry, CopySound, RequeueFailed
<1>5. ASSUME NEW t \in Task, Cleared(t), t \in finished
      PROVE  CopySound(MarkCompleted(q, t))
  BY <1>1, <1>5 DEF Queue, Entry, CopySound, MarkCompleted
<1>6. ASSUME NEW t \in Task, Cleared(t) PROVE CopySound(ApproveTask(q, t))
  BY <1>1, <1>6 DEF Queue, Entry, CopySound, ApproveTask
<1>7. ASSUME NEW s \in Session PROVE CopySound(RecoverRunning(q, s))
  BY <1>1 DEF Queue, Entry, CopySound, RecoverRunning, Interrupted, TasksIn
<1>8. ASSUME NEW plan \in SUBSET Task PROVE CopySound(AppendTasks(q, plan))
  BY <1>1, GateAssumption
     DEF Queue, Entry, CopySound, Cleared, AppendTasks, Absent, IntakeStatus
<1>9. QED
  BY <1>2, <1>3, <1>4, <1>5, <1>6, <1>7, <1>8

(* An empty copy, a fresh session state and an idle client say nothing false. *)
LEMMA EmptySound ==
    /\ CopySound(NoTasks)
    /\ NoFile.completed = {} /\ FreshState.completed = {}
    /\ \A c \in Client : client[c] = IdleClient => ClientSound(c)
<1>1. CopySound(NoTasks)
  BY DEF CopySound, NoTasks, Absent
<1>2. NoFile.completed = {} /\ FreshState.completed = {}
  BY DEF NoFile, FreshState
<1>3. QED
  BY <1>1, <1>2 DEF ClientSound, IdleClient

(* Grants and finished tasks only accumulate, so whatever a step leaves
   alone stays sound. *)
Accumulates == approvals \subseteq approvals' /\ finished \subseteq finished'

(* What a step that accumulates leaves alone, or copies from the queue, stays
   sound. *)
LEMMA Monotone ==
    ASSUME SafetyInv, Accumulates
    PROVE  /\ UNCHANGED queue => CopySound(queue)'
           /\ UNCHANGED buf => CopySound(buf)'
           /\ buf' = queue => CopySound(buf)'
           /\ buf' = NoTasks => CopySound(buf)'
           /\ UNCHANGED <<pc, sel, verdict>> => InHandSound'
           /\ \A c \in Client : client'[c] = client[c] => ClientSound(c)'
           /\ UNCHANGED <<mem, disk>> => NoInventedSuccess'
<1>1. UNCHANGED queue => CopySound(queue)'
  BY DEF SafetyInv, Accumulates, CopySound, Cleared
<1>2. UNCHANGED buf => CopySound(buf)'
  BY DEF SafetyInv, Accumulates, CopySound, Cleared
<1>3. buf' = queue => CopySound(buf)'
  BY DEF SafetyInv, Accumulates, CopySound, Cleared
<1>4. buf' = NoTasks => CopySound(buf)'
  BY DEF CopySound, NoTasks, Absent
<1>5. UNCHANGED <<pc, sel, verdict>> => InHandSound'
  BY DEF SafetyInv, Accumulates, InHandSound, Cleared
<1>6. ASSUME NEW c \in Client, client'[c] = client[c] PROVE ClientSound(c)'
  BY <1>6 DEF SafetyInv, Accumulates, ClientSound, CopySound, Cleared
<1>7. UNCHANGED <<mem, disk>> => NoInventedSuccess'
  BY DEF SafetyInv, Accumulates, NoInventedSuccess
<1>8. QED
  BY <1>1, <1>2, <1>3, <1>4, <1>5, <1>6, <1>7

(* Saving a session state whose completed tasks are finished invents no success. *)
LEMMA SaveSound ==
    ASSUME TypeOK, SafetyInv, Accumulates, NEW s \in Session, NEW state \in SessionState,
           state.completed \subseteq finished',
           mem' = state \/ mem' = mem \/ mem' = NoFile,
           disk' = [disk EXCEPT ![s] = state]
    PROVE  NoInventedSuccess'
<1>1. mem'.completed \subseteq finished'
  BY EmptySound DEF SafetyInv, NoInventedSuccess, Accumulates
<1>2. ASSUME NEW r \in Session PROVE disk'[r].completed \subseteq finished'
  BY DEF SafetyInv, NoInventedSuccess, Accumulates, TypeOK, FilesTypeOK
<1>3. QED
  BY <1>1, <1>2 DEF NoInventedSuccess

(* A crash loses the process and its copy, and leaves the files sound. *)
LEMMA DiesSound == TypeOK /\ SafetyInv /\ Dies => SafetyInv'
<1> SUFFICES ASSUME TypeOK, SafetyInv, Dies PROVE SafetyInv'
  OBVIOUS
<1>1. Accumulates /\ UNCHANGED <<queue, disk>>
  BY DEF Dies, Accumulates, files
<1>2. CopySound(queue)' /\ CopySound(buf)'
  BY <1>1, Monotone DEF Dies, Ended
<1>3. InHandSound'
  BY DEF Dies, Ended, InHandSound, Holding
<1>4. ASSUME NEW c \in Client PROVE ClientSound(c)'
  <2>1. CASE client'[c] = client[c]
    BY <1>1, <2>1, Monotone
  <2>2. CASE client'[c] = IdleClient
    BY <2>2 DEF ClientSound, CopySound, IdleClient, NoTasks, Absent, NoFile
  <2>3. QED
    BY <2>1, <2>2 DEF Dies
<1>5. NoInventedSuccess'
  BY <1>1, EmptySound DEF Dies, Ended, SafetyInv, NoInventedSuccess
<1>6. QED
  BY <1>2, <1>3, <1>4, <1>5 DEF SafetyInv

(* Steps of run() that neither write the queue nor change the task in hand:
   they save a session state whose completed tasks are those in memory. *)
LEMMA LoopSound ==
    ASSUME TypeOK, SafetyInv, Accumulates,
           UNCHANGED <<queue, sel, verdict, client>>,
           buf' = buf \/ buf' = queue,
           pc \notin Holding, pc' \notin Holding,
           NoInventedSuccess'
    PROVE  SafetyInv'
<1>1. CopySound(queue)' /\ CopySound(buf)'
  BY Monotone
<1>2. InHandSound'
  BY DEF SafetyInv, InHandSound, Holding
<1>3. \A c \in Client : ClientSound(c)'
  BY Monotone
<1>4. QED
  BY <1>1, <1>2, <1>3 DEF SafetyInv

(* Saving a state with the completed tasks of memory invents no success. *)
LEMMA SaveMemSound ==
    ASSUME TypeOK, SafetyInv, Accumulates, pc # "down",
           NEW state \in SessionState, state.completed = mem.completed,
           Save(state)
    PROVE  NoInventedSuccess'
<1>1. sid \in Session
  BY DEF TypeOK, RunTypeOK
<1>2. state.completed \subseteq finished'
  BY DEF SafetyInv, NoInventedSuccess, Accumulates
<1>3. QED
  BY <1>1, <1>2, SaveSound DEF Save

(* A start reads back only what the session file says (state_store.py 21-97). *)
LEMMA StartSound ==
    ASSUME TypeOK, SafetyInv, NEW s \in Session, NEW resume \in BOOLEAN, Start(s, resume)
    PROVE  SafetyInv'
<1> DEFINE kept  == resume /\ disk[s].status # "none"
           state == IF kept THEN [disk[s] EXCEPT !.status = "running", !.resumed = TRUE]
                            ELSE FreshState
<1>1. state \in SessionState /\ state.completed \subseteq finished
  <2>1. disk[s] \in SessionState /\ disk[s].completed \subseteq finished
    BY DEF TypeOK, FilesTypeOK, SafetyInv, NoInventedSuccess
  <2>2. kept => state \in SessionState /\ state.completed = disk[s].completed
    BY <2>1 DEF SessionState
  <2>3. ~kept => state = FreshState
    OBVIOUS
  <2>4. QED
    BY <2>1, <2>2, <2>3, EmptyValues, EmptySound
<1>2. /\ Accumulates /\ UNCHANGED <<queue, sel, verdict, buf>>
      /\ pc \notin Holding /\ pc' \notin Holding
  BY DEF Start, Accumulates, Holding
<1>3. mem' = state /\ disk' = [disk EXCEPT ![s] = state]
  BY DEF Start
<1>4. state.completed \subseteq finished'
  BY <1>1 DEF Start
<1>5. NoInventedSuccess'
  BY <1>1, <1>2, <1>3, <1>4, SaveSound
<1>6. QED
  BY <1>2, <1>5, LoopSound DEF Start, clients

(* The steps of the loop with no task in hand keep every copy sound. *)
LEMMA IterationSound ==
    TypeOK /\ SafetyInv /\ (RecoverLoad \/ HeadStop \/ HeadIterate \/ Poll \/ Idle)
        => SafetyInv'
<1> SUFFICES ASSUME TypeOK, SafetyInv,
                    RecoverLoad \/ HeadStop \/ HeadIterate \/ Poll \/ Idle
             PROVE  SafetyInv'
  OBVIOUS
<1>1. Accumulates
  BY DEF RecoverLoad, HeadStop, HeadIterate, Poll, Idle, Accumulates, files, history
<1>2. pc # "down" /\ pc \notin Holding /\ pc' \notin Holding
  BY DEF RecoverLoad, HeadStop, HeadIterate, Poll, Idle, Holding
<1>3. UNCHANGED <<queue, sel, verdict, client>> /\ (buf' = buf \/ buf' = queue)
  BY DEF RecoverLoad, HeadStop, HeadIterate, Poll, Idle, files, clients
<1>4. mem \in SessionState
  BY DEF TypeOK, RunTypeOK
<1>5. NoInventedSuccess'
  <2>1. CASE Save(mem)
    BY <1>1, <1>2, <1>4, <2>1, SaveMemSound
  <2>2. CASE UNCHANGED <<mem, disk>>
    BY <1>1, <2>2, Monotone
  <2>3. QED
    BY <2>1, <2>2 DEF RecoverLoad, HeadStop, HeadIterate, Poll, Idle, files
<1>6. QED
  BY <1>1, <1>2, <1>3, <1>5, LoopSound

(* Reclaimed tasks go back to pending: they were cleared when they were started. *)
LEMMA RecoverWriteSound == TypeOK /\ SafetyInv /\ RecoverWrite => SafetyInv'
<1> SUFFICES ASSUME TypeOK, SafetyInv, RecoverWrite PROVE SafetyInv'
  OBVIOUS
<1>1. Accumulates /\ UNCHANGED <<approvals, finished>>
  BY DEF RecoverWrite, Accumulates, history
<1>2. buf \in Queue /\ sid \in Session /\ mem \in SessionState
  BY DEF TypeOK, RunTypeOK, RecoverWrite
<1>3. CopySound(queue)'
  <2>1. CopySound(RecoverRunning(buf, sid))
    BY <1>2, SoundOperations DEF SafetyInv
  <2>2. queue' = RecoverRunning(buf, sid)
    BY DEF RecoverWrite
  <2>3. QED
    BY <1>1, <2>1, <2>2 DEF CopySound, Cleared
<1>4. CopySound(buf)' /\ \A c \in Client : ClientSound(c)'
  BY <1>1, Monotone DEF RecoverWrite, clients
<1>5. InHandSound'
  BY <1>1 DEF RecoverWrite, SafetyInv, InHandSound, Holding
<1>6. NoInventedSuccess'
  BY <1>1, <1>2, SaveMemSound DEF RecoverWrite
<1>7. QED
  BY <1>3, <1>4, <1>5, <1>6 DEF SafetyInv

(* The selector looks at the queue itself, so what it picks is pending, hence
   cleared, and its dependencies are completed, hence finished. *)
LEMMA SelectSound ==
    ASSUME TypeOK, SafetyInv, NEW t \in Task, Select(t)
    PROVE  SafetyInv'
<1>1. Accumulates /\ UNCHANGED <<approvals, finished, queue, buf, client, verdict>>
  BY DEF Select, Accumulates, history, clients
<1>2. Cleared(t)
  BY DEF Select, Eligible, SafetyInv, CopySound
<1>3. Deps[t] \subseteq finished
  BY DepsAssumption DEF Select, Eligible, SafetyInv, CopySound
<1>4. verdict = "none"
  BY DEF Select, SafetyInv, InHandSound
<1>5. InHandSound'
  BY <1>1, <1>2, <1>3, <1>4 DEF Select, InHandSound, Cleared
<1>6. CopySound(queue)' /\ CopySound(buf)' /\ \A c \in Client : ClientSound(c)'
  BY <1>1, Monotone
<1>7. NoInventedSuccess'
  BY <1>1, SaveMemSound DEF Select, TypeOK, RunTypeOK
<1>8. QED
  BY <1>5, <1>6, <1>7 DEF SafetyInv

(* A load of the queue for the task in hand copies a sound queue, or kills run(). *)
LEMMA LoadForSound ==
    ASSUME TypeOK, SafetyInv, pc \in Holding,
           NEW location \in {"startWrite", "settleWrite"}, NEW action \in Verdicts,
           action = "complete" => verdict = "complete",
           location = "startWrite" => action = "none",
           LoadFor(location, action)
    PROVE  SafetyInv'
<1>1. CASE Present(queue, sel)
  <2>1. /\ buf' = queue /\ pc' = location /\ verdict' = action
        /\ UNCHANGED <<files, mem, sel, clients, history>>
    BY <1>1 DEF LoadFor
  <2>2. Accumulates
    BY <2>1 DEF Accumulates, files, history
  <2>3. CopySound(queue)' /\ CopySound(buf)' /\ NoInventedSuccess'
    BY <2>1, <2>2, Monotone DEF files
  <2>4. \A c \in Client : ClientSound(c)'
    BY <2>1, <2>2, Monotone DEF clients
  <2>5. InHandSound'
    BY <2>1, <2>2 DEF SafetyInv, InHandSound, Cleared, Accumulates
  <2>6. QED
    BY <2>3, <2>4, <2>5 DEF SafetyInv
<1>2. CASE ~Present(queue, sel)
  BY <1>2, DiesSound DEF LoadFor
<1>3. QED
  BY <1>1, <1>2

(* The loads before a start and before a result keep SafetyInv. *)
LEMMA LoadsSound == TypeOK /\ SafetyInv /\ (Accept \/ Settle) => SafetyInv'
<1>1. ASSUME TypeOK, SafetyInv, Accept PROVE SafetyInv'
  BY <1>1, LoadForSound DEF Accept, Holding, Verdicts
<1>2. ASSUME TypeOK, SafetyInv, Settle PROVE SafetyInv'
  <2>1. verdict \in Verdicts
    BY <1>2 DEF TypeOK, RunTypeOK
  <2>2. QED
    BY <1>2, <2>1, LoadForSound DEF Settle, Holding
<1>3. QED
  BY <1>1, <1>2

(* The task in hand is cleared, so the statuses run() writes for it are sound even
   when the copy they are written into is stale. *)
LEMMA QueueWritesSound ==
    TypeOK /\ SafetyInv /\ (StartWrite \/ SettleWrite) => SafetyInv'
<1> SUFFICES ASSUME TypeOK, SafetyInv, StartWrite \/ SettleWrite PROVE SafetyInv'
  OBVIOUS
<1>1. /\ Accumulates
      /\ UNCHANGED <<approvals, finished, sel, verdict, client, mem, disk>>
  BY DEF StartWrite, SettleWrite, Accumulates, history, clients
<1>2. /\ buf \in Queue /\ sel \in Task /\ sid \in Session
      /\ CopySound(buf) /\ Cleared(sel)
  BY DEF StartWrite, SettleWrite, TypeOK, RunTypeOK, Holding, SafetyInv, InHandSound
<1>3. CopySound(queue)'
  <2>1. CASE StartWrite
    <3>1. CopySound(MarkRunning(buf, sel, sid))
      BY <1>2, SoundOperations
    <3>2. QED
      BY <1>1, <2>1, <3>1 DEF StartWrite, CopySound, Cleared
  <2>2. CASE SettleWrite
    <3>1. CopySound(Settled(buf, sel))
      BY <1>2, SoundOperations DEF Settled, SafetyInv, InHandSound
    <3>2. QED
      BY <1>1, <2>2, <3>1 DEF SettleWrite, CopySound, Cleared
  <2>3. QED
    BY <2>1, <2>2
<1>4. CopySound(buf)'
  BY <1>1, Monotone DEF StartWrite, SettleWrite
<1>5. InHandSound'
  BY <1>1 DEF StartWrite, SettleWrite, SafetyInv, InHandSound, Cleared, Holding
<1>6. NoInventedSuccess' /\ \A c \in Client : ClientSound(c)'
  BY <1>1, Monotone
<1>7. QED
  BY <1>3, <1>4, <1>5, <1>6 DEF SafetyInv

(* Only the agent's return grows the finished tasks, with the task in hand. *)
LEMMA AgentSound ==
    TypeOK /\ SafetyInv /\ (Begin \/ AgentCut \/ AgentReturns) => SafetyInv'
<1> SUFFICES ASSUME TypeOK, SafetyInv, Begin \/ AgentCut \/ AgentReturns PROVE SafetyInv'
  OBVIOUS
<1>1. Accumulates /\ UNCHANGED <<queue, approvals, sel, buf, client>>
  BY DEF Begin, AgentCut, AgentReturns, Accumulates, clients
<1>2. CopySound(queue)' /\ CopySound(buf)' /\ \A c \in Client : ClientSound(c)'
  BY <1>1, Monotone
<1>3. InHandSound'
  BY <1>1 DEF Begin, AgentCut, AgentReturns, SafetyInv, InHandSound, Cleared, Holding,
              Accumulates
<1>4. NoInventedSuccess'
  <2>1. pc # "down" /\ mem \in SessionState
    BY DEF Begin, AgentCut, AgentReturns, TypeOK, RunTypeOK
  <2>2. CASE Begin
    <3> DEFINE state == [mem EXCEPT !.executed = @ + 1]
    <3>1. state \in SessionState /\ state.completed = mem.completed
      BY <2>1 DEF SessionState
    <3>2. QED
      BY <1>1, <2>1, <2>2, <3>1, SaveMemSound DEF Begin
  <2>3. CASE AgentCut \/ AgentReturns
    BY <1>1, <2>1, <2>3, SaveMemSound DEF AgentCut, AgentReturns
  <2>4. QED
    BY <2>2, <2>3
<1>5. QED
  BY <1>2, <1>3, <1>4 DEF SafetyInv

(* A result is recorded as completed only when the validator said complete. *)
LEMMA RecordSound == TypeOK /\ SafetyInv /\ Record => SafetyInv'
<1> SUFFICES ASSUME TypeOK, SafetyInv, Record PROVE SafetyInv'
  OBVIOUS
<1>1. Accumulates /\ UNCHANGED <<queue, approvals, finished, buf, client>>
  BY DEF Record, Accumulates, history, clients
<1>2. mem \in SessionState /\ sel \in Task /\ sid \in Session
  BY DEF Record, TypeOK, RunTypeOK, Holding
<1>3. Recorded \in SessionState
  BY RecordState DEF Record
<1>4. Recorded.completed \subseteq finished
  <2>1. mem.completed \subseteq finished
    BY DEF SafetyInv, NoInventedSuccess
  <2>2. CASE verdict = "complete"
    <3>1. Recorded.completed = mem.completed \cup {sel}
      BY <1>2, <2>2 DEF Recorded, SessionState
    <3>2. QED
      BY <2>1, <2>2, <3>1 DEF SafetyInv, InHandSound
  <2>3. CASE verdict # "complete"
    <3>1. Recorded.completed = mem.completed
      BY <1>2, <2>3 DEF Recorded, SessionState
    <3>2. QED
      BY <2>1, <3>1
  <2>4. QED
    BY <2>2, <2>3
<1>5. NoInventedSuccess'
  <2>1. mem' = Recorded /\ disk' = [disk EXCEPT ![sid] = Recorded]
    BY DEF Record, Save
  <2>2. QED
    BY <1>1, <1>2, <1>3, <1>4, <2>1, SaveSound
<1>6. CopySound(queue)' /\ CopySound(buf)' /\ \A c \in Client : ClientSound(c)'
  BY <1>1, Monotone
<1>7. InHandSound'
  BY DEF Record, InHandSound, Holding
<1>8. QED
  BY <1>5, <1>6, <1>7 DEF SafetyInv

(* The last save reports the completed tasks of memory. *)
LEMMA FinalizeSound == TypeOK /\ SafetyInv /\ Finalize => SafetyInv'
<1> SUFFICES ASSUME TypeOK, SafetyInv, Finalize PROVE SafetyInv'
  OBVIOUS
<1> DEFINE state == [mem EXCEPT !.status = "completed"]
<1>1. Accumulates /\ UNCHANGED <<queue, client>>
  BY DEF Finalize, Accumulates, history, clients
<1>2. /\ sid \in Session /\ state \in SessionState
      /\ state.completed = mem.completed
  BY DEF Finalize, TypeOK, RunTypeOK, SessionState
<1>3. NoInventedSuccess'
  <2>1. state.completed \subseteq finished'
    BY <1>1, <1>2 DEF SafetyInv, NoInventedSuccess, Accumulates
  <2>2. mem' = NoFile /\ disk' = [disk EXCEPT ![sid] = state]
    BY DEF Finalize, Ended
  <2>3. QED
    BY <1>1, <1>2, <2>1, <2>2, SaveSound
<1>4. CopySound(queue)' /\ CopySound(buf)' /\ \A c \in Client : ClientSound(c)'
  BY <1>1, Monotone DEF Finalize, Ended
<1>5. InHandSound'
  BY DEF Finalize, Ended, InHandSound, Holding
<1>6. QED
  BY <1>3, <1>4, <1>5 DEF SafetyInv

(* A client's step: the queue and the session files it leaves must be sound,
   and so must its own new state; run()'s state is not touched. *)
LEMMA ClientStepSound ==
    ASSUME TypeOK, SafetyInv, Accumulates, NEW c \in Client,
           UNCHANGED supVars,
           \A d \in Client : d # c => client'[d] = client[d],
           CopySound(queue)', ClientSound(c)', NoInventedSuccess'
    PROVE  SafetyInv'
<1>1. UNCHANGED <<pc, sel, buf, verdict>>
  BY DEF supVars
<1>2. CopySound(buf)' /\ InHandSound'
  BY <1>1, Monotone
<1>3. \A d \in Client : ClientSound(d)'
  BY Monotone
<1>4. QED
  BY <1>2, <1>3 DEF SafetyInv

(* A session state a client loaded earlier names only finished tasks. *)
LEMMA ClientSaveSound ==
    ASSUME TypeOK, SafetyInv, Accumulates, NEW c \in Client, UNCHANGED mem,
           client[c].session \in Session,
           disk' = [disk EXCEPT ![client[c].session] = client[c].state]
    PROVE  NoInventedSuccess'
<1>1. client[c].state \in SessionState
  BY DEF TypeOK, ClientTypeOK, ClientState
<1>2. client[c].state.completed \subseteq finished'
  BY DEF SafetyInv, ClientSound, Accumulates
<1>3. QED
  BY <1>1, <1>2, SaveSound

(* A client that moves on keeps a copy that was sound, or drops it. *)
LEMMA AdvanceSound ==
    ASSUME TypeOK, SafetyInv, Accumulates, NEW c \in Client, NEW at \in ClientSteps \ {"apply"},
           Advance(c, at)
    PROVE  ClientSound(c)' /\ \A d \in Client : d # c => client'[d] = client[d]
<1>1. \A d \in Client : d # c => client'[d] = client[d]
  BY DEF Advance, TypeOK, ClientTypeOK
<1>2. client[c] \in ClientState
  BY DEF TypeOK, ClientTypeOK
<1>3. ASSUME at = "idle" PROVE ClientSound(c)'
  <2>1. client'[c] = IdleClient
    BY <1>3 DEF Advance, TypeOK, ClientTypeOK
  <2>2. /\ client'[c].copy = NoTasks /\ client'[c].at = "idle"
        /\ client'[c].state.completed = {}
    BY <2>1 DEF IdleClient, NoFile
  <2>3. CopySound(client[c].copy)'
    BY <2>2 DEF CopySound, NoTasks, Absent
  <2>4. QED
    BY <2>2, <2>3 DEF ClientSound
<1>4. ASSUME at # "idle" PROVE ClientSound(c)'
  <2>1. client'[c] = [client[c] EXCEPT !.at = at, !.held = FALSE, !.state = NoFile]
    BY <1>4 DEF Advance, TypeOK, ClientTypeOK
  <2>2. /\ client'[c].at = at /\ client'[c].copy = client[c].copy
        /\ client'[c].state.completed = {}
    BY <1>2, <2>1, EmptySound DEF ClientState
  <2>3. CopySound(client[c].copy)'
    BY <2>2 DEF SafetyInv, Accumulates, ClientSound, CopySound, Cleared
  <2>4. QED
    BY <2>2, <2>3 DEF ClientSound
<1>5. QED
  BY <1>1, <1>3, <1>4

(* Whatever stale copy intake writes back was sound when it was read, and still is. *)
LEMMA SubmitterSound ==
    ASSUME TypeOK, SafetyInv, NEW c \in Submitter, SubmitterStep(c)
    PROVE  SafetyInv'
<1>1. c \in Client /\ client[c] \in ClientState
  BY DEF Client, TypeOK, ClientTypeOK
<1>2. Accumulates /\ UNCHANGED <<supVars, mem, approvals, finished>>
  BY DEF SubmitterStep, AcceptMessage, SessionLoad, SessionSave, IntakeRead, IntakeWrite,
         Accumulates, supVars, history, files
<1>3. ASSUME NEW s \in Session, AcceptMessage(c, s) PROVE SafetyInv'
  <2>1. client'[c] = [IdleClient EXCEPT !.at = "intake", !.session = s]
    BY <1>1, <1>3 DEF AcceptMessage, TypeOK, ClientTypeOK
  <2>2. /\ client'[c].copy = NoTasks /\ client'[c].at = "intake"
        /\ client'[c].state.completed = {}
    BY <2>1 DEF IdleClient, NoFile
  <2>3. CopySound(client[c].copy)'
    BY <2>2 DEF CopySound, NoTasks, Absent
  <2>4. ClientSound(c)'
    BY <2>2, <2>3 DEF ClientSound
  <2>5. CopySound(queue)' /\ NoInventedSuccess'
    BY <1>2, <1>3, Monotone DEF AcceptMessage, files
  <2>6. \A d \in Client : d # c => client'[d] = client[d]
    BY <1>3 DEF AcceptMessage, TypeOK, ClientTypeOK
  <2>7. QED
    BY <1>1, <1>2, <2>4, <2>5, <2>6, ClientStepSound
<1>4. ASSUME SessionLoad(c) PROVE SafetyInv'
  <2>1. client[c].session \in Session /\ NextUpdate[client[c].at] \in ClientSteps \ {"apply"}
    BY <1>1, <1>4 DEF SessionLoad, TypeOK, ClientTypeOK, NextUpdate, ClientSteps
  <2>2. ClientSound(c)' /\ \A d \in Client : d # c => client'[d] = client[d]
    <3>1. CASE disk[client[c].session].status = "none"
      BY <1>1, <1>2, <1>4, <2>1, <3>1, AdvanceSound DEF SessionLoad
    <3>2. CASE disk[client[c].session].status # "none"
      <4>1. client' = [client EXCEPT ![c] = [client[c] EXCEPT
                          !.held = TRUE, !.state = disk[client[c].session]]]
        BY <1>4, <3>2 DEF SessionLoad
      <4>2. client'[c] = [client[c] EXCEPT
                            !.held = TRUE, !.state = disk[client[c].session]]
        BY <1>1, <4>1 DEF TypeOK, ClientTypeOK
      <4>3. /\ client'[c].copy = client[c].copy /\ client'[c].at = client[c].at
            /\ client'[c].state = disk[client[c].session]
            /\ client'[c].tasks = client[c].tasks
        BY <1>1, <4>2 DEF ClientState
      <4>4. CopySound(client[c].copy)'
        BY <1>1, <1>2, <4>3 DEF SafetyInv, ClientSound, CopySound, Cleared
      <4>5. client'[c].state.completed \subseteq finished'
        BY <1>2, <2>1, <4>3 DEF SafetyInv, NoInventedSuccess
      <4>6. client'[c].at # "apply"
        BY <1>4, <4>3 DEF SessionLoad, NextUpdate
      <4>7. \A d \in Client : d # c => client'[d] = client[d]
        BY <4>1 DEF TypeOK, ClientTypeOK
      <4>8. QED
        BY <4>4, <4>5, <4>6, <4>7 DEF ClientSound
    <3>3. QED
      BY <3>1, <3>2
  <2>3. CopySound(queue)' /\ NoInventedSuccess'
    BY <1>2, <1>4, Monotone DEF SessionLoad, files
  <2>4. QED
    BY <1>1, <1>2, <2>2, <2>3, ClientStepSound
<1>5. ASSUME SessionSave(c) PROVE SafetyInv'
  <2>1. client[c].session \in Session /\ NextUpdate[client[c].at] \in ClientSteps \ {"apply"}
    BY <1>1, <1>5 DEF SessionSave, TypeOK, ClientTypeOK, NextUpdate, ClientSteps
  <2>2. ClientSound(c)' /\ \A d \in Client : d # c => client'[d] = client[d]
    BY <1>1, <1>2, <1>5, <2>1, AdvanceSound DEF SessionSave
  <2>3. CopySound(queue)'
    BY <1>2, <1>5, Monotone DEF SessionSave
  <2>4. NoInventedSuccess'
    BY <1>1, <1>2, <1>5, <2>1, ClientSaveSound DEF SessionSave
  <2>5. QED
    BY <1>1, <1>2, <2>2, <2>3, <2>4, ClientStepSound
<1>6. ASSUME NEW plan \in Plans, IntakeRead(c, plan) PROVE SafetyInv'
  <2>1. client'[c] = [client[c] EXCEPT !.at = "decision", !.copy = queue, !.tasks = plan]
    BY <1>1, <1>6 DEF IntakeRead, TypeOK, ClientTypeOK
  <2>2. /\ client'[c].copy = queue /\ client'[c].at = "decision"
        /\ client'[c].state = client[c].state
    BY <1>1, <2>1 DEF ClientState
  <2>3. CopySound(client[c].copy)'
    BY <1>2, <2>2 DEF SafetyInv, CopySound, Cleared
  <2>4. ClientSound(c)'
    BY <1>1, <1>2, <2>2, <2>3 DEF ClientSound, SafetyInv
  <2>5. CopySound(queue)' /\ NoInventedSuccess'
    BY <1>2, <1>6, Monotone DEF IntakeRead, files
  <2>6. \A d \in Client : d # c => client'[d] = client[d]
    BY <1>6 DEF IntakeRead, TypeOK, ClientTypeOK
  <2>7. QED
    BY <1>1, <1>2, <2>4, <2>5, <2>6, ClientStepSound
<1>7. ASSUME IntakeWrite(c) PROVE SafetyInv'
  <2>1. client'[c] = [client[c] EXCEPT !.at = "plan", !.copy = NoTasks]
    BY <1>1, <1>7 DEF IntakeWrite, TypeOK, ClientTypeOK
  <2>2. /\ client'[c].copy = NoTasks /\ client'[c].at = "plan"
        /\ client'[c].state = client[c].state
    BY <1>1, <2>1 DEF ClientState
  <2>3. CopySound(client[c].copy)'
    BY <2>2 DEF CopySound, NoTasks, Absent
  <2>4. ClientSound(c)'
    BY <1>1, <1>2, <2>2, <2>3 DEF ClientSound, SafetyInv
  <2>5. CopySound(AppendTasks(client[c].copy, client[c].tasks))
    BY <1>1, SoundOperations DEF ClientState, SafetyInv, ClientSound
  <2>6. CopySound(queue)'
    BY <1>2, <1>7, <2>5 DEF IntakeWrite, CopySound, Cleared
  <2>7. NoInventedSuccess'
    BY <1>2, <1>7, Monotone DEF IntakeWrite
  <2>8. \A d \in Client : d # c => client'[d] = client[d]
    BY <1>7 DEF IntakeWrite, TypeOK, ClientTypeOK
  <2>9. QED
    BY <1>1, <1>2, <2>4, <2>6, <2>7, <2>8, ClientStepSound
<1>8. QED
  BY <1>3, <1>4, <1>5, <1>6, <1>7 DEF SubmitterStep

(* An approval records the grant before it writes the entry as pending. *)
LEMMA ApproverSound ==
    ASSUME TypeOK, SafetyInv, NEW c \in Approver, ApproverStep(c)
    PROVE  SafetyInv'
<1>1. c \in Client /\ client[c] \in ClientState
  BY DEF Client, TypeOK, ClientTypeOK
<1>2. Accumulates /\ UNCHANGED <<supVars, mem, finished>>
  BY DEF ApproverStep, ApproveRead, ApproveWrite, Accumulates, supVars, history
<1>3. ASSUME NEW t \in Task, ApproveRead(c, t) PROVE SafetyInv'
  <2>1. client'[c] = [IdleClient EXCEPT !.at = "apply", !.copy = queue, !.tasks = {t}]
    BY <1>1, <1>3 DEF ApproveRead, TypeOK, ClientTypeOK
  <2>2. /\ client'[c].copy = queue /\ client'[c].tasks = {t}
        /\ client'[c].state.completed = {}
    BY <2>1 DEF IdleClient, NoFile
  <2>3. CopySound(client[c].copy)'
    BY <1>2, <2>2 DEF SafetyInv, Accumulates, CopySound, Cleared
  <2>4. Gate[t] = "approval" /\ t \in approvals'
    BY <1>3 DEF ApproveRead, SafetyInv, CopySound
  <2>5. ClientSound(c)'
    BY <2>2, <2>3, <2>4 DEF ClientSound
  <2>6. CopySound(queue)' /\ NoInventedSuccess'
    BY <1>2, <1>3, Monotone DEF ApproveRead
  <2>7. \A d \in Client : d # c => client'[d] = client[d]
    BY <1>3 DEF ApproveRead, TypeOK, ClientTypeOK
  <2>8. QED
    BY <1>1, <1>2, <2>5, <2>6, <2>7, ClientStepSound
<1>4. ASSUME NEW t \in Task, ApproveWrite(c, t) PROVE SafetyInv'
  <2>1. ClientSound(c)' /\ \A d \in Client : d # c => client'[d] = client[d]
    BY <1>1, <1>2, <1>4, AdvanceSound DEF ApproveWrite, ClientSteps
  <2>2. Cleared(t)
    BY <1>1, <1>4 DEF ApproveWrite, SafetyInv, ClientSound, Cleared
  <2>3. CopySound(ApproveTask(client[c].copy, t))
    BY <1>1, <2>2, SoundOperations DEF ClientState, SafetyInv, ClientSound
  <2>4. CopySound(queue)'
    BY <1>2, <1>4, <2>3 DEF ApproveWrite, CopySound, Cleared
  <2>5. NoInventedSuccess'
    BY <1>2, <1>4, Monotone DEF ApproveWrite
  <2>6. QED
    BY <1>1, <1>2, <2>1, <2>4, <2>5, ClientStepSound
<1>5. QED
  BY <1>3, <1>4 DEF ApproverStep

(* A pause or resume saves the session state it loaded under the lock. *)
LEMMA ConsoleSound ==
    ASSUME TypeOK, SafetyInv, NEW c \in Console, ConsoleStep(c)
    PROVE  SafetyInv'
<1>1. c \in Client /\ client[c] \in ClientState
  BY DEF Client, TypeOK, ClientTypeOK
<1>2. Accumulates /\ UNCHANGED <<supVars, mem, finished, approvals, queue>>
  BY DEF ConsoleStep, SetPolling, SavePolling, Accumulates, supVars, history, files
<1>3. CopySound(queue)'
  BY <1>2, Monotone
<1>4. ASSUME NEW enabled \in BOOLEAN, SetPolling(c, enabled) PROVE SafetyInv'
  <2>1. client'[c] = [IdleClient EXCEPT !.at = "flag", !.session = sid, !.held = TRUE,
                                        !.state = disk[sid]]
    BY <1>1, <1>4 DEF SetPolling, TypeOK, ClientTypeOK
  <2>2. /\ client'[c].copy = NoTasks /\ client'[c].at = "flag"
        /\ client'[c].state = disk[sid]
    BY <2>1 DEF IdleClient
  <2>3. CopySound(client[c].copy)'
    BY <2>2 DEF CopySound, NoTasks, Absent
  <2>4. client'[c].state.completed \subseteq finished'
    BY <1>2, <1>4, <2>2 DEF SetPolling, TypeOK, RunTypeOK, SafetyInv, NoInventedSuccess
  <2>5. ClientSound(c)'
    BY <2>2, <2>3, <2>4 DEF ClientSound
  <2>6. NoInventedSuccess'
    BY <1>2, <1>4, Monotone DEF SetPolling, files
  <2>7. \A d \in Client : d # c => client'[d] = client[d]
    BY <1>4 DEF SetPolling, TypeOK, ClientTypeOK
  <2>8. QED
    BY <1>1, <1>2, <1>3, <2>5, <2>6, <2>7, ClientStepSound
<1>5. ASSUME SavePolling(c) PROVE SafetyInv'
  <2>1. client[c].session \in Session
    BY <1>1, <1>5 DEF SavePolling, TypeOK, ClientTypeOK
  <2>2. NoInventedSuccess'
    BY <1>1, <1>2, <1>5, <2>1, ClientSaveSound DEF SavePolling
  <2>3. ClientSound(c)' /\ \A d \in Client : d # c => client'[d] = client[d]
    BY <1>1, <1>2, <1>5, AdvanceSound DEF SavePolling, ClientSteps
  <2>4. QED
    BY <1>1, <1>2, <1>3, <2>2, <2>3, ClientStepSound
<1>6. QED
  BY <1>4, <1>5 DEF ConsoleStep

(* A stop request, the passing of time and a stutter touch nothing SafetyInv
   reads. *)
LEMMA SignalsSound ==
    TypeOK /\ SafetyInv /\ (RequestStop \/ Clock \/ UNCHANGED vars) => SafetyInv'
<1> SUFFICES ASSUME TypeOK, SafetyInv, RequestStop \/ Clock \/ UNCHANGED vars
             PROVE  SafetyInv'
  OBVIOUS
<1>1. UNCHANGED <<queue, disk, approvals, pc, sel, buf, verdict, mem, client, finished>>
  BY DEF RequestStop, Clock, vars, files, clients, history
<1>2. Accumulates
  BY <1>1 DEF Accumulates
<1>3. QED
  BY <1>1, <1>2, Monotone DEF SafetyInv

(* The seeded queue holds no task running or finished. *)
LEMMA InitSound == Init => SafetyInv
<1> SUFFICES ASSUME Init PROVE SafetyInv
  OBVIOUS
<1>1. CopySound(NoTasks) /\ NoTasks \in Queue /\ Seeded \in SUBSET Task
  BY EmptySound, EmptyValues, TaskAssumption
<1>2. CopySound(queue)
  BY <1>1, SoundOperations DEF Init
<1>3. CopySound(buf) /\ \A c \in Client : ClientSound(c)
  BY <1>1, EmptySound DEF Init
<1>4. InHandSound
  BY DEF Init, InHandSound, Holding
<1>5. NoInventedSuccess
  BY EmptySound DEF Init, NoInventedSuccess
<1>6. QED
  BY <1>2, <1>3, <1>4, <1>5 DEF SafetyInv

(* Every step keeps SafetyInv. *)
LEMMA StepSound == TypeOK /\ SafetyInv /\ [Next]_vars => SafetyInv'
<1> SUFFICES ASSUME TypeOK, SafetyInv, [Next]_vars PROVE SafetyInv'
  OBVIOUS
<1>1. CASE \E s \in Session, resume \in BOOLEAN : Start(s, resume)
  BY <1>1, StartSound
<1>2. CASE SupervisorStep
  BY <1>2, IterationSound, RecoverWriteSound, SelectSound, LoadsSound, QueueWritesSound,
     AgentSound, RecordSound, FinalizeSound DEF SupervisorStep
<1>3. CASE Crash
  BY <1>3, DiesSound DEF Crash
<1>4. CASE RequestStop \/ Clock \/ UNCHANGED vars
  BY <1>4, SignalsSound
<1>5. CASE \E c \in Submitter : SubmitterStep(c)
  BY <1>5, SubmitterSound
<1>6. CASE \E c \in Approver : ApproverStep(c)
  BY <1>6, ApproverSound
<1>7. CASE \E c \in Console : ConsoleStep(c)
  BY <1>7, ConsoleSound
<1>8. QED
  BY <1>1, <1>2, <1>3, <1>4, <1>5, <1>6, <1>7 DEF Next

(* In every reachable state each copy of the queue is sound: grants and
   finished tasks account for every status it shows. *)
THEOREM SafetyInvariant == Spec => []SafetyInv
<1>1. QED
  BY TypeCorrect, InitSound, StepSound, PTL DEF Spec

(* For any number of sessions, tasks, clients and crashes, the agent never
   runs a task that intake blocked, nor a gated task before its approval. *)
THEOREM AdmissionCorrect == Spec => []OnlyAdmittedRun
<1>1. SafetyInv => OnlyAdmittedRun
  BY DEF SafetyInv, InHandSound, Holding, Cleared, OnlyAdmittedRun
<1>2. QED
  BY <1>1, SafetyInvariant, PTL

(* For any number of sessions, tasks, clients and crashes, a task's
   dependencies have all been validated complete when its agent is called. *)
THEOREM DependencyOrderCorrect == Spec => []DependenciesFinished
<1>1. SafetyInv => DependenciesFinished
  BY DEF SafetyInv, InHandSound, Holding, DependenciesFinished
<1>2. QED
  BY <1>1, SafetyInvariant, PTL

(* For any number of sessions, tasks, clients and crashes, no session state
   reports a task completed that no validation completed. *)
THEOREM ReportedSuccessCorrect == Spec => []NoInventedSuccess
<1>1. SafetyInv => NoInventedSuccess
  BY DEF SafetyInv
<1>2. QED
  BY <1>1, SafetyInvariant, PTL

-----------------------------------------------------------------------------
(* The supervisor as the only writer of the queue, and the session states. *)
QueueAlone == Submitter = {} /\ Approver = {}

-----------------------------------------------------------------------------
(* The retry budget and the refinement rest on HandSound. *)

(* The steps of a console, a stop request, the passing of time and a stutter
   leave the queue and the task in hand alone. *)
LEMMA BesideRun ==
    ASSUME QueueAlone,
           RequestStop \/ Clock \/ UNCHANGED vars
             \/ (\E c \in Submitter : SubmitterStep(c))
             \/ (\E c \in Approver : ApproverStep(c))
             \/ (\E c \in Console : ConsoleStep(c))
    PROVE  UNCHANGED <<queue, pc, sid, mem, drained, sel, buf, verdict, reason, starts,
                       runs, lost, begun, finished>>
<1>1. CASE RequestStop \/ Clock \/ UNCHANGED vars
  BY <1>1 DEF RequestStop, Clock, vars, files, history
<1>2. CASE \E c \in Console : ConsoleStep(c)
  BY <1>2 DEF ConsoleStep, SetPolling, SavePolling, supVars, files, history
<1>3. QED
  BY <1>1, <1>2 DEF QueueAlone

(* A dying process leaves the queue as it is. *)
LEMMA DiesKeepsQueue == Dies => queue' = queue /\ HandSound'
BY DEF Dies, Ended, HandSound, files

(* A load of the queue for the task in hand. *)
LEMMA LoadForHand ==
    ASSUME NEW location \in {"startWrite", "settleWrite"}, NEW action,
           LoadFor(location, action),
           location = "startWrite" => Eligible(queue, sel),
           location = "settleWrite" =>
              IF action = "payload_missing" THEN Eligible(queue, sel)
              ELSE queue[sel].status = "running"
    PROVE  queue' = queue /\ HandSound'
<1>1. CASE Present(queue, sel)
  <2>1. buf' = queue /\ pc' = location /\ verdict' = action /\ queue' = queue /\ sel' = sel
    BY <1>1 DEF LoadFor, files
  <2>2. QED
    BY <2>1 DEF HandSound, Eligible
<1>2. CASE ~Present(queue, sel)
  BY <1>2, DiesKeepsQueue DEF LoadFor
<1>3. QED
  BY <1>1, <1>2

(* Every step keeps HandSound when run() is the queue's only writer. *)
LEMMA HandStep ==
    ASSUME QueueAlone, TypeOK, SafetyInv, HandSound, [Next]_vars
    PROVE  HandSound'
<1>1. CASE \E s \in Session, resume \in BOOLEAN : Start(s, resume)
  BY <1>1 DEF Start, HandSound, TypeOK, RunTypeOK
<1>2. CASE SupervisorStep
  <2>1. CASE RecoverLoad \/ RecoverWrite
    BY <2>1 DEF RecoverLoad, RecoverWrite, HandSound, files
  <2>2. CASE HeadStop \/ HeadIterate \/ Poll
    BY <2>2 DEF HeadStop, HeadIterate, Poll, HandSound, files
  <2>3. CASE \E t \in Task : Select(t)
    BY <2>3 DEF Select, HandSound, Eligible
  <2>4. CASE Idle
    BY <2>4 DEF Idle, HandSound
  <2>5. CASE Accept
    <3>1. Eligible(queue, sel)
      BY <2>5 DEF Accept, HandSound
    <3>2. QED
      BY <2>5, <3>1, LoadForHand DEF Accept
  <2>6. CASE StartWrite
    <3>1. queue' = MarkRunning(queue, sel, sid) /\ pc' = "begin" /\ sel' = sel
      BY <2>6 DEF StartWrite, HandSound
    <3>2. queue \in Queue /\ sel \in Task
      BY <2>6 DEF StartWrite, TypeOK, FilesTypeOK, RunTypeOK, Holding
    <3>3. queue'[sel].status = "running"
      BY <3>1, <3>2 DEF Queue, Entry, MarkRunning
    <3>4. QED
      BY <3>1, <3>3 DEF HandSound
  <2>7. CASE Begin \/ AgentCut
    BY <2>7 DEF Begin, AgentCut, HandSound
  <2>8. CASE AgentReturns
    BY <2>8 DEF AgentReturns, HandSound
  <2>9. CASE Settle
    <3>1. queue[sel].status = "running" /\ verdict # "payload_missing"
      BY <2>9 DEF Settle, HandSound
    <3>2. QED
      BY <2>9, <3>1, LoadForHand DEF Settle
  <2>10. CASE SettleWrite
    <3>1. queue' = Settled(queue, sel) /\ pc' = "record" /\ UNCHANGED <<sel, verdict>>
      BY <2>10 DEF SettleWrite, HandSound
    <3>2. queue \in Queue /\ sel \in Task
      BY <2>10 DEF SettleWrite, TypeOK, FilesTypeOK, RunTypeOK, Holding
    <3>3. /\ queue'[sel].status # "running"
          /\ verdict = "complete" => queue'[sel].status = "completed"
      BY <3>1, <3>2 DEF Queue, Entry, Settled, MarkCompleted, RequeueFailed, MarkBlocked
    <3>4. QED
      BY <3>1, <3>3 DEF HandSound
  <2>11. CASE Record \/ Finalize
    BY <2>11 DEF Record, Finalize, Ended, HandSound
  <2>12. QED
    BY <1>2, <2>1, <2>2, <2>3, <2>4, <2>5, <2>6, <2>7, <2>8, <2>9, <2>10, <2>11
       DEF SupervisorStep
<1>3. CASE Crash
  BY <1>3, DiesKeepsQueue DEF Crash
<1>4. CASE \/ RequestStop \/ Clock \/ UNCHANGED vars
           \/ \E c \in Submitter : SubmitterStep(c)
           \/ \E c \in Approver : ApproverStep(c)
           \/ \E c \in Console : ConsoleStep(c)
  BY <1>4, BesideRun DEF HandSound, Eligible
<1>5. QED
  BY <1>1, <1>2, <1>3, <1>4 DEF Next

(* While run() is the queue's only writer, the copy it writes back is current
   and the task in hand has the status its place in run() calls for. *)
THEOREM HandCorrect ==
    ASSUME QueueAlone
    PROVE  Spec => []HandSound
<1>1. Init => HandSound
  BY DEF Init, HandSound
<1>2. TypeOK /\ SafetyInv /\ HandSound /\ [Next]_vars => HandSound'
  BY HandStep
<1>3. QED
  BY <1>1, <1>2, TypeCorrect, SafetyInvariant, PTL DEF Spec

(* The four ways the queue may change when run() is its only writer. *)
LEMMA QueueMoves ==
    ASSUME QueueAlone, HandSound, [Next]_vars
    PROVE  \/ UNCHANGED queue
           \/ RecoverWrite /\ queue' = RecoverRunning(queue, sid)
           \/ StartWrite /\ queue' = MarkRunning(queue, sel, sid)
           \/ SettleWrite /\ queue' = Settled(queue, sel)
<1>1. CASE \E s \in Session, resume \in BOOLEAN : Start(s, resume)
  BY <1>1 DEF Start
<1>2. CASE SupervisorStep
  <2>1. CASE RecoverWrite \/ StartWrite \/ SettleWrite
    BY <2>1 DEF RecoverWrite, StartWrite, SettleWrite, HandSound
  <2>2. CASE Accept \/ Settle
    BY <2>2, DiesKeepsQueue DEF Accept, Settle, LoadFor, files
  <2>3. CASE \/ RecoverLoad \/ HeadStop \/ HeadIterate \/ Poll \/ Idle
             \/ \E t \in Task : Select(t)
    BY <2>3 DEF RecoverLoad, HeadStop, HeadIterate, Poll, Idle, Select, files
  <2>4. CASE Begin \/ AgentCut \/ AgentReturns \/ Record \/ Finalize
    BY <2>4 DEF Begin, AgentCut, AgentReturns, Record, Finalize
  <2>5. QED
    BY <1>2, <2>1, <2>2, <2>3, <2>4 DEF SupervisorStep
<1>3. CASE Crash
  BY <1>3, DiesKeepsQueue DEF Crash
<1>4. CASE \/ RequestStop \/ Clock \/ UNCHANGED vars
           \/ \E c \in Submitter : SubmitterStep(c)
           \/ \E c \in Approver : ApproverStep(c)
           \/ \E c \in Console : ConsoleStep(c)
  BY <1>4, BesideRun
<1>5. QED
  BY <1>1, <1>2, <1>3, <1>4 DEF Next

-----------------------------------------------------------------------------
(* A step that leaves the queue alone keeps the accounts when each new run is
   in flight or lost. *)
LEMMA AccountsKept ==
    ASSUME TypeOK, RetryAccounting, UNCHANGED queue,
           runs' \in [Task -> Nat], lost' \in [Task -> Nat],
           \A t \in Task :
              /\ runs'[t] + lost[t] + Charged(t) <= runs[t] + lost'[t] + Charged(t)'
              /\ lost[t] <= lost'[t]
              /\ runs'[t] <= runs[t] \/ queue[t].status = "running"
    PROVE  RetryAccounting'
<1> SUFFICES ASSUME NEW t \in Task
             PROVE  /\ queue[t].status \in {"pending", "running", "needs_approval"} =>
                          /\ queue[t].retries < MaxRetries
                          /\ runs'[t] <= queue[t].retries + lost'[t] + Charged(t)'
                    /\ queue[t].status \in {"completed", "blocked"} =>
                          runs'[t] <= MaxRetries + lost'[t]
                    /\ queue[t].status = "absent" => runs'[t] = 0
  BY DEF RetryAccounting
<1>1. /\ runs[t] \in Nat /\ lost[t] \in Nat /\ runs'[t] \in Nat /\ lost'[t] \in Nat
      /\ queue[t].retries \in Nat /\ MaxRetries \in Nat
  BY RetriesAssumption DEF TypeOK, FilesTypeOK, TallyTypeOK, Queue, Entry
<1>2. Charged(t) \in {0, 1} /\ Charged(t)' \in {0, 1}
  BY DEF Charged
<1>3. QED
  BY <1>1, <1>2 DEF RetryAccounting

(* Nothing is in flight after a crash, and what was is lost. *)
LEMMA DiesAccounts == TypeOK /\ RetryAccounting /\ Dies => RetryAccounting'
<1> SUFFICES ASSUME TypeOK, RetryAccounting, Dies PROVE RetryAccounting'
  OBVIOUS
<1>1. queue' = queue /\ runs' = runs /\ lost' \in [Task -> Nat] /\ runs' \in [Task -> Nat]
  BY DiesTyped DEF Dies, files, TypeOK, TallyTypeOK
<1>2. ASSUME NEW t \in Task
      PROVE  lost[t] + Charged(t) <= lost'[t] + Charged(t)' /\ lost[t] <= lost'[t]
  <2>1. Charged(t)' = 0
    BY DEF Dies, Ended, Charged, InFlight
  <2>2. lost'[t] = lost[t] + Charged(t) /\ lost[t] \in Nat
    BY DEF Dies, LoseRun, Charged, TypeOK, TallyTypeOK
  <2>3. Charged(t) \in {0, 1}
    BY DEF Charged
  <2>4. QED
    BY <2>1, <2>2, <2>3
<1>3. \A t \in Task : runs[t] \in Nat /\ lost[t] \in Nat /\ lost'[t] \in Nat
                       /\ Charged(t) \in {0, 1} /\ Charged(t)' \in {0, 1}
  BY <1>1 DEF TypeOK, TallyTypeOK, Charged
<1>4. \A t \in Task : runs'[t] + lost[t] + Charged(t) <= runs[t] + lost'[t] + Charged(t)'
  BY <1>1, <1>2, <1>3
<1>5. \A t \in Task : lost[t] <= lost'[t] /\ runs'[t] <= runs[t]
  BY <1>1, <1>2, <1>3
<1>6. QED
  BY <1>1, <1>4, <1>5, AccountsKept

(* A step that changes neither the tallies nor what is in flight. *)
LEMMA QuietAccounts ==
    ASSUME TypeOK, RetryAccounting, UNCHANGED <<queue, runs, lost>>,
           \A t \in Task : Charged(t)' = Charged(t)
    PROVE  RetryAccounting'
BY DEF RetryAccounting

(* The writes of the queue: a retry moves the run in flight to the retry
   count, which stays below the limit while the task may still be run. *)
LEMMA WritesAccounts ==
    ASSUME TypeOK, HandSound, RetryAccounting,
           \/ RecoverWrite /\ queue' = RecoverRunning(queue, sid)
           \/ StartWrite /\ queue' = MarkRunning(queue, sel, sid)
           \/ SettleWrite /\ queue' = Settled(queue, sel)
    PROVE  RetryAccounting'
<1>1. /\ queue \in Queue /\ runs \in [Task -> Nat] /\ lost \in [Task -> Nat]
      /\ UNCHANGED <<runs, lost>>
  BY DEF TypeOK, FilesTypeOK, TallyTypeOK, RecoverWrite, StartWrite, SettleWrite, history
<1>2. CASE RecoverWrite /\ queue' = RecoverRunning(queue, sid)
  <2>1. \A t \in Task : Charged(t) = 0 /\ Charged(t)' = 0
    BY <1>2 DEF RecoverWrite, Charged, InFlight
  <2>2. \A t \in Task :
           \/ queue'[t] = queue[t]
           \/ /\ queue[t].status = "running" /\ queue'[t].status = "pending"
              /\ queue'[t].retries = queue[t].retries
    BY <1>1, <1>2 DEF RecoverRunning, Interrupted, TasksIn, Queue, Entry
  <2>3. QED
    BY <1>1, <2>1, <2>2 DEF RetryAccounting
<1>3. CASE StartWrite /\ queue' = MarkRunning(queue, sel, sid)
  <2>1. \A t \in Task : Charged(t) = 0 /\ Charged(t)' = 0
    BY <1>3 DEF StartWrite, Charged, InFlight
  <2>2. \A t \in Task :
           \/ queue'[t] = queue[t]
           \/ /\ queue[t].status = "pending" /\ queue'[t].status = "running"
              /\ queue'[t].retries = queue[t].retries
    BY <1>1, <1>3 DEF StartWrite, HandSound, Eligible, MarkRunning, Queue, Entry
  <2>3. QED
    BY <1>1, <2>1, <2>2 DEF RetryAccounting
<1>4. CASE SettleWrite /\ queue' = Settled(queue, sel)
  <2>1. sel \in Task /\ pc = "settleWrite" /\ pc' = "record"
    BY <1>4 DEF SettleWrite, TypeOK, RunTypeOK, Holding
  <2>2. \A t \in Task : Charged(t)' = 0
    BY <2>1 DEF Charged, InFlight
  <2>3. ASSUME NEW t \in Task, t # sel
        PROVE  queue'[t] = queue[t] /\ Charged(t) = 0
    BY <1>1, <1>4, <2>1, <2>3
       DEF Settled, MarkCompleted, RequeueFailed, MarkBlocked, Queue, Entry, Charged
  <2>4. /\ queue[sel].status \in {"pending", "running"}
        /\ queue[sel].retries \in Nat /\ queue[sel].retries < MaxRetries
        /\ runs[sel] <= queue[sel].retries + lost[sel] + Charged(sel)
        /\ Charged(sel) \in {0, 1} /\ MaxRetries \in Nat
        /\ runs[sel] \in Nat /\ lost[sel] \in Nat
    BY <1>1, <2>1, RetriesAssumption
       DEF HandSound, Eligible, RetryAccounting, Queue, Entry, Charged
  <2>5. \/ queue'[sel].status \in {"completed", "blocked"}
        \/ /\ queue'[sel].status = "pending"
           /\ queue'[sel].retries = queue[sel].retries + 1
           /\ queue'[sel].retries < MaxRetries
    BY <1>1, <1>4, <2>1
       DEF Settled, MarkCompleted, RequeueFailed, MarkBlocked, Queue, Entry
  <2>6. ASSUME NEW t \in Task
        PROVE  /\ queue'[t].status \in {"pending", "running", "needs_approval"} =>
                     /\ queue'[t].retries < MaxRetries
                     /\ runs[t] <= queue'[t].retries + lost[t]
               /\ queue'[t].status \in {"completed", "blocked"} =>
                     runs[t] <= MaxRetries + lost[t]
               /\ queue'[t].status = "absent" => runs[t] = 0
    <3>1. CASE t = sel
      BY <2>4, <2>5, <3>1
    <3>2. CASE t # sel
      <4>1. queue'[t] = queue[t] /\ Charged(t) = 0
        BY <2>3, <3>2
      <4>2. queue[t].retries \in Nat /\ lost[t] \in Nat
        BY <1>1 DEF Queue, Entry
      <4>3. QED
        BY <4>1, <4>2 DEF RetryAccounting
    <3>3. QED
      BY <3>1, <3>2
  <2>7. ASSUME NEW t \in Task
        PROVE  queue'[t].retries + lost[t] + Charged(t)' = queue'[t].retries + lost[t]
    <3>1. queue'[t].retries \in Nat /\ lost[t] \in Nat
      BY <1>1, <2>1, <2>3, <2>4, <2>5, QueueOperations, <1>4
         DEF Settled, Queue, Entry
    <3>2. QED
      BY <2>2, <3>1
  <2>8. QED
    BY <1>1, <2>6, <2>7 DEF RetryAccounting
<1>5. QED
  BY <1>2, <1>3, <1>4

(* The agent is called: the new run is in flight. *)
LEMMA BeginAccounts ==
    ASSUME TypeOK, SafetyInv, HandSound, RetryAccounting, Begin
    PROVE  RetryAccounting'
<1>1. /\ sel \in Task /\ queue[sel].status = "running" /\ UNCHANGED <<queue, lost>>
      /\ runs' = [runs EXCEPT ![sel] = @ + 1]
  BY DEF Begin, HandSound, TypeOK, RunTypeOK, Holding
<1>2. /\ runs \in [Task -> Nat] /\ lost \in [Task -> Nat]
      /\ runs' \in [Task -> Nat] /\ lost' \in [Task -> Nat]
  BY <1>1 DEF TypeOK, TallyTypeOK
<1>3. \A t \in Task : Charged(t) = 0 /\ Charged(t)' = IF t = sel THEN 1 ELSE 0
  BY DEF Begin, Charged, InFlight, SafetyInv, InHandSound
<1>4. \A t \in Task : runs'[t] = IF t = sel THEN runs[t] + 1 ELSE runs[t]
  BY <1>1, <1>2
<1>5. ASSUME NEW t \in Task
      PROVE  /\ runs'[t] + lost[t] + Charged(t) <= runs[t] + lost'[t] + Charged(t)'
             /\ lost[t] <= lost'[t]
             /\ runs'[t] <= runs[t] \/ queue[t].status = "running"
  <2>1. runs[t] \in Nat /\ lost[t] \in Nat /\ lost'[t] = lost[t]
    BY <1>1, <1>2
  <2>2. QED
    BY <1>1, <1>3, <1>4, <2>1
<1>6. QED
  BY <1>1, <1>2, <1>5, AccountsKept

(* A stop cuts the run in flight: it is lost. *)
LEMMA CutAccounts ==
    ASSUME TypeOK, RetryAccounting, AgentCut
    PROVE  RetryAccounting'
<1>1. /\ UNCHANGED <<queue, runs>> /\ LoseRun /\ pc' = "final"
      /\ runs' \in [Task -> Nat] /\ lost' \in [Task -> Nat]
  BY LoseRunTyped DEF AgentCut, TypeOK, TallyTypeOK
<1>2. ASSUME NEW t \in Task
      PROVE  /\ runs'[t] + lost[t] + Charged(t) <= runs[t] + lost'[t] + Charged(t)'
             /\ lost[t] <= lost'[t]
             /\ runs'[t] <= runs[t]
  <2>1. Charged(t)' = 0 /\ Charged(t) \in {0, 1}
    BY <1>1 DEF Charged, InFlight
  <2>2. lost[t] \in Nat /\ runs[t] \in Nat /\ lost'[t] = lost[t] + Charged(t)
    BY <1>1 DEF LoseRun, Charged, TypeOK, TallyTypeOK
  <2>3. QED
    BY <1>1, <2>1, <2>2
<1>3. QED
  BY <1>1, <1>2, AccountsKept

(* Every step keeps the accounts. *)
LEMMA AccountsStep ==
    ASSUME QueueAlone, TypeOK, SafetyInv, HandSound, RetryAccounting, [Next]_vars
    PROVE  RetryAccounting'
<1>1. CASE \E s \in Session, resume \in BOOLEAN : Start(s, resume)
  <2>1. UNCHANGED <<queue, runs, lost>> /\ \A t \in Task : Charged(t)' = Charged(t)
    BY <1>1 DEF Start, Charged, InFlight
  <2>2. QED
    BY <2>1, QuietAccounts
<1>2. CASE SupervisorStep
  <2>1. CASE RecoverWrite \/ StartWrite \/ SettleWrite
    BY <2>1, WritesAccounts DEF RecoverWrite, StartWrite, SettleWrite, HandSound
  <2>2. CASE Begin \/ AgentCut
    BY <2>2, BeginAccounts, CutAccounts
  <2>3. CASE Accept \/ Settle
    <3>1. CASE Dies
      BY <3>1, DiesAccounts
    <3>2. CASE ~Dies
      <4>1. /\ UNCHANGED <<queue, runs, lost, sel>>
            /\ \/ pc = "accept" /\ pc' = "startWrite"
               \/ pc = "accept" /\ pc' = "settleWrite" /\ verdict' = "payload_missing"
               \/ pc = "settle" /\ pc' = "settleWrite" /\ verdict' = verdict
        BY <2>3, <3>2 DEF Accept, Settle, LoadFor, files, history
      <4>2. \A t \in Task : Charged(t)' = Charged(t)
        BY <4>1 DEF Charged, InFlight
      <4>3. QED
        BY <4>1, <4>2, QuietAccounts
    <3>3. QED
      BY <3>1, <3>2
  <2>4. CASE AgentReturns
    <3>1. /\ UNCHANGED <<queue, runs, lost, sel>> /\ pc = "agent" /\ pc' = "settle"
          /\ verdict = "none" /\ verdict' \in {"complete", "retry", "block"}
      BY <2>4 DEF AgentReturns, SafetyInv, InHandSound
    <3>2. \A t \in Task : Charged(t)' = Charged(t)
      BY <3>1 DEF Charged, InFlight
    <3>3. QED
      BY <3>1, <3>2, QuietAccounts
  <2>5. CASE \/ RecoverLoad \/ HeadStop \/ HeadIterate \/ Poll \/ Idle
             \/ Record \/ Finalize \/ \E t \in Task : Select(t)
    <3>1. /\ UNCHANGED <<queue, runs, lost>>
          /\ pc \notin {"agent", "settle", "settleWrite"}
          /\ pc' \notin {"agent", "settle", "settleWrite"}
      BY <2>5 DEF RecoverLoad, HeadStop, HeadIterate, Poll, Idle, Record, Finalize, Select,
                  Ended, files, history
    <3>2. \A t \in Task : Charged(t)' = Charged(t)
      BY <3>1 DEF Charged, InFlight
    <3>3. QED
      BY <3>1, <3>2, QuietAccounts
  <2>6. QED
    BY <1>2, <2>1, <2>2, <2>3, <2>4, <2>5 DEF SupervisorStep
<1>3. CASE Crash
  BY <1>3, DiesAccounts DEF Crash
<1>4. CASE \/ RequestStop \/ Clock \/ UNCHANGED vars
           \/ \E c \in Submitter : SubmitterStep(c)
           \/ \E c \in Approver : ApproverStep(c)
           \/ \E c \in Console : ConsoleStep(c)
  <2>1. UNCHANGED <<queue, runs, lost, pc, sel, verdict>>
    BY <1>4, BesideRun
  <2>2. \A t \in Task : Charged(t)' = Charged(t)
    BY <2>1 DEF Charged, InFlight
  <2>3. QED
    BY <2>1, <2>2, QuietAccounts
<1>5. QED
  BY <1>1, <1>2, <1>3, <1>4 DEF Next

(* Nothing has run at the start, and no seeded task has been retried. *)
LEMMA InitAccounts == Init => RetryAccounting
<1> SUFFICES ASSUME Init, NEW t \in Task
             PROVE  queue[t].retries = 0 /\ runs[t] = 0 /\ lost[t] = 0 /\ Charged(t) = 0
  BY RetriesAssumption DEF RetryAccounting
<1>1. queue[t].retries = 0
  BY DEF Init, AppendTasks, NoTasks, Absent
<1>2. QED
  BY <1>1 DEF Init, Charged, InFlight

(* For any number of sessions, crashes, stops and resumes of a supervisor that
   is the queue's only writer, a task is handed to the agent at most
   MaxRetries times, not counting runs cut before their result was written. *)
THEOREM RetryBudgetCorrect ==
    ASSUME QueueAlone
    PROVE  Spec => []RunsWithinRetryBudget
<1>1. TypeOK /\ SafetyInv /\ HandSound /\ RetryAccounting /\ [Next]_vars
        => RetryAccounting'
  BY AccountsStep
<1>2. TypeOK /\ HandSound /\ RetryAccounting => RunsWithinRetryBudget
  <2> SUFFICES ASSUME TypeOK, HandSound, RetryAccounting, NEW t \in Task
               PROVE  runs[t] <= MaxRetries + lost[t]
    BY DEF RunsWithinRetryBudget
  <2>1. /\ queue[t].retries \in Nat /\ runs[t] \in Nat /\ lost[t] \in Nat
        /\ queue[t].status \in Statuses /\ MaxRetries \in Nat /\ Charged(t) \in {0, 1}
    BY RetriesAssumption DEF TypeOK, FilesTypeOK, TallyTypeOK, Queue, Entry, Charged
  <2>2. QED
    BY <2>1 DEF RetryAccounting, Statuses
<1>3. QED
  BY <1>1, <1>2, InitAccounts, TypeCorrect, SafetyInvariant, HandCorrect, PTL DEF Spec

-----------------------------------------------------------------------------
(* The refinement of TaskLedger by the queue. *)
LedgerPhases == [t \in Task |-> LedgerPhase(queue[t].status)]
LedgerTries  == [t \in Task |-> queue[t].retries]

(* The seeded queue is a state the ledger may start in. *)
LEMMA LedgerInitially == Init => Ledger!LedgerInit
<1> SUFFICES ASSUME Init PROVE Ledger!LedgerInit
  OBVIOUS
<1>1. ASSUME NEW t \in Task
      PROVE  /\ LedgerPhase(queue[t].status) \in {"absent", "open", "failed"}
             /\ queue[t].retries = 0
  BY GateAssumption DEF Init, AppendTasks, NoTasks, Absent, Present, IntakeStatus, LedgerPhase
<1>2. QED
  BY <1>1 DEF Ledger!LedgerInit

(* A write that changes one entry is a move of that task in the ledger. *)
LEMMA OneMove ==
    ASSUME queue \in Queue, queue' \in Queue, NEW t \in Task,
           \A u \in Task : u # t => queue'[u] = queue[u],
           NEW from, NEW to,
           LedgerPhase(queue[t].status) = from, LedgerPhase(queue'[t].status) = to
    PROVE  Ledger!Move(t, from, to)
<1>1. LedgerPhases[t] = from
  BY DEF LedgerPhases
<1>2. LedgerPhases' = [LedgerPhases EXCEPT ![t] = to]
  BY DEF LedgerPhases
<1>3. QED
  BY <1>1, <1>2 DEF Ledger!Move, LedgerPhases

(* A write that keeps every retry count leaves the ledger's tries alone. *)
LEMMA SameTries ==
    ASSUME \A u \in Task : queue'[u].retries = queue[u].retries
    PROVE  LedgerTries' = LedgerTries
BY DEF LedgerTries

(* run() starts the task in hand: a claim, since it is eligible. *)
LEMMA StartClaims ==
    ASSUME TypeOK, HandSound, StartWrite
    PROVE  Ledger!Claim(sel)
<1>1. /\ queue \in Queue /\ sel \in Task /\ sid \in Session /\ Eligible(queue, sel)
      /\ queue' = MarkRunning(queue, sel, sid)
  BY DEF StartWrite, HandSound, TypeOK, FilesTypeOK, RunTypeOK, Holding
<1>2. queue' \in Queue
  BY <1>1, QueueOperations
<1>3. /\ \A u \in Task : u # sel => queue'[u] = queue[u]
      /\ queue[sel].status = "pending" /\ queue'[sel].status = "running"
      /\ \A u \in Task : queue'[u].retries = queue[u].retries
  BY <1>1 DEF MarkRunning, Eligible, Queue, Entry
<1>4. Ledger!Move(sel, "open", "active")
  BY <1>1, <1>2, <1>3, OneMove DEF LedgerPhase
<1>5. \A d \in Deps[sel] : LedgerPhases[d] = "done"
  BY <1>1, DepsAssumption DEF Eligible, LedgerPhases, LedgerPhase
<1>6. LedgerTries' = LedgerTries
  BY <1>3, SameTries
<1>7. QED
  BY <1>4, <1>5, <1>6 DEF Ledger!Claim, LedgerPhases, LedgerTries

(* A resumed session opens the claims its queue entries still hold. *)
LEMMA RecoverReclaims ==
    ASSUME TypeOK, HandSound, RecoverWrite
    PROVE  Ledger!Reclaim(Interrupted(queue, sid))
<1>1. queue \in Queue /\ queue' = RecoverRunning(queue, sid)
  BY DEF RecoverWrite, HandSound, TypeOK, FilesTypeOK
<1> DEFINE S == Interrupted(queue, sid)
<1>2. /\ \A t \in S : t \in Task /\ queue[t].status = "running"
      /\ \A t \in Task : t \in S => queue'[t].status = "pending"
      /\ \A t \in Task : t \notin S => queue'[t] = queue[t]
      /\ \A t \in Task : queue'[t].retries = queue[t].retries
  BY <1>1 DEF RecoverRunning, Interrupted, TasksIn, Queue, Entry
<1>3. \A t \in S : LedgerPhases[t] = "active"
  BY <1>2 DEF LedgerPhases, LedgerPhase
<1>4. LedgerPhases' = [t \in Task |-> IF t \in S THEN "open" ELSE LedgerPhases[t]]
  BY <1>2 DEF LedgerPhases, LedgerPhase
<1>5. LedgerTries' = LedgerTries
  BY <1>2, SameTries
<1>6. QED
  BY <1>3, <1>4, <1>5 DEF Ledger!Reclaim, LedgerPhases, LedgerTries

(* A result finishes, retries or fails the claimed task; a task whose payload
   has gone is refused. *)
LEMMA SettleMoves ==
    ASSUME TypeOK, HandSound, RetryAccounting, SettleWrite
    PROVE  \/ Ledger!Finish(sel) \/ Ledger!Refuse(sel) \/ Ledger!GiveUp(sel)
           \/ Ledger!Retry(sel) \/ Ledger!Exhaust(sel)
<1>1. /\ queue \in Queue /\ sel \in Task /\ queue' = Settled(queue, sel)
      /\ IF verdict = "payload_missing" THEN queue[sel].status = "pending"
         ELSE queue[sel].status = "running"
  BY DEF SettleWrite, HandSound, Eligible, TypeOK, FilesTypeOK, RunTypeOK, Holding
<1>2. queue' \in Queue
  BY <1>1, QueueOperations DEF Settled
<1>3. \A u \in Task : u # sel => queue'[u] = queue[u]
  BY <1>1 DEF Settled, MarkCompleted, RequeueFailed, MarkBlocked, Queue, Entry
<1>4. /\ queue[sel].retries \in Nat /\ queue[sel].retries < MaxRetries
      /\ MaxRetries \in Nat
  BY <1>1, RetriesAssumption DEF RetryAccounting, Queue, Entry
<1>5. CASE verdict = "retry"
  <2>1. /\ queue[sel].status = "running"
        /\ queue'[sel].retries = queue[sel].retries + 1
        /\ queue'[sel].status = IF queue[sel].retries + 1 < MaxRetries THEN "pending"
                                                                        ELSE "blocked"
    BY <1>1, <1>5 DEF Settled, RequeueFailed, Queue, Entry
  <2>2. LedgerTries' = [LedgerTries EXCEPT ![sel] = @ + 1]
    BY <1>1, <1>3, <2>1 DEF LedgerTries
  <2>3. CASE queue[sel].retries + 1 < MaxRetries
    <3>1. Ledger!Move(sel, "active", "open")
      BY <1>1, <1>2, <1>3, <2>1, <2>3, OneMove DEF LedgerPhase
    <3>2. LedgerTries[sel] + 1 < MaxRetries
      BY <1>1, <2>3 DEF LedgerTries
    <3>3. Ledger!Retry(sel)
      BY <2>2, <3>1, <3>2 DEF Ledger!Retry, LedgerTries
    <3>4. QED
      BY <3>3
  <2>4. CASE ~(queue[sel].retries + 1 < MaxRetries)
    <3>1. Ledger!Move(sel, "active", "failed")
      BY <1>1, <1>2, <1>3, <2>1, <2>4, OneMove DEF LedgerPhase
    <3>2. LedgerTries[sel] + 1 = MaxRetries
      BY <1>1, <1>4, <2>4 DEF LedgerTries
    <3>3. Ledger!Exhaust(sel)
      BY <2>2, <3>1, <3>2 DEF Ledger!Exhaust, LedgerTries
    <3>4. QED
      BY <3>3
  <2>5. QED
    BY <2>3, <2>4
<1>6. CASE verdict # "retry"
  <2>1. /\ queue'[sel].status = IF verdict = "complete" THEN "completed" ELSE "blocked"
        /\ \A u \in Task : queue'[u].retries = queue[u].retries
    BY <1>1, <1>6 DEF Settled, MarkCompleted, MarkBlocked, Queue, Entry
  <2>2. LedgerTries' = LedgerTries
    BY <2>1, SameTries
  <2>3. CASE verdict = "complete"
    <3>1. Ledger!Move(sel, "active", "done")
      BY <1>1, <1>2, <1>3, <2>1, <2>3, OneMove DEF LedgerPhase
    <3>2. QED
      BY <2>2, <3>1 DEF Ledger!Finish, LedgerTries
  <2>4. CASE verdict = "payload_missing"
    <3>1. Ledger!Move(sel, "open", "failed")
      BY <1>1, <1>2, <1>3, <2>1, <2>4, OneMove DEF LedgerPhase
    <3>2. QED
      BY <2>2, <3>1 DEF Ledger!Refuse, LedgerTries
  <2>5. CASE verdict \notin {"complete", "payload_missing"}
    <3>1. Ledger!Move(sel, "active", "failed")
      BY <1>1, <1>2, <1>3, <2>1, <2>5, OneMove DEF LedgerPhase
    <3>2. QED
      BY <2>2, <3>1 DEF Ledger!GiveUp, LedgerTries
  <2>6. QED
    BY <2>3, <2>4, <2>5
<1>7. QED
  BY <1>5, <1>6

(* Every step of the system is a step of the ledger or leaves it alone. *)
LEMMA LedgerSteps ==
    ASSUME QueueAlone, TypeOK, HandSound, RetryAccounting, [Next]_vars
    PROVE  [Ledger!LedgerNext]_(Ledger!ledger)
<1>1. CASE UNCHANGED queue
  <2>1. UNCHANGED Ledger!ledger
    BY <1>1 DEF Ledger!ledger, LedgerPhases, LedgerTries
  <2>2. QED
    BY <2>1
<1>2. CASE RecoverWrite
  <2>1. Interrupted(queue, sid) \in SUBSET Task
    BY DEF Interrupted, TasksIn
  <2>2. QED
    BY <1>2, <2>1, RecoverReclaims DEF Ledger!LedgerNext
<1>3. CASE StartWrite
  <2>1. sel \in Task
    BY <1>3 DEF StartWrite, TypeOK, RunTypeOK, Holding
  <2>2. QED
    BY <1>3, <2>1, StartClaims DEF Ledger!LedgerNext
<1>4. CASE SettleWrite
  <2>1. sel \in Task
    BY <1>4 DEF SettleWrite, TypeOK, RunTypeOK, Holding
  <2>2. \/ Ledger!Finish(sel) \/ Ledger!Refuse(sel) \/ Ledger!GiveUp(sel)
        \/ Ledger!Retry(sel) \/ Ledger!Exhaust(sel)
    BY <1>4, SettleMoves
  <2>3. CASE Ledger!Finish(sel) \/ Ledger!Refuse(sel) \/ Ledger!GiveUp(sel)
    BY <2>1, <2>3 DEF Ledger!LedgerNext
  <2>4. CASE Ledger!Retry(sel)
    BY <2>1, <2>4 DEF Ledger!LedgerNext, Ledger!Retry
  <2>5. CASE Ledger!Exhaust(sel)
    BY <2>1, <2>5 DEF Ledger!LedgerNext, Ledger!Exhaust
  <2>6. QED
    BY <2>2, <2>3, <2>4, <2>5
<1>5. QED
  BY <1>1, <1>2, <1>3, <1>4, QueueMoves

(* A supervisor that is the queue's only writer implements the task ledger,
   for any tasks, sessions, crashes, stops and resumes. *)
THEOREM LedgerImplemented ==
    ASSUME QueueAlone
    PROVE  Spec => ImplementsLedger
<1>1. TypeOK /\ HandSound /\ RetryAccounting /\ [Next]_vars
        => [Ledger!LedgerNext]_(Ledger!ledger)
  BY LedgerSteps
<1>2. Spec => []RetryAccounting
  <2>1. TypeOK /\ SafetyInv /\ HandSound /\ RetryAccounting /\ [Next]_vars
          => RetryAccounting'
    BY AccountsStep
  <2>2. QED
    BY <2>1, InitAccounts, TypeCorrect, SafetyInvariant, HandCorrect, PTL DEF Spec
<1>3. QED
  BY <1>1, <1>2, LedgerInitially, TypeCorrect, HandCorrect, PTL
     DEF Spec, ImplementsLedger, Ledger!LedgerSpec

(* What the ledger guarantees to whatever implements it: done is for ever, and a
   task becomes active or done only when its dependencies are done. *)
Built(p) ==
    /\ p \in [Task -> Ledger!Phases]
    /\ \A t \in Task : p[t] \in {"active", "done"} => \A d \in Deps[t] : p[d] = "done"

LEMMA MoveKeepsBuilt ==
    ASSUME NEW p, Built(p), NEW t \in Task, NEW to \in Ledger!Phases, p[t] # "done",
           to \in {"active", "done"} => \A d \in Deps[t] : p[d] = "done"
    PROVE  Built([p EXCEPT ![t] = to])
<1> DEFINE q == [p EXCEPT ![t] = to]
<1>1. q \in [Task -> Ledger!Phases] /\ q[t] = to /\ \A u \in Task \ {t} : q[u] = p[u]
  BY DEF Built
<1>2. \A d \in Task : p[d] = "done" => q[d] = "done"
  BY <1>1
<1>3. Deps \in [Task -> SUBSET Task]
  BY DepsAssumption
<1>4. QED
  BY <1>1, <1>2, <1>3 DEF Built

LEMMA LedgerStep ==
    ASSUME Built(LedgerPhases), [Ledger!LedgerNext]_(Ledger!ledger)
    PROVE  Built(LedgerPhases)'
<1>1. ASSUME NEW t \in Task, NEW from, NEW to, Ledger!Move(t, from, to)
      PROVE  LedgerPhases[t] = from /\ LedgerPhases' = [LedgerPhases EXCEPT ![t] = to]
  BY <1>1 DEF Ledger!Move, LedgerPhases
<1>2. ASSUME NEW t \in Task, NEW from, NEW to \in Ledger!Phases, Ledger!Move(t, from, to),
             from # "done",
             to \in {"active", "done"} => \A d \in Deps[t] : LedgerPhases[d] = "done"
      PROVE  Built(LedgerPhases)'
  <2>1. Built([LedgerPhases EXCEPT ![t] = to])
    BY <1>1, <1>2, MoveKeepsBuilt
  <2>2. QED
    BY <1>1, <1>2, <2>1 DEF Built
<1>3. ASSUME NEW t \in Task, Ledger!Claim(t) PROVE Built(LedgerPhases)'
  <2>1. Ledger!Move(t, "open", "active") /\ \A d \in Deps[t] : LedgerPhases[d] = "done"
    BY <1>3 DEF Ledger!Claim, LedgerPhases
  <2>2. QED
    BY <1>2, <2>1 DEF Ledger!Phases
<1>4. ASSUME NEW t \in Task, Ledger!Finish(t) PROVE Built(LedgerPhases)'
  <2>1. Ledger!Move(t, "active", "done") /\ LedgerPhases[t] = "active"
    BY <1>1, <1>4 DEF Ledger!Finish
  <2>2. QED
    BY <1>2, <2>1 DEF Ledger!Phases, Built
<1>5. ASSUME NEW t \in Task,
             \/ Ledger!Refuse(t) \/ Ledger!GiveUp(t) \/ Ledger!Retry(t) \/ Ledger!Exhaust(t)
      PROVE Built(LedgerPhases)'
  <2>1. PICK from \in {"open", "active"}, to \in {"open", "failed"} : Ledger!Move(t, from, to)
    BY <1>5 DEF Ledger!Refuse, Ledger!GiveUp, Ledger!Retry, Ledger!Exhaust
  <2>2. QED
    BY <1>2, <2>1 DEF Ledger!Phases
<1>6. ASSUME NEW S \in SUBSET Task, Ledger!Reclaim(S) PROVE Built(LedgerPhases)'
  <2>1. /\ \A t \in S : LedgerPhases[t] = "active"
        /\ LedgerPhases' = [t \in Task |-> IF t \in S THEN "open" ELSE LedgerPhases[t]]
    BY <1>6 DEF Ledger!Reclaim, LedgerPhases
  <2>2. QED
    BY <2>1, DepsAssumption DEF Built, Ledger!Phases
<1>7. CASE UNCHANGED Ledger!ledger
  BY <1>7 DEF Ledger!ledger, LedgerPhases, Built
<1>8. QED
  BY <1>3, <1>4, <1>5, <1>6, <1>7 DEF Ledger!LedgerNext

(* The queue of a supervisor that is its only writer shows a task running or
   completed only on top of completed dependencies, whatever is retried or
   reclaimed: what the ledger guarantees reaches the file. *)
THEOREM QueueBuiltOnDone ==
    ASSUME QueueAlone
    PROVE  Spec => []Ledger!BuiltOnDone
<1>1. Ledger!LedgerInit => Built(LedgerPhases)
  BY DEF Ledger!LedgerInit, LedgerPhases, Built, Ledger!Phases
<1>2. Built(LedgerPhases) /\ [Ledger!LedgerNext]_(Ledger!ledger) => Built(LedgerPhases)'
  BY LedgerStep
<1>3. Built(LedgerPhases) => Ledger!BuiltOnDone
  BY DEF LedgerPhases, Built, Ledger!BuiltOnDone
<1>4. QED
  BY <1>1, <1>2, <1>3, LedgerImplemented, PTL DEF ImplementsLedger, Ledger!LedgerSpec

-----------------------------------------------------------------------------
(* Resumed sessions and the reasons run() leaves its loop. *)

(* Only RecoverLoad and Select leave the recovery of a resumed session and
   the choice of a task; every other step of run() that leaves the queue
   alone keeps a reclaimed queue reclaimed. *)
LEMMA ReclaimStep ==
    ASSUME QueueAlone, TypeOK, HandSound, ReclaimOnResume, [Next]_vars
    PROVE  ReclaimOnResume'
<1>1. queue \in Queue /\ NoTask \notin Task /\ Interrupted(queue, sid) \subseteq Task
  BY TaskAssumption DEF TypeOK, FilesTypeOK, Interrupted, TasksIn
<1>2. CASE \E s \in Session, resume \in BOOLEAN : Start(s, resume)
  BY <1>2 DEF Start, ReclaimOnResume, FreshState, NoFile
<1>3. CASE SupervisorStep
  <2>1. CASE RecoverLoad
    BY <2>1 DEF RecoverLoad, ReclaimOnResume, files
  <2>2. CASE RecoverWrite
    <3>1. queue' = RecoverRunning(queue, sid) /\ sid' = sid
      BY <2>2 DEF RecoverWrite, HandSound
    <3>2. Interrupted(queue', sid) = {}
      BY <1>1, <3>1, SessionAssumption, <2>2
         DEF RecoverRunning, Interrupted, TasksIn, Queue, Entry
    <3>3. QED
      BY <3>1, <3>2 DEF ReclaimOnResume
  <2>3. CASE HeadStop \/ HeadIterate \/ Poll \/ Idle
    BY <2>3 DEF HeadStop, HeadIterate, Poll, Idle, Save, ReclaimOnResume, files
  <2>4. CASE \E t \in Task : Select(t)
    BY <1>1, <2>4 DEF Select, Save, HandSound, ReclaimOnResume
  <2>5. CASE Accept \/ Settle
    BY <2>5 DEF Accept, Settle, LoadFor, Dies, Ended, ReclaimOnResume, files
  <2>6. CASE StartWrite
    <3>1. queue' = MarkRunning(queue, sel, sid) /\ UNCHANGED <<sel, sid, mem>>
      BY <2>6 DEF StartWrite, HandSound
    <3>2. Interrupted(queue', sid) \subseteq Interrupted(queue, sid) \cup {sel}
      BY <1>1, <3>1 DEF MarkRunning, Interrupted, TasksIn, Queue
    <3>3. pc = "startWrite"
      BY <2>6 DEF StartWrite
    <3>4. QED
      BY <3>1, <3>2, <3>3 DEF ReclaimOnResume
  <2>7. CASE Begin \/ AgentCut \/ AgentReturns
    <3>1. /\ UNCHANGED <<queue, sid, sel>> /\ mem'.resumed = mem.resumed
          /\ pc \in {"begin", "agent"}
      BY <2>7 DEF Begin, AgentCut, AgentReturns, Save, TypeOK, RunTypeOK, SessionState
    <3>2. QED
      BY <3>1 DEF ReclaimOnResume
  <2>8. CASE SettleWrite
    <3>1. /\ queue' = Settled(queue, sel) /\ UNCHANGED <<sel, sid, mem>>
          /\ sel \in Task /\ pc = "settleWrite"
      BY <2>8 DEF SettleWrite, HandSound, TypeOK, RunTypeOK, Holding
    <3>2. Interrupted(queue', sid) \subseteq Interrupted(queue, sid)
      <4>1. \A t \in Task : \/ queue'[t] = queue[t]
                            \/ queue'[t].status # "running"
        BY <1>1, <3>1 DEF Settled, MarkCompleted, RequeueFailed, MarkBlocked, Queue, Entry
      <4>2. QED
        BY <4>1 DEF Interrupted, TasksIn
    <3>3. QED
      BY <3>1, <3>2 DEF ReclaimOnResume
  <2>9. CASE Record
    <3>1. /\ UNCHANGED <<queue, sid>> /\ mem'.resumed = mem.resumed
          /\ sel \in Task /\ pc = "record"
      BY <2>9 DEF Record, Recorded, Save, TypeOK, RunTypeOK, SessionState, Holding
    <3>2. sel \notin Interrupted(queue, sid)
      BY <3>1 DEF HandSound, Interrupted, TasksIn
    <3>3. QED
      BY <3>1, <3>2 DEF ReclaimOnResume
  <2>10. CASE Finalize
    BY <2>10 DEF Finalize, Ended, ReclaimOnResume
  <2>11. QED
    BY <1>3, <2>1, <2>2, <2>3, <2>4, <2>5, <2>6, <2>7, <2>8, <2>9, <2>10
       DEF SupervisorStep
<1>4. CASE Crash
  BY <1>4 DEF Crash, Dies, Ended, ReclaimOnResume
<1>5. CASE \/ RequestStop \/ Clock \/ UNCHANGED vars
           \/ \E c \in Submitter : SubmitterStep(c)
           \/ \E c \in Approver : ApproverStep(c)
           \/ \E c \in Console : ConsoleStep(c)
  BY <1>5, BesideRun DEF ReclaimOnResume
<1>6. QED
  BY <1>2, <1>3, <1>4, <1>5 DEF Next

(* A resumed session strands no claim of the process before it: past its
   recovery every task running under it is the one in hand. *)
THEOREM ReclaimCorrect ==
    ASSUME QueueAlone
    PROVE  Spec => []ReclaimOnResume
<1>1. Init => ReclaimOnResume
  BY DEF Init, ReclaimOnResume
<1>2. TypeOK /\ HandSound /\ ReclaimOnResume /\ [Next]_vars => ReclaimOnResume'
  BY ReclaimStep
<1>3. QED
  BY <1>1, <1>2, TypeCorrect, HandCorrect, PTL DEF Spec

(* What the head of the loop counted still holds when the iteration turns out
   idle, and nothing writes the queue once run() has left its loop. *)
LEMMA ClosingStep ==
    ASSUME QueueAlone, HandSound, DrainedSound, ClosingReasonHolds, [Next]_vars
    PROVE  DrainedSound' /\ ClosingReasonHolds'
<1>1. CASE \E s \in Session, resume \in BOOLEAN : Start(s, resume)
  BY <1>1 DEF Start, DrainedSound, ClosingReasonHolds
<1>2. CASE SupervisorStep
  <2>1. CASE RecoverLoad \/ RecoverWrite
    BY <2>1 DEF RecoverLoad, RecoverWrite, DrainedSound, ClosingReasonHolds
  <2>2. CASE HeadStop
    BY <2>2 DEF HeadStop, StopReason, DrainedSound, ClosingReasonHolds
  <2>3. CASE HeadIterate \/ Poll
    BY <2>3 DEF HeadIterate, Poll, DrainedSound, ClosingReasonHolds
  <2>4. CASE \E t \in Task : Select(t)
    BY <2>4 DEF Select, DrainedSound, ClosingReasonHolds
  <2>5. CASE Idle
    BY <2>5 DEF Idle, DrainedSound, ClosingReasonHolds
  <2>6. CASE Accept \/ Settle
    BY <2>6 DEF Accept, Settle, LoadFor, Dies, Ended, DrainedSound, ClosingReasonHolds
  <2>7. CASE StartWrite \/ Begin \/ AgentCut \/ AgentReturns \/ SettleWrite
    BY <2>7 DEF StartWrite, Begin, AgentCut, AgentReturns, SettleWrite,
                DrainedSound, ClosingReasonHolds
  <2>8. CASE Record \/ Finalize
    BY <2>8 DEF Record, Finalize, Ended, DrainedSound, ClosingReasonHolds
  <2>9. QED
    BY <1>2, <2>1, <2>2, <2>3, <2>4, <2>5, <2>6, <2>7, <2>8 DEF SupervisorStep
<1>3. CASE Crash
  BY <1>3 DEF Crash, Dies, Ended, DrainedSound, ClosingReasonHolds
<1>4. CASE \/ RequestStop \/ Clock \/ UNCHANGED vars
           \/ \E c \in Submitter : SubmitterStep(c)
           \/ \E c \in Approver : ApproverStep(c)
           \/ \E c \in Console : ConsoleStep(c)
  BY <1>4, BesideRun DEF DrainedSound, ClosingReasonHolds
<1>5. QED
  BY <1>1, <1>2, <1>3, <1>4 DEF Next

(* The reason run() gives for leaving its loop is true of the queue it
   leaves. *)
THEOREM ClosingReasonCorrect ==
    ASSUME QueueAlone
    PROVE  Spec => []ClosingReasonHolds
<1>1. Init => DrainedSound /\ ClosingReasonHolds
  BY DEF Init, DrainedSound, ClosingReasonHolds
<1>2. HandSound /\ DrainedSound /\ ClosingReasonHolds /\ [Next]_vars
        => DrainedSound' /\ ClosingReasonHolds'
  BY ClosingStep
<1>3. QED
  BY <1>1, <1>2, HandCorrect, PTL DEF Spec
-----------------------------------------------------------------------------
(* The session states: what each process reports, counts and carries from  *)
(* one resume to the next. The failure streak is about any number of       *)
(* clients; the reported results and the budget about a supervisor alone.  *)

ClientMoves == \/ \E c \in Submitter : SubmitterStep(c)
               \/ \E c \in Approver : ApproverStep(c)
               \/ \E c \in Console : ConsoleStep(c)

-----------------------------------------------------------------------------
(* Clients only move session states around: each one they hold or save was on
   disk before, or is the one of a session that has no file. *)
LEMMA ClientStates ==
    ASSUME TypeOK, ClientMoves
    PROVE  /\ UNCHANGED <<pc, sid, mem, starts, begun, finished>>
           /\ \A s \in Session : \/ disk'[s] = disk[s]
                                 \/ \E c \in Client : disk'[s] = client[c].state
           /\ \A c \in Client : \/ client'[c].state = client[c].state
                                \/ client'[c].state = NoFile
                                \/ \E s \in Session : client'[c].state = disk[s]
<1> DEFINE Goal == /\ UNCHANGED <<pc, sid, mem, starts, begun, finished>>
                   /\ \A s \in Session : \/ disk'[s] = disk[s]
                                         \/ \E c \in Client : disk'[s] = client[c].state
                   /\ \A c \in Client : \/ client'[c].state = client[c].state
                                        \/ client'[c].state = NoFile
                                        \/ \E s \in Session : client'[c].state = disk[s]
<1>1. /\ disk \in [Session -> SessionState] /\ client \in [Client -> ClientState]
      /\ \A c \in Client : client[c].at \notin {"idle", "apply"} => client[c].session \in Session
      /\ pc # "down" => sid \in Session
  BY DEF TypeOK, FilesTypeOK, RunTypeOK, ClientTypeOK
<1>2. ASSUME NEW c \in Client, NEW at, Advance(c, at),
             UNCHANGED supVars,
             disk' = disk \/ disk' = [disk EXCEPT ![client[c].session] = client[c].state]
      PROVE  Goal
  <2>1. \A d \in Client : client'[d].state = client[d].state \/ client'[d].state = NoFile
    BY <1>1, <1>2 DEF Advance, IdleClient, ClientState
  <2>2. \A s \in Session : disk'[s] = disk[s] \/ disk'[s] = client[c].state
    BY <1>1, <1>2
  <2>3. QED
    BY <1>2, <2>1, <2>2 DEF supVars, history
<1>3. ASSUME NEW c \in Client, NEW v, UNCHANGED supVars, UNCHANGED disk,
             client' = [client EXCEPT ![c] = v],
             \/ v.state = client[c].state \/ v.state = NoFile
             \/ \E s \in Session : v.state = disk[s]
      PROVE  Goal
  <2>1. \A d \in Client : client'[d] = IF d = c THEN v ELSE client[d]
    BY <1>1, <1>3
  <2>2. QED
    BY <1>3, <2>1 DEF supVars, history
<1>4. ASSUME NEW c \in Submitter, SubmitterStep(c) PROVE Goal
  <2>1. c \in Client /\ client[c] \in ClientState
    BY <1>1 DEF Client
  <2>2. CASE \E s \in Session : AcceptMessage(c, s)
    <3>1. PICK s \in Session : AcceptMessage(c, s)
      BY <2>2
    <3>2. [IdleClient EXCEPT !.at = "intake", !.session = s].state = NoFile
      BY DEF IdleClient
    <3>3. QED
      BY <1>3, <2>1, <3>1, <3>2 DEF AcceptMessage, files
  <2>3. CASE SessionLoad(c)
    <3>1. CASE disk[client[c].session].status = "none"
      BY <1>2, <2>1, <2>3, <3>1 DEF SessionLoad, files
    <3>2. CASE disk[client[c].session].status # "none"
      <4> DEFINE v == [client[c] EXCEPT !.held = TRUE, !.state = disk[client[c].session]]
      <4>1. client' = [client EXCEPT ![c] = v] /\ UNCHANGED supVars /\ UNCHANGED disk
        BY <2>3, <3>2 DEF SessionLoad, files
      <4>2. v.state = disk[client[c].session] /\ client[c].session \in Session
        BY <1>1, <2>1, <2>3 DEF SessionLoad, NextUpdate, ClientState
      <4>3. QED
        BY <1>3, <2>1, <4>1, <4>2
    <3>3. QED
      BY <3>1, <3>2
  <2>4. CASE SessionSave(c)
    BY <1>2, <2>1, <2>4 DEF SessionSave
  <2>5. CASE \E plan \in Plans : IntakeRead(c, plan)
    <3>1. PICK plan \in Plans : IntakeRead(c, plan)
      BY <2>5
    <3>2. [client[c] EXCEPT !.at = "decision", !.copy = queue, !.tasks = plan].state
            = client[c].state
      BY <2>1 DEF ClientState
    <3>3. QED
      BY <1>3, <2>1, <3>1, <3>2 DEF IntakeRead, files
  <2>6. CASE IntakeWrite(c)
    <3>1. [client[c] EXCEPT !.at = "plan", !.copy = NoTasks].state = client[c].state
      BY <2>1 DEF ClientState
    <3>2. QED
      BY <1>3, <2>1, <2>6, <3>1 DEF IntakeWrite
  <2>7. QED
    BY <1>4, <2>2, <2>3, <2>4, <2>5, <2>6 DEF SubmitterStep
<1>5. ASSUME NEW c \in Approver, ApproverStep(c) PROVE Goal
  <2>1. c \in Client /\ client[c] \in ClientState
    BY <1>1 DEF Client
  <2>2. ASSUME NEW t \in Task, ApproveRead(c, t) PROVE Goal
    <3>1. [IdleClient EXCEPT !.at = "apply", !.copy = queue, !.tasks = {t}].state = NoFile
      BY DEF IdleClient
    <3>2. QED
      BY <1>3, <2>1, <2>2, <3>1 DEF ApproveRead
  <2>3. ASSUME NEW t \in Task, ApproveWrite(c, t) PROVE Goal
    BY <1>2, <2>1, <2>3 DEF ApproveWrite
  <2>4. QED
    BY <1>5, <2>2, <2>3 DEF ApproverStep
<1>6. ASSUME NEW c \in Console, ConsoleStep(c) PROVE Goal
  <2>1. c \in Client /\ client[c] \in ClientState
    BY <1>1 DEF Client
  <2>2. ASSUME NEW enabled \in BOOLEAN, SetPolling(c, enabled) PROVE Goal
    <3>1. /\ [IdleClient EXCEPT !.at = "flag", !.session = sid, !.held = TRUE,
                                !.state = disk[sid]].state = disk[sid]
          /\ sid \in Session
      BY <1>1, <2>2 DEF IdleClient, SetPolling
    <3>2. QED
      BY <1>3, <2>1, <2>2, <3>1 DEF SetPolling, files
  <2>3. CASE SavePolling(c)
    BY <1>2, <2>1, <2>3 DEF SavePolling
  <2>4. QED
    BY <1>6, <2>2, <2>3 DEF ConsoleStep
<1>7. QED
  BY <1>4, <1>5, <1>6 DEF ClientMoves

(* A process that dies drops its consoles' states and changes no file. *)
LEMMA DiesStates ==
    TypeOK /\ Dies =>
        /\ pc' = "down" /\ mem' = NoFile /\ sel' = NoTask
        /\ UNCHANGED <<disk, queue, starts, begun>>
        /\ \A c \in Client : client'[c].state = client[c].state \/ client'[c].state = NoFile
BY DEF Dies, Ended, files, IdleClient

(* The states that start_session and run() save. *)
LEMMA StartState ==
    ASSUME TypeOK, NEW s \in Session, NEW resume \in BOOLEAN, Start(s, resume)
    PROVE  /\ pc = "down" /\ pc' \in {"recover", "head"} /\ sid' = s
           /\ starts' = starts + 1
           /\ UNCHANGED <<queue, client>>
           /\ disk' = [disk EXCEPT ![s] = mem'] /\ disk'[s] = mem'
           /\ \/ /\ mem'.streak = disk[s].streak /\ mem'.executed = disk[s].executed
                 /\ mem'.completed = disk[s].completed /\ begun' = begun
              \/ /\ mem'.streak = 0 /\ mem'.executed = 0 /\ mem'.completed = {}
                 /\ begun' = [begun EXCEPT ![s] = 0]
<1>1. disk \in [Session -> SessionState] /\ disk[s] \in SessionState
  BY DEF TypeOK, FilesTypeOK
<1>2. CASE resume /\ disk[s].status # "none"
  <2>1. mem' = [disk[s] EXCEPT !.status = "running", !.resumed = TRUE] /\ begun' = begun
    BY <1>2 DEF Start
  <2>2. /\ mem'.streak = disk[s].streak /\ mem'.executed = disk[s].executed
        /\ mem'.completed = disk[s].completed
    BY <1>1, <2>1 DEF SessionState
  <2>3. QED
    BY <1>1, <1>2, <2>1, <2>2 DEF Start, clients
<1>3. CASE ~(resume /\ disk[s].status # "none")
  <2>1. mem' = FreshState /\ begun' = [begun EXCEPT ![s] = 0]
    BY <1>3 DEF Start
  <2>2. mem'.streak = 0 /\ mem'.executed = 0 /\ mem'.completed = {}
    BY <2>1 DEF FreshState, NoFile
  <2>3. QED
    BY <1>1, <1>3, <2>1, <2>2 DEF Start, clients
<1>4. QED
  BY <1>2, <1>3

-----------------------------------------------------------------------------
(* The failure streak. *)

(* Below the bound, whoever holds the session state and wherever run() is. *)
StreakInv == StreakSound /\ StreakBounded

(* A step of run() that carries the streak on: it saves nothing or the state
   it had, stays in the loop or leaves it, and starts nothing. *)
LEMMA StreakCarried ==
    ASSUME TypeOK, StreakInv, pc # "down",
           mem'.streak = mem.streak, UNCHANGED <<starts, client>>,
           pc = "final" => pc' = "final",
           disk' = disk \/ disk' = [disk EXCEPT ![sid] = mem']
    PROVE  StreakInv'
<1> SUFFICES ASSUME Threshold > 0 PROVE StreakInv'
  BY DEF StreakInv, StreakSound, StreakBounded
<1>1. /\ mem.streak \in Nat /\ starts \in Nat /\ Threshold \in Nat
      /\ disk \in [Session -> SessionState]
  BY LimitsAssumption DEF TypeOK, RunTypeOK, TallyTypeOK, FilesTypeOK, SessionState
<1>2. mem.streak < Threshold + starts
  BY <1>1 DEF StreakInv, StreakSound
<1>3. \A s \in Session : disk'[s].streak < Threshold + starts
  BY <1>1, <1>2 DEF StreakInv, StreakBounded
<1>4. StreakSound'
  BY <1>1, <1>2 DEF StreakInv, StreakSound
<1>5. QED
  BY <1>3, <1>4 DEF StreakInv, StreakBounded

(* Each start may carry a session one failure past the threshold. *)
LEMMA StreakStep ==
    ASSUME TypeOK, StreakInv, [Next]_vars
    PROVE  StreakInv'
<1> SUFFICES ASSUME Threshold > 0 PROVE StreakInv'
  BY DEF StreakInv, StreakSound, StreakBounded
<1>1. /\ mem \in SessionState /\ mem.streak \in Nat /\ starts \in Nat /\ Threshold \in Nat
      /\ disk \in [Session -> SessionState]
      /\ \A s \in Session : disk[s].streak \in Nat
      /\ pc # "down" => sid \in Session
      /\ NoFile.streak = 0
  BY LimitsAssumption DEF TypeOK, RunTypeOK, TallyTypeOK, FilesTypeOK, SessionState, NoFile
<1>2. CASE \E s \in Session, resume \in BOOLEAN : Start(s, resume)
  <2>1. PICK s \in Session, resume \in BOOLEAN : Start(s, resume)
    BY <1>2
  <2>2. /\ starts' = starts + 1 /\ client' = client /\ pc' \in {"recover", "head"}
        /\ mem'.streak = disk[s].streak \/ mem'.streak = 0
        /\ disk' = [disk EXCEPT ![s] = mem']
    BY <2>1, StartState
  <2>3. mem'.streak \in Nat /\ mem'.streak < Threshold + starts
    BY <1>1, <2>2 DEF StreakInv, StreakBounded
  <2>4. \A r \in Session : disk'[r].streak < Threshold + starts
    BY <1>1, <2>2, <2>3 DEF StreakInv, StreakBounded
  <2>5. \A c \in Client : client[c].state.streak \in Nat
    BY DEF TypeOK, ClientTypeOK, ClientState, SessionState
  <2>6. StreakSound'
    BY <1>1, <2>2, <2>3, <2>5 DEF StreakInv, StreakSound
  <2>7. \A r \in Session : disk'[r].streak \in Nat
    BY <1>1, <2>2, <2>3
  <2>8. StreakBounded'
    BY <1>1, <2>2, <2>4, <2>7 DEF StreakBounded
  <2>9. QED
    BY <2>6, <2>8 DEF StreakInv
<1>3. CASE SupervisorStep
  <2>1. CASE RecoverLoad \/ RecoverWrite \/ HeadStop \/ HeadIterate \/ Poll \/ Idle
             \/ \E t \in Task : Select(t)
    BY <2>1, StreakCarried
       DEF RecoverLoad, RecoverWrite, HeadStop, HeadIterate, Poll, Idle, Select, Save,
           files, clients
  <2>2. CASE Accept \/ Settle
    <3>1. CASE Dies
      BY <1>1, <3>1, DiesStates DEF StreakInv, StreakSound, StreakBounded
    <3>2. CASE ~Dies
      BY <2>2, <3>2, StreakCarried DEF Accept, Settle, LoadFor, files, clients
    <3>3. QED
      BY <3>1, <3>2
  <2>3. CASE StartWrite \/ AgentCut \/ AgentReturns \/ SettleWrite
    BY <2>3, StreakCarried DEF StartWrite, AgentCut, AgentReturns, SettleWrite, Save, clients
  <2>4. CASE Begin
    <3>1. mem'.streak = mem.streak
      BY <1>1, <2>4 DEF Begin, Save, SessionState
    <3>2. QED
      BY <2>4, <3>1, StreakCarried DEF Begin, Save, clients
  <2>5. CASE Record
    <3>1. /\ mem' = Recorded /\ disk' = [disk EXCEPT ![sid] = mem']
          /\ UNCHANGED <<starts, client>>
          /\ pc = "record"
          /\ pc' = IF StreakExceeded(Recorded) THEN "final" ELSE "head"
      BY <2>5 DEF Record, Save, clients
    <3>2. mem'.streak \in Nat /\ mem'.streak <= mem.streak + 1
      BY <1>1, <3>1 DEF Recorded, SessionState
    <3>3. mem.streak + 1 < Threshold + starts /\ starts > 0
      BY <3>1 DEF StreakInv, StreakSound
    <3>4. pc' = "head" => mem'.streak < Threshold
      BY <1>1, <3>1, <3>2 DEF StreakExceeded
    <3>5. \A s \in Session : disk'[s].streak < Threshold + starts
      BY <1>1, <3>1, <3>2, <3>3 DEF StreakInv, StreakBounded
    <3>6. StreakSound'
      BY <1>1, <3>1, <3>2, <3>3, <3>4 DEF StreakInv, StreakSound
    <3>7. QED
      BY <3>1, <3>5, <3>6 DEF StreakInv, StreakBounded
  <2>6. CASE Finalize
    <3>1. /\ disk' = [disk EXCEPT ![sid] = [mem EXCEPT !.status = "completed"]]
          /\ pc = "final" /\ pc' = "down" /\ UNCHANGED <<starts, client>>
      BY <2>6 DEF Finalize, Ended, clients
    <3>2. [mem EXCEPT !.status = "completed"].streak = mem.streak
      BY <1>1 DEF SessionState
    <3>3. mem.streak < Threshold + starts
      BY <3>1 DEF StreakInv, StreakSound
    <3>4. \A s \in Session : disk'[s].streak < Threshold + starts
      BY <1>1, <3>1, <3>2, <3>3 DEF StreakInv, StreakBounded
    <3>5. QED
      BY <3>1, <3>4 DEF StreakInv, StreakSound, StreakBounded
  <2>7. QED
    BY <1>3, <2>1, <2>2, <2>3, <2>4, <2>5, <2>6 DEF SupervisorStep
<1>4. CASE Crash
  BY <1>1, <1>4, DiesStates DEF Crash, StreakInv, StreakSound, StreakBounded
<1>5. CASE RequestStop \/ Clock \/ UNCHANGED vars
  BY <1>5 DEF RequestStop, Clock, vars, files, clients, StreakInv, StreakSound, StreakBounded
<1>6. CASE ClientMoves
  <2>1. /\ UNCHANGED <<pc, mem, starts>>
        /\ \A s \in Session : disk'[s].streak < Threshold + starts
        /\ \A c \in Client : client'[c].state.streak < Threshold + starts
    BY <1>1, <1>6, ClientStates DEF StreakInv, StreakSound, StreakBounded
  <2>2. QED
    BY <2>1 DEF StreakInv, StreakSound, StreakBounded
<1>7. QED
  BY <1>2, <1>3, <1>4, <1>5, <1>6 DEF Next, ClientMoves

(* Whatever stale session states the console and intake save, a session's
   failure streak passes the threshold by less than one failure per start. *)
THEOREM StreakCorrect == Spec => []StreakBounded
<1>1. Init => StreakInv
  <2>1. NoFile.streak = 0 /\ Threshold \in Nat /\ IdleClient.state = NoFile
    BY LimitsAssumption DEF NoFile, IdleClient
  <2>2. QED
    BY <2>1 DEF Init, StreakInv, StreakSound, StreakBounded
<1>2. TypeOK /\ StreakInv /\ [Next]_vars => StreakInv'
  BY StreakStep
<1>3. StreakInv => StreakBounded
  BY DEF StreakInv
<1>4. QED
  BY <1>1, <1>2, <1>3, TypeCorrect, PTL DEF Spec

-----------------------------------------------------------------------------
(* Reported results, with run() the queue's only writer. *)

(* A completed task stays completed in the queue. *)
LEMMA DoneGrows ==
    ASSUME QueueAlone, TypeOK, HandSound, [Next]_vars
    PROVE  Done \subseteq Done'
<1>1. queue \in Queue
  BY DEF TypeOK, FilesTypeOK
<1>2. CASE UNCHANGED queue
  BY <1>2 DEF Done, TasksIn
<1>3. CASE RecoverWrite /\ queue' = RecoverRunning(queue, sid)
  BY <1>1, <1>3 DEF RecoverRunning, Interrupted, Done, TasksIn
<1>4. CASE StartWrite /\ queue' = MarkRunning(queue, sel, sid)
  <2>1. queue[sel].status = "pending"
    BY <1>4 DEF StartWrite, HandSound, Eligible
  <2>2. \A t \in Task : queue[t].status = "completed" => queue'[t] = queue[t]
    BY <1>1, <1>4, <2>1 DEF MarkRunning, Queue
  <2>3. QED
    BY <2>2 DEF Done, TasksIn
<1>5. CASE SettleWrite /\ queue' = Settled(queue, sel)
  <2>1. queue[sel].status # "completed"
    BY <1>5 DEF SettleWrite, HandSound, Eligible
  <2>2. \A t \in Task : queue[t].status = "completed" => queue'[t] = queue[t]
    BY <1>1, <1>5, <2>1 DEF Settled, MarkCompleted, RequeueFailed, MarkBlocked, Queue
  <2>3. QED
    BY <2>2 DEF Done, TasksIn
<1>6. QED
  BY <1>2, <1>3, <1>4, <1>5, QueueMoves

(* A step of run() that saves what it had, or a state whose tasks the queue
   shows completed. *)
LEMMA ReportCarried ==
    ASSUME TypeOK, ReportSound, Done \subseteq Done', pc # "down",
           UNCHANGED client,
           mem'.completed = mem.completed \/ mem'.completed \subseteq Done',
           disk' = disk \/ disk' = [disk EXCEPT ![sid] = mem']
    PROVE  ReportSound'
<1>1. disk \in [Session -> SessionState]
  BY DEF TypeOK, FilesTypeOK
<1>2. mem'.completed \subseteq Done'
  BY DEF ReportSound
<1>3. \A s \in Session : disk'[s].completed \subseteq Done'
  BY <1>1, <1>2 DEF ReportSound
<1>4. QED
  BY <1>2, <1>3 DEF ReportSound

(* The queue write comes before the record, so every step keeps the reports
   behind the queue. *)
LEMMA ReportStep ==
    ASSUME QueueAlone, TypeOK, HandSound, ReportSound, [Next]_vars
    PROVE  ReportSound'
<1>1. /\ mem \in SessionState /\ disk \in [Session -> SessionState]
      /\ pc # "down" => sid \in Session
      /\ NoFile.completed = {}
      /\ Done \subseteq Done'
  BY DoneGrows DEF TypeOK, RunTypeOK, FilesTypeOK, NoFile
<1>2. CASE \E s \in Session, resume \in BOOLEAN : Start(s, resume)
  <2>1. PICK s \in Session, resume \in BOOLEAN : Start(s, resume)
    BY <1>2
  <2>2. /\ client' = client
        /\ mem'.completed = disk[s].completed \/ mem'.completed = {}
        /\ disk' = [disk EXCEPT ![s] = mem']
    BY <2>1, StartState
  <2>3. mem'.completed \subseteq Done'
    BY <1>1, <2>2 DEF ReportSound
  <2>4. \A r \in Session : disk'[r].completed \subseteq Done'
    BY <1>1, <2>2, <2>3 DEF ReportSound
  <2>5. QED
    BY <1>1, <2>2, <2>3, <2>4 DEF ReportSound
<1>3. CASE SupervisorStep
  <2>1. CASE RecoverLoad \/ RecoverWrite \/ HeadStop \/ HeadIterate \/ Poll \/ Idle
             \/ \E t \in Task : Select(t)
    BY <1>1, <2>1, ReportCarried
       DEF RecoverLoad, RecoverWrite, HeadStop, HeadIterate, Poll, Idle, Select, Save,
           files, clients
  <2>2. CASE Accept \/ Settle
    <3>1. CASE Dies
      BY <1>1, <3>1, DiesStates DEF ReportSound
    <3>2. CASE ~Dies
      BY <1>1, <2>2, <3>2, ReportCarried DEF Accept, Settle, LoadFor, files, clients
    <3>3. QED
      BY <3>1, <3>2
  <2>3. CASE StartWrite \/ AgentCut \/ AgentReturns \/ SettleWrite
    BY <1>1, <2>3, ReportCarried
       DEF StartWrite, AgentCut, AgentReturns, SettleWrite, Save, clients
  <2>4. CASE Begin
    <3>1. mem'.completed = mem.completed
      BY <1>1, <2>4 DEF Begin, Save, SessionState
    <3>2. QED
      BY <1>1, <2>4, <3>1, ReportCarried DEF Begin, Save, clients
  <2>5. CASE Record
    <3>1. /\ mem' = Recorded /\ disk' = [disk EXCEPT ![sid] = mem']
          /\ pc = "record" /\ UNCHANGED client /\ sel \in Task
      BY <2>5 DEF Record, Save, clients, TypeOK, RunTypeOK, Holding
    <3>2. verdict = "complete" => sel \in Done
      BY <3>1 DEF HandSound, Done, TasksIn
    <3>3. mem'.completed \subseteq Done'
      BY <1>1, <3>1, <3>2 DEF Recorded, ReportSound, SessionState
    <3>4. QED
      BY <1>1, <3>1, <3>3, ReportCarried
  <2>6. CASE Finalize
    <3>1. /\ disk' = [disk EXCEPT ![sid] = [mem EXCEPT !.status = "completed"]]
          /\ mem' = NoFile /\ UNCHANGED client /\ pc = "final"
      BY <2>6 DEF Finalize, Ended, clients
    <3>2. [mem EXCEPT !.status = "completed"].completed = mem.completed
      BY <1>1 DEF SessionState
    <3>3. \A s \in Session : disk'[s].completed \subseteq Done'
      BY <1>1, <3>1, <3>2 DEF ReportSound
    <3>4. QED
      BY <1>1, <3>1, <3>3 DEF ReportSound
  <2>7. QED
    BY <1>3, <2>1, <2>2, <2>3, <2>4, <2>5, <2>6 DEF SupervisorStep
<1>4. CASE Crash
  BY <1>1, <1>4, DiesStates DEF Crash, ReportSound
<1>5. CASE RequestStop \/ Clock \/ UNCHANGED vars
  BY <1>1, <1>5 DEF RequestStop, Clock, vars, files, clients, ReportSound
<1>6. CASE ClientMoves
  <2>1. /\ mem' = mem
        /\ \A s \in Session : disk'[s].completed \subseteq Done'
        /\ \A c \in Client : client'[c].state.completed \subseteq Done'
    BY <1>1, <1>6, ClientStates DEF ReportSound
  <2>2. QED
    BY <1>1, <2>1 DEF ReportSound
<1>7. QED
  BY <1>2, <1>3, <1>4, <1>5, <1>6 DEF Next, ClientMoves

(* No session state on disk ever names a task completed that the queue does
   not show completed, whatever crashes and resumes come between. *)
THEOREM QueueLeadsCorrect ==
    ASSUME QueueAlone
    PROVE  Spec => []QueueLeadsState
<1>1. Init => ReportSound
  <2>1. NoFile.completed = {} /\ IdleClient.state = NoFile
    BY DEF NoFile, IdleClient
  <2>2. QED
    BY <2>1 DEF Init, ReportSound
<1>2. TypeOK /\ HandSound /\ ReportSound /\ [Next]_vars => ReportSound'
  BY ReportStep
<1>3. ReportSound => QueueLeadsState
  BY DEF ReportSound, Done, TasksIn, QueueLeadsState
<1>4. QED
  BY <1>1, <1>2, <1>3, TypeCorrect, HandCorrect, PTL DEF Spec

-----------------------------------------------------------------------------
(* The execution budget.  A client that saves a session state it loaded
   earlier can set the count back, so this is about a process on its own. *)

(* With no client beside it, run() counts each task before it is started. *)
LEMMA CountStep ==
    ASSUME Client = {}, TypeOK, CountSound, [Next]_vars
    PROVE  CountSound'
<1> SUFFICES ASSUME MaxExecutions > 0 PROVE CountSound'
  BY DEF CountSound
<1>1. /\ mem \in SessionState /\ mem.executed \in Nat /\ MaxExecutions \in Nat
      /\ disk \in [Session -> SessionState] /\ begun \in [Session -> Nat]
      /\ pc # "down" => sid \in Session
      /\ NoFile.executed = 0
  BY LimitsAssumption DEF TypeOK, RunTypeOK, TallyTypeOK, FilesTypeOK, SessionState, NoFile
<1>2. CASE \E s \in Session, resume \in BOOLEAN : Start(s, resume)
  <2>1. PICK s \in Session, resume \in BOOLEAN : Start(s, resume)
    BY <1>2
  <2>2. /\ sid' = s /\ pc' \in {"recover", "head"} /\ disk' = [disk EXCEPT ![s] = mem']
        /\ \/ mem'.executed = disk[s].executed /\ begun' = begun
           \/ mem'.executed = 0 /\ begun' = [begun EXCEPT ![s] = 0]
    BY <2>1, StartState
  <2>3. begun'[s] <= mem'.executed
    BY <1>1, <2>2 DEF CountSound
  <2>4. \A r \in Session : r # s => begun'[r] = begun[r] /\ disk'[r] = disk[r]
    BY <1>1, <2>2
  <2>5. \A r \in Session : begun'[r] <= disk'[r].executed
    BY <1>1, <2>2, <2>3, <2>4 DEF CountSound
  <2>6. QED
    BY <2>2, <2>3, <2>5 DEF CountSound
<1>3. CASE SupervisorStep
  <2>1. CASE RecoverLoad \/ RecoverWrite \/ HeadStop \/ Idle
             \/ AgentCut \/ AgentReturns \/ SettleWrite
    <3>1. /\ UNCHANGED <<sid, mem, begun>>
          /\ pc' \notin {"poll", "select", "accept", "startWrite", "begin"}
          /\ pc # "down"
          /\ disk' = disk \/ disk' = [disk EXCEPT ![sid] = mem]
      BY <2>1 DEF RecoverLoad, RecoverWrite, HeadStop, Idle, AgentCut, AgentReturns,
                  SettleWrite, Save, files, history
    <3>2. \A s \in Session : begun[s] <= disk'[s].executed
      BY <1>1, <3>1 DEF CountSound
    <3>3. QED
      BY <3>1, <3>2 DEF CountSound
  <2>2. CASE HeadIterate
    <3>1. UNCHANGED <<sid, mem, begun>> /\ disk' = [disk EXCEPT ![sid] = mem] /\ pc = "head"
      BY <2>2 DEF HeadIterate, Save, history
    <3>2. mem.executed < MaxExecutions
      BY <1>1, <2>2 DEF HeadIterate, StopReason, BudgetSpent
    <3>3. \A s \in Session : begun[s] <= disk'[s].executed
      BY <1>1, <3>1 DEF CountSound
    <3>4. QED
      BY <3>1, <3>2, <3>3 DEF CountSound
  <2>3. CASE Poll \/ (\E t \in Task : Select(t)) \/ StartWrite
    <3>1. /\ UNCHANGED <<sid, mem, begun>>
          /\ pc \in {"poll", "select", "startWrite"}
          /\ disk' = disk \/ disk' = [disk EXCEPT ![sid] = mem]
      BY <2>3 DEF Poll, Select, StartWrite, Save, history
    <3>2. \A s \in Session : begun[s] <= disk'[s].executed
      BY <1>1, <3>1 DEF CountSound
    <3>3. QED
      BY <3>1, <3>2 DEF CountSound
  <2>4. CASE Accept \/ Settle
    <3>1. CASE Dies
      BY <3>1, DiesStates DEF CountSound
    <3>2. CASE ~Dies
      <4>1. /\ UNCHANGED <<sid, mem, begun, disk>>
            /\ pc \in {"accept", "settle"}
            /\ pc' \in {"startWrite", "settleWrite"}
            /\ pc = "settle" => pc' = "settleWrite"
        BY <2>4, <3>2 DEF Accept, Settle, LoadFor, files, history
      <4>2. QED
        BY <4>1 DEF CountSound
    <3>3. QED
      BY <3>1, <3>2
  <2>5. CASE Begin
    <3>1. /\ mem' = [mem EXCEPT !.executed = @ + 1] /\ disk' = [disk EXCEPT ![sid] = mem']
          /\ begun' = [begun EXCEPT ![sid] = @ + 1] /\ sid' = sid
          /\ pc = "begin" /\ pc' = "agent"
      BY <2>5 DEF Begin, Save
    <3>2. mem'.executed = mem.executed + 1
      BY <1>1, <3>1 DEF SessionState
    <3>3. begun'[sid] = begun[sid] + 1 /\ begun[sid] \in Nat /\ begun[sid] <= mem.executed
      BY <1>1, <3>1 DEF CountSound
    <3>4. begun'[sid] <= mem'.executed
      BY <1>1, <3>2, <3>3
    <3>5. \A s \in Session : begun'[s] <= disk'[s].executed
      BY <1>1, <3>1, <3>4 DEF CountSound
    <3>6. QED
      BY <3>1, <3>4, <3>5 DEF CountSound
  <2>6. CASE Record
    <3>1. /\ mem' = Recorded /\ disk' = [disk EXCEPT ![sid] = mem']
          /\ UNCHANGED <<sid, begun>> /\ pc = "record" /\ pc' \in {"final", "head"}
      BY <2>6 DEF Record, Save, history
    <3>2. mem'.executed = mem.executed
      BY <1>1, <3>1 DEF Recorded, SessionState
    <3>3. \A s \in Session : begun[s] <= disk'[s].executed
      BY <1>1, <3>1, <3>2 DEF CountSound
    <3>4. QED
      BY <3>1, <3>2, <3>3 DEF CountSound
  <2>7. CASE Finalize
    <3>1. /\ disk' = [disk EXCEPT ![sid] = [mem EXCEPT !.status = "completed"]]
          /\ begun' = begun /\ pc = "final" /\ pc' = "down"
      BY <2>7 DEF Finalize, Ended, history
    <3>2. [mem EXCEPT !.status = "completed"].executed = mem.executed
      BY <1>1 DEF SessionState
    <3>3. \A s \in Session : begun[s] <= disk'[s].executed
      BY <1>1, <3>1, <3>2 DEF CountSound
    <3>4. QED
      BY <3>1, <3>3 DEF CountSound
  <2>8. QED
    BY <1>3, <2>1, <2>2, <2>3, <2>4, <2>5, <2>6, <2>7 DEF SupervisorStep
<1>4. CASE Crash
  BY <1>4, DiesStates DEF Crash, CountSound
<1>5. CASE RequestStop \/ Clock \/ UNCHANGED vars
  BY <1>5 DEF RequestStop, Clock, vars, files, history, CountSound
<1>6. CASE ClientMoves
  BY <1>6 DEF ClientMoves, Client
<1>7. QED
  BY <1>2, <1>3, <1>4, <1>5, <1>6 DEF Next, ClientMoves

(* What a session has started stays within its limit: what it may start is
   counted, and the count is below the limit wherever a task is chosen. *)
CountBounded ==
    MaxExecutions > 0 =>
        /\ \A s \in Session : disk[s].executed <= MaxExecutions
        /\ pc # "down" => mem.executed <= MaxExecutions

(* A step of run() that keeps the count within its limit. *)
LEMMA CountCarried ==
    ASSUME TypeOK, CountBounded, pc # "down",
           MaxExecutions > 0 => mem'.executed = mem.executed \/ mem'.executed <= MaxExecutions,
           disk' = disk \/ disk' = [disk EXCEPT ![sid] = mem']
    PROVE  CountBounded'
<1> SUFFICES ASSUME MaxExecutions > 0 PROVE CountBounded'
  BY DEF CountBounded
<1>1. disk \in [Session -> SessionState] /\ sid \in Session
  BY DEF TypeOK, RunTypeOK, FilesTypeOK
<1>2. mem'.executed <= MaxExecutions
  BY DEF CountBounded
<1>3. \A s \in Session : disk'[s].executed <= MaxExecutions
  BY <1>1, <1>2 DEF CountBounded
<1>4. QED
  BY <1>2, <1>3 DEF CountBounded

(* Only Begin raises the count, and the head of the loop let it through below
   the limit. *)
LEMMA BoundStep ==
    ASSUME Client = {}, TypeOK, CountSound, CountBounded, [Next]_vars
    PROVE  CountBounded'
<1> SUFFICES ASSUME MaxExecutions > 0 PROVE CountBounded'
  BY DEF CountBounded
<1>1. /\ mem \in SessionState /\ mem.executed \in Nat /\ MaxExecutions \in Nat
      /\ disk \in [Session -> SessionState]
      /\ pc # "down" => sid \in Session
  BY LimitsAssumption DEF TypeOK, RunTypeOK, FilesTypeOK, SessionState
<1>2. CASE \E s \in Session, resume \in BOOLEAN : Start(s, resume)
  <2>1. PICK s \in Session, resume \in BOOLEAN : Start(s, resume)
    BY <1>2
  <2>2. /\ disk' = [disk EXCEPT ![s] = mem']
        /\ mem'.executed = disk[s].executed \/ mem'.executed = 0
    BY <2>1, StartState
  <2>3. mem'.executed <= MaxExecutions
    BY <1>1, <2>2 DEF CountBounded
  <2>4. \A r \in Session : disk'[r].executed <= MaxExecutions
    BY <1>1, <2>2, <2>3 DEF CountBounded
  <2>5. QED
    BY <2>3, <2>4 DEF CountBounded
<1>3. CASE SupervisorStep
  <2>1. CASE RecoverLoad \/ RecoverWrite \/ HeadStop \/ HeadIterate \/ Poll \/ Idle
             \/ (\E t \in Task : Select(t)) \/ StartWrite \/ AgentCut \/ AgentReturns
             \/ SettleWrite
    <3>1. pc # "down" /\ mem' = mem /\ (disk' = disk \/ disk' = [disk EXCEPT ![sid] = mem'])
      BY <2>1 DEF RecoverLoad, RecoverWrite, HeadStop, HeadIterate, Poll, Idle, Select,
                  StartWrite, AgentCut, AgentReturns, SettleWrite, Save, files
    <3>2. QED
      BY <3>1, CountCarried
  <2>2. CASE Accept \/ Settle
    <3>1. CASE Dies
      BY <3>1, DiesStates DEF CountBounded
    <3>2. CASE ~Dies
      BY <2>2, <3>2, CountCarried DEF Accept, Settle, LoadFor, files
    <3>3. QED
      BY <3>1, <3>2
  <2>3. CASE Begin
    <3>1. mem' = [mem EXCEPT !.executed = @ + 1] /\ disk' = [disk EXCEPT ![sid] = mem']
      BY <2>3 DEF Begin, Save
    <3>2. mem'.executed = mem.executed + 1 /\ mem.executed < MaxExecutions /\ pc # "down"
      BY <1>1, <2>3, <3>1 DEF Begin, CountSound, SessionState
    <3>3. mem'.executed <= MaxExecutions
      BY <1>1, <3>2
    <3>4. QED
      BY <3>1, <3>2, <3>3, CountCarried
  <2>4. CASE Record
    <3>1. mem'.executed = mem.executed /\ disk' = [disk EXCEPT ![sid] = mem'] /\ pc # "down"
      BY <1>1, <2>4 DEF Record, Recorded, Save, SessionState
    <3>2. QED
      BY <3>1, CountCarried
  <2>5. CASE Finalize
    <3>1. /\ disk' = [disk EXCEPT ![sid] = [mem EXCEPT !.status = "completed"]]
          /\ pc = "final" /\ pc' = "down"
      BY <2>5 DEF Finalize, Ended
    <3>2. [mem EXCEPT !.status = "completed"].executed = mem.executed
      BY <1>1 DEF SessionState
    <3>3. \A s \in Session : disk'[s].executed <= MaxExecutions
      BY <1>1, <3>1, <3>2 DEF CountBounded
    <3>4. QED
      BY <3>1, <3>3 DEF CountBounded
  <2>6. QED
    BY <1>3, <2>1, <2>2, <2>3, <2>4, <2>5 DEF SupervisorStep
<1>4. CASE Crash
  BY <1>4, DiesStates DEF Crash, CountBounded
<1>5. CASE RequestStop \/ Clock \/ UNCHANGED vars
  BY <1>5 DEF RequestStop, Clock, vars, files, CountBounded
<1>6. CASE ClientMoves
  BY <1>6 DEF ClientMoves, Client
<1>7. QED
  BY <1>2, <1>3, <1>4, <1>5, <1>6 DEF Next, ClientMoves

(* A session starts at most max_task_executions tasks over all its crashes
   and resumes, unless a client saves an old session state beside it. *)
THEOREM ExecutionBudgetCorrect ==
    ASSUME Client = {}
    PROVE  Spec => []ExecutionBudget
<1>1. Init => CountSound /\ CountBounded
  <2>1. NoFile.executed = 0 /\ MaxExecutions \in Nat
    BY LimitsAssumption DEF NoFile
  <2>2. QED
    BY <2>1 DEF Init, CountSound, CountBounded
<1>2. TypeOK /\ CountSound /\ CountBounded /\ [Next]_vars => CountSound' /\ CountBounded'
  BY CountStep, BoundStep
<1>3. TypeOK /\ CountSound /\ CountBounded => ExecutionBudget
  <2> SUFFICES ASSUME TypeOK, CountSound, CountBounded, MaxExecutions > 0, NEW s \in Session
               PROVE  begun[s] <= MaxExecutions
    BY DEF ExecutionBudget
  <2>1. begun[s] \in Nat /\ disk[s].executed \in Nat /\ MaxExecutions \in Nat
    BY LimitsAssumption DEF TypeOK, TallyTypeOK, FilesTypeOK, SessionState
  <2>2. QED
    BY <2>1 DEF CountSound, CountBounded
<1>4. QED
  BY <1>1, <1>2, <1>3, TypeCorrect, PTL DEF Spec
=============================================================================
