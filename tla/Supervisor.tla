----------------------------- MODULE Supervisor -----------------------------
(***************************************************************************)
(* Supervisor.run (orchestrator_lane/ai_e_runtime/supervisor.py) with the  *)
(* processes and threads that share its files: conversational intake,      *)
(* mutation approval and the operator console.                             *)
(*                                                                         *)
(* queue.json and session_state.json are read and rewritten whole, without *)
(* a lock; write_json replaces the file in one os.replace.  So every       *)
(* read-modify-write is two steps here, a load into a local copy and a     *)
(* write of that copy, and any other actor may step between them.          *)
(***************************************************************************)
EXTENDS RuntimeQueue

CONSTANTS
    NoTask,         \* no task selected
    Submitter,      \* intake processes or threads
    Approver,       \* processes that call approve_mutation_task
    Console,        \* operator consoles of the supervisor's own process
    Plans,          \* task sets one operator message may add
    Seeded,         \* tasks accepted before the first session starts
    MaxExecutions,  \* max_task_executions, 0 when not set
    Threshold,      \* repeated_failure_threshold, 0 when disabled
    IdlePollLimit,  \* idle_timeout_poll_limit
    StopWhenEmpty,  \* stop_when_queue_empty
    MaxStarts,      \* bound: supervisor processes started
    MaxOps          \* bound: operations the clients begin

Client == Submitter \cup Approver \cup Console

ASSUME TaskAssumption == NoTask \notin Task /\ Seeded \subseteq Task
ASSUME PlansAssumption == Plans \subseteq SUBSET Task
ASSUME LimitsAssumption ==
    /\ MaxExecutions \in Nat
    /\ Threshold \in Nat
    /\ IdlePollLimit \in Nat
    /\ StopWhenEmpty \in BOOLEAN
    /\ MaxStarts \in Nat
    /\ MaxOps \in Nat

VARIABLES
    queue,      \* backlog/queue.json
    disk,       \* runs/<session>/session_state.json of every session
    approvals,  \* task ids OperatorApprovalStore.add has recorded
    pc,         \* where run() is; "down" when no supervisor process runs
    sid,        \* session id of the running supervisor
    mem,        \* run()'s in-memory session state
    drained,    \* queue_remaining = 0 in this iteration
    sel,        \* the selected task
    buf,        \* run()'s loaded copy of the queue
    verdict,    \* queue_action of the validator
    reason,     \* stop_reason
    idlePolls,  \* _idle_poll_count, saturated at IdlePollLimit
    polling,    \* _polling_enabled
    stopReq,    \* _stop_requested
    expired,    \* elapsed time has reached the session limit
    client,     \* local state of every client
    ops, starts,                    \* bounds
    finished, runs, lost, begun     \* history, read by properties only

files    == <<queue, disk, approvals>>
control  == <<polling, stopReq, expired>>
clients  == <<client, ops>>
history  == <<finished, runs, lost, begun>>
vars == <<queue, disk, approvals, pc, sid, mem, drained, sel, buf, verdict, reason,
          idlePolls, polling, stopReq, expired, client, ops, starts,
          finished, runs, lost, begun>>

-----------------------------------------------------------------------------
(* session_state.json: the fields run() reads back or reports *)
SessionState == [status: {"none", "running", "completed"},
                 resumed: BOOLEAN,
                 executed: Nat,             \* tasks_executed_count
                 streak: Nat,               \* failure_streak_count
                 completed: SUBSET Task]    \* tasks_completed

NoFile == [status |-> "none", resumed |-> FALSE, executed |-> 0, streak |-> 0, completed |-> {}]

FreshState == [NoFile EXCEPT !.status = "running"]

Locations == {"down", "recover", "recoverWrite", "head", "poll", "select", "accept",
              "startWrite", "begin", "agent", "settle", "settleWrite", "record", "final"}

Verdicts == {"none", "complete", "retry", "block", "payload_missing"}

Reasons == {"none", "operator", "time_limit_reached", "max_task_executions_reached",
            "all_remaining_tasks_blocked", "queue_empty", "queue_empty_idle_timeout",
            "repeated_failure_threshold_exceeded"}

(* steps of accept_message: three session updates before the queue write and
   one after it; "apply" ends an approval, "flag" a pause or resume *)
ClientSteps == {"idle", "intake", "policy", "read", "decision", "write", "plan", "apply", "flag"}

NextUpdate == [intake |-> "policy", policy |-> "read", decision |-> "write", plan |-> "idle"]

IdleClient == [at |-> "idle", session |-> NoSession, held |-> FALSE, state |-> NoFile,
               copy |-> NoTasks, tasks |-> {}]

Holding == {"accept", "startWrite", "begin", "agent", "settle", "settleWrite", "record"}

FilesTypeOK ==
    /\ queue \in Queue
    /\ disk \in [Session -> SessionState]
    /\ approvals \subseteq Task

RunTypeOK ==
    /\ pc \in Locations
    /\ sid \in Session \cup {NoSession} /\ (pc # "down" => sid \in Session)
    /\ sel \in Task \cup {NoTask} /\ (pc \in Holding => sel \in Task)
    /\ mem \in SessionState /\ buf \in Queue
    /\ verdict \in Verdicts /\ reason \in Reasons
    /\ idlePolls \in Nat

FlagTypeOK ==
    /\ drained \in BOOLEAN
    /\ polling \in BOOLEAN /\ stopReq \in BOOLEAN /\ expired \in BOOLEAN

ClientState == [at: ClientSteps, session: Session \cup {NoSession}, held: BOOLEAN,
                state: SessionState, copy: Queue, tasks: SUBSET Task]

ClientTypeOK ==
    /\ client \in [Client -> ClientState]
    /\ \A c \in Client : client[c].at \notin {"idle", "apply"}
                           => client[c].session \in Session

TallyTypeOK ==
    /\ ops \in Nat /\ starts \in Nat
    /\ finished \subseteq Task
    /\ runs \in [Task -> Nat] /\ lost \in [Task -> Nat] /\ begun \in [Session -> Nat]

(* What each variable holds, and that a task is in hand wherever run() uses
   one and a session named wherever its state file is written.
   (supervisor.py 109-513) *)
TypeOK == FilesTypeOK /\ RunTypeOK /\ FlagTypeOK /\ ClientTypeOK /\ TallyTypeOK

Init ==
    /\ queue = AppendTasks(NoTasks, Seeded)
    /\ disk = [s \in Session |-> NoFile]
    /\ approvals = {}
    /\ pc = "down" /\ sid = NoSession /\ mem = NoFile
    /\ drained = FALSE /\ sel = NoTask /\ buf = NoTasks
    /\ verdict = "none" /\ reason = "none" /\ idlePolls = 0
    /\ polling = TRUE /\ stopReq = FALSE /\ expired = FALSE
    /\ client = [c \in Client |-> IdleClient]
    /\ ops = 0 /\ starts = 0
    /\ finished = {}
    /\ runs = [t \in Task |-> 0] /\ lost = [t \in Task |-> 0]
    /\ begun = [s \in Session |-> 0]

-----------------------------------------------------------------------------
(* A pause or resume holds _control_lock while it loads and saves the
   session state; is_polling_enabled and is_stop_requested wait for it. *)
LockFree == \A c \in Console : client[c].at # "flag"

(* the process has gone: nothing of run() is left but the files *)
Ended ==
    /\ pc' = "down" /\ sid' = NoSession /\ mem' = NoFile
    /\ drained' = FALSE /\ sel' = NoTask /\ buf' = NoTasks
    /\ verdict' = "none" /\ reason' = "none" /\ idlePolls' = 0
    /\ polling' = TRUE /\ stopReq' = FALSE /\ expired' = FALSE

InFlight == pc \in {"agent", "settle", "settleWrite"} /\ verdict # "payload_missing"

LoseRun == lost' = IF InFlight THEN [lost EXCEPT ![sel] = @ + 1] ELSE lost

(* an uncaught exception or a crash; the console threads die with it *)
Dies ==
    /\ Ended
    /\ LoseRun
    /\ client' = [c \in Client |-> IF c \in Console THEN IdleClient ELSE client[c]]
    /\ UNCHANGED <<files, ops, starts, finished, runs, begun>>

Crash == pc # "down" /\ Dies

Save(state) == mem' = state /\ disk' = [disk EXCEPT ![sid] = state]

-----------------------------------------------------------------------------
(* start_session: --resume keeps the state file when there is one *)
Start(s, resume) ==
    LET kept  == resume /\ disk[s].status # "none"
        state == IF kept THEN [disk[s] EXCEPT !.status = "running", !.resumed = TRUE]
                         ELSE FreshState
    IN  /\ pc = "down" /\ LockFree
        /\ starts < MaxStarts
        /\ starts' = starts + 1
        /\ sid' = s
        /\ mem' = state
        /\ disk' = [disk EXCEPT ![s] = state]
        /\ expired' \in IF kept THEN BOOLEAN ELSE {FALSE}
        /\ begun' = IF kept THEN begun ELSE [begun EXCEPT ![s] = 0]
        /\ pc' = IF resume THEN "recover" ELSE "head"
        /\ UNCHANGED <<queue, approvals, drained, sel, buf, verdict, reason, idlePolls,
                       polling, stopReq, clients, finished, runs, lost>>

RecoverLoad ==
    /\ pc = "recover"
    /\ IF Interrupted(queue, sid) = {}
       THEN pc' = "head" /\ UNCHANGED buf
       ELSE pc' = "recoverWrite" /\ buf' = queue
    /\ UNCHANGED <<files, sid, mem, drained, sel, verdict, reason, idlePolls, control,
                   clients, starts, history>>

RecoverWrite ==
    /\ pc = "recoverWrite"
    /\ queue' = RecoverRunning(buf, sid)
    /\ buf' = NoTasks
    /\ Save(mem)
    /\ pc' = "head"
    /\ UNCHANGED <<approvals, sid, drained, sel, verdict, reason, idlePolls, control,
                   clients, starts, history>>

-----------------------------------------------------------------------------
(* mutant: one execution too many *)
BudgetOverspent == MaxExecutions > 0 /\ mem.executed > MaxExecutions

(* the head of the loop: stop request, time limit, execution limit *)
BudgetSpent == MaxExecutions > 0 /\ mem.executed >= MaxExecutions

(* mutant: the time limit waits for the queue to empty *)
StopWhenDrained ==
    IF stopReq THEN "operator"
    ELSE IF expired /\ drained THEN "time_limit_reached"
    ELSE IF BudgetSpent THEN "max_task_executions_reached" ELSE "none"

StopReason ==
    IF stopReq THEN "operator"
    ELSE IF expired THEN "time_limit_reached"
    ELSE IF BudgetSpent THEN "max_task_executions_reached" ELSE "none"

HeadStop ==
    /\ pc = "head" /\ LockFree
    /\ StopReason # "none"
    /\ reason' = StopReason
    /\ pc' = "final"
    /\ UNCHANGED <<files, sid, mem, drained, sel, buf, verdict, idlePolls, control,
                   clients, starts, history>>

(* mutant: only pending tasks count as remaining *)
CountPending ==
    /\ pc = "head" /\ LockFree
    /\ StopReason = "none"
    /\ drained' = (TasksIn(queue, {"pending"}) = {})
    /\ Save(mem)
    /\ pc' = "poll"
    /\ UNCHANGED <<queue, approvals, sid, sel, buf, verdict, reason, idlePolls, control,
                   clients, starts, history>>

HeadIterate ==
    /\ pc = "head" /\ LockFree
    /\ StopReason = "none"
    /\ drained' = (Remaining(queue) = {})
    /\ Save(mem)
    /\ pc' = "poll"
    /\ UNCHANGED <<queue, approvals, sid, sel, buf, verdict, reason, idlePolls, control,
                   clients, starts, history>>

(* is_polling_enabled, read once per iteration; a paused iteration sleeps *)
Poll ==
    /\ pc = "poll" /\ LockFree
    /\ IF polling
       THEN pc' = "select" /\ UNCHANGED <<mem, disk, idlePolls>>
       ELSE pc' = "head" /\ idlePolls' = 0 /\ Save(mem)
    /\ UNCHANGED <<queue, approvals, sid, drained, sel, buf, verdict, reason, control,
                   clients, starts, history>>

Select(t) ==
    /\ pc = "select"
    /\ Eligible(queue, t)
    /\ sel' = t
    /\ idlePolls' = 0
    /\ Save(mem)
    /\ pc' = "accept"
    /\ UNCHANGED <<queue, approvals, sid, drained, buf, verdict, reason, control,
                   clients, starts, history>>

(* No selectable task: stop for one of three reasons or sleep and go round
   again.  The idle timeout also has a limit in seconds, so it may come
   before the poll limit does. *)
Idle ==
    LET polls == IF idlePolls < IdlePollLimit THEN idlePolls + 1 ELSE idlePolls
    IN  /\ pc = "select"
        /\ \A t \in Task : ~Eligible(queue, t)
        /\ idlePolls' = polls
        /\ Save(mem)
        /\ \/ /\ AllRemainingBlocked(queue)
              /\ reason' = "all_remaining_tasks_blocked" /\ pc' = "final"
           \/ /\ ~AllRemainingBlocked(queue)
              /\ StopWhenEmpty /\ drained
              /\ reason' = "queue_empty" /\ pc' = "final"
           \/ /\ ~AllRemainingBlocked(queue)
              /\ ~StopWhenEmpty /\ drained
              /\ reason' = "queue_empty_idle_timeout" /\ pc' = "final"
           \/ /\ ~AllRemainingBlocked(queue)
              /\ drained => ~StopWhenEmpty /\ (IdlePollLimit = 0 \/ polls < IdlePollLimit)
              /\ pc' = "head" /\ UNCHANGED reason
        /\ UNCHANGED <<queue, approvals, sid, drained, sel, buf, verdict, control,
                       clients, starts, history>>

-----------------------------------------------------------------------------
(* _find_task raises KeyError when the copy has lost the task; nothing in
   run() catches it *)
LoadFor(location, action) ==
    IF Present(queue, sel)
    THEN /\ buf' = queue /\ pc' = location /\ verdict' = action
         /\ UNCHANGED <<files, sid, mem, drained, sel, reason, idlePolls, control,
                        clients, starts, history>>
    ELSE Dies

(* mutant: a task without a payload is skipped, not blocked *)
AcceptOrSkip ==
    /\ pc = "accept"
    /\ \/ LoadFor("startWrite", "none")
       \/ LoadFor("head", "none")

(* the payload file is looked up again; it may have gone since selection *)
Accept ==
    /\ pc = "accept"
    /\ \/ LoadFor("startWrite", "none")
       \/ LoadFor("settleWrite", "payload_missing")

StartWrite ==
    /\ pc = "startWrite"
    /\ queue' = MarkRunning(buf, sel, sid)
    /\ buf' = NoTasks
    /\ pc' = "begin"
    /\ UNCHANGED <<disk, approvals, sid, mem, drained, sel, verdict, reason, idlePolls,
                   control, clients, starts, history>>

(* record_task_started, then the agent is called *)
Begin ==
    /\ pc = "begin"
    /\ Save([mem EXCEPT !.executed = @ + 1])
    /\ runs' = [runs EXCEPT ![sel] = @ + 1]
    /\ begun' = [begun EXCEPT ![sid] = @ + 1]
    /\ pc' = "agent"
    /\ UNCHANGED <<queue, approvals, sid, drained, sel, buf, verdict, reason, idlePolls,
                   control, clients, starts, finished, lost>>

(* a stop requested while the agent ran: its result is dropped and the task
   is left running in the queue *)
AgentCut ==
    /\ pc = "agent" /\ LockFree
    /\ stopReq
    /\ reason' = "operator"
    /\ Save(mem)
    /\ LoseRun
    /\ pc' = "final"
    /\ UNCHANGED <<queue, approvals, sid, drained, sel, buf, verdict, idlePolls, control,
                   clients, starts, finished, runs, begun>>

(* mutant: the success is reported before the queue has it *)
ReportFirst ==
    /\ pc = "agent" /\ LockFree
    /\ ~stopReq
    /\ verdict' \in {"complete", "retry", "block"}
    /\ finished' = IF verdict' = "complete" THEN finished \cup {sel} ELSE finished
    /\ Save(IF verdict' = "complete" THEN [mem EXCEPT !.completed = @ \cup {sel}] ELSE mem)
    /\ pc' = "settle"
    /\ UNCHANGED <<queue, approvals, sid, drained, sel, buf, reason, idlePolls, control,
                   clients, starts, runs, lost, begun>>

AgentReturns ==
    /\ pc = "agent" /\ LockFree
    /\ ~stopReq
    /\ verdict' \in {"complete", "retry", "block"}
    /\ finished' = IF verdict' = "complete" THEN finished \cup {sel} ELSE finished
    /\ Save(mem)
    /\ pc' = "settle"
    /\ UNCHANGED <<queue, approvals, sid, drained, sel, buf, reason, idlePolls, control,
                   clients, starts, runs, lost, begun>>

Settle == pc = "settle" /\ LoadFor("settleWrite", verdict)

Settled(q, t) ==
    CASE verdict = "complete" -> MarkCompleted(q, t)
      [] verdict = "retry"    -> RequeueFailed(q, t)
      [] OTHER                -> MarkBlocked(q, t)

SettleWrite ==
    /\ pc = "settleWrite"
    /\ queue' = Settled(buf, sel)
    /\ buf' = NoTasks
    /\ pc' = "record"
    /\ UNCHANGED <<disk, approvals, sid, mem, drained, sel, verdict, reason, idlePolls,
                   control, clients, starts, history>>

(* mutant: every result counts as a success *)
AlwaysRecorded == [mem EXCEPT !.completed = @ \cup {sel}, !.streak = 0]

(* the session state record_task_result makes *)
Recorded ==
    IF verdict = "complete"
    THEN [mem EXCEPT !.completed = @ \cup {sel}, !.streak = 0]
    ELSE [mem EXCEPT !.streak = @ + 1]

(* mutant: the threshold itself does not stop the session *)
StreakPassed(state) == Threshold > 0 /\ state.streak > Threshold

(* _repeated_failure_threshold_exceeded *)
StreakExceeded(state) == Threshold > 0 /\ state.streak >= Threshold

Record ==
    /\ pc = "record"
    /\ Save(Recorded)
    /\ IF StreakExceeded(Recorded)
       THEN pc' = "final" /\ reason' = "repeated_failure_threshold_exceeded"
       ELSE pc' = "head" /\ UNCHANGED reason
    /\ sel' = NoTask /\ verdict' = "none"
    /\ UNCHANGED <<queue, approvals, sid, drained, buf, idlePolls, control,
                   clients, starts, history>>

(* finalize, and the last save after the session summary is written *)
Finalize ==
    /\ pc = "final"
    /\ disk' = [disk EXCEPT ![sid] = [mem EXCEPT !.status = "completed"]]
    /\ Ended
    /\ UNCHANGED <<queue, approvals, clients, starts, history>>

-----------------------------------------------------------------------------
(* the operator's exit command or an interrupt, and the passing of time *)
RequestStop ==
    /\ pc # "down" /\ LockFree
    /\ ~stopReq
    /\ stopReq' = TRUE
    /\ UNCHANGED <<files, pc, sid, mem, drained, sel, buf, verdict, reason, idlePolls,
                   polling, expired, clients, starts, history>>

Clock ==
    /\ pc # "down" /\ ~expired
    /\ expired' = TRUE
    /\ UNCHANGED <<files, pc, sid, mem, drained, sel, buf, verdict, reason, idlePolls,
                   polling, stopReq, clients, starts, history>>

-----------------------------------------------------------------------------
(* Clients.  supVars is what none of their steps touches. *)
supVars == <<pc, sid, mem, drained, sel, buf, verdict, reason, idlePolls, stopReq,
             expired, starts, history>>

Advance(c, at) ==
    client' = [client EXCEPT ![c] = IF at = "idle" THEN IdleClient
                                    ELSE [@ EXCEPT !.at = at, !.held = FALSE, !.state = NoFile]]

Begins(c) == client[c].at = "idle" /\ ops < MaxOps /\ ops' = ops + 1

AcceptMessage(c, s) ==
    /\ Begins(c)
    /\ client' = [client EXCEPT ![c] = [IdleClient EXCEPT !.at = "intake", !.session = s]]
    /\ UNCHANGED <<files, polling, supVars>>

(* _record_session_progress and _register_plan_state: load, change display
   fields, save; nothing when the session has no state file *)
SessionLoad(c) ==
    LET s == client[c].session
    IN  /\ client[c].at \in DOMAIN NextUpdate /\ ~client[c].held
        /\ IF disk[s].status = "none"
           THEN Advance(c, NextUpdate[client[c].at])
           ELSE client' = [client EXCEPT ![c] = [@ EXCEPT !.held = TRUE, !.state = disk[s]]]
        /\ UNCHANGED <<files, polling, ops, supVars>>

SessionSave(c) ==
    /\ client[c].at \in DOMAIN NextUpdate /\ client[c].held
    /\ disk' = [disk EXCEPT ![client[c].session] = client[c].state]
    /\ Advance(c, NextUpdate[client[c].at])
    /\ UNCHANGED <<queue, approvals, polling, ops, supVars>>

(* _derive_task_id_prefix: the plan's ids are new to the copy just read *)
IntakeRead(c, plan) ==
    /\ client[c].at = "read"
    /\ \A t \in plan : ~Present(queue, t)
    /\ client' = [client EXCEPT ![c] = [@ EXCEPT !.at = "decision", !.copy = queue,
                                                       !.tasks = plan]]
    /\ UNCHANGED <<files, polling, ops, supVars>>

IntakeWrite(c) ==
    /\ client[c].at = "write"
    /\ queue' = AppendTasks(client[c].copy, client[c].tasks)
    /\ client' = [client EXCEPT ![c] = [@ EXCEPT !.at = "plan", !.copy = NoTasks]]
    /\ UNCHANGED <<disk, approvals, polling, ops, supVars>>

(* approve_mutation_task: load, checks, store.add; then the queue write *)
ApproveRead(c, t) ==
    /\ Begins(c)
    /\ queue[t].status = "needs_approval"
    /\ approvals' = approvals \cup {t}
    /\ client' = [client EXCEPT ![c] = [IdleClient EXCEPT !.at = "apply", !.copy = queue,
                                                          !.tasks = {t}]]
    /\ UNCHANGED <<queue, disk, polling, supVars>>

ApproveWrite(c, t) ==
    /\ client[c].at = "apply" /\ client[c].tasks = {t}
    /\ queue' = ApproveTask(client[c].copy, t)
    /\ Advance(c, "idle")
    /\ UNCHANGED <<disk, approvals, polling, ops, supVars>>

(* pause_polling and resume_polling: the flag and the load, then the save,
   all under the lock *)
SetPolling(c, enabled) ==
    /\ pc # "down" /\ LockFree
    /\ Begins(c)
    /\ polling' = enabled
    /\ client' = [client EXCEPT ![c] = [IdleClient EXCEPT !.at = "flag", !.session = sid,
                                                          !.held = TRUE, !.state = disk[sid]]]
    /\ UNCHANGED <<files, supVars>>

SavePolling(c) ==
    /\ client[c].at = "flag"
    /\ disk' = [disk EXCEPT ![client[c].session] = client[c].state]
    /\ Advance(c, "idle")
    /\ UNCHANGED <<queue, approvals, polling, ops, supVars>>

-----------------------------------------------------------------------------
SubmitterStep(c) ==
    \/ \E s \in Session : AcceptMessage(c, s)
    \/ SessionLoad(c)
    \/ SessionSave(c)
    \/ \E plan \in Plans : IntakeRead(c, plan)
    \/ IntakeWrite(c)

ApproverStep(c) == \E t \in Task : ApproveRead(c, t) \/ ApproveWrite(c, t)

ConsoleStep(c) ==
    \/ \E enabled \in BOOLEAN : SetPolling(c, enabled)
    \/ SavePolling(c)

(* one step of run() *)
SupervisorStep ==
    \/ RecoverLoad \/ RecoverWrite
    \/ HeadStop \/ HeadIterate
    \/ Poll
    \/ \E t \in Task : Select(t)
    \/ Idle
    \/ Accept
    \/ StartWrite \/ Begin
    \/ AgentCut \/ AgentReturns
    \/ Settle \/ SettleWrite
    \/ Record
    \/ Finalize

Next ==
    \/ \E s \in Session, resume \in BOOLEAN : Start(s, resume)
    \/ SupervisorStep
    \/ Crash
    \/ RequestStop
    \/ Clock
    \/ \E c \in Submitter : SubmitterStep(c)
    \/ \E c \in Approver : ApproverStep(c)
    \/ \E c \in Console : ConsoleStep(c)

Spec == Init /\ [][Next]_vars

(* run() keeps executing while its process lives, the agent it calls returns,
   and a console that holds the lock gives it back; nothing makes an operator
   start, stop, pause, resume or approve anything *)
FairSpec ==
    /\ Spec
    /\ WF_vars(SupervisorStep)
    /\ \A c \in Console : WF_vars(SavePolling(c))

-----------------------------------------------------------------------------
(* Properties of every interleaving. *)

(* The agent never runs a task that intake blocked, nor one behind operator
   approval before approve_mutation_task granted it, whatever stale copies
   of the queue are written back.  (autonomous_selector.py 192-221,
   mutation_approval.py 28-38) *)
OnlyAdmittedRun ==
    pc \in {"begin", "agent"} =>
        /\ Gate[sel] # "blocked"
        /\ Gate[sel] = "approval" => sel \in approvals

(* When the agent is called for a task, the validator has already returned
   "complete" for each of its dependencies, in this process or an earlier
   one.  (autonomous_selector.py 208-212, supervisor.py 391-401) *)
DependenciesFinished ==
    pc \in {"begin", "agent"} => Deps[sel] \subseteq finished

(* tasks_completed of every session, on disk or in memory, names only tasks
   whose validation said complete: a crash, a resume or a stale session
   state written back by a client invents no success.
   (state_store.py 271-277) *)
NoInventedSuccess ==
    /\ mem.completed \subseteq finished
    /\ \A s \in Session : disk[s].completed \subseteq finished

(* The inductive invariant behind the three properties: what every copy of
   the queue, however stale, says of a task stays true, because grants and
   finished tasks only accumulate. *)
Cleared(t) ==
    /\ Gate[t] # "blocked"
    /\ Gate[t] = "approval" => t \in approvals

CopySound(q) ==
    \A t \in Task :
        /\ q[t].status \in {"pending", "running", "completed"} => Cleared(t)
        /\ q[t].status = "needs_approval" => Gate[t] = "approval"
        /\ q[t].status = "completed" => t \in finished

InHandSound ==
    /\ pc \in Holding => Cleared(sel) /\ Deps[sel] \subseteq finished
    /\ verdict = "complete" => sel \in finished
    /\ pc \notin {"settle", "settleWrite", "record"} => verdict = "none"

ClientSound(c) ==
    /\ CopySound(client[c].copy)
    /\ client[c].at = "apply" =>
          \A t \in client[c].tasks : Gate[t] = "approval" /\ t \in approvals
    /\ client[c].state.completed \subseteq finished

SafetyInv ==
    /\ CopySound(queue) /\ CopySound(buf)
    /\ InHandSound
    /\ \A c \in Client : ClientSound(c)
    /\ NoInventedSuccess

-----------------------------------------------------------------------------
(* Properties of the supervisor as the queue's only writer. *)

(* A task is handed to the agent at most MaxRetries times, not counting the
   runs that a crash or an operator stop cut before their result reached
   the queue.  (scheduler.py 126-147) *)
RunsWithinRetryBudget == \A t \in Task : runs[t] <= MaxRetries + lost[t]

(* max_task_executions bounds the runs of a session over all its crashes and
   resumes, because tasks_executed_count is saved before the agent is
   called.  (supervisor.py 1202-1206, state_store.py 205-224) *)
ExecutionBudget ==
    MaxExecutions > 0 => \A s \in Session : begun[s] <= MaxExecutions

(* After a resume, a task the queue shows running under this session is the
   one in hand: nothing the previous process left is stranded.
   (supervisor.py 119-121, scheduler.py 63-77) *)
ReclaimOnResume ==
    pc \notin {"down", "recover", "recoverWrite", "final"} /\ mem.resumed =>
        Interrupted(queue, sid) \subseteq {sel}

(* A session never reports a task completed that the queue does not: the
   queue is written first.  (supervisor.py 393-448) *)
QueueLeadsState ==
    \A s \in Session : \A t \in disk[s].completed : queue[t].status = "completed"

(* When run() leaves its loop because of the queue, the queue is still in the
   condition it reports: nothing left, or only pending tasks that no one
   can select.  (supervisor.py 283-297, 1083-1093, 1214-1236) *)
ClosingReasonHolds ==
    pc = "final" =>
        /\ reason \in {"queue_empty", "queue_empty_idle_timeout"} => Remaining(queue) = {}
        /\ reason = "all_remaining_tasks_blocked" => AllRemainingBlocked(queue)

(* The failure streak survives a resume and passes the threshold only
   because a resumed session runs one more task before it is checked, once
   per start.  (supervisor.py 458-460, 1208-1212) *)
StreakBounded ==
    Threshold > 0 => \A s \in Session : disk[s].streak < Threshold + starts

(* The invariants behind these properties.  The copy run() is about to write
   back is the queue itself, and the task in hand has the status its place in
   run() calls for. *)
HandSound ==
    /\ pc \in {"recoverWrite", "startWrite", "settleWrite"} => buf = queue
    /\ pc \in {"down", "recover", "recoverWrite", "head", "poll", "select"} => sel = NoTask
    /\ pc \in {"accept", "startWrite"} => Eligible(queue, sel)
    /\ pc \in {"begin", "agent", "settle"} => queue[sel].status = "running"
    /\ pc = "settle" => verdict # "payload_missing"
    /\ pc = "settleWrite" => IF verdict = "payload_missing" THEN Eligible(queue, sel)
                             ELSE queue[sel].status = "running"
    /\ pc = "record" => /\ queue[sel].status # "running"
                        /\ verdict = "complete" => queue[sel].status = "completed"

(* what each status says of the runs so far; a run in flight is not counted
   in the queue yet *)
Charged(t) == IF InFlight /\ sel = t THEN 1 ELSE 0

RetryAccounting ==
    \A t \in Task :
        /\ queue[t].status \in {"pending", "running", "needs_approval"} =>
              queue[t].retries < MaxRetries /\ runs[t] <= queue[t].retries + lost[t] + Charged(t)
        /\ queue[t].status \in {"completed", "blocked"} =>
              runs[t] <= MaxRetries + lost[t]
        /\ queue[t].status = "absent" => runs[t] = 0

(* every session state there is names only tasks the queue shows completed *)
Done == TasksIn(queue, {"completed"})

ReportSound ==
    /\ mem.completed \subseteq Done
    /\ \A s \in Session : disk[s].completed \subseteq Done
    /\ \A c \in Client : client[c].state.completed \subseteq Done

DrainedSound == pc \in {"poll", "select"} => drained = (Remaining(queue) = {})

(* tasks_executed_count is never behind the tasks the session started *)
CountSound ==
    MaxExecutions > 0 =>
        /\ \A s \in Session : begun[s] <= disk[s].executed
        /\ pc # "down" => begun[sid] <= mem.executed
        /\ pc \in {"poll", "select", "accept", "startWrite", "begin"} =>
              mem.executed < MaxExecutions

(* in the loop one more failure is still within the bound *)
StreakSound ==
    Threshold > 0 =>
        /\ pc \notin {"down", "final"} => starts > 0 /\ mem.streak + 1 < Threshold + starts
        /\ pc = "final" => mem.streak < Threshold + starts
        /\ \A c \in Client : client[c].state.streak < Threshold + starts

-----------------------------------------------------------------------------
(* Liveness, with run() scheduled fairly. *)

(* Once the session limit has passed, run() leaves its loop whatever the
   queue holds.  (supervisor.py 159-166) *)
TimeLimitStops == expired /\ pc # "down" ~> pc = "down"

(* A task that is selectable is settled unless the session is paused or ends
   first: no task starves behind the others' retries.
   (supervisor.py 223-458) *)
SelectableSettles ==
    \A t \in Task :
        pc # "down" /\ Eligible(queue, t)
          ~> queue[t].status \in {"completed", "blocked"} \/ ~polling \/ pc = "down"

(* A session closes by itself unless it is paused or has nothing left but
   tasks that wait for an operator: one to approve, or one left running by
   a session that was not resumed.  (supervisor.py 247-298) *)
WaitsForOperator ==
    /\ \A t \in Task : ~Eligible(queue, t)
    /\ TasksIn(queue, {"needs_approval", "running"}) # {}

SessionCloses == pc # "down" ~> pc = "down" \/ ~polling \/ WaitsForOperator

-----------------------------------------------------------------------------
(* What the console and the intake report. *)

(* control_commands.py 81 tells the operator that "no new queue items will
   start until polling resumes". *)
PausedMeansNoStart ==
    [][~polling /\ LockFree =>
          TasksIn(queue', {"running"}) \subseteq TasksIn(queue, {"running"})]_vars

(* session_runner.py 340 reports "Queue Write: confirmed" once accept_message
   returns; from then on the task is in the queue. *)
ConfirmedStays ==
    [][\A t \in Task :
          Present(queue, t) /\ (\A c \in Submitter : t \notin client[c].tasks)
            => Present(queue', t)]_vars
=============================================================================
