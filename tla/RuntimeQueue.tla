---------------------------- MODULE RuntimeQueue ----------------------------
(***************************************************************************)
(* backlog/queue.json and the pure part of every operation on it: what     *)
(* Scheduler (scheduler.py), select_next_task (autonomous_selector.py),    *)
(* accept_message (task_intake.py) and approve_mutation_task               *)
(* (mutation_approval.py) compute from a loaded copy of the queue.         *)
(* Reading and writing the file are separate steps of module Supervisor.   *)
(*                                                                         *)
(* A queue maps every task id to its entry; an id that is not in the file  *)
(* has the entry Absent.  Priority, scores and every display field are     *)
(* left out: the selector's ranking is a choice among the eligible tasks.  *)
(***************************************************************************)
EXTENDS Naturals, FiniteSets

CONSTANTS
    Task,         \* task ids
    Session,      \* supervisor session ids
    NoSession,    \* current_session_id = None
    Deps,         \* "dependencies" of each task
    Gate,         \* what intake decides: "open", "approval" or "blocked"
    BadContract,  \* tasks whose contract file the selector rejects
    MaxRetries    \* Scheduler.max_retries, max(1, configured value)

ASSUME SessionAssumption == NoSession \notin Session
ASSUME DepsAssumption == Deps \in [Task -> SUBSET Task]
ASSUME GateAssumption == Gate \in [Task -> {"open", "approval", "blocked"}]
ASSUME RetriesAssumption == MaxRetries \in Nat \ {0}

Statuses == {"absent", "pending", "needs_approval", "running", "completed", "blocked"}

Entry == [status: Statuses, owner: Session \cup {NoSession}, retries: Nat]

Queue == [Task -> Entry]

Absent == [status |-> "absent", owner |-> NoSession, retries |-> 0]

NoTasks == [t \in Task |-> Absent]

TasksIn(q, statuses) == {t \in Task : q[t].status \in statuses}

Present(q, t) == q[t].status # "absent"

(* remaining_count: everything neither completed nor blocked *)
Remaining(q) == TasksIn(q, {"pending", "needs_approval", "running"})

-----------------------------------------------------------------------------
(* mutants of the selector: an unapproved task, or one whose dependency
   failed, is selectable *)
EligibleUnapproved(q, t) ==
    /\ q[t].status \in {"pending", "needs_approval"}
    /\ \A d \in Deps[t] : q[d].status = "completed"
    /\ t \notin BadContract

EligibleAfterFailure(q, t) ==
    /\ q[t].status = "pending"
    /\ \A d \in Deps[t] : q[d].status \in {"completed", "blocked"}
    /\ t \notin BadContract

(* _exclusion_reason returns None exactly for these tasks *)
Eligible(q, t) ==
    /\ q[t].status = "pending"
    /\ \A d \in Deps[t] : q[d].status = "completed"
    /\ t \notin BadContract

(* mutant: only tasks held by a dependency count as blocked *)
RemainingHeld(q) ==
    /\ Remaining(q) # {}
    /\ \A t \in Remaining(q) : \E d \in Deps[t] : q[d].status # "completed"

(* _all_remaining_tasks_blocked: work remains, all of it pending, none of
   it selectable *)
AllRemainingBlocked(q) ==
    /\ Remaining(q) # {}
    /\ Remaining(q) = TasksIn(q, {"pending"})
    /\ \A t \in Task : ~Eligible(q, t)

-----------------------------------------------------------------------------
MarkRunning(q, t, s) ==
    [q EXCEPT ![t].status = "running", ![t].owner = s]

MarkCompleted(q, t) ==
    [q EXCEPT ![t].status = "completed", ![t].owner = NoSession]

MarkBlocked(q, t) ==
    [q EXCEPT ![t].status = "blocked", ![t].owner = NoSession]

(* mutant: one retry too many *)
RequeueOnceMore(q, t) ==
    LET retries == q[t].retries + 1
    IN  [q EXCEPT ![t] = [status  |-> IF retries <= MaxRetries THEN "pending" ELSE "blocked",
                          owner   |-> NoSession,
                          retries |-> retries]]

RequeueFailed(q, t) ==
    LET retries == q[t].retries + 1
    IN  [q EXCEPT ![t] = [status  |-> IF retries < MaxRetries THEN "pending" ELSE "blocked",
                          owner   |-> NoSession,
                          retries |-> retries]]

(* tasks recover_running_tasks reclaims for a resumed session *)
Interrupted(q, s) == {t \in TasksIn(q, {"running"}) : q[t].owner = s}

(* mutant: the reclaimed tasks are not written back *)
RecoverUnwritten(q, s) == q

RecoverRunning(q, s) ==
    [t \in Task |-> IF t \in Interrupted(q, s)
                    THEN [q[t] EXCEPT !.status = "pending", !.owner = NoSession]
                    ELSE q[t]]

-----------------------------------------------------------------------------
(* the status accept_message gives a new entry *)
IntakeStatus(t) ==
    CASE Gate[t] = "open"     -> "pending"
      [] Gate[t] = "approval" -> "needs_approval"
      [] OTHER                -> "blocked"

(* accept_message appends the tasks of a plan that the copy does not hold *)
AppendTasks(q, plan) ==
    [t \in Task |-> IF t \in plan /\ ~Present(q, t)
                    THEN [Absent EXCEPT !.status = IntakeStatus(t)]
                    ELSE q[t]]

ApproveTask(q, t) == [q EXCEPT ![t].status = "pending"]
=============================================================================
