---------------------------- MODULE ContractQueue ----------------------------
(***************************************************************************)
(* The contract runner (orchestrator/runner.py, main.py, night_cycle.py):  *)
(* command-line programs that take tasks from queue.json, whose contract   *)
(* files they also look for in a directory, execute them and write their   *)
(* status.  Every update reads the whole file and writes it back, no       *)
(* program locks it, and a program may end anywhere.  Beside them an       *)
(* operator approves tasks and edits the queue.                            *)
(***************************************************************************)
EXTENDS Naturals, FiniteSets

CONSTANTS
    Tasks,      \* tasks are 1..Tasks, the order of their ids
    Contracts,  \* tasks whose contract file is in the directory
    Entity,     \* entity generation contracts, which main retries by itself
    Loop,       \* task -> max attempts of its fix loop, 0 without one
    Program,    \* slots for programs
    MaxRuns, Retries,      \* --max-runs, --retry-per-task
    Limits      \* bounds: records of the processes at once, the programs started,
                \*   the operator's actions and the ways to start a program

Task == 1..Tasks

(* the command line: main.py, main.py --nightly, or a night cycle *)
Option == [mode : {"once", "nightly", "cycle"}, ask : BOOLEAN, deny : BOOLEAN]

ASSUME ContractsAssumption == Contracts \subseteq Task /\ Entity \subseteq Contracts
ASSUME TasksAssumption == Tasks \in Nat \ {0}
ASSUME RunsAssumption == MaxRuns \in Nat /\ Retries \in Nat
ASSUME LoopAssumption == Loop \in [Task -> 0..3]
ASSUME LimitsAssumption == \A l \in Limits : l.options \subseteq Option

VARIABLES
    queue,      \* queue.json: task -> status
    approvals,  \* approvals.json: task -> approvals that name it
    pc, opt, copy, seen,     \* program -> place, options, queue and approvals it read
    cur, verdict, tries,     \* its task, what the attempt came to, attempts of the loop
    rewritten,  \* has the attempt written its result a second time
    calls,      \* executor calls for the task in this cycle
    executed, exhausted,     \* executed_attempts, exhausted_tasks
    opc, otask, ocopy, oseen,   \* an approval under way: place, task, what it read
    limit, starts, ops,
    overlap,    \* history: two of these processes were under way at once
    waits,      \* history: tasks left unfinished that only the operator may open
    granted, spent           \* history: task -> approvals given, attempts run on one

programs == <<pc, opt, copy, seen, cur, verdict, tries, rewritten, calls, executed, exhausted>>
operator == <<opc, otask, ocopy, oseen>>
history == <<overlap, waits, granted, spent>>
bounds == <<limit, starts, ops>>
vars == <<queue, approvals, programs, operator, bounds, history>>

Status == {"absent", "pending", "running", "needs_approval", "completed", "failed"}
Verdicts == {"ALLOW", "ASK", "BLOCK", "FAILED", "EXCEPTION"}

First(S) == {t \in S : \A u \in S : t <= u}

(* a contract file without an entry becomes a pending task *)
Synced(q) == [t \in Task |-> IF q[t] = "absent" /\ t \in Contracts THEN "pending" ELSE q[t]]

(* _queue_status_for_overall, and failed for an attempt that raised *)
StatusAfter(v) == CASE v = "ALLOW" -> "completed" [] v = "ASK" -> "needs_approval"
                    [] OTHER -> "failed"

(* entries that were added by hand have no contract file *)
Init ==
    /\ queue = [t \in Task |-> IF t \in Contracts THEN "absent" ELSE "pending"]
    /\ approvals = [t \in Task |-> 0]
    /\ pc = [p \in Program |-> "off"]
    /\ copy = [p \in Program |-> queue] /\ seen = [p \in Program |-> approvals]
    /\ cur = [p \in Program |-> 1] /\ verdict = [p \in Program |-> "ALLOW"]
    /\ tries = [p \in Program |-> 0] /\ rewritten = [p \in Program |-> FALSE]
    /\ calls = [p \in Program |-> 0] /\ executed = [p \in Program |-> 0]
    /\ exhausted = [p \in Program |-> {}]
    /\ opc = "idle" /\ otask = 1 /\ ocopy = queue /\ oseen = approvals
    /\ limit \in Limits
    /\ \E o \in limit.options : opt = [p \in Program |-> o]
    /\ starts = 0 /\ ops = 0
    /\ overlap = FALSE /\ waits = {}
    /\ granted = [t \in Task |-> 0] /\ spent = [t \in Task |-> 0]

Goto(p, place) == pc' = [pc EXCEPT ![p] = place]
Up(p) == pc[p] # "off"
Alone == opc = "idle" /\ \A p \in Program : ~Up(p)
UnderWay == Cardinality({p \in Program : Up(p)}) + (IF opc = "idle" THEN 0 ELSE 1)

(* what a program leaves behind in the task it had, for nobody to go on with *)
Leaves(t) == IF queue[t] \in {"running", "failed"} \/ (queue[t] = "needs_approval" /\ t \notin Entity)
                THEN waits' = waits \cup {t} ELSE UNCHANGED waits

-----------------------------------------------------------------------------
(* Starting: QueueManager reads the queue and enters new contract files;   *)
(* main.py then declares running tasks failed and, if there were any,      *)
(* leaves the queue to the operator. The night cycle does not.             *)
Start(p) ==
    /\ pc[p] = "off" /\ UnderWay < limit.slots
    /\ starts < limit.starts /\ starts' = starts + 1
    /\ \E o \in limit.options : opt' = [opt EXCEPT ![p] = o]
    /\ executed' = [executed EXCEPT ![p] = 0]
    /\ exhausted' = [exhausted EXCEPT ![p] = {}]
    /\ overlap' = (overlap \/ ~Alone)
    /\ Goto(p, "load")
    /\ UNCHANGED <<queue, approvals, copy, seen, cur, verdict, tries, rewritten, calls, operator,
                   limit, ops, waits, granted, spent>>

Loaded(p) == IF opt[p].mode = "cycle" THEN "select" ELSE "recover"

Load(p) ==
    /\ pc[p] = "load"
    /\ copy' = [copy EXCEPT ![p] = Synced(queue)]
    /\ Goto(p, IF copy'[p] = queue THEN Loaded(p) ELSE "sync")
    /\ UNCHANGED <<queue, approvals, opt, seen, cur, verdict, tries, rewritten, calls, executed,
                   exhausted, operator, bounds, history>>

Sync(p) ==
    /\ pc[p] = "sync"
    /\ queue' = copy[p]
    /\ Goto(p, Loaded(p))
    /\ UNCHANGED <<approvals, opt, copy, seen, cur, verdict, tries, rewritten, calls, executed,
                   exhausted, operator, bounds, history>>

Stale(q) == {t \in Task : q[t] = "running"}
Requeued(q) == [t \in Task |-> IF t \in Stale(q) THEN "pending" ELSE q[t]]
Recovered(q) == [t \in Task |-> IF t \in Stale(q) THEN "failed" ELSE q[t]]

Recover(p) ==
    /\ pc[p] = "recover"
    /\ copy' = [copy EXCEPT ![p] = Synced(queue)]
    /\ Goto(p, IF Stale(queue) # {} THEN "halt" ELSE "pick")
    /\ UNCHANGED <<queue, approvals, opt, seen, cur, verdict, tries, rewritten, calls, executed,
                   exhausted, operator, bounds, history>>

Halt(p) ==
    /\ pc[p] = "halt"
    /\ queue' = Recovered(copy[p])
    /\ Goto(p, "off")
    /\ UNCHANGED <<approvals, opt, copy, seen, cur, verdict, tries, rewritten, calls, executed,
                   exhausted, operator, bounds, history>>

-----------------------------------------------------------------------------
(* Choosing a task. main.py looks at the first task that is not completed  *)
(* and at no other.                                                        *)
Open(q) == {t \in Task : q[t] \notin {"absent", "completed"}}

(* An attempt begins by marking the task running, unless its contract file *)
(* is gone: it then fails at once, and nothing is written twice.           *)
Attempt(p, t) ==
    /\ cur' = [cur EXCEPT ![p] = t]
    /\ \/ /\ Goto(p, "markLoad")
          /\ rewritten' = [rewritten EXCEPT ![p] = FALSE]
          /\ UNCHANGED verdict
       \/ /\ Goto(p, "endLoad")
          /\ rewritten' = [rewritten EXCEPT ![p] = TRUE]
          /\ verdict' = [verdict EXCEPT ![p] = "FAILED"]

Pick(p) ==
    /\ pc[p] = "pick"
    /\ LET q == Synced(queue)
           pending == {t \in First(Open(q)) : q[t] = "pending"}
           retried == {t \in First(Open(q)) : q[t] = "needs_approval" /\ t \in Entity}
       IN /\ copy' = [copy EXCEPT ![p] = q]
          /\ \/ \E t \in pending : Attempt(p, t)
             \/ /\ \E t \in retried : cur' = [cur EXCEPT ![p] = t]
                /\ Goto(p, "reopen")
                /\ UNCHANGED <<verdict, rewritten>>
             \/ /\ pending \cup retried = {}
                /\ Goto(p, "off")
                /\ UNCHANGED <<cur, verdict, rewritten>>
    /\ tries' = [tries EXCEPT ![p] = 1]
    /\ UNCHANGED <<queue, approvals, opt, seen, calls, executed, exhausted, operator, bounds, history>>

Reopen(p) ==
    /\ pc[p] = "reopen"
    /\ queue' = [copy[p] EXCEPT ![cur[p]] = "pending"]
    /\ Attempt(p, cur[p])
    /\ UNCHANGED <<approvals, opt, copy, seen, tries, calls, executed, exhausted, operator, bounds, history>>

(* The night cycle passes over tasks that are exhausted, running or        *)
(* failed, and stops at one that needs approval if it was told to.         *)
Select(p) ==
    /\ pc[p] = "select"
    /\ LET q == Synced(queue)
           left == {t \in Task \ exhausted[p] : q[t] = "pending"}
           asks == {t \in Task \ exhausted[p] : q[t] = "needs_approval"}
           blocked == opt[p].ask /\ \E t \in asks : \A u \in left : t < u
       IN \/ /\ executed[p] < MaxRuns /\ ~blocked
             /\ \E t \in First(left) : Attempt(p, t)
             /\ tries' = [tries EXCEPT ![p] = 1]
             /\ calls' = [calls EXCEPT ![p] = 1]
          \/ /\ executed[p] >= MaxRuns \/ blocked \/ left = {}
             /\ Goto(p, "off")
             /\ UNCHANGED <<cur, verdict, tries, rewritten, calls>>
    /\ UNCHANGED <<queue, approvals, opt, copy, seen, executed, exhausted, operator, bounds, history>>

(* _exceeded_minutes, and an apply gate that is not satisfied *)
GivesUp(p) ==
    /\ pc[p] = "select"
    /\ Goto(p, "off")
    /\ UNCHANGED <<queue, approvals, opt, copy, seen, cur, verdict, tries, rewritten, calls,
                   executed, exhausted, operator, bounds, history>>

-----------------------------------------------------------------------------
(* One attempt: the task is marked running, carried out, and its result    *)
(* written; update_task reads the queue before each write.                 *)
UpdateLoad(p) ==
    /\ pc[p] \in {"markLoad", "endLoad"}
    /\ copy' = [copy EXCEPT ![p] = Synced(queue)]
    /\ Goto(p, IF pc[p] = "markLoad" THEN "mark" ELSE "end")
    /\ UNCHANGED <<queue, approvals, opt, seen, cur, verdict, tries, rewritten, calls, executed,
                   exhausted, operator, bounds, history>>

Mark(p) ==
    /\ pc[p] = "mark"
    /\ queue' = [copy[p] EXCEPT ![cur[p]] = "running"]
    /\ Goto(p, "work")
    /\ UNCHANGED <<approvals, opt, copy, seen, cur, verdict, tries, rewritten, calls, executed,
                   exhausted, operator, bounds, history>>

Work(p) ==
    /\ pc[p] = "work"
    /\ \E v \in Verdicts : verdict' = [verdict EXCEPT ![p] = v]
    /\ Goto(p, "endLoad")
    /\ UNCHANGED <<queue, approvals, opt, copy, seen, cur, tries, rewritten, calls, executed,
                   exhausted, operator, bounds, history>>

End(p) ==
    /\ pc[p] = "end"
    /\ queue' = [copy[p] EXCEPT ![cur[p]] = StatusAfter(verdict[p])]
    /\ Goto(p, "decide")
    /\ UNCHANGED <<approvals, opt, copy, seen, cur, verdict, tries, rewritten, calls, executed,
                   exhausted, operator, bounds, history>>

(* A read-only task writes its result twice, and a run whose records are   *)
(* not complete is written again as failed.                                *)
Rewrite(p) ==
    /\ pc[p] = "decide" /\ ~rewritten[p] /\ verdict[p] # "EXCEPTION"
    /\ rewritten' = [rewritten EXCEPT ![p] = TRUE]
    /\ \E v \in {verdict[p], "FAILED"} : verdict' = [verdict EXCEPT ![p] = v]
    /\ Goto(p, "endLoad")
    /\ UNCHANGED <<queue, approvals, opt, copy, seen, cur, tries, calls, executed, exhausted,
                   operator, bounds, history>>

-----------------------------------------------------------------------------
(* The fix loop: an attempt that failed in a way that may be mended is     *)
(* repeated, and one that ASKs if the operator's approval is at hand,      *)
(* which it uses up.                                                       *)
Looping(p) == Loop[cur[p]] > 0

Again(p) ==
    /\ tries' = [tries EXCEPT ![p] = @ + 1]
    /\ Attempt(p, cur[p])

Mend(p) ==
    /\ pc[p] = "decide" /\ Looping(p)
    /\ verdict[p] = "FAILED" /\ tries[p] < Loop[cur[p]]
    /\ Again(p)
    /\ UNCHANGED <<queue, approvals, opt, copy, seen, calls, executed, exhausted, operator, bounds, history>>

Consume(p) ==
    /\ pc[p] = "decide" /\ Looping(p) /\ verdict[p] = "ASK"
    /\ approvals[cur[p]] > 0
    /\ seen' = [seen EXCEPT ![p] = approvals]
    /\ Goto(p, "spend")
    /\ UNCHANGED <<queue, approvals, opt, copy, cur, verdict, tries, rewritten, calls, executed,
                   exhausted, operator, bounds, history>>

(* consume() takes one entry out; the loop goes on unless this was its     *)
(* last attempt or its time is up, and then returns the ASK.               *)
KeptApprovals(p) == seen[p]
Remaining(p) == [seen[p] EXCEPT ![cur[p]] = @ - 1]

Spend(p) ==
    /\ pc[p] = "spend"
    /\ approvals' = Remaining(p)
    /\ \/ /\ tries[p] < Loop[cur[p]]
          /\ Again(p)
          /\ spent' = [spent EXCEPT ![cur[p]] = @ + 1]
       \/ /\ Goto(p, "return")
          /\ UNCHANGED <<cur, verdict, tries, rewritten, spent>>
    /\ UNCHANGED <<queue, opt, copy, seen, calls, executed, exhausted, operator, bounds, overlap, waits, granted>>

GoesOnAfterAsk(v) == v \in {"ALLOW", "ASK"}
GoesOn(v) == v = "ALLOW"

(* Any other result is returned, and so are these two when there is no     *)
(* approval, no change since the last run, no attempt or no time left.     *)
Returns(p) == pc[p] \in {"decide", "return"}

(* run_all goes on after ALLOW only, run_once never. *)
ReturnMain(p) ==
    /\ Returns(p) /\ opt[p].mode # "cycle"
    /\ Leaves(cur[p])
    /\ Goto(p, IF opt[p].mode = "nightly" /\ GoesOn(verdict[p]) THEN "pick" ELSE "off")
    /\ UNCHANGED <<queue, approvals, opt, copy, seen, cur, verdict, tries, rewritten, calls,
                   executed, exhausted, operator, bounds, overlap, granted, spent>>

(* _execute_with_retries: retries repeat the whole execution, whatever the *)
(* queue says by now. A refused command, an ASK and an exception end the   *)
(* cycle whatever stop_on_ask and stop_on_deny say.                        *)
ReturnCycle(p) ==
    /\ Returns(p) /\ opt[p].mode = "cycle"
    /\ executed' = [executed EXCEPT ![p] = @ + 1]
    /\ \/ /\ verdict[p] \in {"BLOCK", "FAILED"} /\ calls[p] <= Retries
          /\ calls' = [calls EXCEPT ![p] = @ + 1]
          /\ tries' = [tries EXCEPT ![p] = 1]
          /\ Attempt(p, cur[p])
          /\ UNCHANGED <<exhausted, waits>>
       \/ /\ \/ verdict[p] = "ALLOW" /\ UNCHANGED exhausted
             \/ /\ verdict[p] \in {"BLOCK", "FAILED"} /\ calls[p] > Retries /\ ~opt[p].deny
                /\ exhausted' = [exhausted EXCEPT ![p] = @ \cup {cur[p]}]
          /\ Leaves(cur[p])
          /\ Goto(p, "select")
          /\ UNCHANGED <<cur, verdict, tries, rewritten, calls>>
       \/ /\ verdict[p] # "ALLOW"
          /\ Leaves(cur[p])
          /\ Goto(p, "off")
          /\ UNCHANGED <<cur, verdict, tries, rewritten, calls, exhausted>>
    /\ UNCHANGED <<queue, approvals, opt, copy, seen, operator, bounds, overlap, granted, spent>>

-----------------------------------------------------------------------------
(* A program ends in the middle; a task it has is as the file shows it.    *)
HasTask(p) == pc[p] \in {"endLoad", "mark", "work", "end", "decide", "spend", "return", "markLoad"}

Crash(p) ==
    /\ Up(p)
    /\ IF HasTask(p) THEN Leaves(cur[p]) ELSE UNCHANGED waits
    /\ Goto(p, "off")
    /\ UNCHANGED <<queue, approvals, opt, copy, seen, cur, verdict, tries, rewritten, calls,
                   executed, exhausted, operator, bounds, overlap, granted, spent>>

(* The operator: approve_mutation_task reads the queue, adds an approval   *)
(* and writes back the queue it read with the task pending.                *)
Approve(t) ==
    /\ opc = "idle" /\ UnderWay < limit.slots
    /\ ops < limit.ops /\ ops' = ops + 1
    /\ queue[t] = "needs_approval"
    /\ otask' = t /\ ocopy' = queue /\ UNCHANGED oseen /\ opc' = "read"
    /\ overlap' = (overlap \/ ~Alone)
    /\ UNCHANGED <<queue, approvals, programs, limit, starts, waits, granted, spent>>

ReadApprovals ==
    /\ opc = "read" /\ opc' = "add"
    /\ oseen' = approvals
    /\ UNCHANGED <<queue, approvals, programs, otask, ocopy, bounds, history>>

AddApproval ==
    /\ opc = "add" /\ opc' = "open"
    /\ approvals' = [oseen EXCEPT ![otask] = @ + 1]
    /\ granted' = [granted EXCEPT ![otask] = @ + 1]
    /\ UNCHANGED <<queue, programs, otask, ocopy, oseen, bounds, overlap, waits, spent>>

OpenTask ==
    /\ opc = "open" /\ opc' = "idle"
    /\ queue' = [ocopy EXCEPT ![otask] = "pending"]
    /\ waits' = waits \ {otask}
    /\ UNCHANGED <<approvals, programs, otask, ocopy, oseen, bounds, overlap, granted, spent>>

(* queue_ops reset, which sets any entry back to pending *)
Reset(t) ==
    /\ ops < limit.ops /\ ops' = ops + 1
    /\ queue[t] \in {"running", "needs_approval", "failed", "completed"}
    /\ queue' = [queue EXCEPT ![t] = "pending"]
    /\ waits' = waits \ {t}
    /\ UNCHANGED <<approvals, programs, operator, limit, starts, overlap, granted, spent>>

ProgramStep(p) ==
    \/ Load(p) \/ Sync(p) \/ Recover(p) \/ Halt(p)
    \/ Pick(p) \/ Reopen(p) \/ Select(p) \/ GivesUp(p)
    \/ UpdateLoad(p) \/ Mark(p) \/ Work(p) \/ End(p) \/ Rewrite(p)
    \/ Mend(p) \/ Consume(p) \/ Spend(p) \/ ReturnMain(p) \/ ReturnCycle(p)

Next ==
    \/ \E p \in Program : Start(p) \/ ProgramStep(p) \/ Crash(p)
    \/ \E t \in Task : Approve(t) \/ Reset(t)
    \/ ReadApprovals \/ AddApproval \/ OpenTask

Spec == Init /\ [][Next]_vars

(* Programs go on; an attempt ends, as its commands have timeouts. *)
FairSpec == Spec /\ \A p \in Program : WF_vars(ProgramStep(p))

-----------------------------------------------------------------------------
Places == {"off", "load", "sync", "recover", "halt", "pick", "reopen", "select", "markLoad",
           "mark", "work", "endLoad", "end", "decide", "spend", "return"}
FilesOK ==
    /\ queue \in [Task -> Status] /\ approvals \in [Task -> Nat]
    /\ waits \subseteq Task /\ granted \in [Task -> Nat] /\ spent \in [Task -> Nat]
ProgramsOK ==
    /\ pc \in [Program -> Places]
    /\ opt \in [Program -> Option]
    /\ copy \in [Program -> [Task -> Status]] /\ seen \in [Program -> [Task -> Nat]]
    /\ cur \in [Program -> Task]
    /\ \A p \in Program : pc[p] = "spend" => seen[p][cur[p]] > 0
AttemptsOK ==
    /\ verdict \in [Program -> Verdicts]
    /\ tries \in [Program -> 0..3] /\ rewritten \in [Program -> BOOLEAN]
    /\ calls \in [Program -> Nat] /\ executed \in [Program -> Nat]
    /\ exhausted \in [Program -> SUBSET Task]
OperatorOK ==
    /\ opc \in {"idle", "read", "add", "open"} /\ otask \in Task
    /\ ocopy \in [Task -> Status] /\ oseen \in [Task -> Nat]
    /\ limit \in Limits /\ starts \in Nat /\ ops \in Nat /\ overlap \in BOOLEAN
TypeOK == FilesOK /\ ProgramsOK /\ AttemptsOK /\ OperatorOK

(* What the operator alone may open again is not open in the file, nor in  *)
(* a copy of it that will be written, nor in anybody's hand.               *)
Closed(q) == \A t \in waits :
    q[t] \in {"running", "failed"} \/ (q[t] = "needs_approval" /\ t \notin Entity)
Writes(p) == pc[p] \in {"sync", "halt", "reopen", "mark", "end"}
WaitsSound ==
    ~overlap =>
        /\ Closed(queue)
        /\ \A p \in Program : Writes(p) => Closed(copy[p])
        /\ \A p \in Program : HasTask(p) \/ pc[p] = "reopen" => cur[p] \notin waits
        /\ opc # "idle" => Closed(ocopy)

(* Approvals read to be written back are those of the file.                *)
ApprovalsSound ==
    ~overlap =>
        /\ \A p \in Program : pc[p] = "spend" => seen[p] = approvals /\ approvals[cur[p]] > 0
        /\ opc = "add" => oseen = approvals

AloneSound ==
    ~overlap => \A p \in Program : Up(p) => opc = "idle" /\ \A r \in Program : Up(r) => r = p

(* A task that a program left failed, waiting for approval or, by a crash, *)
(* running is not begun again until the operator has put it back.          *)
Begins(p, t) == pc[p] = "mark" /\ pc'[p] = "work" /\ cur[p] = t
LeftToOperator ==
    [][\A p \in Program, t \in waits : Begins(p, t) => overlap]_vars

(* An approval lets one attempt be repeated, also when a crash came        *)
(* between its use and that attempt.                                       *)
GrantsOnce == ~overlap => \A t \in Task : spent[t] + approvals[t] <= granted[t]

(* Every program ends. *)
ProgramsEnd == \A p \in Program : Up(p) ~> ~Up(p)
=============================================================================
