----------------------------- MODULE NodeDispatch -----------------------------
(***************************************************************************)
(* Dispatched jobs (app/controller/node_dispatcher.py, node_registry.py,   *)
(* app/node/worker.py): a controller resolves a node from the node files   *)
(* of a shared directory, writes a job file and polls it; the worker of    *)
(* the node claims the job, runs it and reports.  Every process has its    *)
(* own lock, so what one process reads another may write before it writes. *)
(***************************************************************************)
EXTENDS Naturals, FiniteSets

CONSTANTS
    Job, Node, Worker,
    NoJob,
    Setups,     \* the ways node ids may be configured: worker -> node id
    MaxStarts   \* bound: starts of worker processes, in each of these ways

ASSUME NoJobAssumption == NoJob \notin Job
ASSUME SetupsAssumption == Setups \subseteq [Worker -> Node]

VARIABLES
    serves,     \* worker -> the node id of its configuration
    job,        \* job -> its file: status and target node
    file,       \* node -> its file: status, current job, declared command, is
                \*   last_seen_at recent enough not to be stale
    asker,      \* job -> where the controller thread that dispatches it is
    wpc, wjob,  \* worker -> where run_once is, the job it holds
    outcome,    \* worker -> what the execution came to
    declares,   \* worker -> does its configuration declare the command
    enabled,    \* worker -> is the node enabled in its configuration
    starts,
    ran,        \* history: job -> how often it was executed
    abandoned   \* history: jobs in the hand of a worker when it ended, or that it
                \*   could not report on

vars == <<serves, job, file, asker, wpc, wjob, outcome, declares, enabled, starts, ran, abandoned>>
workerVars == <<serves, wpc, wjob, outcome, declares, enabled, starts, ran, abandoned>>

JobSettled == {"completed", "failed", "refused"}
JobStatus == {"none", "queued", "running"} \cup JobSettled
Verdicts == {"unavailable", "timed_out", "success", "failed", "refused"}

NodeFile == [status : {"absent", "online", "busy", "disabled"}, job : Job \cup {NoJob},
             supports : BOOLEAN, recent : BOOLEAN]

Init ==
    /\ serves \in Setups
    /\ \E node \in Node : job = [j \in Job |-> [status |-> "none", node |-> node]]
    /\ file = [n \in Node |-> [status |-> "absent", job |-> NoJob, supports |-> FALSE,
                               recent |-> FALSE]]
    /\ asker = [j \in Job |-> "none"]
    /\ wpc = [w \in Worker |-> "down"]
    /\ wjob = [w \in Worker |-> NoJob]
    /\ outcome = [w \in Worker |-> "none"]
    /\ declares = [w \in Worker |-> TRUE]
    /\ enabled = [w \in Worker |-> TRUE]
    /\ starts = 0
    /\ ran = [j \in Job |-> 0]
    /\ abandoned = {}

----------------------------------------------------------------------------
(* The controller.                                                         *)

(* a node that list_role_matches returns *)
Offered(n) == file[n].status \notin {"absent", "disabled"} /\ file[n].recent /\ file[n].supports

(* _validate_dispatch_node of a node named by the operator *)
FreeNode(n) == Offered(n) /\ file[n].status = "online" /\ file[n].job = NoJob

(* of the matches of a role an idle one comes first *)
RoleMatches ==
    LET matches == {n \in Node : Offered(n)}
        idle == {n \in matches : file[n].status # "busy"}
    IN  IF idle # {} THEN idle ELSE matches

(* resolve_dispatch_target *)
Resolve(j) ==
    /\ asker[j] = "none"
    /\ \/ \E n \in {n \in Node : FreeNode(n)} \cup RoleMatches :
             /\ asker' = [asker EXCEPT ![j] = "resolved"]
             /\ job' = [job EXCEPT ![j].node = n]
       \/ /\ \/ RoleMatches = {}
             \/ \E n \in Node : ~FreeNode(n)
          /\ asker' = [asker EXCEPT ![j] = "unavailable"]
          /\ UNCHANGED job
    /\ UNCHANGED <<file, workerVars>>

(* create_job, after the request was built *)
CreateJob(j) ==
    /\ asker[j] = "resolved"
    /\ job' = [job EXCEPT ![j].status = "queued"]
    /\ asker' = [asker EXCEPT ![j] = "waiting"]
    /\ UNCHANGED <<file, workerVars>>

(* _wait_for_dispatch_job: a poll that finds the job settled, *)
Answered(j) ==
    /\ asker[j] = "waiting" /\ job[j].status \in JobSettled
    /\ asker' = [asker EXCEPT ![j] = IF job[j].status = "completed" THEN "success"
                                     ELSE job[j].status]
    /\ UNCHANGED <<job, file, workerVars>>

(* or the last poll, that does not *)
GivesUp(j) ==
    /\ asker[j] = "waiting" /\ job[j].status \notin JobSettled
    /\ asker' = [asker EXCEPT ![j] = "timed_out"]
    /\ UNCHANGED <<job, file, workerVars>>

(* a node's last_seen_at becomes older than stale_after_seconds; a worker
   sends no heartbeat while it executes *)
TurnsStale(n) ==
    /\ file[n].status # "absent" /\ file[n].recent
    /\ file' = [file EXCEPT ![n].recent = FALSE]
    /\ UNCHANGED <<job, asker, workerVars>>

----------------------------------------------------------------------------
(* The worker: run_once, again and again.                                  *)

(* update_local_node writes the node's file, just seen; whatever a disabled
   node is to be shown as, _normalize_status makes it disabled *)
Publish(w, status, j) ==
    file' = [file EXCEPT ![serves[w]] =
                [status |-> IF enabled'[w] THEN status ELSE "disabled", job |-> j,
                 supports |-> declares'[w], recent |-> TRUE]]

StartWorker(w) ==
    /\ wpc[w] = "down" /\ starts < MaxStarts[serves]
    /\ starts' = starts + 1
    /\ \E d \in BOOLEAN : declares' = [declares EXCEPT ![w] = d]
    /\ \E e \in BOOLEAN : enabled' = [enabled EXCEPT ![w] = e]
    /\ Publish(w, "online", NoJob)
    /\ wpc' = [wpc EXCEPT ![w] = "idle"]
    /\ UNCHANGED <<serves, job, asker, wjob, outcome, ran, abandoned>>

(* the worker of a disabled node says so and takes no job *)
StaysOut(w) ==
    /\ wpc[w] = "idle" /\ ~enabled[w]
    /\ UNCHANGED <<serves, job, asker, wpc, wjob, outcome, declares, enabled, starts, ran, abandoned>>
    /\ Publish(w, "disabled", NoJob)

Heartbeat(w) ==
    /\ wpc[w] = "idle" /\ enabled[w]
    /\ wpc' = [wpc EXCEPT ![w] = "list"]
    /\ UNCHANGED <<serves, job, asker, wjob, outcome, declares, enabled, starts, ran, abandoned>>
    /\ Publish(w, "online", NoJob)

(* mutant: a job of any status is taken *)
ListAnything(w) ==
    /\ wpc[w] = "list"
    /\ \/ \E j \in Job : /\ job[j].node = serves[w] /\ job[j].status # "none"
                         /\ wjob' = [wjob EXCEPT ![w] = j]
                         /\ wpc' = [wpc EXCEPT ![w] = "claim"]
       \/ /\ \A j \in Job : job[j].status = "none"
          /\ wpc' = [wpc EXCEPT ![w] = "idle"]
          /\ UNCHANGED wjob
    /\ UNCHANGED <<serves, job, file, asker, outcome, declares, enabled, starts, ran, abandoned>>

(* claim_next_job: the first queued job of the node, by its random id, *)
Queued(w) == {j \in Job : job[j].node = serves[w] /\ job[j].status = "queued"}

ListJobs(w) ==
    /\ wpc[w] = "list"
    /\ IF Queued(w) = {}
       THEN wpc' = [wpc EXCEPT ![w] = "idle"] /\ UNCHANGED wjob
       ELSE /\ \E j \in Queued(w) : wjob' = [wjob EXCEPT ![w] = j]
            /\ wpc' = [wpc EXCEPT ![w] = "claim"]
    /\ UNCHANGED <<serves, job, file, asker, outcome, declares, enabled, starts, ran, abandoned>>

(* is written back as running, whatever it has become since *)
Claim(w) ==
    /\ wpc[w] = "claim"
    /\ job' = [job EXCEPT ![wjob[w]].status = "running"]
    /\ wpc' = [wpc EXCEPT ![w] = "busy"]
    /\ UNCHANGED <<serves, file, asker, wjob, outcome, declares, enabled, starts, ran, abandoned>>

MarkBusy(w) ==
    /\ wpc[w] = "busy"
    /\ wpc' = [wpc EXCEPT ![w] = "run"]
    /\ UNCHANGED <<serves, job, asker, wjob, outcome, declares, enabled, starts, ran, abandoned>>
    /\ Publish(w, "busy", wjob[w])

(* mutant: a command that failed is run again *)
ExecuteAgain(w) ==
    /\ wpc[w] = "run"
    /\ \E result \in {"completed", "failed"} :
          /\ outcome' = [outcome EXCEPT ![w] = result]
          /\ wpc' = [wpc EXCEPT ![w] = IF result = "failed" THEN "run" ELSE "report"]
    /\ ran' = [ran EXCEPT ![wjob[w]] = @ + 1]
    /\ UNCHANGED <<serves, job, file, asker, wjob, declares, enabled, starts, abandoned>>

(* mutant: a request that is rejected is only logged, and the worker goes on *)
ExecuteRejecting(w) ==
    /\ wpc[w] = "run"
    /\ \E result \in {"failed", IF declares[w] THEN "completed" ELSE "refused"},
          executed \in BOOLEAN :
          /\ executed => declares[w]
          /\ result = "completed" => executed
          /\ outcome' = [outcome EXCEPT ![w] = result]
          /\ ran' = IF executed THEN [ran EXCEPT ![wjob[w]] = @ + 1] ELSE ran
          /\ wpc' = [wpc EXCEPT ![w] = IF result = "failed" /\ ~executed THEN "clear" ELSE "report"]
    /\ UNCHANGED <<serves, job, file, asker, wjob, declares, enabled, starts, abandoned>>

(* a command that is not declared is refused; one that is declared is run, or
   its request is rejected and the job failed *)
Execute(w) ==
    /\ wpc[w] = "run"
    /\ \E result \in {"failed", IF declares[w] THEN "completed" ELSE "refused"},
          executed \in BOOLEAN :
          /\ executed => declares[w]
          /\ result = "completed" => executed
          /\ outcome' = [outcome EXCEPT ![w] = result]
          /\ ran' = IF executed THEN [ran EXCEPT ![wjob[w]] = @ + 1] ELSE ran
    /\ wpc' = [wpc EXCEPT ![w] = "report"]
    /\ UNCHANGED <<serves, job, file, asker, wjob, declares, enabled, starts, abandoned>>

(* mutant: a refusal is shown on the node, not in the job *)
ReportResults(w) ==
    /\ wpc[w] = "report"
    /\ job' = IF outcome[w] = "refused" THEN job
              ELSE [job EXCEPT ![wjob[w]].status = outcome[w]]
    /\ outcome' = [outcome EXCEPT ![w] = "none"]
    /\ wpc' = [wpc EXCEPT ![w] = "clear"]
    /\ UNCHANGED <<serves, file, asker, wjob, declares, enabled, starts, ran, abandoned>>

(* complete_job, fail_job, refuse_job *)
Report(w) ==
    /\ wpc[w] = "report"
    /\ job' = [job EXCEPT ![wjob[w]].status = outcome[w]]
    /\ outcome' = [outcome EXCEPT ![w] = "none"]
    /\ wpc' = [wpc EXCEPT ![w] = "clear"]
    /\ UNCHANGED <<serves, file, asker, wjob, declares, enabled, starts, ran, abandoned>>

(* _update_job finds no job file it can read, and writes nothing *)
CannotReport(w) ==
    /\ wpc[w] = "report"
    /\ outcome' = [outcome EXCEPT ![w] = "none"]
    /\ wpc' = [wpc EXCEPT ![w] = "clear"]
    /\ abandoned' = abandoned \cup {wjob[w]}
    /\ UNCHANGED <<serves, job, file, asker, wjob, declares, enabled, starts, ran>>

BackOnline(w) ==
    /\ wpc[w] = "clear"
    /\ wpc' = [wpc EXCEPT ![w] = "idle"]
    /\ wjob' = [wjob EXCEPT ![w] = NoJob]
    /\ UNCHANGED <<serves, job, asker, outcome, declares, enabled, starts, ran, abandoned>>
    /\ Publish(w, "online", NoJob)

(* what a process knows ends with it *)
Forgets(w) ==
    /\ outcome' = [outcome EXCEPT ![w] = "none"]
    /\ declares' = [declares EXCEPT ![w] = TRUE]
    /\ enabled' = [enabled EXCEPT ![w] = TRUE]

(* the process is killed, or ends by an exception run_once does not catch (a
   file that cannot be written) *)
WorkerEnds(w) ==
    /\ wpc[w] # "down"
    /\ wpc' = [wpc EXCEPT ![w] = "down"]
    /\ wjob' = [wjob EXCEPT ![w] = NoJob]
    /\ abandoned' = IF wpc[w] \in {"busy", "run", "report"}
                    THEN abandoned \cup {wjob[w]} ELSE abandoned
    /\ Forgets(w)
    /\ UNCHANGED <<serves, job, file, asker, starts, ran>>

----------------------------------------------------------------------------
WorkerStep(w) ==
    \/ StaysOut(w) \/ Heartbeat(w) \/ ListJobs(w) \/ Claim(w) \/ MarkBusy(w)
    \/ Execute(w) \/ Report(w) \/ CannotReport(w) \/ BackOnline(w)

Next ==
    \/ \E j \in Job : Resolve(j) \/ CreateJob(j) \/ Answered(j) \/ GivesUp(j)
    \/ \E n \in Node : TurnsStale(n)
    \/ \E w \in Worker : StartWorker(w) \/ WorkerStep(w) \/ WorkerEnds(w)

Spec == Init /\ [][Next]_vars

(* a worker that is up keeps polling, and one that ended is started again
   while starts are left *)
FairSpec == Spec /\ \A w \in Worker : WF_vars(WorkerStep(w)) /\ WF_vars(StartWorker(w))

----------------------------------------------------------------------------
TypeOK ==
    /\ serves \in Setups
    /\ job \in [Job -> [status : JobStatus, node : Node]]
    /\ file \in [Node -> NodeFile]
    /\ asker \in [Job -> {"none", "resolved", "waiting"} \cup Verdicts]
    /\ wpc \in [Worker -> {"down", "idle", "list", "claim", "busy", "run", "report", "clear"}]
    /\ wjob \in [Worker -> Job \cup {NoJob}]
    /\ \A w \in Worker : wpc[w] \in {"claim", "busy", "run", "report"} => wjob[w] \in Job
    /\ outcome \in [Worker -> JobSettled \cup {"none"}]
    /\ \A w \in Worker : wpc[w] = "report" => outcome[w] \in JobSettled
    /\ declares \in [Worker -> BOOLEAN] /\ enabled \in [Worker -> BOOLEAN]
    /\ starts \in Nat /\ ran \in [Job -> Nat] /\ abandoned \subseteq Job

(* a node one worker serves: nothing in the code keeps a second process from
   taking the same node id *)
Solo(n) == \A v, w \in Worker : serves[v] = n /\ serves[w] = n => v = w

(* Through any number of crashes and restarts, a job dispatched to a node
   that one worker serves is executed at most once. *)
OneRunPerJob == \A j \in Job : Solo(job[j].node) => ran[j] <= 1

(* A job shown as running is in the hand of a worker, or was when it ended or
   could not report: it is then nobody's, since only queued jobs are claimed. *)
InHand(j) ==
    \E w \in Worker : wjob[w] = j /\ wpc[w] \in {"busy", "run", "report"}
RunningHasWorker ==
    \A j \in Job : job[j].status = "running" => InHand(j) \/ j \in abandoned

(* A job of such a node moves forward only: what the waiting controller took
   for its result stays its result. *)
Rank(status) == CASE status = "none" -> 0 [] status = "queued" -> 1
                  [] status = "running" -> 2 [] OTHER -> 3
JobsMoveForward ==
    [][\A j \in Job : Solo(job[j].node) /\ job'[j] # job[j]
          => Rank(job[j].status) < Rank(job'[j].status) \/ asker[j] = "none"]_vars

(* A queued job is settled in the end or was lost with a worker, where its
   node has, again and again, a worker that is up and enabled: one that is
   disabled leaves the job queued for ever.  Claims by random id let a job be
   passed over only as often as there are others. *)
Served(n) == \E w \in Worker : serves[w] = n /\ enabled[w] /\ wpc[w] # "down"
JobsSettle ==
    \A j \in Job :
        []<>Served(job[j].node)
            => (job[j].status = "queued" ~> job[j].status \in JobSettled \/ j \in abandoned)
=============================================================================
