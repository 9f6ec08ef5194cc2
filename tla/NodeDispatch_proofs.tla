------------------------- MODULE NodeDispatch_proofs -------------------------
(***************************************************************************)
(* Dispatched jobs for every number of jobs, nodes, workers and starts:    *)
(* types, who holds a running job, and, on a node that one worker serves,  *)
(* one execution per job and statuses that only move forward.              *)
(***************************************************************************)
EXTENDS DispatchLedger, TLAPS

LEMMA StepCases ==
  ASSUME Next
  PROVE  \/ \E j \in Job : Resolve(j) \/ CreateJob(j) \/ Answered(j) \/ GivesUp(j)
         \/ \E n \in Node : TurnsStale(n)
         \/ \E w \in Worker :
              \/ StartWorker(w) \/ StaysOut(w) \/ Heartbeat(w) \/ ListJobs(w) \/ Claim(w)
              \/ MarkBusy(w)
              \/ Execute(w) \/ Report(w) \/ CannotReport(w) \/ BackOnline(w) \/ WorkerEnds(w)
BY DEF Next, WorkerStep

-----------------------------------------------------------------------------
(* The controller's steps keep the types: they leave the workers alone.    *)
LEMMA ControllerTypes ==
  ASSUME TypeOK, NEW j \in Job, Resolve(j) \/ CreateJob(j) \/ Answered(j) \/ GivesUp(j)
  PROVE  TypeOK'
<1>1. CASE Resolve(j)
  <2>1. \/ \E n \in Node : job' = [job EXCEPT ![j].node = n]
        \/ UNCHANGED job
    BY <1>1 DEF Resolve, RoleMatches
  <2>2. job' \in [Job -> [status : JobStatus, node : Node]]
    BY <2>1 DEF TypeOK
  <2>3. asker' \in [Job -> {"none", "resolved", "waiting"} \cup Verdicts]
    BY <1>1 DEF Resolve, TypeOK, Verdicts
  <2>4. QED
    BY <1>1, <2>2, <2>3 DEF Resolve, workerVars, TypeOK
<1>2. CASE CreateJob(j)
  BY <1>2 DEF CreateJob, workerVars, TypeOK, JobStatus
<1>3. CASE Answered(j)
  BY <1>3 DEF Answered, workerVars, TypeOK, Verdicts, JobSettled
<1>4. CASE GivesUp(j)
  BY <1>4 DEF GivesUp, workerVars, TypeOK, Verdicts
<1>5. QED
  BY <1>1, <1>2, <1>3, <1>4

(* What update_local_node writes is a node file. *)
LEMMA PublishedFile ==
  ASSUME TypeOK, NEW w \in Worker, NEW status \in {"online", "busy", "disabled"},
         NEW j \in Job \cup {NoJob},
         declares' \in [Worker -> BOOLEAN], enabled' \in [Worker -> BOOLEAN],
         Publish(w, status, j)
  PROVE  file' \in [Node -> NodeFile]
<1>1. declares'[w] \in BOOLEAN
  OBVIOUS
<1>2. [status |-> IF enabled'[w] THEN status ELSE "disabled", job |-> j,
       supports |-> declares'[w], recent |-> TRUE] \in NodeFile
  BY <1>1 DEF NodeFile
<1>3. QED
  BY <1>2 DEF Publish, TypeOK

LEMMA WorkerTypes ==
  ASSUME TypeOK, NEW w \in Worker,
         \/ StartWorker(w) \/ StaysOut(w) \/ Heartbeat(w) \/ ListJobs(w) \/ Claim(w) \/ MarkBusy(w)
         \/ Execute(w) \/ Report(w) \/ CannotReport(w) \/ BackOnline(w) \/ WorkerEnds(w)
  PROVE  TypeOK'
<1>1. CASE StartWorker(w)
  <2>1. declares' \in [Worker -> BOOLEAN]
    BY <1>1 DEF StartWorker, TypeOK
  <2>2. enabled' \in [Worker -> BOOLEAN]
    BY <1>1 DEF StartWorker, TypeOK
  <2>3. file' \in [Node -> NodeFile]
    BY <1>1, <2>1, <2>2, PublishedFile DEF StartWorker
  <2>4. QED
    BY <1>1, <2>1, <2>2, <2>3 DEF StartWorker, TypeOK
<1>2. CASE StaysOut(w) \/ Heartbeat(w)
  <2>1. file' \in [Node -> NodeFile]
    BY <1>2, PublishedFile DEF StaysOut, Heartbeat, TypeOK
  <2>2. QED
    BY <1>2, <2>1 DEF StaysOut, Heartbeat, TypeOK
<1>3. CASE ListJobs(w)
  BY <1>3 DEF ListJobs, Queued, TypeOK
<1>4. CASE Claim(w)
  BY <1>4 DEF Claim, TypeOK, JobStatus
<1>5. CASE MarkBusy(w)
  <2>1. file' \in [Node -> NodeFile]
    BY <1>5, PublishedFile DEF MarkBusy, TypeOK
  <2>2. QED
    BY <1>5, <2>1 DEF MarkBusy, TypeOK
<1>6. CASE Execute(w)
  <2>1. PICK result \in {"completed", "failed", "refused"}, executed \in BOOLEAN :
          /\ outcome' = [outcome EXCEPT ![w] = result]
          /\ ran' = IF executed THEN [ran EXCEPT ![wjob[w]] = @ + 1] ELSE ran
    BY <1>6 DEF Execute
  <2>2. ran' \in [Job -> Nat] /\ wjob[w] \in Job
    BY <1>6, <2>1 DEF Execute, TypeOK
  <2>3. outcome' \in [Worker -> JobSettled \cup {"none"}] /\ outcome'[w] \in JobSettled
        /\ \A v \in Worker : v # w => outcome'[v] = outcome[v]
    BY <2>1 DEF TypeOK, JobSettled
  <2>4. QED
    BY <1>6, <2>2, <2>3 DEF Execute, TypeOK
<1>7. CASE Report(w)
  BY <1>7 DEF Report, TypeOK, JobStatus, JobSettled
<1>8. CASE CannotReport(w)
  BY <1>8 DEF CannotReport, TypeOK
<1>9. CASE BackOnline(w)
  <2>1. file' \in [Node -> NodeFile]
    BY <1>9, PublishedFile DEF BackOnline, TypeOK
  <2>2. QED
    BY <1>9, <2>1 DEF BackOnline, TypeOK
<1>10. CASE WorkerEnds(w)
  BY <1>10 DEF WorkerEnds, Forgets, TypeOK
<1>11. QED
  BY <1>1, <1>2, <1>3, <1>4, <1>5, <1>6, <1>7, <1>8, <1>9, <1>10

LEMMA TypeStep == ASSUME TypeOK, [Next]_vars PROVE TypeOK'
<1>1. CASE UNCHANGED vars
  BY <1>1 DEF vars, TypeOK
<1>2. ASSUME NEW n \in Node, TurnsStale(n) PROVE TypeOK'
  BY <1>2, ZenonT(30) DEF TurnsStale, workerVars, TypeOK, NodeFile
<1>3. QED
  BY <1>1, <1>2, ControllerTypes, WorkerTypes, StepCases

(* Every reachable state of the dispatch is well typed. *)
THEOREM DispatchTypeCorrect == Spec => []TypeOK
<1>1. Init => TypeOK
  BY DEF Init, TypeOK, JobStatus, NodeFile
<1>2. QED
  BY <1>1, TypeStep, PTL DEF Spec

-----------------------------------------------------------------------------
(* A running job and its worker, whoever else serves the node.             *)

(* The status of a job changes in create_job, in a claim and in a report. *)
LEMMA StatusMoves ==
  ASSUME TypeOK, [Next]_vars, NEW j \in Job, job'[j].status # job[j].status
  PROVE  \/ CreateJob(j)
         \/ \E w \in Worker : wjob[w] = j /\ (Claim(w) \/ Report(w))
<1>1. CASE UNCHANGED vars
  BY <1>1 DEF vars
<1>2. ASSUME NEW i \in Job, Resolve(i) PROVE FALSE
  BY <1>2 DEF Resolve, TypeOK
<1>3. ASSUME NEW i \in Job, CreateJob(i) PROVE i = j
  BY <1>3 DEF CreateJob, TypeOK
<1>4. ASSUME NEW w \in Worker, Claim(w) \/ Report(w) PROVE wjob[w] = j
  BY <1>4 DEF Claim, Report, TypeOK
<1>5. ASSUME NEW i \in Job, Answered(i) \/ GivesUp(i) PROVE FALSE
  BY <1>5 DEF Answered, GivesUp
<1>6. ASSUME NEW n \in Node, TurnsStale(n) PROVE FALSE
  BY <1>6 DEF TurnsStale
<1>7. ASSUME NEW w \in Worker,
             \/ StartWorker(w) \/ StaysOut(w) \/ Heartbeat(w) \/ ListJobs(w) \/ MarkBusy(w)
             \/ Execute(w) \/ CannotReport(w) \/ BackOnline(w) \/ WorkerEnds(w)
      PROVE FALSE
  BY <1>7 DEF StartWorker, StaysOut, Heartbeat, ListJobs, MarkBusy, Execute, CannotReport,
              BackOnline, WorkerEnds
<1>8. QED
  BY <1>1, <1>2, <1>3, <1>4, <1>5, <1>6, <1>7, StepCases

(* A job that is in a worker's hand stays there until the worker reports on *)
(* it or ends; if it ends or cannot report the job counts as abandoned.     *)
LEMMA HandMoves ==
  ASSUME TypeOK, [Next]_vars, NEW j \in Job, InHand(j)
  PROVE  \/ InHand(j)'
         \/ j \in abandoned'
         \/ \E w \in Worker : wjob[w] = j /\ Report(w)
<1>1. PICK w \in Worker : wjob[w] = j /\ wpc[w] \in {"busy", "run", "report"}
  BY DEF InHand
<1>2. CASE wjob'[w] = wjob[w] /\ wpc'[w] = wpc[w]
  BY <1>1, <1>2 DEF InHand
<1>3. CASE UNCHANGED vars
  BY <1>2, <1>3 DEF vars
<1>4. ASSUME NEW i \in Job, Resolve(i) \/ CreateJob(i) \/ Answered(i) \/ GivesUp(i)
      PROVE wjob'[w] = wjob[w] /\ wpc'[w] = wpc[w]
  BY <1>4 DEF Resolve, CreateJob, Answered, GivesUp, workerVars
<1>5. ASSUME NEW n \in Node, TurnsStale(n)
      PROVE wjob'[w] = wjob[w] /\ wpc'[w] = wpc[w]
  BY <1>5 DEF TurnsStale, workerVars
<1>6. ASSUME NEW v \in Worker, v # w,
             \/ StartWorker(v) \/ StaysOut(v) \/ Heartbeat(v) \/ ListJobs(v) \/ Claim(v)
             \/ MarkBusy(v)
             \/ Execute(v) \/ Report(v) \/ CannotReport(v) \/ BackOnline(v) \/ WorkerEnds(v)
      PROVE wjob'[w] = wjob[w] /\ wpc'[w] = wpc[w]
  BY <1>6 DEF StartWorker, StaysOut, Heartbeat, ListJobs, Claim, MarkBusy, Execute, Report,
              CannotReport, BackOnline, WorkerEnds, TypeOK
<1>7. ASSUME \/ StartWorker(w) \/ StaysOut(w) \/ Heartbeat(w) \/ ListJobs(w) \/ Claim(w)
             \/ BackOnline(w)
      PROVE FALSE
  BY <1>1, <1>7 DEF StartWorker, StaysOut, Heartbeat, ListJobs, Claim, BackOnline
<1>8. CASE MarkBusy(w) \/ Execute(w)
  <2>1. wjob' = wjob /\ wpc'[w] \in {"run", "report"}
    BY <1>8 DEF MarkBusy, Execute, TypeOK
  <2>2. QED
    BY <1>1, <2>1 DEF InHand
<1>9. CASE WorkerEnds(w) \/ CannotReport(w)
  BY <1>1, <1>9 DEF WorkerEnds, CannotReport
<1>10. CASE Report(w)
  BY <1>1, <1>10
<1>11. QED
  BY <1>2, <1>3, <1>4, <1>5, <1>6, <1>7, <1>8, <1>9, <1>10, StepCases

LEMMA AbandonedStays == ASSUME [Next]_vars PROVE abandoned \subseteq abandoned'
<1>1. CASE UNCHANGED vars
  BY <1>1 DEF vars
<1>2. ASSUME NEW j \in Job, Resolve(j) \/ CreateJob(j) \/ Answered(j) \/ GivesUp(j)
      PROVE abandoned' = abandoned
  BY <1>2 DEF Resolve, CreateJob, Answered, GivesUp, workerVars
<1>3. ASSUME NEW n \in Node, TurnsStale(n) PROVE abandoned' = abandoned
  BY <1>3 DEF TurnsStale, workerVars
<1>4. ASSUME NEW w \in Worker,
             \/ StartWorker(w) \/ StaysOut(w) \/ Heartbeat(w) \/ ListJobs(w) \/ Claim(w)
             \/ MarkBusy(w) \/ Execute(w) \/ Report(w) \/ CannotReport(w) \/ BackOnline(w) \/ WorkerEnds(w)
      PROVE abandoned \subseteq abandoned'
  BY <1>4 DEF StartWorker, StaysOut, Heartbeat, ListJobs, Claim, MarkBusy, Execute, Report,
              CannotReport, BackOnline, WorkerEnds
<1>5. QED
  BY <1>1, <1>2, <1>3, <1>4, StepCases

(* A job shown as running is in the hand of a worker or was lost with one, *)
(* also on a node that several workers serve.                              *)
THEOREM RunningHasWorkerCorrect == Spec => []RunningHasWorker
<1>1. Init => RunningHasWorker
  BY DEF Init, RunningHasWorker
<1>2. ASSUME TypeOK, RunningHasWorker, [Next]_vars PROVE RunningHasWorker'
  <2>1. SUFFICES ASSUME NEW j \in Job, job'[j].status = "running"
                 PROVE  InHand(j)' \/ j \in abandoned'
    BY DEF RunningHasWorker
  <2>2. CASE job[j].status # "running"
    <3>1. CASE CreateJob(j)
      BY <1>2, <2>1, <3>1 DEF CreateJob, TypeOK
    <3>2. ASSUME NEW w \in Worker, wjob[w] = j, Report(w) PROVE FALSE
      BY <1>2, <2>1, <3>2 DEF Report, TypeOK, JobSettled
    <3>3. ASSUME NEW w \in Worker, wjob[w] = j, Claim(w) PROVE InHand(j)'
      <4>1. wjob'[w] = j /\ wpc'[w] = "busy"
        BY <1>2, <3>3 DEF Claim, TypeOK
      <4>2. QED
        BY <4>1 DEF InHand
    <3>4. QED
      BY <1>2, <2>1, <2>2, <3>1, <3>2, <3>3, StatusMoves
  <2>3. CASE job[j].status = "running" /\ j \in abandoned
    BY <1>2, <2>3, AbandonedStays
  <2>4. CASE job[j].status = "running" /\ InHand(j)
    <3>1. ASSUME NEW w \in Worker, wjob[w] = j, Report(w) PROVE FALSE
      BY <1>2, <2>1, <3>1 DEF Report, TypeOK, JobSettled
    <3>2. QED
      BY <1>2, <2>4, <3>1, HandMoves
  <2>5. QED
    BY <1>2, <2>2, <2>3, <2>4 DEF RunningHasWorker
<1>3. QED
  BY <1>1, <1>2, DispatchTypeCorrect, PTL DEF Spec

-----------------------------------------------------------------------------
(* A node that one worker serves.                                          *)

(* A job that is not written yet has its node chosen again and was not     *)
(* executed; once it is written, the worker that holds it serves its node. *)
Unwritten == \A j \in Job :
  /\ asker[j] \in {"none", "resolved"} => job[j].status = "none"
  /\ job[j].status = "none" => ran[j] = 0

Holds(w) == wpc[w] \in {"claim", "busy", "run", "report"}

HolderServes == \A w \in Worker :
  Holds(w) => job[wjob[w]].status # "none" /\ job[wjob[w]].node = serves[w]

(* What the worker of such a node is about to do with a job agrees with the *)
(* status of the job, and the job is not executed before its execution.     *)
HandAgrees(w) ==
  /\ wpc[w] = "claim" => job[wjob[w]].status = "queued"
  /\ wpc[w] \in {"busy", "run"} => job[wjob[w]].status = "running" /\ ran[wjob[w]] = 0
  /\ wpc[w] = "report" => job[wjob[w]].status = "running"

SoloSound ==
  /\ \A w \in Worker : Holds(w) /\ Solo(job[wjob[w]].node) => HandAgrees(w)
  /\ \A j \in Job : Solo(job[j].node) =>
       ran[j] <= 1 /\ (job[j].status = "queued" => ran[j] = 0)

DispatchInv == TypeOK /\ Unwritten /\ HolderServes /\ SoloSound

(* Two workers that hold a job of such a node are one. *)
LEMMA OneHolder ==
  ASSUME HolderServes, NEW v \in Worker, NEW w \in Worker, Holds(v), Holds(w),
         wjob[v] = wjob[w], Solo(job[wjob[w]].node)
  PROVE  v = w
BY DEF HolderServes, Solo

(* A controller's step on job j: the workers and what was executed stay. *)
LEMMA ControllerKeeps ==
  ASSUME DispatchInv, NEW j \in Job,
         Resolve(j) \/ CreateJob(j) \/ Answered(j) \/ GivesUp(j)
  PROVE  Unwritten' /\ HolderServes' /\ SoloSound'
<1>1. UNCHANGED <<serves, wpc, wjob, ran>>
  BY DEF Resolve, CreateJob, Answered, GivesUp, workerVars
<1>2. \A i \in Job \ {j} : job'[i] = job[i] /\ asker'[i] = asker[i]
  BY DEF Resolve, CreateJob, Answered, GivesUp, DispatchInv, TypeOK
<1>3. CASE Resolve(j) \/ CreateJob(j)
  <2>1. job[j].status = "none" /\ ran[j] = 0
    BY <1>3 DEF Resolve, CreateJob, DispatchInv, Unwritten
  <2>2. \A w \in Worker : Holds(w) => wjob[w] \in Job \ {j}
    BY <2>1 DEF DispatchInv, HolderServes, Holds, TypeOK
  <2>3. Unwritten'
    <3>1. asker'[j] \in {"none", "resolved"} => job'[j].status = "none"
      BY <1>3, <2>1 DEF Resolve, CreateJob, DispatchInv, TypeOK
    <3>2. QED
      BY <1>1, <1>2, <2>1, <3>1 DEF Unwritten, DispatchInv
  <2>4. HolderServes'
    BY <1>1, <1>2, <2>2 DEF HolderServes, DispatchInv, Holds
  <2>5. SoloSound'
    BY <1>1, <1>2, <2>1, <2>2 DEF SoloSound, DispatchInv, Holds, HandAgrees, Solo
  <2>6. QED
    BY <2>3, <2>4, <2>5
<1>4. CASE Answered(j) \/ GivesUp(j)
  <2>1. job' = job /\ asker'[j] \notin {"none", "resolved"}
    BY <1>4 DEF Answered, GivesUp, DispatchInv, TypeOK, JobSettled
  <2>2. QED
    BY <1>1, <1>2, <2>1
    DEF DispatchInv, Unwritten, HolderServes, Holds, SoloSound, HandAgrees, Solo
<1>5. QED
  BY <1>3, <1>4

(* Claiming a job, and reporting on one: its status changes, and only the *)
(* worker that holds it looks at that.                                     *)
LEMMA StatusWriteKeeps ==
  ASSUME DispatchInv, NEW w \in Worker, Claim(w) \/ Report(w)
  PROVE  Unwritten' /\ HolderServes' /\ SoloSound'
<1> DEFINE j == wjob[w]
<1>1. /\ UNCHANGED <<serves, wjob, asker, ran>>
      /\ \A v \in Worker \ {w} : wpc'[v] = wpc[v]
      /\ Holds(w) /\ j \in Job
      /\ \A i \in Job \ {j} : job'[i] = job[i]
      /\ job'[j].node = job[j].node
  BY DEF Claim, Report, DispatchInv, TypeOK, Holds
<1>2. \/ Claim(w) /\ wpc[w] = "claim" /\ wpc'[w] = "busy" /\ job'[j].status = "running"
      \/ Report(w) /\ wpc'[w] = "clear" /\ job'[j].status \in JobSettled
  BY DEF Claim, Report, DispatchInv, TypeOK
<1>3. job[j].status # "none" /\ job[j].node = serves[w]
  BY <1>1 DEF DispatchInv, HolderServes
<1>4. job'[j].status \notin {"none", "queued"}
  BY <1>2 DEF JobSettled
<1>5. asker[j] \notin {"none", "resolved"}
  BY <1>1, <1>3 DEF DispatchInv, Unwritten
<1>6. Unwritten'
  BY <1>1, <1>4, <1>5 DEF Unwritten, DispatchInv
<1>7. HolderServes'
  <2>1. SUFFICES ASSUME NEW v \in Worker, Holds(v)'
                 PROVE  job'[wjob[v]].status # "none" /\ job'[wjob[v]].node = serves[v]
    BY <1>1 DEF HolderServes
  <2>2. Holds(v) /\ wjob[v] \in Job
    BY <1>1, <2>1 DEF Holds, DispatchInv, TypeOK
  <2>3. job[wjob[v]].status # "none" /\ job[wjob[v]].node = serves[v]
    BY <2>2 DEF DispatchInv, HolderServes
  <2>4. \A i \in Job : job[i].status # "none"
          => job'[i].status # "none" /\ job'[i].node = job[i].node
    BY <1>1, <1>4
  <2>5. QED
    BY <2>2, <2>3, <2>4
<1>8. ASSUME NEW v \in Worker, Holds(v)', Solo(job[wjob[v]].node)' PROVE HandAgrees(v)'
  <2>1. Holds(v) /\ Solo(job[wjob[v]].node) /\ wjob[v] \in Job
    <3>1. Holds(v) /\ wjob[v] \in Job
      BY <1>1, <1>8 DEF Holds, DispatchInv, TypeOK
    <3>2. \A i \in Job : job'[i].node = job[i].node
      BY <1>1
    <3>3. QED
      BY <1>1, <1>8, <3>1, <3>2 DEF Solo
  <2>2. CASE v = w
    <3>1. Claim(w) /\ wpc[w] = "claim" /\ wpc'[w] = "busy" /\ job'[j].status = "running"
      BY <1>2, <1>8, <2>2 DEF Holds
    <3>2. job[j].status = "queued" /\ ran[j] = 0
      BY <1>1, <2>1, <2>2, <3>1 DEF DispatchInv, SoloSound, HandAgrees
    <3>3. QED
      BY <1>1, <2>2, <3>1, <3>2 DEF HandAgrees
  <2>3. CASE v # w
    <3>1. wjob[v] # j
      BY <1>1, <2>1, <2>3, OneHolder DEF DispatchInv
    <3>2. QED
      BY <1>1, <2>1, <2>3, <3>1 DEF DispatchInv, SoloSound, HandAgrees, Holds
  <2>4. QED
    BY <2>2, <2>3
<1>9. ASSUME NEW i \in Job, Solo(job[i].node)'
      PROVE  ran'[i] <= 1 /\ (job'[i].status = "queued" => ran'[i] = 0)
  BY <1>1, <1>4, <1>9 DEF Solo, DispatchInv, SoloSound
<1>10. QED
  BY <1>6, <1>7, <1>8, <1>9 DEF SoloSound

(* Executing a job: the one count that changes is of the job in hand. *)
LEMMA ExecuteKeeps ==
  ASSUME DispatchInv, NEW w \in Worker, Execute(w)
  PROVE  Unwritten' /\ HolderServes' /\ SoloSound'
<1> DEFINE j == wjob[w]
<1>1. /\ UNCHANGED <<serves, job, wjob, asker>>
      /\ \A v \in Worker \ {w} : wpc'[v] = wpc[v]
      /\ wpc[w] = "run" /\ wpc'[w] = "report" /\ j \in Job
  BY DEF Execute, DispatchInv, TypeOK
<1>2. /\ ran' \in [Job -> Nat]
      /\ \A i \in Job \ {j} : ran'[i] = ran[i]
      /\ ran'[j] \in {ran[j], ran[j] + 1}
  BY <1>1 DEF Execute, DispatchInv, TypeOK
<1>3. Holds(w) /\ job[j].status # "none"
  BY <1>1 DEF DispatchInv, HolderServes, Holds
<1>4. Unwritten'
  BY <1>1, <1>2, <1>3 DEF Unwritten, DispatchInv
<1>5. HolderServes'
  BY <1>1 DEF HolderServes, DispatchInv, Holds
<1>6. Solo(job[j].node) => job[j].status = "running" /\ ran[j] = 0
  BY <1>1, <1>3 DEF DispatchInv, SoloSound, HandAgrees
<1>7. ASSUME NEW v \in Worker, Holds(v)', Solo(job[wjob[v]].node)' PROVE HandAgrees(v)'
  <2>1. Holds(v) /\ Solo(job[wjob[v]].node) /\ wjob[v] \in Job
    BY <1>1, <1>7 DEF Holds, Solo, DispatchInv, TypeOK
  <2>2. CASE v = w
    BY <1>1, <1>6, <2>1, <2>2 DEF HandAgrees
  <2>3. CASE v # w
    <3>1. wjob[v] # j
      BY <1>3, <2>1, <2>3, OneHolder DEF DispatchInv
    <3>2. QED
      BY <1>1, <1>2, <2>1, <2>3, <3>1 DEF DispatchInv, SoloSound, HandAgrees, Holds
  <2>4. QED
    BY <2>2, <2>3
<1>8. ASSUME NEW i \in Job, Solo(job[i].node)'
      PROVE  ran'[i] <= 1 /\ (job'[i].status = "queued" => ran'[i] = 0)
  <2>1. CASE i = j
    BY <1>1, <1>2, <1>6, <1>8, <2>1 DEF Solo
  <2>2. CASE i # j
    BY <1>1, <1>2, <1>8, <2>2 DEF Solo, DispatchInv, SoloSound
  <2>3. QED
    BY <2>1, <2>2
<1>9. QED
  BY <1>4, <1>5, <1>7, <1>8 DEF SoloSound

(* The other steps of a worker write no job. *)
LEMMA OtherWorkerStepKeeps ==
  ASSUME DispatchInv, NEW w \in Worker,
         \/ StartWorker(w) \/ StaysOut(w) \/ Heartbeat(w) \/ ListJobs(w) \/ MarkBusy(w)
         \/ CannotReport(w) \/ BackOnline(w) \/ WorkerEnds(w)
  PROVE  Unwritten' /\ HolderServes' /\ SoloSound'
<1>1. /\ UNCHANGED <<serves, job, asker, ran>>
      /\ \A v \in Worker \ {w} : wpc'[v] = wpc[v] /\ wjob'[v] = wjob[v]
  BY DEF StartWorker, StaysOut, Heartbeat, ListJobs, MarkBusy, CannotReport, BackOnline, WorkerEnds,
         DispatchInv, TypeOK
<1>2. \/ wpc'[w] \in {"idle", "list", "clear", "down"}
      \/ wpc'[w] = "claim" /\ wjob'[w] \in Queued(w)
      \/ wpc[w] = "busy" /\ wpc'[w] = "run" /\ wjob'[w] = wjob[w]
  BY DEF StartWorker, StaysOut, Heartbeat, ListJobs, MarkBusy, CannotReport, BackOnline, WorkerEnds,
         DispatchInv, TypeOK, Queued
<1>3. Unwritten'
  BY <1>1 DEF Unwritten, DispatchInv
<1>4. HolderServes'
  BY <1>1, <1>2 DEF HolderServes, DispatchInv, Holds, Queued
<1>5. ASSUME NEW v \in Worker, Holds(v)', Solo(job[wjob[v]].node)' PROVE HandAgrees(v)'
  <2>1. CASE v # w
    BY <1>1, <1>5, <2>1 DEF DispatchInv, SoloSound, HandAgrees, Holds, Solo
  <2>2. CASE v = w /\ wpc'[w] = "claim" /\ wjob'[w] \in Queued(w)
    BY <1>1, <2>2 DEF HandAgrees, Queued
  <2>3. CASE v = w /\ wpc[w] = "busy" /\ wpc'[w] = "run" /\ wjob'[w] = wjob[w]
    BY <1>1, <1>5, <2>3 DEF DispatchInv, SoloSound, HandAgrees, Holds, Solo
  <2>4. QED
    BY <1>2, <1>5, <2>1, <2>2, <2>3 DEF Holds
<1>6. QED
  BY <1>1, <1>3, <1>4, <1>5 DEF SoloSound, DispatchInv, Solo

LEMMA DispatchStep == ASSUME DispatchInv, [Next]_vars PROVE DispatchInv'
<1>1. TypeOK'
  BY TypeStep DEF DispatchInv
<1>2. CASE UNCHANGED vars
  BY <1>1, <1>2
  DEF vars, DispatchInv, Unwritten, HolderServes, Holds, SoloSound, HandAgrees, Solo
<1>3. ASSUME NEW n \in Node, TurnsStale(n) PROVE DispatchInv'
  BY <1>1, <1>3
  DEF TurnsStale, workerVars, DispatchInv, Unwritten, HolderServes, Holds, SoloSound,
      HandAgrees, Solo
<1>4. ASSUME NEW j \in Job, Resolve(j) \/ CreateJob(j) \/ Answered(j) \/ GivesUp(j)
      PROVE DispatchInv'
  BY <1>1, <1>4, ControllerKeeps DEF DispatchInv
<1>5. ASSUME NEW w \in Worker,
             \/ StartWorker(w) \/ StaysOut(w) \/ Heartbeat(w) \/ ListJobs(w) \/ Claim(w)
             \/ MarkBusy(w) \/ Execute(w) \/ Report(w) \/ CannotReport(w) \/ BackOnline(w) \/ WorkerEnds(w)
      PROVE DispatchInv'
  BY <1>1, <1>5, StatusWriteKeeps, ExecuteKeeps, OtherWorkerStepKeeps DEF DispatchInv
<1>6. QED
  BY <1>2, <1>3, <1>4, <1>5, StepCases

LEMMA DispatchSound == Spec => []DispatchInv
<1>1. Init => TypeOK
  BY DEF Init, TypeOK, JobStatus, NodeFile
<1>2. ASSUME Init PROVE Unwritten /\ HolderServes /\ SoloSound
  <2>1. \A j \in Job : job[j].status = "none" /\ ran[j] = 0
    BY <1>2 DEF Init
  <2>2. \A w \in Worker : ~Holds(w)
    BY <1>2 DEF Init, Holds
  <2>3. QED
    BY <2>1, <2>2 DEF Unwritten, HolderServes, SoloSound
<1>3. Init => DispatchInv
  BY <1>1, <1>2 DEF DispatchInv
<1>4. QED
  BY <1>3, DispatchStep, PTL DEF Spec

(* Through any number of crashes and restarts, a job dispatched to a node *)
(* that one worker serves is executed at most once.                        *)
THEOREM OneRunCorrect == Spec => []OneRunPerJob
<1>1. DispatchInv => OneRunPerJob
  BY DEF DispatchInv, SoloSound, OneRunPerJob
<1>2. QED
  BY <1>1, DispatchSound, PTL

(* A job of such a node moves forward only: what the waiting controller took *)
(* for its result stays its result.                                          *)
THEOREM ForwardOnly == Spec => JobsMoveForward
<1> DEFINE Forward == \A j \in Job :
      Solo(job[j].node) /\ job'[j] # job[j]
        => Rank(job[j].status) < Rank(job'[j].status) \/ asker[j] = "none"
<1>1. ASSUME DispatchInv, [Next]_vars PROVE Forward
  <2>1. SUFFICES ASSUME NEW j \in Job, Solo(job[j].node), job'[j] # job[j],
                        asker[j] # "none"
                 PROVE  Rank(job[j].status) < Rank(job'[j].status)
    OBVIOUS
  <2>2. job'[j].status # job[j].status
    <3>1. TypeOK /\ TypeOK'
      BY <1>1, TypeStep DEF DispatchInv
    <3>2. job'[j].node = job[j].node
      <4>1. ASSUME NEW i \in Job, Resolve(i) PROVE job'[j] = job[j]
        BY <2>1, <3>1, <4>1 DEF Resolve, TypeOK
      <4>2. ASSUME NEW i \in Job, CreateJob(i) PROVE job'[j].node = job[j].node
        BY <3>1, <4>2 DEF CreateJob, TypeOK
      <4>3. ASSUME NEW w \in Worker, Claim(w) \/ Report(w) PROVE job'[j].node = job[j].node
        <5>1. CASE Claim(w)
          BY <3>1, <5>1 DEF Claim, TypeOK
        <5>2. CASE Report(w)
          BY <3>1, <5>2 DEF Report, TypeOK
        <5>3. QED
          BY <4>3, <5>1, <5>2
      <4>4. ASSUME NEW i \in Job, Answered(i) \/ GivesUp(i) PROVE job' = job
        BY <4>4 DEF Answered, GivesUp
      <4>5. ASSUME NEW n \in Node, TurnsStale(n) PROVE job' = job
        BY <4>5 DEF TurnsStale
      <4>6. ASSUME NEW w \in Worker,
                   \/ StartWorker(w) \/ StaysOut(w) \/ Heartbeat(w) \/ ListJobs(w) \/ MarkBusy(w)
                   \/ Execute(w) \/ CannotReport(w) \/ BackOnline(w) \/ WorkerEnds(w)
            PROVE job' = job
        BY <4>6 DEF StartWorker, StaysOut, Heartbeat, ListJobs, MarkBusy, Execute, CannotReport,
                    BackOnline, WorkerEnds
      <4>7. CASE UNCHANGED vars
        BY <4>7 DEF vars
      <4>8. QED
        BY <1>1, <4>1, <4>2, <4>3, <4>4, <4>5, <4>6, <4>7, StepCases
    <3>3. job[j] \in [status : JobStatus, node : Node]
          /\ job'[j] \in [status : JobStatus, node : Node]
      BY <3>1 DEF TypeOK
    <3>4. QED
      BY <2>1, <3>2, <3>3
  <2>3. CASE CreateJob(j)
    <3>1. job[j].status = "none" /\ job'[j].status = "queued"
      BY <1>1, <2>3 DEF CreateJob, DispatchInv, Unwritten, TypeOK
    <3>2. QED
      BY <3>1 DEF Rank
  <2>4. ASSUME NEW w \in Worker, wjob[w] = j, Claim(w)
        PROVE  Rank(job[j].status) < Rank(job'[j].status)
    <3>1. job'[j].status = "running"
      BY <1>1, <2>4 DEF Claim, DispatchInv, TypeOK
    <3>2. job[j].status = "queued"
      BY <1>1, <2>1, <2>4 DEF Claim, DispatchInv, SoloSound, HandAgrees, Holds
    <3>3. QED
      BY <3>1, <3>2 DEF Rank
  <2>5. ASSUME NEW w \in Worker, wjob[w] = j, Report(w)
        PROVE  Rank(job[j].status) < Rank(job'[j].status)
    <3>1. job'[j].status \in JobSettled
      BY <1>1, <2>5 DEF Report, DispatchInv, TypeOK
    <3>2. job[j].status = "running"
      BY <1>1, <2>1, <2>5 DEF Report, DispatchInv, SoloSound, HandAgrees, Holds
    <3>3. QED
      BY <3>1, <3>2 DEF Rank, JobSettled
  <2>6. QED
    BY <1>1, <2>2, <2>3, <2>4, <2>5, StatusMoves DEF DispatchInv
<1>2. QED
  BY <1>1, DispatchSound, PTL DEF Spec, JobsMoveForward
-----------------------------------------------------------------------------
(* The job ledger.  Beyond DispatchInv it needs that what a worker is about *)
(* to report is true: a completed job was executed, a refused one was not.  *)
OutcomeSound == \A w \in Worker :
  wpc[w] = "report" /\ Solo(job[wjob[w]].node)
  => /\ outcome[w] = "completed" => ran[wjob[w]] = 1
     /\ outcome[w] = "refused" => ran[wjob[w]] = 0

(* A node id is never given to another worker, and a job that was written *)
(* keeps its node.                                                        *)
LEMMA NodeStays ==
  ASSUME DispatchInv, [Next]_vars
  PROVE  /\ serves' = serves
         /\ \A j \in Job : job[j].status # "none" => job'[j].node = job[j].node
<1>1. CASE UNCHANGED vars
  BY <1>1 DEF vars
<1>2. ASSUME NEW i \in Job, Resolve(i)
      PROVE  /\ serves' = serves
             /\ \A j \in Job : job[j].status # "none" => job'[j] = job[j]
  <2>1. job[i].status = "none"
    BY <1>2 DEF Resolve, DispatchInv, Unwritten
  <2>2. \A j \in Job \ {i} : job'[j] = job[j]
    BY <1>2 DEF Resolve, DispatchInv, TypeOK
  <2>3. QED
    BY <1>2, <2>1, <2>2 DEF Resolve, workerVars
<1>3. ASSUME NEW i \in Job, CreateJob(i) \/ Answered(i) \/ GivesUp(i)
      PROVE serves' = serves /\ \A j \in Job : job'[j].node = job[j].node
  BY <1>3 DEF CreateJob, Answered, GivesUp, workerVars, DispatchInv, TypeOK
<1>4. ASSUME NEW w \in Worker, Claim(w) \/ Report(w)
      PROVE serves' = serves /\ \A j \in Job : job'[j].node = job[j].node
  <2>1. serves' = serves /\ \E s : job' = [job EXCEPT ![wjob[w]].status = s]
    BY <1>4 DEF Claim, Report
  <2>2. QED
    BY <2>1 DEF DispatchInv, TypeOK
<1>5. ASSUME NEW w \in Worker,
             \/ StartWorker(w) \/ StaysOut(w) \/ Heartbeat(w) \/ ListJobs(w) \/ MarkBusy(w)
             \/ Execute(w) \/ CannotReport(w) \/ BackOnline(w) \/ WorkerEnds(w)
      PROVE serves' = serves /\ job' = job
  BY <1>5 DEF StartWorker, StaysOut, Heartbeat, ListJobs, MarkBusy, Execute, CannotReport,
              BackOnline, WorkerEnds
<1>6. ASSUME NEW n \in Node, TurnsStale(n) PROVE serves' = serves /\ job' = job
  BY <1>6 DEF TurnsStale, workerVars
<1>7. QED
  BY <1>1, <1>2, <1>3, <1>4, <1>5, <1>6, StepCases

(* An execution is counted for the job in hand only. *)
LEMMA RunsMove ==
  ASSUME DispatchInv, [Next]_vars, NEW j \in Job, ran'[j] # ran[j]
  PROVE  \E w \in Worker : wjob[w] = j /\ Execute(w)
<1>1. ASSUME NEW w \in Worker, Execute(w) PROVE wjob[w] = j
  BY <1>1 DEF Execute, DispatchInv, TypeOK
<1>2. ASSUME NEW i \in Job, Resolve(i) \/ CreateJob(i) \/ Answered(i) \/ GivesUp(i) PROVE FALSE
  BY <1>2 DEF Resolve, CreateJob, Answered, GivesUp, workerVars
<1>3. ASSUME NEW n \in Node, TurnsStale(n) PROVE FALSE
  BY <1>3 DEF TurnsStale, workerVars
<1>4. ASSUME NEW w \in Worker,
             \/ StartWorker(w) \/ StaysOut(w) \/ Heartbeat(w) \/ ListJobs(w) \/ Claim(w)
             \/ MarkBusy(w)
             \/ Report(w) \/ CannotReport(w) \/ BackOnline(w) \/ WorkerEnds(w)
      PROVE FALSE
  BY <1>4 DEF StartWorker, StaysOut, Heartbeat, ListJobs, Claim, MarkBusy, Report, CannotReport,
              BackOnline, WorkerEnds
<1>5. CASE UNCHANGED vars
  BY <1>5 DEF vars
<1>6. QED
  BY <1>1, <1>2, <1>3, <1>4, <1>5, StepCases

LEMMA OutcomeStep == ASSUME DispatchInv, DispatchInv', OutcomeSound, [Next]_vars PROVE OutcomeSound'
<1>1. SUFFICES ASSUME NEW w \in Worker, wpc'[w] = "report", Solo(job[wjob[w]].node)'
               PROVE  /\ outcome'[w] = "completed" => ran'[wjob'[w]] = 1
                      /\ outcome'[w] = "refused" => ran'[wjob'[w]] = 0
  BY DEF OutcomeSound
<1>2. CASE Execute(w)
  <2>1. /\ wjob' = wjob /\ job' = job /\ serves' = serves /\ wpc[w] = "run" /\ wjob[w] \in Job
    BY <1>2 DEF Execute, DispatchInv, TypeOK
  <2>2. ran[wjob[w]] = 0
    BY <1>1, <2>1 DEF DispatchInv, SoloSound, Holds, HandAgrees, Solo
  <2>3. PICK result \in {"failed", IF declares[w] THEN "completed" ELSE "refused"},
             executed \in BOOLEAN :
               /\ executed => declares[w]
               /\ result = "completed" => executed
               /\ outcome' = [outcome EXCEPT ![w] = result]
               /\ ran' = IF executed THEN [ran EXCEPT ![wjob[w]] = @ + 1] ELSE ran
    BY <1>2 DEF Execute
  <2>4. outcome'[w] = result /\ ran'[wjob[w]] = IF executed THEN 1 ELSE 0
    BY <2>1, <2>2, <2>3 DEF DispatchInv, TypeOK
  <2>5. QED
    BY <2>1, <2>3, <2>4
<1>3. ASSUME ~Execute(w) PROVE wpc[w] = "report" /\ UNCHANGED <<wjob[w], outcome[w]>>
  <2>1. ASSUME NEW v \in Worker,
               \/ StartWorker(v) \/ StaysOut(v) \/ Heartbeat(v) \/ ListJobs(v) \/ Claim(v)
               \/ MarkBusy(v)
               \/ Execute(v) \/ Report(v) \/ CannotReport(v) \/ BackOnline(v) \/ WorkerEnds(v)
        PROVE wpc[w] = "report" /\ UNCHANGED <<wjob[w], outcome[w]>>
    <3>1. CASE v = w
      BY <1>1, <1>3, <2>1, <3>1
         DEF StartWorker, StaysOut, Heartbeat, ListJobs, Claim, MarkBusy, Report, CannotReport,
             BackOnline, WorkerEnds,
             DispatchInv, TypeOK
    <3>2. CASE v # w
      BY <1>1, <2>1, <3>2
         DEF StartWorker, StaysOut, Heartbeat, ListJobs, Claim, MarkBusy, Execute, Report,
             CannotReport, BackOnline,
             WorkerEnds, Forgets, DispatchInv, TypeOK
    <3>3. QED
      BY <3>1, <3>2
  <2>2. ASSUME NEW j \in Job, Resolve(j) \/ CreateJob(j) \/ Answered(j) \/ GivesUp(j)
        PROVE UNCHANGED <<wpc, wjob, outcome>>
    BY <2>2 DEF Resolve, CreateJob, Answered, GivesUp, workerVars
  <2>3. ASSUME NEW n \in Node, TurnsStale(n) PROVE UNCHANGED <<wpc, wjob, outcome>>
    BY <2>3 DEF TurnsStale, workerVars
  <2>4. CASE UNCHANGED vars
    BY <1>1, <2>4 DEF vars
  <2>5. QED
    BY <1>1, <2>1, <2>2, <2>3, <2>4, StepCases
<1>4. ASSUME ~Execute(w) PROVE Solo(job[wjob[w]].node) /\ ran'[wjob[w]] = ran[wjob[w]]
  <2>1. wpc[w] = "report" /\ wjob'[w] = wjob[w] /\ wjob[w] \in Job
    BY <1>3, <1>4 DEF DispatchInv, TypeOK
  <2>2. job[wjob[w]].status # "none"
    BY <2>1 DEF DispatchInv, HolderServes, Holds
  <2>3. Solo(job[wjob[w]].node)
    BY <1>1, <2>1, <2>2, NodeStays DEF Solo
  <2>4. ASSUME NEW v \in Worker, wjob[v] = wjob[w], Execute(v) PROVE FALSE
    <3>1. Holds(v) /\ Holds(w)
      BY <2>1, <2>4 DEF Execute, Holds
    <3>2. v = w
      BY <2>3, <2>4, <3>1, OneHolder DEF DispatchInv
    <3>3. QED
      BY <1>4, <2>4, <3>2
  <2>5. QED
    BY <2>1, <2>3, <2>4, RunsMove
<1>5. QED
  BY <1>2, <1>3, <1>4 DEF OutcomeSound

(* Where only job j changes, so does its entry of the ledger and no other. *)
LEMMA EntriesOf ==
  ASSUME DispatchInv, serves' = serves, NEW j \in Job,
         \A i \in Job \ {j} : UNCHANGED <<job[i], ran[i], asker[i]>>
  PROVE  LET phase == [i \in Job |-> PhaseOf(i)]
             runs == [i \in Job |-> RunsOf(i)]
             verdict == [i \in Job |-> VerdictOf(i)]
         IN  /\ phase' = [phase EXCEPT ![j] = PhaseOf(j)']
             /\ runs' = [runs EXCEPT ![j] = RunsOf(j)']
             /\ verdict' = [verdict EXCEPT ![j] = VerdictOf(j)']
             /\ PhaseOf(j)' = PhaseOf(j) => phase' = phase
             /\ RunsOf(j)' = RunsOf(j) => runs' = runs
             /\ VerdictOf(j)' = VerdictOf(j) => verdict' = verdict
<1>1. \A i \in Job \ {j} : /\ PhaseOf(i)' = PhaseOf(i) /\ RunsOf(i)' = RunsOf(i)
                           /\ VerdictOf(i)' = VerdictOf(i)
  BY DEF PhaseOf, RunsOf, VerdictOf, Alone, Solo
<1> HIDE DEF PhaseOf, RunsOf, VerdictOf
<1>2. QED
  BY <1>1

(* The controller's steps and the ledger. *)
LEMMA ControllerLedger ==
  ASSUME DispatchInv, NEW j \in Job,
         Resolve(j) \/ CreateJob(j) \/ Answered(j) \/ GivesUp(j)
  PROVE  Ledger!Submit(j) \/ Ledger!Learn(j) \/ Ledger!GiveUp(j) \/ UNCHANGED Ledger!ledger
<1>1. serves' = serves /\ \A i \in Job \ {j} : UNCHANGED <<job[i], ran[i], asker[i]>>
  BY DEF Resolve, CreateJob, Answered, GivesUp, workerVars, DispatchInv, TypeOK
<1>2. ran' = ran
  BY DEF Resolve, CreateJob, Answered, GivesUp, workerVars
<1>3. CASE Resolve(j)
  <2>1. job[j].status = "none" /\ ran[j] = 0 /\ asker[j] = "none"
    BY <1>3 DEF Resolve, DispatchInv, Unwritten
  <2>2. job'[j].status = "none"
    BY <1>3, <2>1 DEF Resolve, DispatchInv, TypeOK
  <2>3. /\ PhaseOf(j) = "none" /\ PhaseOf(j)' = "none"
        /\ RunsOf(j) = 0 /\ RunsOf(j)' = 0 /\ VerdictOf(j) = "none"
    BY <1>2, <2>1, <2>2 DEF PhaseOf, RunsOf, VerdictOf, Told
  <2>4. VerdictOf(j)' \in {"none", "no result"}
    BY <1>3 DEF Resolve, DispatchInv, TypeOK, VerdictOf, Told
  <2>5. QED
    BY <1>1, <2>3, <2>4, EntriesOf DEF Ledger!GiveUp, Ledger!Results, Ledger!ledger
<1>4. CASE CreateJob(j)
  <2>1. job[j].status = "none" /\ asker[j] = "resolved"
    BY <1>4 DEF CreateJob, DispatchInv, Unwritten
  <2>2. job'[j].status = "queued" /\ job'[j].node = job[j].node /\ asker'[j] = "waiting"
    BY <1>4 DEF CreateJob, DispatchInv, TypeOK
  <2>3. Alone(j)' = Alone(j)
    BY <1>1, <2>2 DEF Alone, Solo
  <2>4. RunsOf(j)' = RunsOf(j) /\ VerdictOf(j)' = VerdictOf(j)
    BY <1>2, <2>1, <2>2, <2>3 DEF RunsOf, VerdictOf, Told
  <2>5. \/ PhaseOf(j) = "none" /\ PhaseOf(j)' = "queued"
        \/ PhaseOf(j)' = PhaseOf(j)
    BY <2>1, <2>2, <2>3 DEF PhaseOf
  <2>6. QED
    BY <1>1, <2>4, <2>5, EntriesOf DEF Ledger!Submit, Ledger!Move, Ledger!ledger
<1>5. CASE Answered(j) \/ GivesUp(j)
  <2>1. job' = job /\ asker[j] = "waiting"
    BY <1>5 DEF Answered, GivesUp
  <2>2. PhaseOf(j)' = PhaseOf(j) /\ RunsOf(j)' = RunsOf(j) /\ Alone(j)' = Alone(j)
    BY <1>1, <1>2, <2>1 DEF PhaseOf, RunsOf, Alone, Solo
  <2>3. CASE ~Alone(j)
    <3>1. VerdictOf(j)' = VerdictOf(j)
      BY <2>2, <2>3 DEF VerdictOf
    <3>2. QED
      BY <1>1, <2>2, <3>1, EntriesOf DEF Ledger!ledger
  <2>4. CASE Alone(j) /\ Answered(j)
    <3>1. PhaseOf(j) \in {"completed", "failed", "refused"} /\ VerdictOf(j) = "none"
      BY <2>1, <2>4 DEF Answered, JobSettled, PhaseOf, VerdictOf, Told
    <3>2. VerdictOf(j)' = PhaseOf(j)
      BY <2>2, <2>4, <3>1 DEF Answered, DispatchInv, TypeOK, PhaseOf, VerdictOf, Told
    <3>3. QED
      BY <1>1, <2>2, <3>1, <3>2, EntriesOf DEF Ledger!Learn, Ledger!Results, Ledger!ledger
  <2>5. CASE Alone(j) /\ GivesUp(j)
    <3>1. PhaseOf(j) \notin {"completed", "failed", "refused"} /\ VerdictOf(j) = "none"
      BY <2>1, <2>5 DEF GivesUp, JobSettled, PhaseOf, VerdictOf, Told
    <3>2. VerdictOf(j)' = "no result"
      BY <2>2, <2>5 DEF GivesUp, DispatchInv, TypeOK, VerdictOf, Told
    <3>3. QED
      BY <1>1, <2>2, <3>1, <3>2, EntriesOf DEF Ledger!GiveUp, Ledger!Results, Ledger!ledger
  <2>6. QED
    BY <1>5, <2>3, <2>4, <2>5
<1>6. QED
  BY <1>3, <1>4, <1>5

(* The workers' steps and the ledger. *)
LEMMA WorkerLedger ==
  ASSUME DispatchInv, OutcomeSound, NEW w \in Worker, Claim(w) \/ Execute(w) \/ Report(w),
         NEW j \in Job, wjob[w] = j
  PROVE  \/ Ledger!Take(j) \/ Ledger!Run(j)
         \/ \E result \in Ledger!Results : Ledger!Finish(j, result)
         \/ UNCHANGED Ledger!ledger
<1>1. /\ Holds(w)
      /\ serves' = serves /\ asker' = asker /\ job'[j].node = job[j].node
      /\ \A i \in Job \ {j} : UNCHANGED <<job[i], ran[i], asker[i]>>
  BY DEF Claim, Execute, Report, Holds, DispatchInv, TypeOK
<1>2. Alone(j)' = Alone(j) /\ VerdictOf(j)' = VerdictOf(j)
  BY <1>1 DEF Alone, Solo, VerdictOf
<1>3. CASE ~Alone(j)
  <2>1. PhaseOf(j)' = PhaseOf(j) /\ RunsOf(j)' = RunsOf(j)
    BY <1>2, <1>3 DEF PhaseOf, RunsOf
  <2>2. QED
    BY <1>1, <1>2, <2>1, EntriesOf DEF Ledger!ledger
<1>4. CASE Alone(j) /\ Claim(w)
  <2>1. job[j].status = "queued" /\ job'[j].status = "running" /\ ran' = ran
    BY <1>1, <1>4 DEF Claim, Alone, DispatchInv, TypeOK, SoloSound, HandAgrees
  <2>2. /\ PhaseOf(j) = "queued" /\ PhaseOf(j)' = "running" /\ RunsOf(j)' = RunsOf(j)
    BY <1>2, <1>4, <2>1 DEF PhaseOf, RunsOf
  <2>3. QED
    BY <1>1, <1>2, <2>2, EntriesOf DEF Ledger!Take, Ledger!Move
<1>5. CASE Alone(j) /\ Execute(w)
  <2>1. job' = job /\ job[j].status = "running" /\ ran[j] = 0
    BY <1>1, <1>5 DEF Execute, Alone, DispatchInv, SoloSound, HandAgrees
  <2>2. ran'[j] \in {0, 1}
    BY <1>1, <1>5, <2>1 DEF Execute, DispatchInv, TypeOK
  <2>3. /\ PhaseOf(j) = "running" /\ PhaseOf(j)' = PhaseOf(j)
        /\ RunsOf(j) = 0 /\ RunsOf(j)' \in {0, 1}
    BY <1>2, <1>5, <2>1, <2>2 DEF PhaseOf, RunsOf
  <2>4. QED
    BY <1>1, <1>2, <2>3, EntriesOf DEF Ledger!Run, Ledger!ledger
<1>6. CASE Alone(j) /\ Report(w)
  <2>1. /\ job[j].status = "running" /\ job'[j].status = outcome[w] /\ ran' = ran
        /\ outcome[w] \in {"completed", "failed", "refused"}
        /\ outcome[w] = "completed" => ran[j] = 1
        /\ outcome[w] = "refused" => ran[j] = 0
    BY <1>1, <1>6
       DEF Report, Alone, DispatchInv, TypeOK, SoloSound, HandAgrees, OutcomeSound, JobSettled
  <2>2. /\ PhaseOf(j) = "running" /\ PhaseOf(j)' = outcome[w]
        /\ RunsOf(j)' = RunsOf(j) /\ RunsOf(j) = ran[j]
    BY <1>2, <1>6, <2>1 DEF PhaseOf, RunsOf
  <2>3. Ledger!Finish(j, outcome[w])
    BY <1>1, <1>2, <2>1, <2>2, EntriesOf DEF Ledger!Finish, Ledger!Move
  <2>4. QED
    BY <2>1, <2>3 DEF Ledger!Results
<1>7. QED
  BY <1>3, <1>4, <1>5, <1>6

(* On nodes that one worker serves dispatch implements the job ledger: every *)
(* step of a controller, a worker, a crash or a restart is a step of the     *)
(* ledger or leaves it alone.                                                *)
THEOREM JobLedgerImplemented == Spec => ImplementsJobLedger
<1>1. Init => Ledger!LedgerInit
  BY DEF Init, Ledger!LedgerInit, PhaseOf, RunsOf, VerdictOf, Told
<1>2. Init => OutcomeSound
  BY DEF Init, OutcomeSound
<1>3. ASSUME DispatchInv, OutcomeSound, [Next]_vars PROVE [Ledger!LedgerNext]_(Ledger!ledger)
  <2>1. CASE UNCHANGED vars
    BY <2>1 DEF vars, Ledger!ledger, PhaseOf, RunsOf, VerdictOf, Alone, Solo
  <2>2. ASSUME NEW j \in Job, Resolve(j) \/ CreateJob(j) \/ Answered(j) \/ GivesUp(j)
        PROVE [Ledger!LedgerNext]_(Ledger!ledger)
    BY <1>3, <2>2, ControllerLedger DEF Ledger!LedgerNext
  <2>3. ASSUME NEW w \in Worker, Claim(w) \/ Execute(w) \/ Report(w)
        PROVE [Ledger!LedgerNext]_(Ledger!ledger)
    <3>1. wjob[w] \in Job
      BY <1>3, <2>3 DEF Claim, Execute, Report, DispatchInv, TypeOK
    <3>2. QED
      BY <1>3, <2>3, <3>1, WorkerLedger DEF Ledger!LedgerNext
  <2>4. ASSUME NEW w \in Worker,
               \/ StartWorker(w) \/ StaysOut(w) \/ Heartbeat(w) \/ ListJobs(w) \/ MarkBusy(w)
               \/ CannotReport(w) \/ BackOnline(w) \/ WorkerEnds(w)
        PROVE UNCHANGED <<serves, job, asker, ran>>
    BY <2>4 DEF StartWorker, StaysOut, Heartbeat, ListJobs, MarkBusy, CannotReport, BackOnline,
                WorkerEnds
  <2>5. ASSUME NEW n \in Node, TurnsStale(n) PROVE UNCHANGED <<serves, job, asker, ran>>
    BY <2>5 DEF TurnsStale, workerVars
  <2>6. CASE UNCHANGED <<serves, job, asker, ran>>
    BY <2>6 DEF Ledger!ledger, PhaseOf, RunsOf, VerdictOf, Alone, Solo
  <2>7. QED
    BY <1>3, <2>1, <2>2, <2>3, <2>4, <2>5, <2>6, StepCases
<1>4. QED
  BY <1>1, <1>2, <1>3, OutcomeStep, DispatchSound, PTL DEF Spec, ImplementsJobLedger,
                                                           Ledger!LedgerSpec

(* What the ledger guarantees of every job reaches the controller: where one *)
(* worker serves a node, a result the controller was given is the result of  *)
(* the job for good, and it says completed of a job that was executed.       *)
THEOREM JobResultsAreTrue == Spec => []Ledger!ResultsAreTrue
<1>1. Ledger!LedgerInit => Ledger!ResultsAreTrue
  BY DEF Ledger!LedgerInit, Ledger!ResultsAreTrue, Ledger!Results
<1>2. ASSUME Ledger!ResultsAreTrue, [Ledger!LedgerNext]_(Ledger!ledger)
      PROVE  Ledger!ResultsAreTrue'
  <2>1. CASE UNCHANGED Ledger!ledger
    BY <1>2, <2>1 DEF Ledger!ledger, Ledger!ResultsAreTrue
  <2>2. ASSUME NEW j \in Job, Ledger!Submit(j) \/ Ledger!Take(j) \/ Ledger!Run(j)
        PROVE  Ledger!ResultsAreTrue'
    BY <1>2, <2>2 DEF Ledger!Submit, Ledger!Take, Ledger!Run, Ledger!Move,
                      Ledger!ResultsAreTrue, Ledger!Results
  <2>3. ASSUME NEW j \in Job, Ledger!Learn(j) \/ Ledger!GiveUp(j)
        PROVE  Ledger!ResultsAreTrue'
    BY <1>2, <2>3 DEF Ledger!Learn, Ledger!GiveUp, Ledger!ResultsAreTrue, Ledger!Results
  <2>4. ASSUME NEW j \in Job, NEW result \in Ledger!Results, Ledger!Finish(j, result)
        PROVE  Ledger!ResultsAreTrue'
    BY <1>2, <2>4 DEF Ledger!Finish, Ledger!Move, Ledger!ResultsAreTrue, Ledger!Results
  <2>5. QED
    BY <1>2, <2>1, <2>2, <2>3, <2>4 DEF Ledger!LedgerNext
<1>3. QED
  BY <1>1, <1>2, JobLedgerImplemented, PTL DEF ImplementsJobLedger, Ledger!LedgerSpec
=============================================================================
