------------------------------ MODULE Workflows ------------------------------
(***************************************************************************)
(* Operator workflows and the one-shot confirmations they wait for:        *)
(* workflow_executor.py, workflow_store.py, confirmation_store.py and the  *)
(* /confirm, /deny and /cancelworkflow commands of capability_executor.py, *)
(* all under app/controller. Commands come from chat threads (one, or two  *)
(* while a stopped polling loop still works on its last command beside a   *)
(* new one); the window's timer sweeps expired workflows meanwhile. Each   *)
(* store operation holds the store's lock; between two of them the thread  *)
(* keeps the record it read, and it writes whole records.                  *)
(***************************************************************************)
EXTENDS Naturals, FiniteSets, Sequences, SequencesExt

CONSTANTS
  Workflow,      \* ids of the workflows the operator starts
  Confirmation,  \* ids of the confirmations their steps ask for
  Chat,          \* threads that process commands
  Timer,         \* threads that only sweep
  Steps,         \* steps of a workflow
  MaxKept,       \* max_workflows_per_chat
  Limits,        \* bounds: the commands each chat thread may take in a behaviour,
                 \*   and 1 or 0 for a timer that runs in it or does not
  None

ASSUME StepsAssumption == Steps \in Nat \ {0} /\ MaxKept \in Nat \ {0}
ASSUME LimitsAssumption == Limits \subseteq [Chat \cup Timer -> Nat]
ASSUME NoneAssumption == None \notin Workflow \cup Confirmation \cup {"done"}
ASSUME ThreadsAssumption == Chat \cap Timer = {}
ASSUME WorkflowsAssumption == IsFiniteSet(Workflow)

Active == {"pending", "running", "paused"}
Terminal == {"blocked", "failed", "completed", "cancelled", "expired"}
Thread == Chat \cup Timer

(* A workflow record, without what only displays read: its state, whether  *)
(* it was started, current_step_index, and the confirmation and step in    *)
(* its metadata (pending_confirmation_*, consumed_confirmation_id).        *)
Record ==
  [state : Active \cup Terminal, started : BOOLEAN, at : 0..Steps,
   pending : Confirmation \cup {None}, pendingAt : 0..Steps,
   consumed : Confirmation \cup {None}]

VARIABLES
  store,     \* _items_by_id of the workflow store
  bucket,    \* the chat's recent workflow ids, oldest first
  late,      \* workflows whose expires_at has passed
  conf,      \* the confirmation store: state, and the step it is attached to
  pc,        \* where each thread is
  next,      \* where it goes after its sweep
  rec,       \* the record it holds
  wf,        \* the workflow it works on
  step,      \* index of the step it is at
  cid,       \* the confirmation of its command, or of its step
  found,     \* records its sweep has expired and not written back yet
  told,      \* confirmations whose id the operator has been sent
  born,      \* workflow ids that have been given out
  left,      \* commands each chat thread may still take; which timers run
  ran,       \* history: times each step was carried out
  passed,    \* history: steps that succeeded
  used       \* history: steps carried out under each confirmation

stores == <<store, bucket, late, conf>>
locals == <<pc, next, rec, wf, step, cid, found>>
history == <<ran, passed, used>>
vars == <<stores, locals, told, born, left, history>>

(* One workflow, in the state _create_workflow leaves it. *)
Fresh == [state |-> "pending", started |-> FALSE, at |-> 0,
          pending |-> None, pendingAt |-> 0, consumed |-> None]

Cleared(r) == [r EXCEPT !.pending = None, !.pendingAt = 0]

Exists(s, w) == s[w] # None

(* The workflows a sweep expires. *)
Lapsed(s) == {w \in late : Exists(s, w) /\ s[w].state \in Active}

(* mutant: a paused workflow waits for its confirmation as long as it takes. *)
SweptWhileRunning(s) ==
  [w \in Workflow |->
     IF w \in Lapsed(s) /\ s[w].state # "paused" THEN [s[w] EXCEPT !.state = "expired"] ELSE s[w]]

(* _expire_locked, with which every operation of the store begins. *)
Swept(s) ==
  [w \in Workflow |-> IF w \in Lapsed(s) THEN [s[w] EXCEPT !.state = "expired"] ELSE s[w]]

(* _trim_bucket_locked: the oldest expired record goes first, then the     *)
(* oldest finished one, then the oldest.                                   *)
Victim(s, b) ==
  LET Oldest(states) ==
        CHOOSE i \in 1..Len(b) : /\ s[b[i]].state \in states
                                 /\ \A j \in 1..(i - 1) : s[b[j]].state \notin states
      Held(states) == \E i \in 1..Len(b) : s[b[i]].state \in states
  IN IF Held({"expired"}) THEN b[Oldest({"expired"})]
     ELSE IF Held(Terminal) THEN b[Oldest(Terminal)]
     ELSE b[1]

(* create and update: sweep, store the whole record, trim. *)
Put(w, r) ==
  LET s == [Swept(store) EXCEPT ![w] = r]
      b == IF w \in Range(bucket) THEN bucket ELSE Append(bucket, w)
  IN IF Len(b) <= MaxKept
       THEN store' = s /\ bucket' = b
       ELSE /\ store' = [s EXCEPT ![Victim(s, b)] = None]
            /\ bucket' = SelectSeq(b, LAMBDA x : x # Victim(s, b))

(* An operation that only reads leaves the store swept. *)
Read == store' = Swept(store) /\ UNCHANGED bucket

TypeOK ==
  /\ store \in [Workflow -> Record \cup {None}]
  /\ bucket \in Seq(Workflow)
  /\ late \subseteq Workflow
  /\ conf \in [Confirmation -> [state : {"unborn", "pending", "approved", "rejected", "expired"},
                                wf : Workflow \cup {None}, at : 0..Steps]]
  /\ rec \in [Thread -> Record \cup {None}]
  /\ wf \in [Thread -> Workflow \cup {None}]
  /\ step \in [Thread -> 0..Steps]
  /\ cid \in [Thread -> Confirmation \cup {None}]

Init ==
  /\ store = [w \in Workflow |-> None]
  /\ bucket = <<>>
  /\ late = {}
  /\ conf = [c \in Confirmation |-> [state |-> "unborn", wf |-> None, at |-> 0]]
  /\ pc = [t \in Thread |-> "idle"]
  /\ next = [t \in Thread |-> "idle"]
  /\ rec = [t \in Thread |-> None]
  /\ wf = [t \in Thread |-> None]
  /\ step = [t \in Thread |-> 0]
  /\ cid = [t \in Thread |-> None]
  /\ found = [t \in Thread |-> <<>>]
  /\ told = {} /\ born = {}
  /\ left \in Limits
  /\ ran = [w \in Workflow |-> [i \in 1..Steps |-> 0]]
  /\ passed = [w \in Workflow |-> {}]
  /\ used = [c \in Confirmation |-> 0]

Goto(t, place) == pc' = [pc EXCEPT ![t] = place]

(* cleanup_expired_workflows, and then on to another place. *)
SweepThen(t, place) == Goto(t, "sweep") /\ next' = [next EXCEPT ![t] = place]

(* A thread that is done keeps nothing. *)
Return(t) ==
  /\ Goto(t, "idle")
  /\ rec' = [rec EXCEPT ![t] = None]
  /\ wf' = [wf EXCEPT ![t] = None]
  /\ step' = [step EXCEPT ![t] = 0]
  /\ cid' = [cid EXCEPT ![t] = None]
  /\ UNCHANGED <<next, found>>

-----------------------------------------------------------------------------
(* cleanup_expired_workflows.                                              *)

(* The window's timer, in every snapshot. *)
Tick(t) ==
  /\ t \in Timer /\ left[t] > 0 /\ pc[t] = "idle" /\ Lapsed(store) # {}
  /\ SweepThen(t, "idle")
  /\ UNCHANGED <<stores, rec, wf, step, cid, found, told, born, left, history>>

(* store.cleanup_expired returns what it has expired just now. *)
Sweep(t) ==
  /\ pc[t] = "sweep"
  /\ Read
  /\ found' = [found EXCEPT ![t] = SetToSeq({<<w, Swept(store)[w]>> : w \in Lapsed(store)})]
  /\ Goto(t, IF Lapsed(store) = {} THEN next[t] ELSE "purge")
  /\ UNCHANGED <<late, conf, next, rec, wf, step, cid, told, born, left, history>>

Expire(c) == IF c # None /\ conf[c].state = "pending"
               THEN [conf EXCEPT ![c].state = "expired"]
               ELSE conf

Purge(t) ==
  /\ pc[t] = "purge"
  /\ conf' = Expire(Head(found[t])[2].pending)
  /\ Goto(t, "purged")
  /\ UNCHANGED <<store, bucket, late, next, rec, wf, step, cid, found, told, born, left, history>>

(* The record is written back with its pending confirmation cleared. *)
Purged(t) ==
  /\ pc[t] = "purged"
  /\ Put(Head(found[t])[1], Cleared(Head(found[t])[2]))
  /\ found' = [found EXCEPT ![t] = Tail(@)]
  /\ Goto(t, IF Len(found[t]) = 1 THEN next[t] ELSE "purge")
  /\ UNCHANGED <<late, conf, next, rec, wf, step, cid, told, born, left, history>>

-----------------------------------------------------------------------------
(* Running a workflow: _create_workflow and _execute_workflow.             *)

Command(t) ==
  /\ t \in Chat /\ pc[t] = "idle" /\ left[t] > 0
  /\ left' = [left EXCEPT ![t] = @ - 1]

Run(t, w) ==
  /\ Command(t)
  /\ w \notin born /\ born' = born \cup {w}
  /\ Put(w, Fresh)
  /\ rec' = [rec EXCEPT ![t] = Fresh]
  /\ wf' = [wf EXCEPT ![t] = w]
  /\ step' = [step EXCEPT ![t] = 1]
  /\ cid' = [cid EXCEPT ![t] = None]
  /\ SweepThen(t, "begin")
  /\ UNCHANGED <<late, conf, found, told, history>>

(* Writing the record a thread holds, changed. *)
WriteRec(t, r) == rec' = [rec EXCEPT ![t] = r] /\ Put(wf[t], r)

Begin(t) ==
  /\ pc[t] = "begin"
  /\ WriteRec(t, [Cleared(rec[t]) EXCEPT !.started = TRUE, !.state = "running", !.at = step[t]])
  /\ Goto(t, "start")
  /\ UNCHANGED <<late, conf, next, wf, step, cid, found, told, born, left, history>>

(* _update_step before the step is run. *)
StartStep(t) ==
  /\ pc[t] = "start"
  /\ WriteRec(t, [rec[t] EXCEPT !.state = "running", !.at = step[t]])
  /\ Goto(t, "run")
  /\ UNCHANGED <<late, conf, next, wf, step, cid, found, told, born, left, history>>

(* _run_step. A step that is not run under a confirmation may ask for one: *)
(* nothing has been carried out then.                                      *)
Asks(t, c) ==
  /\ pc[t] = "run" /\ cid[t] = None
  /\ conf[c].state = "unborn"
  /\ conf' = [conf EXCEPT ![c].state = "pending"]
  /\ cid' = [cid EXCEPT ![t] = c]
  /\ Goto(t, "asked")
  /\ UNCHANGED <<store, bucket, late, next, rec, wf, step, found, told, born, left, history>>

CarriedOut(t) ==
  /\ ran' = [ran EXCEPT ![wf[t]][step[t]] = @ + 1]
  /\ used' = IF cid[t] = None THEN used ELSE [used EXCEPT ![cid[t]] = @ + 1]

Succeeds(t) ==
  /\ pc[t] = "run"
  /\ CarriedOut(t)
  /\ passed' = [passed EXCEPT ![wf[t]] = @ \cup {step[t]}]
  /\ Goto(t, "succeeded")
  /\ UNCHANGED <<stores, next, rec, wf, step, cid, found, told, born, left>>

Fails(t) ==
  /\ pc[t] = "run"
  /\ CarriedOut(t)
  /\ Goto(t, "failed")
  /\ UNCHANGED <<stores, next, rec, wf, step, cid, found, told, born, left, passed>>

(* The step raises: the thread's caller reports it and the record stays. *)
Raises(t) ==
  /\ pc[t] = "run"
  /\ CarriedOut(t)
  /\ Return(t)
  /\ UNCHANGED <<stores, told, born, left, passed>>

(* mutant: any outcome but a question goes on to the next step. *)
EndStepAnyway(t) ==
  /\ pc[t] \in {"succeeded", "failed", "asked"}
  /\ WriteRec(t, rec[t])
  /\ LET more == pc[t] # "asked" /\ step[t] < Steps
     IN /\ step' = [step EXCEPT ![t] = IF more THEN @ + 1 ELSE @]
        /\ cid' = [cid EXCEPT ![t] = IF more THEN None ELSE @]
        /\ Goto(t, IF more THEN "start"
                   ELSE IF pc[t] = "succeeded" THEN "complete"
                   ELSE IF pc[t] = "failed" THEN "fail" ELSE "attach")
  /\ UNCHANGED <<late, conf, next, wf, found, told, born, left, history>>

(* _update_step with the outcome. After a success the next step follows,   *)
(* and none but the first is run under the confirmation.                   *)
EndStep(t) ==
  /\ pc[t] \in {"succeeded", "failed", "asked"}
  /\ WriteRec(t, rec[t])
  /\ LET more == pc[t] = "succeeded" /\ step[t] < Steps
     IN /\ step' = [step EXCEPT ![t] = IF more THEN @ + 1 ELSE @]
        /\ cid' = [cid EXCEPT ![t] = IF more THEN None ELSE @]
        /\ Goto(t, IF more THEN "start"
                   ELSE IF pc[t] = "succeeded" THEN "complete"
                   ELSE IF pc[t] = "failed" THEN "fail" ELSE "attach")
  /\ UNCHANGED <<late, conf, next, wf, found, told, born, left, history>>

Complete(t) ==
  /\ pc[t] = "complete"
  /\ Put(wf[t], [rec[t] EXCEPT !.state = "completed"])
  /\ Return(t)
  /\ UNCHANGED <<late, conf, told, born, left, history>>

(* _terminal_state_from_outcome: one of the other terminal states. *)
Fail(t) ==
  /\ pc[t] = "fail"
  /\ \E s \in Terminal \ {"completed"} :
       Put(wf[t], [Cleared(rec[t]) EXCEPT !.state = s])
  /\ Return(t)
  /\ UNCHANGED <<late, conf, told, born, left, history>>

(* mutant: the confirmation is annotated with the step before. *)
AttachOneOff(t) ==
  /\ pc[t] = "attach"
  /\ conf' = [conf EXCEPT ![cid[t]].wf = wf[t], ![cid[t]].at = step[t] - 1]
  /\ Goto(t, "pause")
  /\ UNCHANGED <<store, bucket, late, next, rec, wf, step, cid, found, told, born, left, history>>

(* update_metadata of the confirmation, then the paused record. The reply  *)
(* that carries the id is sent after it.                                   *)
Attach(t) ==
  /\ pc[t] = "attach"
  /\ conf' = [conf EXCEPT ![cid[t]].wf = wf[t], ![cid[t]].at = step[t]]
  /\ Goto(t, "pause")
  /\ UNCHANGED <<store, bucket, late, next, rec, wf, step, cid, found, told, born, left, history>>

Pause(t) ==
  /\ pc[t] = "pause"
  /\ Put(wf[t], [rec[t] EXCEPT !.state = "paused", !.pending = cid[t], !.pendingAt = step[t]])
  /\ told' = told \cup {cid[t]}
  /\ Return(t)
  /\ UNCHANGED <<late, conf, born, left, history>>

-----------------------------------------------------------------------------
(* /confirm, /deny and /cancelworkflow.                                    *)

(* _execute_confirm: inspect, then resume_confirmation, or the workflow is *)
(* told of the expiry. An id the operator has been sent is attached to its *)
(* workflow, so the branch for confirmations without one is not taken.     *)
Confirm(t, c) ==
  /\ Command(t) /\ c \in told
  /\ cid' = [cid EXCEPT ![t] = c]
  /\ \/ /\ conf[c].state = "pending"
        /\ SweepThen(t, "lookup")
     \/ /\ conf[c].state = "expired"
        /\ SweepThen(t, "resolveExpired")
  /\ UNCHANGED <<stores, rec, wf, step, found, told, born, history>>

(* resume_confirmation up to the approval: the record and its checks. *)
Matches(r, c) ==
  /\ r.state = "paused"
  /\ r.consumed # c
  /\ r.pending = c
  /\ r.at = conf[c].at /\ r.pendingAt = conf[c].at

Lookup(t) ==
  LET c == cid[t]
      w == conf[c].wf
      r == Swept(store)[w]
  IN /\ pc[t] = "lookup"
     /\ Read
     /\ \/ /\ Exists(store, w) /\ Matches(r, c)
           /\ rec' = [rec EXCEPT ![t] = r]
           /\ wf' = [wf EXCEPT ![t] = w]
           /\ step' = [step EXCEPT ![t] = conf[c].at]
           /\ Goto(t, "approve")
           /\ UNCHANGED <<next, cid, found, conf>>
        \/ /\ Exists(store, w) /\ r.state = "expired"
           /\ conf' = Expire(c)
           /\ Return(t)
        \/ /\ Exists(store, w) => ~Matches(r, c) /\ r.state # "expired"
           /\ Return(t)
           /\ UNCHANGED conf
     /\ UNCHANGED <<late, told, born, left, history>>

(* mutant: the state was inspected before and is not looked at again. *)
ApproveUnchecked(t) ==
  /\ pc[t] = "approve"
  /\ conf' = [conf EXCEPT ![cid[t]].state = "approved"]
  /\ Goto(t, "resume")
  /\ UNCHANGED <<store, bucket, late, next, rec, wf, step, cid, found, told, born, left, history>>

(* confirmation_store.approve decides between concurrent /confirm's. *)
Approve(t) ==
  /\ pc[t] = "approve"
  /\ \/ /\ conf[cid[t]].state = "pending"
        /\ conf' = [conf EXCEPT ![cid[t]].state = "approved"]
        /\ Goto(t, "resume")
        /\ UNCHANGED <<next, rec, wf, step, cid, found>>
     \/ /\ conf[cid[t]].state = "expired"
        /\ SweepThen(t, "resolveExpired")
        /\ UNCHANGED <<conf, rec, wf, step, cid, found>>
     \/ /\ conf[cid[t]].state \in {"approved", "rejected"}
        /\ Return(t)
        /\ UNCHANGED conf
  /\ UNCHANGED <<store, bucket, late, told, born, left, history>>

Resume(t) ==
  /\ pc[t] = "resume"
  /\ WriteRec(t, [Cleared(rec[t]) EXCEPT !.state = "running", !.at = step[t], !.consumed = cid[t]])
  /\ SweepThen(t, "start")
  /\ UNCHANGED <<late, conf, wf, step, cid, found, told, born, left, history>>

Deny(t, c) ==
  /\ Command(t) /\ c \in told
  /\ conf[c].state \in {"pending", "expired"}
  /\ conf' = IF conf[c].state = "pending" THEN [conf EXCEPT ![c].state = "rejected"] ELSE conf
  /\ cid' = [cid EXCEPT ![t] = c]
  /\ SweepThen(t, IF conf[c].state = "pending" THEN "resolveRejected" ELSE "resolveExpired")
  /\ UNCHANGED <<store, bucket, late, rec, wf, step, found, told, born, history>>

(* mark_confirmation_resolution: get the workflow of the confirmation, and *)
(* end it if it still waits for this one.                                  *)
Resolve(t) ==
  LET c == cid[t]
      w == conf[c].wf
      r == Swept(store)[w]
  IN /\ pc[t] \in {"resolveExpired", "resolveRejected"}
     /\ Read
     /\ \/ /\ w # None /\ Exists(store, w) /\ r.state \in Active /\ r.pending = c
           /\ wf' = [wf EXCEPT ![t] = w]
           /\ rec' = [rec EXCEPT ![t] = [Cleared(r) EXCEPT !.state =
                        IF pc[t] = "resolveExpired" THEN "expired" ELSE "cancelled"]]
           /\ Goto(t, "settle")
           /\ UNCHANGED <<next, step, cid, found>>
        \/ /\ w # None /\ Exists(store, w) => ~(r.state \in Active /\ r.pending = c)
           /\ Return(t)
     /\ UNCHANGED <<late, conf, told, born, left, history>>

Cancel(t, w) ==
  /\ Command(t) /\ Exists(store, w)
  /\ wf' = [wf EXCEPT ![t] = w]
  /\ SweepThen(t, "cancel")
  /\ UNCHANGED <<stores, rec, step, cid, found, told, born, history>>

(* cancel_workflow: an active record, its confirmation rejected, and then  *)
(* the record cancelled.                                                   *)
CancelRead(t) ==
  LET r == Swept(store)[wf[t]]
  IN /\ pc[t] = "cancel"
     /\ Read
     /\ \/ /\ Exists(store, wf[t]) /\ r.state \in Active
           /\ rec' = [rec EXCEPT ![t] = [Cleared(r) EXCEPT !.state = "cancelled"]]
           /\ cid' = [cid EXCEPT ![t] = r.pending]
           /\ Goto(t, IF r.pending = None THEN "settle" ELSE "reject")
           /\ UNCHANGED <<next, wf, step, found>>
        \/ /\ Exists(store, wf[t]) => r.state \notin Active
           /\ Return(t)
     /\ UNCHANGED <<late, conf, told, born, left, history>>

Reject(t) ==
  /\ pc[t] = "reject"
  /\ conf' = IF conf[cid[t]].state = "pending"
               THEN [conf EXCEPT ![cid[t]].state = "rejected"] ELSE conf
  /\ Goto(t, "settle")
  /\ UNCHANGED <<store, bucket, late, next, rec, wf, step, cid, found, told, born, left, history>>

Settle(t) ==
  /\ pc[t] = "settle"
  /\ Put(wf[t], rec[t])
  /\ Return(t)
  /\ UNCHANGED <<late, conf, told, born, left, history>>

-----------------------------------------------------------------------------
(* Time: a workflow's lifetime passes; a confirmation's, which every       *)
(* operation of its store looks at first.                                  *)
LifetimePasses(w) ==
  /\ w \notin late /\ Exists(store, w)
  /\ late' = late \cup {w}
  /\ UNCHANGED <<store, bucket, conf, locals, told, born, left, history>>

ConfirmationExpires(c) ==
  /\ conf[c].state = "pending"
  /\ conf' = [conf EXCEPT ![c].state = "expired"]
  /\ UNCHANGED <<store, bucket, late, locals, told, born, left, history>>

ThreadStep(t) ==
  \/ Sweep(t) \/ Purge(t) \/ Purged(t)
  \/ Begin(t) \/ StartStep(t) \/ Succeeds(t) \/ Fails(t) \/ Raises(t)
  \/ \E c \in Confirmation : Asks(t, c)
  \/ EndStep(t) \/ Complete(t) \/ Fail(t) \/ Attach(t) \/ Pause(t)
  \/ Lookup(t) \/ Approve(t) \/ Resume(t) \/ Resolve(t)
  \/ CancelRead(t) \/ Reject(t) \/ Settle(t)

Next ==
  \/ \E t \in Thread : Tick(t) \/ ThreadStep(t)
  \/ \E t \in Chat :
       \/ \E w \in Workflow : Run(t, w) \/ Cancel(t, w)
       \/ \E c \in Confirmation : Confirm(t, c) \/ Deny(t, c)
  \/ \E w \in Workflow : LifetimePasses(w)
  \/ \E c \in Confirmation : ConfirmationExpires(c)

Spec == Init /\ [][Next]_vars

(* Threads go on with what they have begun, the window's timer ticks, and  *)
(* lifetimes pass. Nothing makes an operator send a command.               *)
FairSpec ==
  /\ Spec
  /\ \A t \in Thread : WF_vars(Tick(t) \/ ThreadStep(t))
  /\ \A w \in Workflow : WF_vars(LifetimePasses(w))

-----------------------------------------------------------------------------

(* A step is carried out after all the steps before it succeeded, also     *)
(* when the workflow was resumed from a confirmation.                      *)
StepsInOrder ==
  \A w \in Workflow, i \in 1..Steps : ran[w][i] > 0 => \A j \in 1..(i - 1) : j \in passed[w]

(* However many /confirm's of an id are under way, at most one step is     *)
(* carried out under it, and only once it is approved; and no step is      *)
(* carried out twice: the run that asked for a confirmation did nothing,   *)
(* and the confirmation resumes at that step once.                         *)
NoStepTwice ==
  /\ \A c \in Confirmation : used[c] <= 1 /\ (used[c] = 1 => conf[c].state = "approved")
  /\ \A w \in Workflow, i \in 1..Steps : ran[w][i] <= 1

(* A paused workflow and the confirmation it names agree on the step, so   *)
(* that the checks of resume_confirmation let that confirmation through.   *)
PausedMatches ==
  \A w \in Workflow :
    Exists(store, w) /\ store[w].state = "paused"
      => LET c == store[w].pending
         IN /\ c # None /\ conf[c].wf = w
            /\ conf[c].at = store[w].at /\ conf[c].at = store[w].pendingAt

(* Where the window's timer runs a workflow does not stay active for ever, *)
(* whatever the operator leaves undone and whichever step raised.          *)
WorkflowEnds ==
  \A w \in Workflow :
    ((\E t \in Timer : left[t] > 0) /\ Exists(store, w) /\ store[w].state \in Active)
      ~> (~Exists(store, w) \/ store[w].state \in Terminal)
=============================================================================
