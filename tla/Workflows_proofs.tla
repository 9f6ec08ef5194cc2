--------------------------- MODULE Workflows_proofs ---------------------------
(***************************************************************************)
(* Workflows and confirmations for every number of them, of chat threads,  *)
(* timers, steps and commands: the order of the steps, one execution per   *)
(* step and confirmation, and the agreement of a paused workflow with the  *)
(* confirmation it waits for.                                              *)
(***************************************************************************)
EXTENDS WorkflowRelay, FiniteSetTheorems, TLAPS

-----------------------------------------------------------------------------
(* What the inductive invariant is made of.                                *)

AfterSweep == {"idle", "begin", "start", "lookup", "resolveExpired", "resolveRejected",
               "cancel"}
Places == Sweeping \cup AfterSweep \cup
  {"run", "succeeded", "failed", "asked", "complete", "fail", "attach", "pause",
   "approve", "resume", "settle", "reject"}

(* The steps before k succeeded, the others were not carried out. *)
UpTo(w, k) ==
  /\ \A j \in 1..Steps : j < k => j \in passed[w]
  /\ \A j \in 1..Steps : j >= k => ran[w][j] = 0

ConfState == {"unborn", "pending", "approved", "rejected", "expired"}

Shape ==
  /\ pc \in [Thread -> Places] /\ next \in [Thread -> AfterSweep]
  /\ wf \in [Thread -> Workflow \cup {None}]
  /\ step \in [Thread -> 0..Steps]
  /\ cid \in [Thread -> Confirmation \cup {None}]
  /\ rec \in [Thread -> Record \cup {None}]
  /\ found \in [Thread -> Seq(Workflow \X Record)]
  /\ store \in [Workflow -> Record \cup {None}] /\ late \subseteq Workflow
  /\ conf \in [Confirmation -> [state : ConfState, wf : Workflow \cup {None}, at : 0..Steps]]
  /\ told \subseteq Confirmation /\ born \subseteq Workflow
  /\ used \in [Confirmation -> Nat]
  /\ ran \in [Workflow -> [1..Steps -> Nat]]
  /\ passed \in [Workflow -> SUBSET (1..Steps)]

(* What a thread holds is what its place calls for. *)
Fits(t) ==
  /\ Place(t) \in Executing \cup {"failed", "complete", "fail", "pause", "approve",
                                  "settle", "reject"}
       => wf[t] \in Workflow /\ rec[t] \in Record
  /\ Place(t) \in Executing \cup {"failed", "pause", "approve"} => step[t] \in 1..Steps
  /\ Place(t) \in {"run", "succeeded", "failed", "asked", "attach", "pause"}
       => rec[t].at = step[t]
  /\ Place(t) \in {"run", "succeeded", "failed", "asked"} => rec[t].state = "running"
  /\ Place(t) \in {"settle", "reject"} => rec[t].state \in {"expired", "cancelled"}
  /\ pc[t] \in {"purge", "purged"} => found[t] # <<>>
  /\ \A i \in 1..Len(found[t]) : found[t][i][2].state = "expired"
  /\ Place(t) = "cancel" => wf[t] \in Workflow

Types == Shape /\ \A t \in Thread : Fits(t)

(* A workflow goes on in one thread, or waits for one confirmation. *)
OneToken ==
  /\ \A w \in Workflow, t, u \in Thread : Executes(t, w) /\ Executes(u, w) => t = u
  /\ \A w \in Workflow, t \in Thread, c \in Confirmation : ~(Executes(t, w) /\ Waits(c, w))
  /\ \A w \in Workflow, c, d \in Confirmation : Waits(c, w) /\ Waits(d, w) => c = d

(* It goes on at the first step that did not succeed, which was not carried *)
(* out yet.                                                                 *)
GoesOn ==
  /\ \A t \in Thread : Place(t) \in Executing
       => wf[t] \in born /\ UpTo(wf[t], IF Place(t) = "succeeded" THEN step[t] + 1 ELSE step[t])
  /\ \A w \in Workflow, c \in Confirmation : Waits(c, w)
       => w \in born /\ UpTo(w, conf[c].at)
  /\ \A w \in Workflow \ born, i \in 1..Steps : ran[w][i] = 0
  /\ \A w \in Workflow, i \in 1..Steps : ran[w][i] <= 1

(* A confirmation is attached to its workflow before the operator is told. *)
AttachedFirst ==
  /\ \A c \in Confirmation : conf[c].state = "unborn" => conf[c].wf = None
  /\ \A c \in told : conf[c].state # "unborn" /\ conf[c].wf \in Workflow /\ conf[c].at \in 1..Steps
  /\ \A t \in Thread : Place(t) \in {"asked", "attach", "pause"}
       => cid[t] \in Confirmation \ told /\ conf[cid[t]].state # "unborn"
  /\ \A t, u \in Thread : /\ Place(t) \in {"asked", "attach", "pause"}
                          /\ Place(u) \in {"asked", "attach", "pause"}
                          /\ cid[t] = cid[u]
                          => t = u
  /\ \A t \in Thread : Place(t) \in {"asked", "attach"} => conf[cid[t]].wf = None
  /\ \A t \in Thread : Place(t) = "pause"
       => conf[cid[t]].wf = wf[t] /\ conf[cid[t]].at = step[t]

(* A thread that was sent an id works on what the confirmation is attached *)
(* to, and carries out nothing under it before it is approved.             *)
UnderApproval ==
  /\ \A t \in Thread : Place(t) \in {"lookup", "approve", "resume",
                                     "resolveExpired", "resolveRejected"} => cid[t] \in told
  /\ \A t \in Thread : Place(t) \in {"approve", "resume"}
       => wf[t] = conf[cid[t]].wf /\ step[t] = conf[cid[t]].at
  /\ \A t \in Thread : Place(t) = "begin" => cid[t] = None
  /\ \A t \in Thread : Place(t) \in {"start", "run", "resume"}
       => \/ cid[t] = None
          \/ /\ cid[t] \in told /\ wf[t] = conf[cid[t]].wf
             /\ conf[cid[t]].state = "approved" /\ used[cid[t]] = 0
  /\ \A c \in Confirmation : used[c] <= 1 /\ (conf[c].state # "approved" => used[c] = 0)

(* A paused workflow names a confirmation the operator has been sent. *)
PausedTold == \A w \in Workflow :
  Exists(store, w) /\ store[w].state = "paused" => store[w].pending \in told

Tokens == OneToken /\ GoesOn /\ AttachedFirst /\ UnderApproval /\ StepsInOrder
WorkflowInv == Types /\ Tokens /\ PausedTold /\ PausedMatches

-----------------------------------------------------------------------------
(* The steps of the module, one by one.                                    *)
Acts(t) ==
  \/ Tick(t) \/ Sweep(t) \/ Purge(t) \/ Purged(t)
  \/ Begin(t) \/ StartStep(t) \/ Succeeds(t) \/ Fails(t) \/ Raises(t)
  \/ \E c \in Confirmation : Asks(t, c) \/ Confirm(t, c) \/ Deny(t, c)
  \/ EndStep(t) \/ Complete(t) \/ Fail(t) \/ Attach(t) \/ Pause(t)
  \/ Lookup(t) \/ Approve(t) \/ Resume(t) \/ Resolve(t)
  \/ CancelRead(t) \/ Reject(t) \/ Settle(t)
  \/ \E w \in Workflow : Run(t, w) \/ Cancel(t, w)

LEMMA StepCases ==
  ASSUME Next
  PROVE  \/ \E t \in Thread : Acts(t)
         \/ \E w \in Workflow : LifetimePasses(w)
         \/ \E c \in Confirmation : ConfirmationExpires(c)
BY DEF Next, ThreadStep, Thread, Acts

(* Of a sweep and of a write to the store: records stay, expire or go. *)
LEMMA SweptStore ==
  ASSUME store \in [Workflow -> Record \cup {None}]
  PROVE  /\ Swept(store) \in [Workflow -> Record \cup {None}]
         /\ \A x \in Workflow : Exists(store, x) => Swept(store)[x] \in Record
         /\ \A x \in Workflow : \/ Swept(store)[x] = store[x]
                                \/ Swept(store)[x] \in Record /\ Swept(store)[x].state = "expired"
<1>1. ASSUME NEW x \in Workflow, x \in Lapsed(store)
      PROVE  /\ [store[x] EXCEPT !.state = "expired"] \in Record
             /\ [store[x] EXCEPT !.state = "expired"].state = "expired"
  <2>1. store[x] \in Record
    BY <1>1 DEF Lapsed, Exists
  <2>2. QED
    BY <2>1 DEF Record, Terminal
<1>2. QED
  BY <1>1 DEF Swept, Exists

LEMMA PutStore ==
  ASSUME store \in [Workflow -> Record \cup {None}],
         NEW w \in Workflow, NEW r \in Record, Put(w, r)
  PROVE  /\ store' \in [Workflow -> Record \cup {None}]
         /\ \A x \in Workflow : \/ store'[x] = None \/ store'[x] = store[x]
                                \/ store'[x] \in Record /\ store'[x].state = "expired"
                                \/ x = w /\ store'[x] = r
<1> DEFINE s == [Swept(store) EXCEPT ![w] = r]
<1>1. /\ s \in [Workflow -> Record \cup {None}] /\ s[w] = r
      /\ \A x \in Workflow \ {w} : s[x] = Swept(store)[x]
  BY SweptStore
<1>2. \/ store' = s
      \/ \E v : store' = [s EXCEPT ![v] = None]
  BY DEF Put
<1>3. store' \in [Workflow -> Record \cup {None}] /\ \A x \in Workflow : store'[x] \in {s[x], None}
  <2> HIDE DEF s
  <2>1. QED
    BY <1>1, <1>2
<1>4. QED
  BY <1>1, <1>3, SweptStore

(* A sweep's finds are expired records of workflows. *)
LEMMA FoundRecords ==
  ASSUME store \in [Workflow -> Record \cup {None}],
         NEW f, f = SetToSeq({<<w, Swept(store)[w]>> : w \in Lapsed(store)}),
         late \subseteq Workflow
  PROVE  /\ f \in Seq(Workflow \X Record) /\ (Lapsed(store) # {} => f # <<>>)
         /\ \A i \in 1..Len(f) : f[i][2].state = "expired"
<1> DEFINE S == {<<w, Swept(store)[w]>> : w \in Lapsed(store)}
<1>1. (Lapsed(store) # {} => S # {}) /\ \A e \in S : e \in Workflow \X Record /\ e[2].state = "expired"
  <2>1. ASSUME NEW w \in Lapsed(store)
        PROVE  <<w, Swept(store)[w]>> \in Workflow \X Record /\ Swept(store)[w].state = "expired"
    <3>1. w \in Workflow /\ store[w] \in Record
      BY <2>1 DEF Lapsed, Exists
    <3>2. Swept(store)[w] = [store[w] EXCEPT !.state = "expired"]
      BY <2>1, <3>1 DEF Swept
    <3>3. /\ [store[w] EXCEPT !.state = "expired"] \in Record
          /\ [store[w] EXCEPT !.state = "expired"].state = "expired"
      BY <3>1 DEF Record, Terminal
    <3>4. Swept(store)[w] \in Record /\ Swept(store)[w].state = "expired"
      BY <3>2, <3>3, Zenon
    <3>5. QED
      BY <3>1, <3>4
  <2>2. ASSUME NEW e \in S
        PROVE  e \in Workflow \X Record /\ e[2].state = "expired"
    <3>1. PICK w \in Lapsed(store) : e = <<w, Swept(store)[w]>>
      BY <2>2
    <3>2. e[2] = Swept(store)[w]
      BY <3>1
    <3>3. QED
      BY <2>1, <3>1, <3>2
  <2>3. QED
    BY <2>2
<1>2. IsFiniteSet(S)
  <2> DEFINE pair == [w \in Lapsed(store) |-> <<w, Swept(store)[w]>>]
  <2>1. IsFiniteSet(Lapsed(store))
    <3>1. Lapsed(store) \subseteq Workflow
      BY DEF Lapsed
    <3>2. QED
      BY <3>1, FS_Subset, WorkflowsAssumption
  <2>2. pair \in Surjection(Lapsed(store), S)
    BY DEF Surjection
  <2>3. QED
    BY <2>1, <2>2, FS_Surjection
<1>3. f = SetToSeq(S)
  OBVIOUS
<1> HIDE DEF S
<1>4. Cardinality(S) \in Nat /\ \E g : g \in Bijection(1..Cardinality(S), S)
  BY <1>2, FS_CardinalityType DEF ExistsBijection
<1>5. \E g \in [1..Cardinality(S) -> S] : IsInjective(g)
  BY <1>4 DEF Bijection, Injection
<1>6. f \in [1..Cardinality(S) -> S]
  BY <1>3, <1>5, Zenon DEF SetToSeq
<1>7. f \in Seq(S) /\ Len(f) = Cardinality(S)
  BY <1>4, <1>6
<1>8. S # {} => Cardinality(S) # 0
  BY <1>1, <1>2, FS_EmptySet
<1>9. \A i \in 1..Len(f) : f[i] \in S
  BY <1>6, <1>7
<1>10. f \in Seq(Workflow \X Record)
  BY <1>1, <1>4, <1>6
<1>11. QED
  BY <1>1, <1>7, <1>8, <1>9, <1>10

-----------------------------------------------------------------------------
(* Types.                                                                  *)

(* A thread's step leaves the other threads alone. *)
LEMMA OthersKeep ==
  ASSUME Shape, NEW t \in Thread, Acts(t), NEW u \in Thread, u # t
  PROVE  /\ pc'[u] = pc[u] /\ next'[u] = next[u] /\ rec'[u] = rec[u] /\ wf'[u] = wf[u]
         /\ step'[u] = step[u] /\ cid'[u] = cid[u] /\ found'[u] = found[u]
         /\ Place(u)' = Place(u)
<1>1. CASE Tick(t) \/ Sweep(t) \/ Purge(t) \/ Purged(t)
  BY <1>1 DEF Tick, Sweep, Purge, Purged, SweepThen, Goto, Shape, Place, stores, history
<1>2. CASE Begin(t) \/ StartStep(t) \/ Resume(t)
  BY <1>2 DEF Begin, StartStep, Resume, WriteRec, SweepThen, Goto, Shape, Place
<1>3. CASE Succeeds(t) \/ Fails(t) \/ Raises(t)
  BY <1>3 DEF Succeeds, Fails, Raises, Return, Goto, Shape, Place
<1>4. ASSUME NEW c \in Confirmation, Asks(t, c) \/ Confirm(t, c) \/ Deny(t, c)
      PROVE  /\ pc'[u] = pc[u] /\ next'[u] = next[u] /\ rec'[u] = rec[u] /\ wf'[u] = wf[u]
             /\ step'[u] = step[u] /\ cid'[u] = cid[u] /\ found'[u] = found[u]
             /\ Place(u)' = Place(u)
  BY <1>4 DEF Asks, Confirm, Deny, SweepThen, Goto, Shape, Place, stores
<1>5. CASE EndStep(t) \/ Attach(t)
  BY <1>5 DEF EndStep, Attach, WriteRec, Goto, Shape, Place
<1>6. CASE Complete(t) \/ Fail(t) \/ Pause(t) \/ Settle(t)
  BY <1>6 DEF Complete, Fail, Pause, Settle, Return, Goto, Shape, Place
<1>7. CASE Lookup(t)
  BY <1>7 DEF Lookup, Return, Goto, Shape, Place
<1>8. CASE Approve(t) \/ Reject(t)
  BY <1>8 DEF Approve, Reject, SweepThen, Return, Goto, Shape, Place
<1>9. CASE Resolve(t) \/ CancelRead(t)
  BY <1>9 DEF Resolve, CancelRead, Return, Goto, Shape, Place
<1>10. ASSUME NEW w \in Workflow, Run(t, w) \/ Cancel(t, w)
      PROVE  /\ pc'[u] = pc[u] /\ next'[u] = next[u] /\ rec'[u] = rec[u] /\ wf'[u] = wf[u]
             /\ step'[u] = step[u] /\ cid'[u] = cid[u] /\ found'[u] = found[u]
             /\ Place(u)' = Place(u)
  BY <1>10 DEF Run, Cancel, SweepThen, Goto, Shape, Place, stores
<1>11. QED
  BY <1>1, <1>2, <1>3, <1>4, <1>5, <1>6, <1>7, <1>8, <1>9, <1>10 DEF Acts

LEMMA LongTail ==
  ASSUME NEW S, NEW q \in Seq(S), q # <<>>, Len(q) # 1 PROVE Tail(q) # <<>>
<1>1. Len(q) \in Nat /\ Len(q) # 0
  OBVIOUS
<1>2. Len(Tail(q)) = Len(q) - 1
  OBVIOUS
<1>3. Len(Tail(q)) # 0 /\ Len(<<>>) = 0
  BY <1>1, <1>2
<1>4. QED
  BY <1>3, Zenon

LEMMA Counted ==
  ASSUME NEW S, NEW f \in [S -> Nat], NEW i \in S
  PROVE  /\ [f EXCEPT ![i] = @ + 1] \in [S -> Nat]
         /\ [f EXCEPT ![i] = @ + 1][i] = f[i] + 1
         /\ \A j \in S \ {i} : [f EXCEPT ![i] = @ + 1][j] = f[j]
OBVIOUS

(* Records as the code edits them. *)
LEMMA ClearedRecord ==
  ASSUME NEW r \in Record
  PROVE  Cleared(r) \in Record /\ Cleared(r).state = r.state /\ Cleared(r).at = r.at
         /\ Cleared(r).consumed = r.consumed
<1>1. 0 \in 0..Steps
  BY StepsAssumption
<1>2. \A k \in 0..Steps, p \in Confirmation \cup {None} :
        LET q == [r EXCEPT !.pending = p, !.pendingAt = k]
        IN q \in Record /\ q.state = r.state /\ q.at = r.at /\ q.consumed = r.consumed
  BY DEF Record
<1>3. QED
  BY <1>1, <1>2, Zenon DEF Cleared

LEMMA RecordEdits ==
  ASSUME NEW r \in Record, NEW k \in 0..Steps, NEW s \in Active \cup Terminal
  PROVE  /\ [r EXCEPT !.state = s] \in Record /\ [r EXCEPT !.state = s].state = s
         /\ [r EXCEPT !.state = s, !.at = k] \in Record
         /\ [r EXCEPT !.state = s, !.at = k].at = k
         /\ [r EXCEPT !.state = s, !.at = k].state = s
         /\ [r EXCEPT !.started = TRUE, !.state = s, !.at = k] \in Record
         /\ [r EXCEPT !.started = TRUE, !.state = s, !.at = k].state = s
BY DEF Record

LEMMA ConfirmationEdits ==
  ASSUME NEW r \in Record, NEW k \in 0..Steps, NEW s \in Active \cup Terminal,
         NEW c \in Confirmation
  PROVE  /\ [r EXCEPT !.state = s, !.at = k, !.consumed = c] \in Record
         /\ [r EXCEPT !.state = s, !.at = k, !.consumed = c].state = s
         /\ [r EXCEPT !.state = s, !.pending = c, !.pendingAt = k] \in Record
         /\ [r EXCEPT !.state = s, !.pending = c, !.pendingAt = k].at = r.at
         /\ [r EXCEPT !.state = s, !.pending = c, !.pendingAt = k].pending = c
         /\ [r EXCEPT !.state = s, !.pending = c, !.pendingAt = k].pendingAt = k
<1>1. /\ [r EXCEPT !.state = s, !.at = k, !.consumed = c] \in Record
      /\ [r EXCEPT !.state = s, !.at = k, !.consumed = c].state = s
  BY DEF Record
<1>2. /\ [r EXCEPT !.state = s, !.pending = c, !.pendingAt = k] \in Record
      /\ [r EXCEPT !.state = s, !.pending = c, !.pendingAt = k].at = r.at
      /\ [r EXCEPT !.state = s, !.pending = c, !.pendingAt = k].pending = c
      /\ [r EXCEPT !.state = s, !.pending = c, !.pendingAt = k].pendingAt = k
  BY DEF Record
<1>3. QED
  BY <1>1, <1>2

LEMMA FreshRecord == Fresh \in Record /\ Fresh.state = "pending"
BY StepsAssumption DEF Fresh, Record, Active

(* The two ways a confirmation is written. *)
ConfType == [state : ConfState, wf : Workflow \cup {None}, at : 0..Steps]

LEMMA StateWrite ==
  ASSUME Shape, NEW c \in Confirmation, NEW s \in ConfState,
         conf' = [conf EXCEPT ![c].state = s]
  PROVE  /\ conf' \in [Confirmation -> ConfType]
         /\ \A d \in Confirmation \ {c} : conf'[d] = conf[d]
         /\ conf'[c].state = s /\ conf'[c].wf = conf[c].wf /\ conf'[c].at = conf[c].at
<1> DEFINE r == [conf[c] EXCEPT !.state = s]
<1>1. conf[c] \in ConfType
  BY DEF Shape, ConfType
<1>2. r \in ConfType /\ r.state = s /\ r.wf = conf[c].wf /\ r.at = conf[c].at
  BY <1>1 DEF ConfType
<1>3. conf' = [conf EXCEPT ![c] = r] /\ conf \in [Confirmation -> ConfType]
  BY DEF Shape, ConfType
<1> HIDE DEF r
<1>4. QED
  BY <1>2, <1>3

LEMMA AttachWrite ==
  ASSUME Shape, NEW t \in Thread, Attach(t),
         cid[t] \in Confirmation, wf[t] \in Workflow, step[t] \in 0..Steps
  PROVE  /\ conf' \in [Confirmation -> ConfType]
         /\ \A d \in Confirmation \ {cid[t]} : conf'[d] = conf[d]
         /\ conf'[cid[t]].state = conf[cid[t]].state
         /\ conf'[cid[t]].wf = wf[t] /\ conf'[cid[t]].at = step[t]
<1>1. PICK c \in Confirmation, w \in Workflow, k \in 0..Steps :
         c = cid[t] /\ w = wf[t] /\ k = step[t]
  OBVIOUS
<1> DEFINE r == [conf[c] EXCEPT !.wf = w, !.at = k]
<1>2. conf[c] \in ConfType /\ conf \in [Confirmation -> ConfType]
  BY DEF Shape, ConfType
<1>3. r \in ConfType /\ r.state = conf[c].state /\ r.wf = w /\ r.at = k
  BY <1>2 DEF ConfType
<1>4. conf' = [conf EXCEPT ![c] = r]
  BY <1>1, <1>2 DEF Attach
<1> HIDE DEF r
<1>5. QED
  BY <1>1, <1>2, <1>3, <1>4

(* A thread's place determines what it may have in hand. *)
LEMMA Returned ==
  ASSUME Shape, NEW t \in Thread, Return(t), \A i \in 1..Len(found[t]) : found[t][i][2].state = "expired"
  PROVE  /\ pc' \in [Thread -> Places] /\ next' \in [Thread -> AfterSweep]
         /\ wf' \in [Thread -> Workflow \cup {None}] /\ step' \in [Thread -> 0..Steps]
         /\ cid' \in [Thread -> Confirmation \cup {None}]
         /\ rec' \in [Thread -> Record \cup {None}]
         /\ found' \in [Thread -> Seq(Workflow \X Record)]
         /\ Place(t)' = "idle" /\ Fits(t)'
<1>1. pc'[t] = "idle" /\ found' = found
  BY DEF Return, Goto, Shape
<1>2. Place(t)' = "idle"
  BY <1>1 DEF Place, Sweeping
<1>3. Fits(t)'
  BY <1>1, <1>2 DEF Fits, Executing
<1>4. QED
  BY <1>2, <1>3, StepsAssumption DEF Return, Goto, Shape, Places, AfterSweep, Sweeping

LEMMA SweepTypes ==
  ASSUME WorkflowInv, NEW t \in Thread, Tick(t) \/ Sweep(t) \/ Purge(t) \/ Purged(t)
  PROVE  Shape' /\ Fits(t)'
<1> USE DEF WorkflowInv, Types
<1>1. CASE Tick(t)
  <2>1. Shape'
    BY <1>1 DEF Tick, SweepThen, Goto, Shape, Places, Sweeping, AfterSweep, stores, history
  <2>2. pc'[t] = "sweep" /\ Place(t)' = "idle" /\ found' = found /\ Fits(t)
    BY <1>1 DEF Tick, SweepThen, Goto, Shape, Place, Sweeping
  <2>3. QED
    BY <2>1, <2>2 DEF Fits, Executing
<1>2. CASE Sweep(t)
  <2>1. /\ found'[t] \in Seq(Workflow \X Record) /\ (Lapsed(store) # {} => found'[t] # <<>>)
        /\ \A i \in 1..Len(found'[t]) : found'[t][i][2].state = "expired"
    BY <1>2, FoundRecords DEF Sweep, Shape
  <2>2. store' \in [Workflow -> Record \cup {None}]
    BY <1>2, SweptStore DEF Sweep, Read, Shape
  <2>3. Shape'
    BY <1>2, <2>1, <2>2 DEF Sweep, Goto, Shape, Places, Sweeping, history
  <2>4. /\ Place(t)' = Place(t) /\ wf' = wf /\ rec' = rec /\ step' = step
        /\ (pc'[t] \in {"purge", "purged"} => Lapsed(store) # {})
    BY <1>2 DEF Sweep, Goto, Shape, Place, Sweeping, AfterSweep
  <2>5. QED
    BY <2>1, <2>3, <2>4 DEF Fits
<1>3. CASE Purge(t)
  <2>1. conf' \in [Confirmation -> [state : ConfState, wf : Workflow \cup {None}, at : 0..Steps]]
    BY <1>3, ZenonT(30) DEF Purge, Expire, Shape, ConfState
  <2>2. Shape'
    BY <1>3, <2>1 DEF Purge, Goto, Shape, Places, Sweeping, history
  <2>3. /\ Place(t)' = Place(t) /\ wf' = wf /\ rec' = rec /\ step' = step /\ found' = found
        /\ pc[t] = "purge" /\ Fits(t)
    BY <1>3 DEF Purge, Goto, Shape, Place, Sweeping
  <2>4. QED
    BY <2>2, <2>3 DEF Fits
<1>4. CASE Purged(t)
  <2>1. /\ found[t] # <<>> /\ found[t] \in Seq(Workflow \X Record) /\ Fits(t)
        /\ \A i \in 1..Len(found[t]) : found[t][i][2].state = "expired"
    BY <1>4 DEF Purged, Fits, Shape
  <2>2. Head(found[t]) \in Workflow \X Record
    BY <2>1
  <2>3. Head(found[t])[1] \in Workflow /\ Cleared(Head(found[t])[2]) \in Record
    <3>1. Head(found[t])[1] \in Workflow /\ Head(found[t])[2] \in Record
      BY <2>2
    <3>2. QED
      BY <3>1, ClearedRecord
  <2>4. store' \in [Workflow -> Record \cup {None}]
    BY <1>4, <2>3, PutStore DEF Purged, Shape
  <2>5. /\ Tail(found[t]) \in Seq(Workflow \X Record)
        /\ Len(Tail(found[t])) = Len(found[t]) - 1
        /\ \A i \in 1..Len(Tail(found[t])) : Tail(found[t])[i][2].state = "expired"
    BY <2>1
  <2>6. found'[t] = Tail(found[t])
    BY <1>4 DEF Purged, Shape
  <2>7. Shape'
    BY <1>4, <2>4, <2>5, <2>6 DEF Purged, Goto, Shape, Places, Sweeping, AfterSweep, history
  <2>8. /\ Place(t)' = Place(t) /\ wf' = wf /\ rec' = rec /\ step' = step
        /\ (pc'[t] \in {"purge", "purged"} => Len(found[t]) # 1)
    BY <1>4 DEF Purged, Goto, Shape, Place, Sweeping, AfterSweep
  <2>9. pc'[t] \in {"purge", "purged"} => Tail(found[t]) # <<>>
    <3>1. Len(found[t]) # 1 => Tail(found[t]) # <<>>
      BY <2>1, LongTail
    <3>2. QED
      BY <2>8, <3>1
  <2>10. QED
    BY <2>1, <2>5, <2>6, <2>7, <2>8, <2>9 DEF Fits
<1>5. QED
  BY <1>1, <1>2, <1>3, <1>4


LEMMA StartTypes ==
  ASSUME WorkflowInv, NEW t \in Thread, NEW w \in Workflow, Run(t, w)
  PROVE  Shape' /\ Fits(t)'
<1> USE DEF WorkflowInv, Types
<1>1. store' \in [Workflow -> Record \cup {None}]
  BY PutStore, FreshRecord DEF Run, Shape
<1>2. 1 \in 0..Steps /\ 1 \in 1..Steps
  BY StepsAssumption
<1>3. Shape'
  BY <1>1, <1>2, FreshRecord
  DEF Run, SweepThen, Goto, Shape, Places, Sweeping, AfterSweep, history
<1>4. /\ Place(t)' = "begin" /\ pc'[t] = "sweep" /\ found' = found
      /\ wf'[t] = w /\ step'[t] = 1 /\ rec'[t] = Fresh
  BY DEF Run, SweepThen, Goto, Shape, Place, Sweeping
<1>5. Fits(t)'
  BY <1>2, <1>4, FreshRecord DEF Fits
<1>6. QED
  BY <1>3, <1>5

LEMMA WriteTypes ==
  ASSUME WorkflowInv, NEW t \in Thread, Begin(t) \/ StartStep(t) \/ Resume(t)
  PROVE  Shape' /\ Fits(t)'
<1> USE DEF WorkflowInv, Types
<1>1. wf[t] \in Workflow /\ rec[t] \in Record /\ step[t] \in 1..Steps /\ step[t] \in 0..Steps
  <2>1. Place(t) \in {"begin", "start", "resume"}
    BY DEF Begin, StartStep, Resume, Place, Sweeping
  <2>2. QED
    BY <2>1 DEF Fits, Executing, Shape
<1>2. CASE Begin(t)
  <2> DEFINE r == [Cleared(rec[t]) EXCEPT !.started = TRUE, !.state = "running", !.at = step[t]]
  <2>1. r \in Record
    BY <1>1, ClearedRecord, RecordEdits DEF Active
  <2>2. rec' = [rec EXCEPT ![t] = r] /\ Put(wf[t], r)
    BY <1>2 DEF Begin, WriteRec
  <2> HIDE DEF r
  <2>3. store' \in [Workflow -> Record \cup {None}]
    BY <1>1, <2>1, <2>2, PutStore DEF Shape
  <2>4. Shape'
    BY <1>2, <2>1, <2>2, <2>3 DEF Begin, Goto, Shape, Places, AfterSweep, history
  <2>5. /\ Place(t)' = "start" /\ pc'[t] = "start" /\ UNCHANGED <<found, wf, step>>
        /\ rec'[t] = r
    BY <1>2, <2>2 DEF Begin, Goto, Shape, Place, Sweeping
  <2>6. QED
    BY <1>1, <2>1, <2>4, <2>5 DEF Fits
<1>3. CASE StartStep(t)
  <2> DEFINE r == [rec[t] EXCEPT !.state = "running", !.at = step[t]]
  <2>1. r \in Record /\ r.state = "running" /\ r.at = step[t]
    BY <1>1 DEF Record, Active
  <2>2. rec' = [rec EXCEPT ![t] = r] /\ Put(wf[t], r)
    BY <1>3 DEF StartStep, WriteRec
  <2> HIDE DEF r
  <2>3. store' \in [Workflow -> Record \cup {None}]
    BY <1>1, <2>1, <2>2, PutStore DEF Shape
  <2>4. Shape'
    BY <1>3, <2>1, <2>2, <2>3 DEF StartStep, Goto, Shape, Places, AfterSweep, history
  <2>5. /\ Place(t)' = "run" /\ pc'[t] = "run" /\ UNCHANGED <<found, wf, step>>
        /\ rec'[t] = r
    BY <1>3, <2>2 DEF StartStep, Goto, Shape, Place, Sweeping
  <2>6. QED
    BY <1>1, <2>1, <2>4, <2>5 DEF Fits
<1>4. CASE Resume(t)
  <2> DEFINE r == [Cleared(rec[t]) EXCEPT !.state = "running", !.at = step[t], !.consumed = cid[t]]
  <2>1. cid[t] \in Confirmation
    BY <1>4 DEF Resume, Place, Sweeping, Tokens, UnderApproval, Shape
  <2>2. r \in Record
    BY <1>1, <2>1, ClearedRecord, ConfirmationEdits DEF Active
  <2>3. rec' = [rec EXCEPT ![t] = r] /\ Put(wf[t], r)
    BY <1>4 DEF Resume, WriteRec
  <2> HIDE DEF r
  <2>4. store' \in [Workflow -> Record \cup {None}]
    BY <1>1, <2>2, <2>3, PutStore DEF Shape
  <2>5. Shape'
    BY <1>4, <2>2, <2>3, <2>4
    DEF Resume, SweepThen, Goto, Shape, Places, Sweeping, AfterSweep, history
  <2>6. /\ Place(t)' = "start" /\ pc'[t] = "sweep" /\ UNCHANGED <<found, wf, step>>
        /\ rec'[t] = r
    BY <1>4, <2>3 DEF Resume, SweepThen, Goto, Shape, Place, Sweeping
  <2>7. QED
    BY <1>1, <2>2, <2>5, <2>6 DEF Fits
<1>5. QED
  BY <1>2, <1>3, <1>4

LEMMA RunTypes ==
  ASSUME WorkflowInv, NEW t \in Thread, Succeeds(t) \/ Fails(t) \/ Raises(t)
  PROVE  Shape' /\ Fits(t)'
<1> USE DEF WorkflowInv, Types
<1>1. /\ wf[t] \in Workflow /\ rec[t] \in Record /\ step[t] \in 1..Steps
      /\ rec[t].at = step[t] /\ rec[t].state = "running" /\ CarriedOut(t) /\ Fits(t)
  <2>1. Place(t) = "run" /\ CarriedOut(t)
    BY DEF Succeeds, Fails, Raises, Place, Sweeping
  <2>2. QED
    BY <2>1 DEF Fits, Executing
<1>2. ran' \in [Workflow -> [1..Steps -> Nat]]
  <2>1. ran[wf[t]] \in [1..Steps -> Nat]
    BY <1>1 DEF Shape
  <2>2. [ran[wf[t]] EXCEPT ![step[t]] = @ + 1] \in [1..Steps -> Nat]
    BY <1>1, <2>1, Counted
  <2>3. ran' = [ran EXCEPT ![wf[t]] = [ran[wf[t]] EXCEPT ![step[t]] = @ + 1]]
    BY <1>1 DEF CarriedOut, Shape
  <2>4. QED
    BY <2>2, <2>3 DEF Shape
<1>3. used' \in [Confirmation -> Nat]
  BY <1>1 DEF CarriedOut, Shape
<1>4. CASE Succeeds(t)
  <2>1. passed' \in [Workflow -> SUBSET (1..Steps)]
    BY <1>1, <1>4 DEF Succeeds, Shape
  <2>2. Shape'
    BY <1>2, <1>3, <1>4, <2>1 DEF Succeeds, Goto, Shape, Places, stores
  <2>3. Place(t)' = "succeeded" /\ pc'[t] = "succeeded" /\ UNCHANGED <<found, wf, step, rec>>
    BY <1>4 DEF Succeeds, Goto, Shape, Place, Sweeping
  <2>4. QED
    BY <1>1, <2>2, <2>3 DEF Fits
<1>5. CASE Fails(t)
  <2>1. Shape'
    BY <1>2, <1>3, <1>5 DEF Fails, Goto, Shape, Places, stores
  <2>2. Place(t)' = "failed" /\ pc'[t] = "failed" /\ UNCHANGED <<found, wf, step, rec>>
    BY <1>5 DEF Fails, Goto, Shape, Place, Sweeping
  <2>3. QED
    BY <1>1, <2>1, <2>2 DEF Fits
<1>6. CASE Raises(t)
  <2>1. Return(t) /\ UNCHANGED <<stores, told, born, passed>>
    BY <1>6 DEF Raises
  <2>2. QED
    BY <1>1, <1>2, <1>3, <2>1, Returned DEF Fits, Shape, stores
<1>7. QED
  BY <1>4, <1>5, <1>6

(* The other steps of a run: asking, and what follows an outcome. *)
LEMMA AskTypes ==
  ASSUME WorkflowInv, NEW t \in Thread, NEW c \in Confirmation, Asks(t, c)
  PROVE  Shape' /\ Fits(t)'
<1> USE DEF WorkflowInv, Types
<1>1. /\ Place(t) = "run" /\ Place(t)' = "asked" /\ pc'[t] = "asked"
      /\ UNCHANGED <<wf, rec, step, found>>
  BY DEF Asks, Goto, Shape, Place, Sweeping
<1>2. conf' \in [Confirmation -> [state : ConfState, wf : Workflow \cup {None}, at : 0..Steps]]
  BY StateWrite DEF Asks, ConfState, ConfType
<1>3. Shape'
  BY <1>2 DEF Asks, Goto, Shape, Places, history
<1>4. Fits(t)
  OBVIOUS
<1>5. QED
  BY <1>1, <1>3, <1>4 DEF Fits, Executing

LEMMA EndStepTypes ==
  ASSUME WorkflowInv, NEW t \in Thread, EndStep(t)
  PROVE  Shape' /\ Fits(t)'
<1> USE DEF WorkflowInv, Types
<1>1. /\ pc[t] \in {"succeeded", "failed", "asked"} /\ Place(t) = pc[t] /\ Fits(t)
      /\ Put(wf[t], rec[t]) /\ rec' = [rec EXCEPT ![t] = rec[t]]
  BY DEF EndStep, Place, Sweeping, WriteRec
<1>2. /\ wf[t] \in Workflow /\ rec[t] \in Record /\ step[t] \in 1..Steps
      /\ rec[t].at = step[t]
  BY <1>1 DEF Fits, Executing
<1>3. store' \in [Workflow -> Record \cup {None}]
  BY <1>1, <1>2, PutStore DEF Shape
<1>4. rec' = rec /\ wf' = wf /\ found' = found
  BY <1>1, <1>2 DEF EndStep, Shape
<1>5. CASE pc[t] = "succeeded" /\ step[t] < Steps
  <2>1. /\ step' = [step EXCEPT ![t] = step[t] + 1] /\ cid' = [cid EXCEPT ![t] = None]
        /\ pc' = [pc EXCEPT ![t] = "start"]
    BY <1>5 DEF EndStep, Goto, Shape
  <2>2. step[t] + 1 \in 0..Steps /\ step[t] + 1 \in 1..Steps
    BY <1>2, <1>5, StepsAssumption
  <2>3. Shape'
    BY <1>3, <1>4, <2>1, <2>2 DEF EndStep, Shape, Places, AfterSweep, history
  <2>4. Place(t)' = "start" /\ pc'[t] = "start" /\ step'[t] \in 1..Steps
    BY <2>1, <2>2 DEF Place, Sweeping, Shape
  <2>5. QED
    BY <1>1, <1>2, <1>4, <2>3, <2>4 DEF Fits
<1>6. CASE ~(pc[t] = "succeeded" /\ step[t] < Steps)
  <2>1. /\ step' = step /\ cid' = cid
        /\ pc' = [pc EXCEPT ![t] = IF pc[t] = "succeeded" THEN "complete"
                                   ELSE IF pc[t] = "failed" THEN "fail" ELSE "attach"]
    BY <1>6 DEF EndStep, Goto, Shape
  <2>2. Shape'
    BY <1>1, <1>3, <1>4, <2>1 DEF EndStep, Shape, Places, history
  <2>3. Place(t)' = pc'[t] /\ pc'[t] \in {"complete", "fail", "attach"}
    BY <1>1, <2>1 DEF Place, Sweeping, Shape
  <2>4. QED
    BY <1>1, <1>2, <1>4, <2>1, <2>2, <2>3 DEF Fits
<1>7. QED
  BY <1>5, <1>6

LEMMA EndTypes ==
  ASSUME WorkflowInv, NEW t \in Thread, Complete(t) \/ Fail(t) \/ Pause(t) \/ Settle(t)
  PROVE  Shape' /\ Fits(t)'
<1> USE DEF WorkflowInv, Types
<1>1. /\ Place(t) \in {"complete", "fail", "pause", "settle"} /\ Fits(t) /\ Return(t)
      /\ UNCHANGED <<late, conf, born, history>>
  BY DEF Complete, Fail, Pause, Settle, Place, Sweeping
<1>2. wf[t] \in Workflow /\ rec[t] \in Record
  BY <1>1 DEF Fits
<1>3. \E r \in Record : Put(wf[t], r)
  <2>1. CASE Complete(t)
    BY <1>2, <2>1 DEF Complete, Record, Terminal
  <2>2. CASE Fail(t)
    <3>1. PICK x \in Terminal \ {"completed"} : Put(wf[t], [Cleared(rec[t]) EXCEPT !.state = x])
      BY <2>2 DEF Fail
    <3>2. [Cleared(rec[t]) EXCEPT !.state = x] \in Record
      BY <1>2, ClearedRecord DEF Record
    <3>3. QED
      BY <3>1, <3>2
  <2>3. CASE Pause(t)
    <3>1. cid[t] \in Confirmation /\ step[t] \in 0..Steps
      BY <2>3 DEF Pause, Place, Sweeping, Tokens, AttachedFirst, Shape
    <3>2. QED
      BY <1>2, <2>3, <3>1 DEF Pause, Record, Active
  <2>4. CASE Settle(t)
    BY <1>2, <2>4 DEF Settle
  <2>5. QED
    BY <2>1, <2>2, <2>3, <2>4
<1>4. store' \in [Workflow -> Record \cup {None}]
  BY <1>2, <1>3, PutStore DEF Shape
<1>5. told' \subseteq Confirmation
  <2>1. CASE Pause(t)
    <3>1. Place(t) = "pause"
      BY <2>1 DEF Pause, Place, Sweeping
    <3>2. cid[t] \in Confirmation
      BY <3>1 DEF Tokens, AttachedFirst
    <3>3. QED
      BY <2>1, <3>2 DEF Pause, Shape
  <2>2. CASE Complete(t) \/ Fail(t) \/ Settle(t)
    BY <2>2 DEF Complete, Fail, Settle, Shape
  <2>3. QED
    BY <2>1, <2>2
<1>6. QED
  BY <1>1, <1>4, <1>5, Returned DEF Fits, Shape, history

LEMMA AttachTypes ==
  ASSUME WorkflowInv, NEW t \in Thread, Attach(t)
  PROVE  Shape' /\ Fits(t)'
<1> USE DEF WorkflowInv, Types
<1>1. /\ Place(t) = "attach" /\ Place(t)' = "pause" /\ pc'[t] = "pause" /\ Fits(t)
      /\ UNCHANGED <<wf, rec, step, found>>
  BY DEF Attach, Goto, Shape, Place, Sweeping
<1>2. wf[t] \in Workflow /\ step[t] \in 0..Steps
  BY <1>1 DEF Fits, Executing, Shape
<1>3. conf' \in [Confirmation -> [state : ConfState, wf : Workflow \cup {None}, at : 0..Steps]]
  <2>1. cid[t] \in Confirmation
    BY <1>1 DEF Tokens, AttachedFirst
  <2>2. QED
    BY <1>2, <2>1, AttachWrite DEF ConfType
<1>4. Shape'
  BY <1>3 DEF Attach, Goto, Shape, Places, history
<1>5. QED
  BY <1>1, <1>4 DEF Fits, Executing

(* A confirmation that nobody approved ends. *)
Quieter ==
  /\ conf' \in [Confirmation -> ConfType]
  /\ \A c \in Confirmation :
       /\ conf'[c].wf = conf[c].wf /\ conf'[c].at = conf[c].at
       /\ \/ conf'[c].state = conf[c].state
          \/ conf[c].state = "pending" /\ conf'[c].state \in {"expired", "rejected"}

LEMMA QuietWrite ==
  ASSUME Shape, NEW c, NEW s \in {"expired", "rejected"},
         \/ conf' = conf
         \/ conf[c].state = "pending" /\ conf' = [conf EXCEPT ![c].state = s]
  PROVE  Quieter
<1>1. CASE conf' = conf
  BY <1>1 DEF Quieter, Shape, ConfType
<1>2. CASE conf' = [conf EXCEPT ![c].state = s] /\ c \notin Confirmation
  <2>1. conf' = conf
    BY <1>2 DEF Shape
  <2>2. QED
    BY <1>1, <2>1
<1>3. CASE /\ conf' = [conf EXCEPT ![c].state = s] /\ c \in Confirmation
           /\ conf[c].state = "pending"
  <2>1. s \in ConfState
    BY DEF ConfState
  <2>2. QED
    BY <1>3, <2>1, StateWrite DEF Quieter
<1>4. QED
  BY <1>1, <1>2, <1>3

LEMMA CommandTypes ==
  ASSUME WorkflowInv, NEW t \in Thread,
         \/ \E c \in Confirmation : Confirm(t, c) \/ Deny(t, c)
         \/ \E w \in Workflow : Cancel(t, w)
  PROVE  Shape' /\ Fits(t)' /\ Quieter
<1> USE DEF WorkflowInv, Types
<1>1. ASSUME NEW c \in Confirmation, Confirm(t, c) \/ Deny(t, c)
      PROVE  Shape' /\ Fits(t)' /\ Quieter
  <2>1. Quieter
    BY <1>1, QuietWrite DEF Confirm, Deny, stores
  <2>2. /\ UNCHANGED <<store, late, rec, wf, step, found, told, born, history>>
        /\ cid' = [cid EXCEPT ![t] = c] /\ pc' = [pc EXCEPT ![t] = "sweep"]
    BY <1>1 DEF Confirm, Deny, SweepThen, Goto, stores
  <2>3. \E place \in {"lookup", "resolveExpired", "resolveRejected"} :
          next' = [next EXCEPT ![t] = place]
    BY <1>1 DEF Confirm, Deny, SweepThen
  <2>4. Shape'
    BY <2>1, <2>2, <2>3
    DEF Shape, Quieter, ConfType, Places, Sweeping, AfterSweep, history
  <2>5. Place(t)' \in {"lookup", "resolveExpired", "resolveRejected"} /\ pc'[t] = "sweep"
    BY <2>2, <2>3 DEF Place, Sweeping, Shape
  <2>6. Fits(t) /\ found' = found
    BY <2>2
  <2>7. QED
    BY <2>1, <2>4, <2>5, <2>6 DEF Fits, Executing
<1>2. ASSUME NEW w \in Workflow, Cancel(t, w) PROVE Shape' /\ Fits(t)' /\ Quieter
  <2>1. Quieter
    BY <1>2, QuietWrite DEF Cancel, stores
  <2>2. Shape'
    BY <1>2 DEF Cancel, SweepThen, Goto, stores, Shape, Places, Sweeping, AfterSweep, history
  <2>3. Place(t)' = "cancel" /\ pc'[t] = "sweep" /\ wf'[t] = w /\ Fits(t) /\ found' = found
    BY <1>2 DEF Cancel, SweepThen, Goto, Place, Sweeping, Shape
  <2>4. QED
    BY <2>1, <2>2, <2>3 DEF Fits, Executing
<1>3. QED
  BY <1>1, <1>2

(* A confirmation command finds its workflow, or gives up. *)
LEMMA LookupTypes ==
  ASSUME WorkflowInv, NEW t \in Thread, Lookup(t)
  PROVE  /\ Shape' /\ Fits(t)'
         /\ \/ Place(t)' = "idle" /\ Quieter
            \/ /\ Place(t)' = "approve" /\ UNCHANGED <<conf, cid>>
               /\ wf'[t] = conf[cid[t]].wf /\ step'[t] = conf[cid[t]].at
<1> USE DEF WorkflowInv, Types
<1> DEFINE c == cid[t]
           w == conf[c].wf
           r == Swept(store)[w]
<1>1. c \in told /\ c \in Confirmation /\ Fits(t)
  BY DEF Lookup, Place, Sweeping, Tokens, UnderApproval, Shape
<1>2. w \in Workflow /\ conf[c].at \in 1..Steps /\ conf[c].at \in 0..Steps
  BY <1>1 DEF Tokens, AttachedFirst, Shape
<1>3. store' \in [Workflow -> Record \cup {None}]
  BY SweptStore DEF Lookup, Read, Shape
<1>4. CASE /\ Exists(store, w) /\ rec' = [rec EXCEPT ![t] = r]
           /\ wf' = [wf EXCEPT ![t] = w] /\ step' = [step EXCEPT ![t] = conf[c].at]
           /\ Goto(t, "approve") /\ UNCHANGED <<next, cid, found, conf>>
  <2>1. r \in Record
    BY <1>2, <1>4, SweptStore DEF Shape
  <2>2. UNCHANGED <<late, told, born, history>>
    BY DEF Lookup
  <2>3. Shape'
    BY <1>2, <1>3, <1>4, <2>1, <2>2 DEF Goto, Shape, Places, history
  <2>4. /\ Place(t)' = "approve" /\ pc'[t] = "approve" /\ wf'[t] = w /\ rec'[t] = r
        /\ step'[t] = conf[c].at
    BY <1>4 DEF Goto, Place, Sweeping, Shape
  <2>5. QED
    BY <1>1, <1>2, <1>4, <2>1, <2>3, <2>4 DEF Fits, Executing
<1>5. CASE Return(t) /\ (conf' = conf \/ conf' = Expire(c))
  <2>1. Quieter
    BY <1>5, QuietWrite DEF Expire
  <2>2. UNCHANGED <<late, told, born, history>>
    BY DEF Lookup
  <2>3. QED
    BY <1>1, <1>3, <1>5, <2>1, <2>2, Returned DEF Fits, Shape, Quieter, ConfType, history
<1>6. QED
  BY <1>4, <1>5 DEF Lookup

LEMMA ApproveTypes ==
  ASSUME WorkflowInv, NEW t \in Thread, Approve(t)
  PROVE  /\ Shape' /\ Fits(t)'
         /\ \/ /\ Place(t)' \in {"idle", "resolveExpired"} /\ Quieter
               /\ (Place(t)' = "resolveExpired" => cid'[t] = cid[t])
            \/ /\ Place(t)' = "resume" /\ UNCHANGED <<cid, wf, step>>
               /\ conf[cid[t]].state = "pending"
               /\ conf' = [conf EXCEPT ![cid[t]].state = "approved"]
<1> USE DEF WorkflowInv, Types
<1>1. /\ Place(t) = "approve" /\ Fits(t)
      /\ UNCHANGED <<store, bucket, late, told, born, left, history>>
  BY DEF Approve, Place, Sweeping
<1>2. cid[t] \in Confirmation
  BY <1>1 DEF Tokens, UnderApproval, Shape
<1>3. CASE /\ conf[cid[t]].state = "pending"
           /\ conf' = [conf EXCEPT ![cid[t]].state = "approved"]
           /\ Goto(t, "resume") /\ UNCHANGED <<next, rec, wf, step, cid, found>>
  <2>1. conf' \in [Confirmation -> ConfType]
    BY <1>2, <1>3, StateWrite DEF ConfState
  <2>2. Shape'
    BY <1>1, <1>3, <2>1 DEF Goto, Shape, Places, ConfType, history
  <2>3. Place(t)' = "resume" /\ pc'[t] = "resume"
    BY <1>3 DEF Goto, Place, Sweeping, Shape
  <2>4. QED
    BY <1>1, <1>3, <2>2, <2>3 DEF Fits, Executing
<1>4. CASE SweepThen(t, "resolveExpired") /\ UNCHANGED <<conf, rec, wf, step, cid, found>>
  <2>1. Shape'
    BY <1>1, <1>4 DEF SweepThen, Goto, Shape, Places, Sweeping, AfterSweep, history
  <2>2. Place(t)' = "resolveExpired" /\ pc'[t] = "sweep"
    BY <1>4 DEF SweepThen, Goto, Place, Sweeping, Shape
  <2>3. Quieter
    BY <1>4, QuietWrite
  <2>4. QED
    BY <1>1, <1>4, <2>1, <2>2, <2>3 DEF Fits, Executing
<1>5. CASE Return(t) /\ conf' = conf
  <2>1. Quieter
    BY <1>5, QuietWrite
  <2>2. QED
    BY <1>1, <1>5, <2>1, Returned DEF Fits, Shape, history
<1>6. QED
  BY <1>3, <1>4, <1>5 DEF Approve

(* A confirmation's end reaches its workflow; a workflow is cancelled. *)
LEMMA ResolveTypes ==
  ASSUME WorkflowInv, NEW t \in Thread, Resolve(t)
  PROVE  Shape' /\ Fits(t)' /\ Place(t)' \in {"idle", "settle"} /\ Quieter
<1> USE DEF WorkflowInv, Types
<1> DEFINE c == cid[t]
           w == conf[c].wf
           r == Swept(store)[w]
<1>1. c \in Confirmation /\ Fits(t) /\ UNCHANGED <<late, conf, told, born, left, history>>
  BY DEF Resolve, Place, Sweeping, Tokens, UnderApproval, Shape
<1>2. store' \in [Workflow -> Record \cup {None}] /\ Quieter
  BY <1>1, SweptStore, QuietWrite DEF Resolve, Read, Shape
<1>3. CASE /\ w # None /\ Exists(store, w) /\ wf' = [wf EXCEPT ![t] = w]
           /\ \E s \in {"expired", "cancelled"} :
                rec' = [rec EXCEPT ![t] = [Cleared(r) EXCEPT !.state = s]]
           /\ Goto(t, "settle") /\ UNCHANGED <<next, step, cid, found>>
  <2>1. w \in Workflow
    BY <1>1, <1>3 DEF Shape
  <2>2. r \in Record
    BY <1>3, <2>1, SweptStore DEF Shape
  <2>3. PICK s \in {"expired", "cancelled"} :
               rec' = [rec EXCEPT ![t] = [Cleared(r) EXCEPT !.state = s]]
    BY <1>3
  <2>4. /\ [Cleared(r) EXCEPT !.state = s] \in Record
        /\ [Cleared(r) EXCEPT !.state = s].state = s
    BY <2>2, ClearedRecord DEF Record, Terminal
  <2>5. Shape'
    BY <1>1, <1>2, <1>3, <2>1, <2>3, <2>4 DEF Goto, Shape, Places, history
  <2>6. /\ Place(t)' = "settle" /\ pc'[t] = "settle" /\ wf'[t] = w
        /\ rec'[t] = [Cleared(r) EXCEPT !.state = s]
    BY <1>3, <2>3 DEF Goto, Place, Sweeping, Shape
  <2>7. QED
    BY <1>1, <1>2, <1>3, <2>1, <2>4, <2>5, <2>6 DEF Fits, Executing
<1>4. CASE Return(t)
  BY <1>1, <1>2, <1>4, Returned DEF Fits, Shape, history
<1>5. QED
  BY <1>3, <1>4 DEF Resolve

LEMMA CancelTypes ==
  ASSUME WorkflowInv, NEW t \in Thread, CancelRead(t) \/ Reject(t)
  PROVE  Shape' /\ Fits(t)' /\ Place(t)' \in {"idle", "settle", "reject"} /\ Quieter
<1> USE DEF WorkflowInv, Types
<1>1. CASE CancelRead(t)
  <2> DEFINE r == Swept(store)[wf[t]]
  <2>1. Place(t) = "cancel" /\ Fits(t) /\ UNCHANGED <<late, conf, told, born, left, history>>
    BY <1>1 DEF CancelRead, Place, Sweeping
  <2>2. store' \in [Workflow -> Record \cup {None}] /\ Quieter
    BY <1>1, <2>1, SweptStore, QuietWrite DEF CancelRead, Read, Shape
  <2>3. CASE /\ Exists(store, wf[t])
             /\ rec' = [rec EXCEPT ![t] = [Cleared(r) EXCEPT !.state = "cancelled"]]
             /\ cid' = [cid EXCEPT ![t] = r.pending]
             /\ \E place \in {"settle", "reject"} : Goto(t, place)
             /\ UNCHANGED <<next, wf, step, found>>
    <3>1. wf[t] \in Workflow
      BY <2>1 DEF Fits
    <3>2. r \in Record
      BY <2>3, <3>1, SweptStore DEF Shape
    <3>3. r.pending \in Confirmation \cup {None}
      BY <3>2 DEF Record
    <3>4. /\ [Cleared(r) EXCEPT !.state = "cancelled"] \in Record
          /\ [Cleared(r) EXCEPT !.state = "cancelled"].state = "cancelled"
      BY <3>2, ClearedRecord DEF Record, Terminal
    <3>5. Shape'
      BY <2>1, <2>2, <2>3, <3>3, <3>4 DEF Goto, Shape, Places, history
    <3>6. /\ Place(t)' \in {"settle", "reject"} /\ pc'[t] = Place(t)'
          /\ rec'[t] = [Cleared(r) EXCEPT !.state = "cancelled"]
      BY <2>3 DEF Goto, Place, Sweeping, Shape
    <3>7. QED
      BY <2>1, <2>2, <2>3, <3>1, <3>4, <3>5, <3>6 DEF Fits, Executing
  <2>4. CASE Return(t)
    BY <2>1, <2>2, <2>4, Returned DEF Fits, Shape, history
  <2>5. QED
    BY <1>1, <2>3, <2>4 DEF CancelRead
<1>2. CASE Reject(t)
  <2>1. Quieter
    BY <1>2, QuietWrite DEF Reject
  <2>2. Shape'
    BY <1>2, <2>1 DEF Reject, Goto, Shape, Quieter, ConfType, Places, history
  <2>3. /\ Place(t) = "reject" /\ Place(t)' = "settle" /\ pc'[t] = "settle" /\ Fits(t)
        /\ UNCHANGED <<wf, rec, step, found>>
    BY <1>2 DEF Reject, Goto, Shape, Place, Sweeping
  <2>4. QED
    BY <2>1, <2>2, <2>3 DEF Fits, Executing
<1>3. QED
  BY <1>1, <1>2

-----------------------------------------------------------------------------
(* Tokens: who may go on with a workflow, and from where.                  *)

(* A thread that hands on what it has, keeps it, or drops it. *)
Passive == {"idle", "failed", "complete", "fail", "settle", "reject", "cancel"}
Onward == {<<"begin", "start">>, <<"start", "run">>, <<"asked", "attach">>, <<"resume", "start">>}
Relayed(t) ==
  \/ Place(t)' \in Passive
  \/ Place(t)' \in {"lookup", "resolveExpired", "resolveRejected"} /\ cid'[t] \in told
  \/ /\ wf'[t] = wf[t] /\ step'[t] = step[t] /\ cid'[t] = cid[t]
     /\ Place(t)' = Place(t) \/ <<Place(t), Place(t)'>> \in Onward

LEMMA RelayKeeps ==
  ASSUME WorkflowInv, \A u \in Thread : Relayed(u), Quieter,
         UNCHANGED <<told, born, ran, passed, used>>
  PROVE  Tokens'
<1> USE DEF WorkflowInv, Tokens
<1>1. \A c \in Confirmation, w \in Workflow : Waits(c, w)' => Waits(c, w)
  BY DEF Waits, Quieter
<1>2. ASSUME NEW u \in Thread, Place(u)' \in Executing
      PROVE  /\ wf'[u] = wf[u] /\ step'[u] = step[u] /\ cid'[u] = cid[u]
             /\ Place(u) \in Executing
             /\ (Place(u) = "succeeded" <=> Place(u)' = "succeeded")
  BY <1>2 DEF Relayed, Passive, Onward, Executing
<1>3. \A w \in Workflow, u \in Thread : Executes(u, w)' => Executes(u, w)
  BY <1>2 DEF Executes
<1>4. OneToken'
  BY <1>1, <1>3 DEF OneToken
<1>5. GoesOn'
  <2>1. \A c \in Confirmation : conf'[c].at = conf[c].at
    BY DEF Quieter
  <2>2. QED
    BY <1>1, <1>2, <2>1 DEF GoesOn, UpTo
<1>6. AttachedFirst'
  <2>1. ASSUME NEW u \in Thread, Place(u)' \in {"asked", "attach", "pause"}
        PROVE  /\ wf'[u] = wf[u] /\ step'[u] = step[u] /\ cid'[u] = cid[u]
               /\ Place(u) \in {"asked", "attach", "pause"}
               /\ (Place(u)' = "pause" <=> Place(u) = "pause")
    BY <2>1 DEF Relayed, Passive, Onward
  <2>2. \A c \in Confirmation : /\ conf'[c].at = conf[c].at /\ conf'[c].wf = conf[c].wf
                                /\ (conf'[c].state = "unborn" <=> conf[c].state = "unborn")
    BY DEF Quieter
  <2>3. told \subseteq Confirmation
    BY DEF Types, Shape
  <2>4. QED
    BY <2>1, <2>2, <2>3 DEF AttachedFirst
<1>7. UnderApproval'
  <2>1. \A c \in Confirmation : /\ conf'[c].at = conf[c].at /\ conf'[c].wf = conf[c].wf
                                /\ (conf'[c].state = "approved" <=> conf[c].state = "approved")
    BY DEF Quieter
  <2>2. told \subseteq Confirmation
    BY DEF Types, Shape
  <2>3. ASSUME NEW u \in Thread
        PROVE  /\ Place(u)' \in {"lookup", "approve", "resume", "resolveExpired", "resolveRejected"}
                    => cid'[u] \in told
               /\ Place(u)' \in {"approve", "resume"}
                    => wf'[u] = conf'[cid'[u]].wf /\ step'[u] = conf'[cid'[u]].at
               /\ Place(u)' = "begin" => cid'[u] = None
               /\ Place(u)' \in {"start", "run", "resume"}
                    => \/ cid'[u] = None
                       \/ /\ cid'[u] \in told /\ wf'[u] = conf'[cid'[u]].wf
                          /\ conf'[cid'[u]].state = "approved" /\ used[cid'[u]] = 0
    <3>1. CASE Place(u)' \in Passive
      BY <3>1 DEF Passive
    <3>2. CASE Place(u)' \in {"lookup", "resolveExpired", "resolveRejected"} /\ cid'[u] \in told
      BY <3>2
    <3>3. CASE /\ wf'[u] = wf[u] /\ step'[u] = step[u] /\ cid'[u] = cid[u]
               /\ Place(u)' = Place(u)
      BY <2>1, <2>2, <3>3 DEF UnderApproval
    <3>4. CASE /\ wf'[u] = wf[u] /\ step'[u] = step[u] /\ cid'[u] = cid[u]
               /\ <<Place(u), Place(u)'>> \in Onward
      BY <2>1, <2>2, <3>4 DEF UnderApproval, Onward
    <3>5. QED
      BY <3>1, <3>2, <3>3, <3>4 DEF Relayed
  <2>4. QED
    BY <2>1, <2>3 DEF UnderApproval
<1>8. StepsInOrder'
  BY DEF StepsInOrder
<1>9. QED
  BY <1>4, <1>5, <1>6, <1>7, <1>8

(* A new workflow starts at its first step. *)
LEMMA RunTokens ==
  ASSUME WorkflowInv, NEW t \in Thread, NEW w \in Workflow, Run(t, w)
  PROVE  Tokens'
<1> USE DEF WorkflowInv, Tokens
<1>1. /\ Place(t)' = "begin" /\ wf'[t] = w /\ step'[t] = 1 /\ cid'[t] = None
      /\ w \notin born /\ born' = born \cup {w}
      /\ UNCHANGED <<conf, told, ran, passed, used>>
  BY DEF Run, SweepThen, Goto, Types, Shape, Place, Sweeping, history
<1>2. \A u \in Thread \ {t} : /\ Place(u)' = Place(u) /\ wf'[u] = wf[u] /\ step'[u] = step[u]
                              /\ cid'[u] = cid[u]
  BY OthersKeep DEF Acts, Types
<1>3. /\ \A u \in Thread : ~Executes(u, w)
      /\ \A c \in Confirmation : ~Waits(c, w)
  BY <1>1 DEF GoesOn, Executes
<1>4. \A v \in Workflow, u \in Thread : Executes(u, v)' => Executes(u, v) \/ (u = t /\ v = w)
  BY <1>1, <1>2 DEF Executes
<1>5. \A c \in Confirmation, v \in Workflow : Waits(c, v)' <=> Waits(c, v)
  BY <1>1 DEF Waits
<1>6. OneToken'
  BY <1>3, <1>4, <1>5 DEF OneToken
<1>7. GoesOn'
  <2>1. UpTo(w, 1)
    BY <1>1 DEF GoesOn, UpTo
  <2>2. QED
    BY <1>1, <1>2, <1>5, <2>1 DEF GoesOn, UpTo
<1>8. AttachedFirst'
  BY <1>1, <1>2 DEF AttachedFirst
<1>9. UnderApproval'
  BY <1>1, <1>2 DEF UnderApproval
<1>10. QED
  BY <1>1, <1>6, <1>7, <1>8, <1>9 DEF StepsInOrder

(* Asking: the confirmation is new, and attached to nothing yet. *)
LEMMA AskTokens ==
  ASSUME WorkflowInv, NEW t \in Thread, NEW c \in Confirmation, Asks(t, c)
  PROVE  Tokens'
<1> USE DEF WorkflowInv, Tokens
<1>1. /\ Place(t) = "run" /\ Place(t)' = "asked" /\ cid[t] = None /\ cid'[t] = c
      /\ UNCHANGED <<wf, step, told, born, ran, passed, used>>
      /\ conf[c].state = "unborn"
  BY DEF Asks, Goto, Types, Shape, Place, Sweeping, history
<1>2. \A u \in Thread \ {t} : Place(u)' = Place(u) /\ cid'[u] = cid[u]
  BY OthersKeep DEF Acts, Types
<1>3. /\ \A d \in Confirmation \ {c} : conf'[d] = conf[d]
      /\ conf'[c].state = "pending" /\ conf'[c].wf = conf[c].wf /\ conf'[c].at = conf[c].at
  BY StateWrite DEF Asks, ConfState, Types
<1>4. conf[c].wf = None /\ c \notin told /\ used[c] = 0
  BY <1>1 DEF AttachedFirst, UnderApproval
<1>5. \A u \in Thread : Place(u) \in {"asked", "attach", "pause"} => cid[u] # c
  BY <1>1 DEF AttachedFirst
<1>6. \A v \in Workflow, u \in Thread : Executes(u, v)' => Executes(u, v)
  BY <1>1, <1>2 DEF Executes, Executing
<1>7. \A d \in Confirmation, v \in Workflow : Waits(d, v)' => Waits(d, v) /\ d # c
  BY <1>3, <1>4, NoneAssumption DEF Waits
<1>8. OneToken'
  BY <1>6, <1>7 DEF OneToken
<1>9. GoesOn'
  <2>1. ASSUME NEW u \in Thread, Place(u)' \in Executing
        PROVE  Place(u) \in Executing /\ (Place(u)' = "succeeded" <=> Place(u) = "succeeded")
    BY <1>1, <1>2, <2>1 DEF Executing
  <2>2. QED
    BY <1>1, <1>3, <1>7, <2>1 DEF GoesOn, UpTo
<1>10. AttachedFirst'
  <2>1. told \subseteq Confirmation \ {c}
    BY <1>4 DEF Types, Shape
  <2>2. QED
    BY <1>1, <1>2, <1>3, <1>4, <1>5, <2>1 DEF AttachedFirst
<1>11. UnderApproval'
  <2>1. told \subseteq Confirmation \ {c}
    BY <1>4 DEF Types, Shape
  <2>2. QED
    BY <1>1, <1>2, <1>3, <1>4, <2>1 DEF UnderApproval
<1>12. QED
  BY <1>1, <1>8, <1>9, <1>10, <1>11 DEF StepsInOrder

(* A step is carried out: it had not been, while all before it succeeded. *)
LEMMA CarryOutFacts ==
  ASSUME WorkflowInv, NEW t \in Thread, Succeeds(t) \/ Fails(t) \/ Raises(t),
         NEW w, w = wf[t], NEW k, k = step[t]
  PROVE  /\ Place(t) = "run" /\ CarriedOut(t) /\ UNCHANGED <<conf, told, born>>
         /\ w \in Workflow /\ k \in 1..Steps
         /\ \/ /\ Place(t)' = "succeeded" /\ wf'[t] = w /\ step'[t] = k
               /\ passed' = [passed EXCEPT ![w] = @ \cup {k}]
            \/ Place(t)' \in {"failed", "idle"} /\ passed' = passed
         /\ \A u \in Thread \ {t} : /\ Place(u)' = Place(u) /\ wf'[u] = wf[u]
                                     /\ step'[u] = step[u] /\ cid'[u] = cid[u]
         /\ Executes(t, w) /\ UpTo(w, k) /\ ran[w][k] = 0
         /\ \A v \in Workflow \ {w} : ran'[v] = ran[v]
         /\ \A i \in (1..Steps) \ {k} : ran'[w][i] = ran[w][i]
         /\ ran'[w][k] = 1
         /\ \A v \in Workflow : passed[v] \subseteq passed'[v] /\ (v # w => passed'[v] = passed[v])
<1> USE DEF WorkflowInv, Tokens
<1>1. /\ Place(t) = "run" /\ CarriedOut(t) /\ UNCHANGED <<conf, told, born>>
      /\ w \in Workflow /\ k \in 1..Steps
  <2>1. Place(t) = "run" /\ CarriedOut(t) /\ UNCHANGED <<conf, told, born>>
    BY DEF Succeeds, Fails, Raises, Place, Sweeping, stores
  <2>2. QED
    BY <2>1 DEF Types, Fits, Executing
<1>2. \/ /\ Place(t)' = "succeeded" /\ wf'[t] = w /\ step'[t] = k
         /\ passed' = [passed EXCEPT ![w] = @ \cup {k}]
      \/ Place(t)' \in {"failed", "idle"} /\ passed' = passed
  BY DEF Succeeds, Fails, Raises, Return, Goto, Place, Sweeping, Types, Shape
<1>3. \A u \in Thread \ {t} : /\ Place(u)' = Place(u) /\ wf'[u] = wf[u] /\ step'[u] = step[u]
                              /\ cid'[u] = cid[u]
  BY OthersKeep DEF Acts, Types
<1>4. Executes(t, w) /\ UpTo(w, k) /\ ran[w][k] = 0
  BY <1>1 DEF Executes, Executing, GoesOn, UpTo
<1>5. /\ \A v \in Workflow \ {w} : ran'[v] = ran[v]
      /\ \A i \in (1..Steps) \ {k} : ran'[w][i] = ran[w][i]
      /\ ran'[w][k] = 1
  <2>1. ran[w] \in [1..Steps -> Nat] /\ ran \in [Workflow -> [1..Steps -> Nat]]
    BY <1>1 DEF Types, Shape
  <2>2. ran' = [ran EXCEPT ![w] = [ran[w] EXCEPT ![k] = @ + 1]]
    BY <1>1, <2>1 DEF CarriedOut
  <2>3. ran'[w] = [ran[w] EXCEPT ![k] = @ + 1] /\ \A v \in Workflow \ {w} : ran'[v] = ran[v]
    BY <1>1, <2>1, <2>2
  <2>4. /\ [ran[w] EXCEPT ![k] = @ + 1][k] = ran[w][k] + 1
        /\ \A i \in (1..Steps) \ {k} : [ran[w] EXCEPT ![k] = @ + 1][i] = ran[w][i]
    <3>1. k \in 1..Steps /\ ran[w] \in [1..Steps -> Nat]
      BY <1>1, <2>1
    <3>2. QED
      BY ONLY <3>1, Counted
  <2>5. QED
    BY <1>4, <2>3, <2>4
<1>6. \A v \in Workflow : passed[v] \subseteq passed'[v] /\ (v # w => passed'[v] = passed[v])
  BY <1>1, <1>2 DEF Types, Shape
<1>7. QED
  BY <1>1, <1>2, <1>3, <1>4, <1>5, <1>6

(* Nor had any step under its confirmation; after a failure nobody goes on *)
(* with the workflow.                                                      *)
LEMMA CarryOutTokens ==
  ASSUME WorkflowInv, NEW t \in Thread, Succeeds(t) \/ Fails(t) \/ Raises(t)
  PROVE  Tokens'
<1> DEFINE w == wf[t]
           k == step[t]
<1>1. /\ Place(t) = "run" /\ CarriedOut(t) /\ UNCHANGED <<conf, told, born>>
      /\ w \in Workflow /\ k \in 1..Steps
  BY CarryOutFacts
<1>2. \/ /\ Place(t)' = "succeeded" /\ wf'[t] = w /\ step'[t] = k
         /\ passed' = [passed EXCEPT ![w] = @ \cup {k}]
      \/ Place(t)' \in {"failed", "idle"} /\ passed' = passed
  BY CarryOutFacts
<1>3. \A u \in Thread \ {t} : /\ Place(u)' = Place(u) /\ wf'[u] = wf[u] /\ step'[u] = step[u]
                              /\ cid'[u] = cid[u]
  BY CarryOutFacts
<1>4. Executes(t, w) /\ UpTo(w, k) /\ ran[w][k] = 0
  BY CarryOutFacts
<1>5. /\ \A v \in Workflow \ {w} : ran'[v] = ran[v]
      /\ \A i \in (1..Steps) \ {k} : ran'[w][i] = ran[w][i]
      /\ ran'[w][k] = 1
  BY CarryOutFacts
<1>6. \A v \in Workflow : passed[v] \subseteq passed'[v] /\ (v # w => passed'[v] = passed[v])
  BY CarryOutFacts
<1> USE DEF WorkflowInv, Tokens
<1>7. cid[t] = None \/ /\ cid[t] \in told /\ w = conf[cid[t]].wf
                       /\ conf[cid[t]].state = "approved" /\ used[cid[t]] = 0
  BY <1>1 DEF UnderApproval
<1>8. \A c \in Confirmation : used'[c] = IF c = cid[t] THEN 1 ELSE used[c]
  BY <1>1, <1>7, NoneAssumption DEF CarriedOut, Types, Shape
<1>9. \A v \in Workflow, u \in Thread : Executes(u, v)' => Executes(u, v)
  BY <1>1, <1>2, <1>3 DEF Executes, Executing
<1>10. \A c \in Confirmation, v \in Workflow : Waits(c, v)' <=> Waits(c, v)
  BY <1>1 DEF Waits
<1>11. OneToken'
  BY <1>9, <1>10 DEF OneToken
<1>12. GoesOn'
  <2>1. ASSUME NEW u \in Thread, Place(u)' \in Executing
        PROVE  wf'[u] \in born' /\ UpTo(wf[u], IF Place(u) = "succeeded" THEN step[u] + 1 ELSE step[u])'
    <3>1. CASE u = t
      <4>1. Place(t)' = "succeeded" /\ wf'[t] = w /\ step'[t] = k /\ k \in passed'[w]
        BY <1>1, <1>2, <2>1, <3>1 DEF Executing, Types, Shape
      <4>2. \A j \in 1..Steps : j < k + 1 => j < k \/ j = k
        BY <1>1
      <4>3. \A j \in 1..Steps : j >= k + 1 => j >= k /\ j # k
        BY <1>1
      <4>4. UpTo(w, k + 1)'
        BY <1>4, <1>5, <1>6, <1>1, <4>1, <4>2, <4>3 DEF UpTo
      <4>5. QED
        BY <1>1, <3>1, <4>1, <4>4 DEF GoesOn, Executing
    <3>2. CASE u # t
      <4>1. Place(u) \in Executing /\ wf[u] \in Workflow
        BY <1>3, <2>1, <3>2 DEF Types, Fits
      <4>2. wf[u] # w
        BY <1>1, <1>4, <3>2, <4>1 DEF OneToken, Executes
      <4>3. QED
        BY <1>1, <1>3, <1>5, <1>6, <3>2, <4>1, <4>2 DEF GoesOn, UpTo
    <3>3. QED
      BY <3>1, <3>2
  <2>2. ASSUME NEW v \in Workflow, NEW c \in Confirmation, Waits(c, v)'
        PROVE  v \in born' /\ UpTo(v, conf[c].at)'
    <3>1. Waits(c, v) /\ v # w
      BY <1>1, <1>4, <1>10, <2>2 DEF OneToken
    <3>2. v \in born /\ UpTo(v, conf[c].at)
      BY <3>1 DEF GoesOn
    <3>3. ran'[v] = ran[v] /\ passed'[v] = passed[v]
      BY <1>5, <1>6, <3>1
    <3>4. UpTo(v, conf[c].at)'
      BY <1>1, <3>2, <3>3 DEF UpTo
    <3>5. QED
      BY <1>1, <3>2, <3>4
  <2>3. w \in born
    BY <1>1 DEF GoesOn, Executing
  <2>4. \A v \in Workflow \ born', i \in 1..Steps : ran'[v][i] = 0
    BY <1>1, <1>5, <2>3 DEF GoesOn
  <2>5. ASSUME NEW v \in Workflow, NEW i \in 1..Steps PROVE ran'[v][i] <= 1
    <3>1. ran[v][i] <= 1
      BY DEF GoesOn
    <3>2. ran'[v][i] = ran[v][i] \/ ran'[v][i] = 1
      <4>1. CASE v # w
        BY <1>5, <4>1
      <4>2. CASE v = w /\ i # k
        BY <1>5, <4>2
      <4>3. CASE v = w /\ i = k
        BY <1>5, <4>3
      <4>4. QED
        BY <4>1, <4>2, <4>3
    <3>3. QED
      BY <3>1, <3>2
  <2>6. QED
    BY <2>1, <2>2, <2>4, <2>5 DEF GoesOn
<1>13. AttachedFirst'
  BY <1>1, <1>2, <1>3 DEF AttachedFirst
<1>14. UnderApproval'
  <2>1. ASSUME NEW u \in Thread, Place(u)' \in {"start", "run", "resume"}
        PROVE  \/ cid'[u] = None
               \/ /\ cid'[u] \in told' /\ wf'[u] = conf'[cid'[u]].wf
                  /\ conf'[cid'[u]].state = "approved" /\ used'[cid'[u]] = 0
    <3>1. u # t /\ Place(u) \in {"start", "run", "resume"} /\ wf[u] \in Workflow
      BY <1>2, <1>3, <2>1 DEF Types, Fits, Executing
    <3>2. CASE cid[u] = None
      BY <1>3, <3>1, <3>2
    <3>3. CASE cid[u] # None
      <4>1. /\ cid[u] \in told /\ wf[u] = conf[cid[u]].wf
            /\ conf[cid[u]].state = "approved" /\ used[cid[u]] = 0
        BY <3>1, <3>3 DEF UnderApproval
      <4>2. wf[u] # w
        BY <1>1, <1>4, <3>1 DEF OneToken, Executes, Executing
      <4>3. cid[u] # cid[t] /\ cid[u] \in Confirmation
        BY <1>7, <3>3, <4>1, <4>2 DEF Types, Shape
      <4>4. QED
        BY <1>1, <1>3, <1>8, <3>1, <4>1, <4>3
    <3>4. QED
      BY <3>2, <3>3
  <2>2. ASSUME NEW c \in Confirmation
        PROVE  used'[c] <= 1 /\ (conf'[c].state # "approved" => used'[c] = 0)
    <3>1. CASE c = cid[t]
      <4>1. used'[c] = 1 /\ conf[c].state = "approved"
        BY <1>7, <1>8, <3>1, NoneAssumption
      <4>2. QED
        BY <1>1, <4>1
    <3>2. CASE c # cid[t]
      <4>1. used'[c] = used[c]
        BY <1>8, <3>2
      <4>2. QED
        BY <1>1, <4>1 DEF UnderApproval
    <3>3. QED
      BY <3>1, <3>2
  <2>3. QED
    BY <1>1, <1>2, <1>3, <2>1, <2>2 DEF UnderApproval
<1>15. StepsInOrder'
  <2>1. ASSUME NEW v \in Workflow, NEW i \in 1..Steps, ran'[v][i] > 0, NEW j \in 1..(i - 1)
        PROVE  j \in passed'[v]
    <3>1. j \in 1..Steps /\ j < i
      BY StepsAssumption
    <3>2. CASE v = w /\ i = k
      BY <1>4, <1>6, <3>1, <3>2, <1>1 DEF UpTo
    <3>3. CASE ~(v = w /\ i = k)
      <4>1. ran[v][i] > 0
        BY <1>1, <1>5, <2>1, <3>3
      <4>2. QED
        BY <1>6, <4>1 DEF StepsInOrder
    <3>4. QED
      BY <3>2, <3>3
  <2>2. QED
    BY <2>1 DEF StepsInOrder
<1>16. QED
  BY <1>11, <1>12, <1>13, <1>14, <1>15

(* After a success the next step follows, under no confirmation. *)
LEMMA AdvanceTokens ==
  ASSUME WorkflowInv, NEW t \in Thread, EndStep(t), pc[t] = "succeeded", step[t] < Steps
  PROVE  Tokens'
<1> USE DEF WorkflowInv, Tokens
<1>1. /\ Place(t) = "succeeded" /\ Place(t)' = "start" /\ wf' = wf
      /\ step'[t] = step[t] + 1 /\ cid'[t] = None
      /\ UNCHANGED <<conf, told, born, ran, passed, used>>
  BY DEF EndStep, Goto, Types, Shape, Place, Sweeping, history
<1>2. \A u \in Thread \ {t} : Place(u)' = Place(u) /\ step'[u] = step[u] /\ cid'[u] = cid[u]
  BY OthersKeep DEF Acts, Types
<1>3. \A v \in Workflow, u \in Thread : Executes(u, v)' => Executes(u, v)
  BY <1>1, <1>2 DEF Executes, Executing
<1>4. \A c \in Confirmation, v \in Workflow : Waits(c, v)' <=> Waits(c, v)
  BY <1>1 DEF Waits
<1>5. OneToken'
  BY <1>3, <1>4 DEF OneToken
<1>6. GoesOn'
  <2>1. wf[t] \in born /\ UpTo(wf[t], step[t] + 1)
    BY <1>1 DEF GoesOn, Executing
  <2>2. QED
    BY <1>1, <1>2, <1>4, <2>1 DEF GoesOn, UpTo
<1>7. AttachedFirst'
  BY <1>1, <1>2 DEF AttachedFirst
<1>8. UnderApproval'
  BY <1>1, <1>2 DEF UnderApproval
<1>9. QED
  BY <1>1, <1>5, <1>6, <1>7, <1>8 DEF StepsInOrder

(* Attaching hands the workflow from the thread to the confirmation. *)
LEMMA AttachTokens ==
  ASSUME WorkflowInv, NEW t \in Thread, Attach(t)
  PROVE  Tokens'
<1> USE DEF WorkflowInv, Tokens
<1>0. PICK c \in Confirmation, w \in Workflow, k \in 1..Steps : c = cid[t] /\ w = wf[t] /\ k = step[t]
  <2>1. Place(t) = "attach"
    BY DEF Attach, Place, Sweeping
  <2>2. QED
    BY <2>1 DEF Types, Shape, Fits, Executing, AttachedFirst
<1>1. /\ Place(t) = "attach" /\ Place(t)' = "pause"
      /\ UNCHANGED <<wf, step, cid, told, born, ran, passed, used>>
      /\ conf' = [conf EXCEPT ![c].wf = w, ![c].at = k]
  BY <1>0 DEF Attach, Goto, Types, Shape, Place, Sweeping, history
<1>2. /\ w \in Workflow /\ k \in 1..Steps /\ k \in 0..Steps /\ w \in born /\ UpTo(w, k)
      /\ c \in Confirmation \ told /\ conf[c].state # "unborn" /\ Executes(t, w)
  BY <1>0, <1>1, StepsAssumption DEF Executing, Executes, GoesOn, AttachedFirst
<1>3. \A u \in Thread \ {t} : Place(u)' = Place(u)
  BY OthersKeep DEF Acts, Types
<1>4. /\ \A d \in Confirmation \ {c} : conf'[d] = conf[d]
      /\ conf'[c].state = conf[c].state /\ conf'[c].wf = w /\ conf'[c].at = k
  BY <1>0, StepsAssumption, AttachWrite DEF Types
<1>5. \A v \in Workflow, u \in Thread : Executes(u, v)' => Executes(u, v) /\ u # t
  BY <1>0, <1>1, <1>3 DEF Executes, Executing
<1>6. \A d \in Confirmation, v \in Workflow :
        Waits(d, v)' => (d # c /\ Waits(d, v)) \/ (d = c /\ v = w)
  BY <1>4 DEF Waits
<1>7. OneToken'
  BY <1>2, <1>5, <1>6 DEF OneToken
<1>8. GoesOn'
  <2>1. ASSUME NEW u \in Thread, Place(u)' \in Executing
        PROVE  Place(u) \in Executing /\ Place(u)' = Place(u)
    BY <1>1, <1>3, <2>1 DEF Executing
  <2>2. ASSUME NEW d \in Confirmation, NEW v \in Workflow, Waits(d, v)'
        PROVE  v \in born /\ UpTo(v, conf'[d].at)
    BY <1>2, <1>4, <1>6, <2>2 DEF GoesOn
  <2>3. QED
    BY <1>1, <2>1, <2>2, ZenonT(30) DEF GoesOn, UpTo
<1>9. told \subseteq Confirmation \ {c}
  BY <1>2 DEF Types, Shape
<1>10. AttachedFirst'
  <2>1. ASSUME NEW u \in Thread, Place(u)' \in {"asked", "attach", "pause"}
        PROVE  /\ Place(u) \in {"asked", "attach", "pause"}
               /\ cid[u] \in Confirmation \ told /\ conf'[cid[u]].state # "unborn"
               /\ Place(u)' = "pause" => conf'[cid[u]].wf = wf[u] /\ conf'[cid[u]].at = step[u]
    <3>1. CASE u = t
      BY <1>0, <1>1, <1>2, <1>4, <3>1
    <3>2. CASE u # t
      <4>1. Place(u) = Place(u)' /\ cid[u] # c
        BY <1>0, <1>1, <1>3, <2>1, <3>2 DEF AttachedFirst
      <4>2. QED
        BY <1>4, <2>1, <4>1 DEF AttachedFirst
    <3>3. QED
      BY <3>1, <3>2
  <2>2. \A d \in Confirmation : conf'[d].state = "unborn" => conf'[d].wf = None
    BY <1>2, <1>4 DEF AttachedFirst
  <2>3. \A d \in told : conf'[d].state # "unborn" /\ conf'[d].wf \in Workflow /\ conf'[d].at \in 1..Steps
    BY <1>4, <1>9 DEF AttachedFirst
  <2>4. \A u, v \in Thread : /\ Place(u)' \in {"asked", "attach", "pause"}
                             /\ Place(v)' \in {"asked", "attach", "pause"}
                             /\ cid[u] = cid[v]
                             => u = v
    BY <2>1 DEF AttachedFirst
  <2>5. ASSUME NEW u \in Thread, Place(u)' \in {"asked", "attach"}
        PROVE  conf'[cid[u]].wf = None
    <3>1. u # t /\ Place(u) \in {"asked", "attach"} /\ cid[u] \in Confirmation
      BY <1>1, <1>3, <2>5 DEF AttachedFirst
    <3>2. cid[u] # c
      BY <1>0, <1>1, <3>1 DEF AttachedFirst
    <3>3. QED
      BY <1>4, <3>1, <3>2 DEF AttachedFirst
  <2>6. QED
    BY <1>1, <2>1, <2>2, <2>3, <2>4, <2>5 DEF AttachedFirst
<1>11. UnderApproval'
  <2>1. \A d \in told : conf'[d] = conf[d]
    BY <1>4, <1>9
  <2>2. \A d \in Confirmation : conf'[d].state = conf[d].state
    BY <1>4
  <2>3. ASSUME NEW u \in Thread,
               Place(u)' \in {"lookup", "approve", "resume", "resolveExpired",
                              "resolveRejected", "begin", "start", "run"}
        PROVE  Place(u)' = Place(u) /\ cid'[u] = cid[u] /\ wf'[u] = wf[u] /\ step'[u] = step[u]
    BY <1>1, <1>3, <2>3
  <2>4. \A u \in Thread : Place(u)' \in {"approve", "resume"}
          => wf'[u] = conf'[cid'[u]].wf /\ step'[u] = conf'[cid'[u]].at
    <3>1. ASSUME NEW u \in Thread, Place(u)' \in {"approve", "resume"}
          PROVE  wf'[u] = conf'[cid'[u]].wf /\ step'[u] = conf'[cid'[u]].at
      <4>1. Place(u) \in {"approve", "resume"} /\ cid[u] \in told
        BY <2>3, <3>1 DEF UnderApproval
      <4>2. QED
        BY <2>1, <2>3, <3>1, <4>1 DEF UnderApproval
    <3>2. QED
      BY <3>1
  <2>5. \A u \in Thread : Place(u)' \in {"start", "run", "resume"}
          => \/ cid'[u] = None
             \/ /\ cid'[u] \in told /\ wf'[u] = conf'[cid'[u]].wf
                /\ conf'[cid'[u]].state = "approved" /\ used[cid'[u]] = 0
    <3>1. ASSUME NEW u \in Thread, Place(u)' \in {"start", "run", "resume"}
          PROVE  \/ cid'[u] = None
                 \/ /\ cid'[u] \in told /\ wf'[u] = conf'[cid'[u]].wf
                    /\ conf'[cid'[u]].state = "approved" /\ used[cid'[u]] = 0
      <4>1. /\ Place(u) \in {"start", "run", "resume"}
            /\ cid'[u] = cid[u] /\ wf'[u] = wf[u]
        BY <2>3, <3>1
      <4>2. QED
        BY <2>1, <4>1 DEF UnderApproval
    <3>2. QED
      BY <3>1
  <2>6. \A u \in Thread :
          /\ Place(u)' \in {"lookup", "approve", "resume", "resolveExpired",
                             "resolveRejected"} => cid'[u] \in told
          /\ Place(u)' = "begin" => cid'[u] = None
    BY <2>3 DEF UnderApproval
  <2>7. QED
    BY <1>1, <2>2, <2>4, <2>5, <2>6 DEF UnderApproval
<1>12. QED
  BY <1>1, <1>7, <1>8, <1>10, <1>11 DEF StepsInOrder

(* The operator is told the id once the record is paused. *)
LEMMA PauseTokens ==
  ASSUME WorkflowInv, NEW t \in Thread, Pause(t)
  PROVE  Tokens'
<1> USE DEF WorkflowInv, Tokens
<1>1. /\ Place(t) = "pause" /\ Place(t)' = "idle" /\ told' = told \cup {cid[t]}
      /\ UNCHANGED <<conf, born, ran, passed, used>>
  BY DEF Pause, Return, Goto, Types, Shape, Place, Sweeping, history
<1>2. \A u \in Thread \ {t} : /\ Place(u)' = Place(u) /\ wf'[u] = wf[u] /\ step'[u] = step[u]
                              /\ cid'[u] = cid[u]
  BY OthersKeep DEF Acts, Types
<1>3. /\ cid[t] \in Confirmation /\ conf[cid[t]].state # "unborn"
      /\ conf[cid[t]].wf \in Workflow /\ conf[cid[t]].at \in 1..Steps
  BY <1>1 DEF AttachedFirst, Types, Fits
<1>4. \A v \in Workflow, u \in Thread : Executes(u, v)' => Executes(u, v)
  BY <1>1, <1>2 DEF Executes, Executing
<1>5. \A c \in Confirmation, v \in Workflow : Waits(c, v)' <=> Waits(c, v)
  BY <1>1 DEF Waits
<1>6. OneToken'
  BY <1>4, <1>5 DEF OneToken
<1>7. GoesOn'
  <2>1. ASSUME NEW u \in Thread, Place(u)' \in Executing PROVE u # t
    BY <1>1, <2>1 DEF Executing
  <2>2. QED
    BY <1>1, <1>2, <1>5, <2>1 DEF GoesOn, UpTo
<1>8. AttachedFirst'
  <2>1. ASSUME NEW u \in Thread, Place(u)' \in {"asked", "attach", "pause"}
        PROVE  u # t /\ cid[u] # cid[t]
    BY <1>1, <1>2, <2>1 DEF AttachedFirst
  <2>2. QED
    BY <1>1, <1>2, <1>3, <2>1 DEF AttachedFirst
<1>9. UnderApproval'
  BY <1>1, <1>2 DEF UnderApproval
<1>10. QED
  BY <1>1, <1>6, <1>7, <1>8, <1>9 DEF StepsInOrder

(* A command takes the step its confirmation is attached to. *)
LEMMA FoundTokens ==
  ASSUME WorkflowInv, NEW t \in Thread, Lookup(t), Place(t)' = "approve",
         UNCHANGED <<conf, cid>>, wf'[t] = conf[cid[t]].wf, step'[t] = conf[cid[t]].at
  PROVE  Tokens'
<1> USE DEF WorkflowInv, Tokens
<1>1. Place(t) = "lookup" /\ UNCHANGED <<told, born, ran, passed, used>>
  BY DEF Lookup, Place, Sweeping, history
<1>2. \A u \in Thread \ {t} : Place(u)' = Place(u) /\ wf'[u] = wf[u] /\ step'[u] = step[u]
  BY OthersKeep DEF Acts, Types
<1>3. \A v \in Workflow, u \in Thread : Executes(u, v)' => Executes(u, v)
  BY <1>2 DEF Executes, Executing
<1>4. \A c \in Confirmation, v \in Workflow : Waits(c, v)' <=> Waits(c, v)
  BY DEF Waits
<1>5. OneToken'
  BY <1>3, <1>4 DEF OneToken
<1>6. GoesOn'
  <2>1. ASSUME NEW u \in Thread, Place(u)' \in Executing PROVE u # t
    BY <2>1 DEF Executing
  <2>2. QED
    BY <1>1, <1>2, <1>4, <2>1 DEF GoesOn, UpTo
<1>7. AttachedFirst'
  BY <1>1, <1>2 DEF AttachedFirst
<1>8. UnderApproval'
  BY <1>1, <1>2 DEF UnderApproval
<1>9. QED
  BY <1>1, <1>5, <1>6, <1>7, <1>8 DEF StepsInOrder

(* The approval hands the workflow from the confirmation to the thread. *)
LEMMA ApprovedTokens ==
  ASSUME WorkflowInv, NEW t \in Thread, Approve(t), Place(t)' = "resume",
         UNCHANGED <<cid, wf, step>>, conf[cid[t]].state = "pending",
         conf' = [conf EXCEPT ![cid[t]].state = "approved"]
  PROVE  Tokens'
<1> USE DEF WorkflowInv, Tokens
<1> DEFINE c == cid[t]
           w == wf[t]
<1>1. Place(t) = "approve" /\ UNCHANGED <<told, born, ran, passed, used>>
  BY DEF Approve, Place, Sweeping, history
<1>2. /\ c \in told /\ c \in Confirmation /\ w = conf[c].wf /\ step[t] = conf[c].at
      /\ w \in Workflow /\ Waits(c, w) /\ used[c] = 0
  BY <1>1 DEF UnderApproval, AttachedFirst, Types, Shape, Waits
<1>3. \A u \in Thread \ {t} : Place(u)' = Place(u)
  BY OthersKeep DEF Acts, Types
<1>4. /\ \A d \in Confirmation \ {c} : conf'[d] = conf[d]
      /\ conf'[c].state = "approved" /\ conf'[c].wf = conf[c].wf /\ conf'[c].at = conf[c].at
  BY <1>2, StateWrite DEF ConfState, Types
<1>5. \A v \in Workflow, u \in Thread : Executes(u, v)' => Executes(u, v) \/ (u = t /\ v = w)
  BY <1>3 DEF Executes
<1>6. \A d \in Confirmation, v \in Workflow : Waits(d, v)' => Waits(d, v) /\ d # c
  BY <1>4 DEF Waits
<1>7. OneToken'
  BY <1>2, <1>5, <1>6 DEF OneToken
<1>8. GoesOn'
  <2>1. w \in born /\ UpTo(w, step[t])
    BY <1>2 DEF GoesOn
  <2>2. \A d \in Confirmation : conf'[d].at = conf[d].at
    BY <1>4
  <2>3. QED
    BY <1>1, <1>3, <1>6, <2>1, <2>2 DEF GoesOn, UpTo
<1>9. \A d \in Confirmation : /\ conf'[d].at = conf[d].at /\ conf'[d].wf = conf[d].wf
                              /\ (conf'[d].state = "unborn" <=> conf[d].state = "unborn")
                              /\ (conf[d].state = "approved" => conf'[d].state = "approved")
  BY <1>4
<1>10. told \subseteq Confirmation
  BY DEF Types, Shape
<1>11. AttachedFirst'
  BY <1>1, <1>3, <1>9, <1>10 DEF AttachedFirst
<1>12. UnderApproval'
  BY <1>1, <1>2, <1>3, <1>4, <1>9, <1>10 DEF UnderApproval
<1>13. QED
  BY <1>1, <1>7, <1>8, <1>11, <1>12 DEF StepsInOrder

(* What the other steps of a thread leave. *)
Quiet(t) == Relayed(t) /\ Quieter /\ UNCHANGED <<told, born, ran, passed, used>>

LEMMA PassOn ==
  ASSUME WorkflowInv, NEW t \in Thread, Acts(t), Quiet(t)
  PROVE  Tokens' /\ \A u \in Thread : Relayed(u)
<1>1. ASSUME NEW u \in Thread, u # t PROVE Relayed(u)
  <2>1. Place(u)' = Place(u) /\ wf'[u] = wf[u] /\ step'[u] = step[u] /\ cid'[u] = cid[u]
    BY <1>1, OthersKeep DEF WorkflowInv, Types
  <2>2. QED
    BY <2>1 DEF Relayed
<1>2. \A u \in Thread : Relayed(u)
  BY <1>1 DEF Quiet
<1>3. QED
  BY <1>2, RelayKeeps DEF Quiet

LEMMA SweepRelays ==
  ASSUME WorkflowInv, NEW t \in Thread, Tick(t) \/ Sweep(t) \/ Purge(t) \/ Purged(t)
  PROVE  Quiet(t)
<1> USE DEF WorkflowInv, Types
<1>1. UNCHANGED <<told, born, ran, passed, used, wf, step, cid>>
  BY DEF Tick, Sweep, Purge, Purged, history
<1>2. Place(t)' = Place(t)
  BY DEF Tick, Sweep, Purge, Purged, SweepThen, Goto, Shape, Place, Sweeping, AfterSweep
<1>3. Quieter
  <2>1. CASE conf' = conf
    BY <2>1, QuietWrite
  <2>2. CASE Purge(t)
    BY <2>2, QuietWrite DEF Purge, Expire
  <2>3. QED
    BY <2>1, <2>2 DEF Tick, Sweep, Purged, stores
<1>4. Relayed(t)
  BY <1>1, <1>2 DEF Relayed
<1>5. QED
  BY <1>1, <1>3, <1>4 DEF Quiet

LEMMA WriteRelays ==
  ASSUME WorkflowInv, NEW t \in Thread, Begin(t) \/ StartStep(t) \/ Resume(t)
  PROVE  Quiet(t)
<1> USE DEF WorkflowInv, Types
<1>1. UNCHANGED <<told, born, ran, passed, used, wf, step, cid, conf>>
  BY DEF Begin, StartStep, Resume, history
<1>2. <<Place(t), Place(t)'>> \in Onward
  BY DEF Begin, StartStep, Resume, SweepThen, Goto, Shape, Place, Sweeping, Onward
<1>3. Quieter
  BY <1>1, QuietWrite
<1>4. Relayed(t)
  BY <1>1, <1>2 DEF Relayed
<1>5. QED
  BY <1>1, <1>3, <1>4 DEF Quiet

(* A thread at the end of a step, with the next one to begin. *)
Advances(t) == EndStep(t) /\ pc[t] = "succeeded" /\ step[t] < Steps

LEMMA EndRelays ==
  ASSUME WorkflowInv, NEW t \in Thread,
         EndStep(t) \/ Complete(t) \/ Fail(t) \/ Settle(t)
  PROVE  Quiet(t) \/ Advances(t)
<1> USE DEF WorkflowInv, Types
<1>1. CASE EndStep(t) /\ ~Advances(t)
  <2>1. UNCHANGED <<told, born, ran, passed, used, wf, conf>>
    BY <1>1 DEF EndStep, history
  <2>2. /\ step'[t] = step[t] /\ cid'[t] = cid[t]
        /\ Place(t)' \in Passive \/ <<Place(t), Place(t)'>> \in Onward
    BY <1>1 DEF Advances, EndStep, Goto, Shape, Place, Sweeping, Onward, Passive
  <2>3. Quieter
    BY <2>1, QuietWrite
  <2>4. Relayed(t)
    BY <2>1, <2>2 DEF Relayed
  <2>5. QED
    BY <2>1, <2>3, <2>4 DEF Quiet
<1>2. CASE Complete(t) \/ Fail(t) \/ Settle(t)
  <2>1. UNCHANGED <<told, born, ran, passed, used, conf>> /\ Place(t)' = "idle"
    BY <1>2 DEF Complete, Fail, Settle, Return, Goto, Shape, Place, Sweeping, history
  <2>2. Quieter
    BY <2>1, QuietWrite
  <2>3. Relayed(t)
    BY <2>1 DEF Relayed, Passive
  <2>4. QED
    BY <2>1, <2>2, <2>3 DEF Quiet
<1>3. QED
  BY <1>1, <1>2

LEMMA CommandRelays ==
  ASSUME WorkflowInv, NEW t \in Thread,
         \/ \E c \in Confirmation : Confirm(t, c) \/ Deny(t, c)
         \/ \E w \in Workflow : Cancel(t, w)
  PROVE  Quiet(t)
<1> USE DEF WorkflowInv, Types
<1>1. Quieter
  BY CommandTypes
<1>2. UNCHANGED <<told, born, ran, passed, used>>
  BY DEF Confirm, Deny, Cancel, history
<1>3. \/ /\ Place(t)' \in {"lookup", "resolveExpired", "resolveRejected"}
         /\ cid'[t] \in told
      \/ Place(t)' = "cancel"
  BY DEF Confirm, Deny, Cancel, SweepThen, Goto, Shape, Place, Sweeping
<1>4. Relayed(t)
  BY <1>3 DEF Relayed, Passive
<1>5. QED
  BY <1>1, <1>2, <1>4 DEF Quiet

(* A command that finds its workflow, and one that is granted it. *)
Finds(t) ==
  /\ Lookup(t) /\ Place(t)' = "approve" /\ UNCHANGED <<conf, cid>>
  /\ wf'[t] = conf[cid[t]].wf /\ step'[t] = conf[cid[t]].at
IsGranted(t) ==
  /\ Approve(t) /\ Place(t)' = "resume" /\ UNCHANGED <<cid, wf, step>>
  /\ conf[cid[t]].state = "pending"
  /\ conf' = [conf EXCEPT ![cid[t]].state = "approved"]

LEMMA AnswerRelays ==
  ASSUME WorkflowInv, NEW t \in Thread,
         Lookup(t) \/ Approve(t) \/ Resolve(t) \/ CancelRead(t) \/ Reject(t)
  PROVE  Quiet(t) \/ Finds(t) \/ IsGranted(t)
<1> USE DEF WorkflowInv, Types
<1>1. UNCHANGED <<told, born, ran, passed, used>>
  BY DEF Lookup, Approve, Resolve, CancelRead, Reject, history
<1>2. CASE Lookup(t)
  <2>1. CASE Place(t)' = "idle" /\ Quieter
    BY <1>1, <2>1 DEF Quiet, Relayed, Passive
  <2>2. QED
    BY <1>2, <2>1, LookupTypes DEF Finds
<1>3. CASE Approve(t)
  <2>1. CASE /\ Place(t)' \in {"idle", "resolveExpired"} /\ Quieter
             /\ (Place(t)' = "resolveExpired" => cid'[t] = cid[t])
    <3>1. Place(t) = "approve"
      BY <1>3 DEF Approve, Place, Sweeping
    <3>2. cid[t] \in told
      BY <3>1 DEF Tokens, UnderApproval
    <3>3. Relayed(t)
      BY <2>1, <3>2 DEF Relayed, Passive
    <3>4. QED
      BY <1>1, <2>1, <3>3 DEF Quiet
  <2>2. QED
    BY <1>3, <2>1, ApproveTypes DEF IsGranted
<1>4. CASE Resolve(t) \/ CancelRead(t) \/ Reject(t)
  <2>1. Place(t)' \in {"idle", "settle", "reject"} /\ Quieter
    BY <1>4, ResolveTypes, CancelTypes
  <2>2. Relayed(t)
    BY <2>1 DEF Relayed, Passive
  <2>3. QED
    BY <1>1, <2>1, <2>2 DEF Quiet
<1>5. QED
  BY <1>2, <1>3, <1>4

(* What a thread's step is to the workflow it works on. *)
LEMMA ThreadCases ==
  ASSUME WorkflowInv, NEW t \in Thread, Acts(t)
  PROVE  \/ Quiet(t) \/ Advances(t) \/ Pause(t) \/ Finds(t)
         \/ \E c \in Confirmation : Asks(t, c)
         \/ \E w \in Workflow : Run(t, w)
         \/ Succeeds(t) \/ Fails(t) \/ Raises(t)
         \/ Attach(t) \/ IsGranted(t)
BY SweepRelays, WriteRelays, EndRelays, CommandRelays, AnswerRelays DEF Acts

-----------------------------------------------------------------------------
(* Paused records.                                                         *)

LEMMA NotPaused ==
  ASSUME store \in [Workflow -> Record \cup {None}],
         NEW w \in Workflow, NEW r \in Record, Put(w, r), r.state # "paused",
         NEW x \in Workflow, store'[x] # None, store'[x].state = "paused"
  PROVE  store'[x] = store[x]
BY PutStore

LEMMA NotSwept ==
  ASSUME store \in [Workflow -> Record \cup {None}], Read,
         NEW x \in Workflow, store'[x].state = "paused"
  PROVE  store'[x] = store[x]
BY SweptStore DEF Read

(* Only Pause writes a paused record. *)
LEMMA PausedByPause ==
  ASSUME WorkflowInv, NEW t \in Thread, Acts(t), ~Pause(t),
         NEW x \in Workflow, store'[x] # None, store'[x].state = "paused"
  PROVE  store'[x] = store[x]
<1> USE DEF WorkflowInv, Types
<1>0. store \in [Workflow -> Record \cup {None}] /\ Fits(t)
  BY DEF Shape
<1>1. CASE store' = store
  BY <1>1
<1>2. CASE Read
  BY <1>0, <1>2, NotSwept
<1>3. CASE Purged(t)
  <2>1. /\ found[t] # <<>> /\ found[t] \in Seq(Workflow \X Record)
        /\ \A i \in 1..Len(found[t]) : found[t][i][2].state = "expired"
    BY <1>0, <1>3 DEF Purged, Fits, Shape
  <2>2. Head(found[t]) \in Workflow \X Record /\ Head(found[t])[2].state = "expired"
    BY <2>1
  <2>3. Head(found[t])[1] \in Workflow /\ Head(found[t])[2] \in Record
    BY <2>2
  <2>4. QED
    BY <1>0, <1>3, <2>2, <2>3, ClearedRecord, NotPaused DEF Purged
<1>4. CASE Begin(t) \/ StartStep(t) \/ Resume(t)
  <2>1. Place(t) \in {"begin", "start", "resume"}
    BY <1>4 DEF Begin, StartStep, Resume, Place, Sweeping
  <2>2. wf[t] \in Workflow /\ rec[t] \in Record /\ step[t] \in 0..Steps
    BY <1>0, <2>1 DEF Fits, Executing, Shape
  <2>3. Resume(t) => cid[t] \in Confirmation
    BY DEF Resume, Place, Sweeping, Tokens, UnderApproval, Shape
  <2>4. \E r \in Record : r.state = "running" /\ Put(wf[t], r)
    <3>1. Cleared(rec[t]) \in Record /\ "running" \in Active \cup Terminal
      BY <2>2, ClearedRecord DEF Active
    <3>2. CASE Begin(t)
      <4> DEFINE r == [Cleared(rec[t]) EXCEPT !.started = TRUE, !.state = "running", !.at = step[t]]
      <4>1. r \in Record /\ r.state = "running"
        BY <2>2, <3>1 DEF Record
      <4>2. Put(wf[t], r)
        BY <3>2 DEF Begin, WriteRec
      <4>3. QED
        BY <4>1, <4>2
    <3>3. CASE StartStep(t)
      <4> DEFINE r == [rec[t] EXCEPT !.state = "running", !.at = step[t]]
      <4>1. r \in Record /\ r.state = "running"
        BY <2>2, <3>1 DEF Record
      <4>2. Put(wf[t], r)
        BY <3>3 DEF StartStep, WriteRec
      <4>3. QED
        BY <4>1, <4>2
    <3>4. CASE Resume(t)
      <4> DEFINE r == [Cleared(rec[t]) EXCEPT !.state = "running", !.at = step[t], !.consumed = cid[t]]
      <4>1. r \in Record /\ r.state = "running"
        BY <2>2, <2>3, <3>1, <3>4 DEF Record
      <4>2. Put(wf[t], r)
        BY <3>4 DEF Resume, WriteRec
      <4>3. QED
        BY <4>1, <4>2
    <3>5. QED
      BY <1>4, <3>2, <3>3, <3>4
  <2>5. QED
    BY <1>0, <2>2, <2>4, NotPaused
<1>5. CASE EndStep(t)
  <2>1. Place(t) \in {"succeeded", "failed", "asked"} /\ Put(wf[t], rec[t])
    BY <1>5 DEF EndStep, WriteRec, Place, Sweeping
  <2>2. wf[t] \in Workflow /\ rec[t] \in Record /\ rec[t].state = "running"
    BY <1>0, <2>1 DEF Fits, Executing
  <2>3. QED
    BY <1>0, <2>1, <2>2, NotPaused
<1>6. CASE Complete(t) \/ Fail(t)
  <2>1. Place(t) \in {"complete", "fail"}
    BY <1>6 DEF Complete, Fail, Place, Sweeping
  <2>2. wf[t] \in Workflow /\ rec[t] \in Record
    BY <1>0, <2>1 DEF Fits
  <2>3. \E r \in Record : r.state # "paused" /\ Put(wf[t], r)
    <3>1. ASSUME NEW s \in Terminal
          PROVE  /\ [rec[t] EXCEPT !.state = s] \in Record /\ [rec[t] EXCEPT !.state = s].state # "paused"
                 /\ [Cleared(rec[t]) EXCEPT !.state = s] \in Record
                 /\ [Cleared(rec[t]) EXCEPT !.state = s].state # "paused"
      <4>1. Cleared(rec[t]) \in Record
        BY <2>2, ClearedRecord
      <4>2. \A r \in Record : [r EXCEPT !.state = s] \in Record /\ [r EXCEPT !.state = s].state # "paused"
        BY DEF Record, Terminal
      <4>3. QED
        BY <2>2, <4>1, <4>2
    <3>2. CASE Complete(t)
      BY <3>1, <3>2 DEF Complete, Terminal
    <3>3. CASE Fail(t)
      <4>1. PICK s \in Terminal \ {"completed"} : Put(wf[t], [Cleared(rec[t]) EXCEPT !.state = s])
        BY <3>3 DEF Fail
      <4>2. QED
        BY <3>1, <4>1
    <3>4. QED
      BY <1>6, <3>2, <3>3
  <2>4. QED
    BY <1>0, <2>2, <2>3, NotPaused
<1>7. CASE Settle(t)
  <2>1. Place(t) = "settle" /\ Put(wf[t], rec[t])
    BY <1>7 DEF Settle, Place, Sweeping
  <2>2. wf[t] \in Workflow /\ rec[t] \in Record /\ rec[t].state \in {"expired", "cancelled"}
    BY <1>0, <2>1 DEF Fits
  <2>3. QED
    BY <1>0, <2>1, <2>2, NotPaused
<1>8. CASE \E w \in Workflow : Run(t, w)
  BY <1>0, <1>8, FreshRecord, NotPaused DEF Run
<1>9. QED
  <2>1. Tick(t) \/ Purge(t) \/ Succeeds(t) \/ Fails(t) \/ Raises(t) => store' = store
    BY DEF Tick, Purge, Succeeds, Fails, Raises, stores
  <2>2. \A c \in Confirmation : Asks(t, c) \/ Confirm(t, c) \/ Deny(t, c) => store' = store
    BY DEF Asks, Confirm, Deny, stores
  <2>3. Attach(t) \/ Approve(t) \/ Reject(t) => store' = store
    BY DEF Attach, Approve, Reject
  <2>4. \A w \in Workflow : Cancel(t, w) => store' = store
    BY DEF Cancel, stores
  <2>5. Sweep(t) \/ Lookup(t) \/ Resolve(t) \/ CancelRead(t) => Read
    BY DEF Sweep, Lookup, Resolve, CancelRead
  <2>6. QED
    BY <1>1, <1>2, <1>3, <1>4, <1>5, <1>6, <1>7, <1>8, <2>1, <2>2, <2>3, <2>4, <2>5 DEF Acts

(* The confirmation an operator was told of stays where it is attached. *)
LEMMA ToldKept ==
  ASSUME WorkflowInv, NEW t \in Thread, Acts(t)
  PROVE  told \subseteq told' /\ \A c \in told : conf'[c].wf = conf[c].wf /\ conf'[c].at = conf[c].at
<1> USE DEF WorkflowInv, Types
<1>0. told \subseteq Confirmation /\ told \subseteq told'
  BY DEF Acts, Tick, Sweep, Purge, Purged, Begin, StartStep, Succeeds, Fails, Raises, Asks, Confirm,
         Deny, EndStep, Complete, Fail, Attach, Pause, Lookup, Approve, Resume, Resolve, CancelRead,
         Reject, Settle, Run, Cancel, Shape
<1>1. CASE Quieter
  BY <1>0, <1>1 DEF Quieter
<1>2. CASE conf' = conf
  BY <1>0, <1>2
<1>3. ASSUME NEW c \in Confirmation, Asks(t, c)
      PROVE  \A d \in told : conf'[d].wf = conf[d].wf /\ conf'[d].at = conf[d].at
  BY <1>0, <1>3, StateWrite DEF Asks, ConfState
<1>4. CASE Attach(t)
  <2>1. Place(t) = "attach" /\ conf' = [conf EXCEPT ![cid[t]].wf = wf[t], ![cid[t]].at = step[t]]
    BY <1>4 DEF Attach, Place, Sweeping
  <2>2. cid[t] \notin told
    BY <2>1 DEF Tokens, AttachedFirst
  <2>3. ASSUME NEW d \in told PROVE conf'[d] = conf[d]
    BY <1>0, <2>1, <2>2 DEF Shape
  <2>4. QED
    BY <1>0, <2>3
<1>5. CASE Approve(t)
  <2>1. CASE Quieter
    BY <1>1, <2>1
  <2>2. CASE conf' = [conf EXCEPT ![cid[t]].state = "approved"]
    <3>1. Place(t) = "approve"
      BY <1>5 DEF Approve, Place, Sweeping
    <3>2. cid[t] \in Confirmation
      BY <3>1 DEF Tokens, UnderApproval, Shape
    <3>3. QED
      BY <1>0, <2>2, <3>2, StateWrite DEF ConfState
  <2>3. QED
    BY <1>5, <2>1, <2>2, ApproveTypes
<1>6. CASE Lookup(t)
  BY <1>1, <1>2, <1>6, LookupTypes
<1>7. CASE Purge(t)
  BY <1>1, <1>7, QuietWrite DEF Purge, Expire
<1>8. CASE \/ \E c \in Confirmation : Confirm(t, c) \/ Deny(t, c)
           \/ \E w \in Workflow : Cancel(t, w)
  BY <1>1, <1>8, CommandTypes
<1>9. CASE CancelRead(t) \/ Reject(t)
  BY <1>1, <1>9, CancelTypes
<1>10. CASE \/ Tick(t) \/ Sweep(t) \/ Purged(t) \/ Begin(t) \/ StartStep(t) \/ Succeeds(t)
            \/ Fails(t) \/ Raises(t) \/ EndStep(t) \/ Complete(t) \/ Fail(t) \/ Pause(t)
            \/ Resume(t) \/ Resolve(t) \/ Settle(t) \/ \E w \in Workflow : Run(t, w)
  <2>1. conf' = conf
    BY <1>10 DEF Tick, Sweep, Purged, Begin, StartStep, Succeeds, Fails, Raises, EndStep, Complete,
                 Fail, Pause, Resume, Resolve, Settle, Run, stores
  <2>2. QED
    BY <1>2, <2>1
<1>11. QED
  BY <1>0, <1>3, <1>4, <1>5, <1>6, <1>7, <1>8, <1>9, <1>10 DEF Acts

LEMMA PausedStays ==
  ASSUME WorkflowInv, NEW t \in Thread, Acts(t)
  PROVE  PausedTold' /\ PausedMatches'
<1> USE DEF WorkflowInv, Types
<1>1. SUFFICES ASSUME NEW x \in Workflow, store'[x] # None, store'[x].state = "paused"
               PROVE  LET c == store'[x].pending
                      IN /\ c \in told' /\ c # None /\ conf'[c].wf = x
                         /\ conf'[c].at = store'[x].at /\ conf'[c].at = store'[x].pendingAt
  BY DEF PausedTold, PausedMatches, Exists
<1>2. CASE store'[x] = store[x]
  <2>1. /\ store[x].pending \in told /\ store[x].pending # None
        /\ conf[store[x].pending].wf = x
        /\ conf[store[x].pending].at = store[x].at
        /\ conf[store[x].pending].at = store[x].pendingAt
    BY <1>1, <1>2 DEF PausedTold, PausedMatches, Exists
  <2>2. QED
    BY <1>2, <2>1, ToldKept
<1>3. CASE Pause(t)
  <2> DEFINE r == [rec[t] EXCEPT !.state = "paused", !.pending = cid[t], !.pendingAt = step[t]]
  <2>1. Place(t) = "pause" /\ Put(wf[t], r) /\ told' = told \cup {cid[t]} /\ conf' = conf
    BY <1>3 DEF Pause, Place, Sweeping
  <2>2. /\ wf[t] \in Workflow /\ rec[t] \in Record /\ step[t] \in 0..Steps /\ rec[t].at = step[t]
        /\ cid[t] \in Confirmation /\ conf[cid[t]].wf = wf[t] /\ conf[cid[t]].at = step[t]
    BY <2>1 DEF Fits, Shape, Tokens, AttachedFirst
  <2>3. r \in Record /\ r.at = step[t] /\ r.pending = cid[t] /\ r.pendingAt = step[t]
    BY <2>2 DEF Record, Active
  <2> HIDE DEF r
  <2>4. store'[x] = store[x] \/ (x = wf[t] /\ store'[x] = r)
    BY <1>1, <2>1, <2>2, <2>3, PutStore DEF Shape
  <2>5. CASE x = wf[t] /\ store'[x] = r
    BY <2>1, <2>2, <2>3, <2>5, NoneAssumption
  <2>6. QED
    BY <1>2, <2>4, <2>5
<1>4. QED
  BY <1>1, <1>2, <1>3, PausedByPause

-----------------------------------------------------------------------------
(* The invariant.                                                          *)

LEMMA ThreadStepInv ==
  ASSUME WorkflowInv, NEW t \in Thread, Acts(t)
  PROVE  WorkflowInv'
<1>1. Shape' /\ Fits(t)'
  BY SweepTypes, StartTypes, WriteTypes, RunTypes, AskTypes, EndStepTypes, EndTypes, AttachTypes,
     CommandTypes, LookupTypes, ApproveTypes, ResolveTypes, CancelTypes DEF Acts
<1>2. ASSUME NEW u \in Thread, u # t PROVE Fits(u)'
  <2>1. Fits(u)
    BY DEF WorkflowInv, Types
  <2>2. QED
    BY <1>2, <2>1, OthersKeep DEF Fits, WorkflowInv, Types
<1>3. Types'
  BY <1>1, <1>2 DEF Types
<1>4. Tokens'
  BY ThreadCases, PassOn, RunTokens, CarryOutTokens, AskTokens, AdvanceTokens, AttachTokens,
     PauseTokens, FoundTokens, ApprovedTokens DEF Advances, Finds, IsGranted
<1>5. QED
  BY <1>3, <1>4, PausedStays DEF WorkflowInv

(* Time passes beside the threads. *)
LEMMA TimeStepInv ==
  ASSUME WorkflowInv,
         \/ \E w \in Workflow : LifetimePasses(w)
         \/ \E c \in Confirmation : ConfirmationExpires(c)
  PROVE  WorkflowInv'
<1> USE DEF WorkflowInv, Types
<1>1. UNCHANGED <<store, locals, told, born, history>>
  BY DEF LifetimePasses, ConfirmationExpires
<1>2. Quieter
  <2>1. CASE conf' = conf
    BY <2>1, QuietWrite
  <2>2. CASE \E c \in Confirmation : ConfirmationExpires(c)
    BY <2>2, QuietWrite DEF ConfirmationExpires
  <2>3. QED
    BY <2>1, <2>2 DEF LifetimePasses
<1>3. late' \subseteq Workflow
  BY DEF LifetimePasses, ConfirmationExpires, Shape
<1>4. Shape'
  BY <1>1, <1>2, <1>3 DEF Shape, Quieter, ConfType, locals, history
<1>5. \A u \in Thread : Place(u)' = Place(u)
  BY <1>1 DEF Place, locals
<1>6. \A u \in Thread : Fits(u)'
  BY <1>1, <1>5 DEF Fits, locals
<1>7. \A u \in Thread : Relayed(u)
  BY <1>1, <1>5 DEF Relayed, locals
<1>8. Tokens'
  BY <1>1, <1>2, <1>7, RelayKeeps DEF history
<1>9. PausedTold' /\ PausedMatches'
  <2>1. told \subseteq Confirmation
    BY DEF Shape
  <2>2. \A c \in told : conf'[c].wf = conf[c].wf /\ conf'[c].at = conf[c].at
    BY <1>2, <2>1 DEF Quieter
  <2>3. PausedTold'
    BY <1>1 DEF PausedTold, Exists
  <2>4. ASSUME NEW x \in Workflow, Exists(store, x), store[x].state = "paused"
        PROVE  LET c == store[x].pending
               IN c # None /\ conf'[c].wf = x
                  /\ conf'[c].at = store[x].at /\ conf'[c].at = store[x].pendingAt
    BY <2>2, <2>4 DEF PausedTold, PausedMatches
  <2>5. QED
    BY <1>1, <2>3, <2>4 DEF PausedMatches, Exists
<1>10. QED
  BY <1>4, <1>6, <1>8, <1>9

LEMMA InitInv == Init => WorkflowInv
<1>1. SUFFICES ASSUME Init PROVE WorkflowInv
  OBVIOUS
<1>2. Shape
  <2>1. /\ 0 \in 0..Steps /\ 0 \in Nat
        /\ <<>> \in Seq(Workflow \X Record)
    BY StepsAssumption
  <2>2. [state |-> "unborn", wf |-> None, at |-> 0] \in
          [state : ConfState, wf : Workflow \cup {None}, at : 0..Steps]
    BY <2>1 DEF ConfState
  <2>3. QED
    BY <1>1, <2>1, <2>2 DEF Init, Shape, Places, AfterSweep
<1>3. \A t \in Thread : Place(t) = "idle" /\ pc[t] = "idle" /\ found[t] = <<>>
  BY <1>1 DEF Init, Place, Sweeping
<1>4. \A t \in Thread : Fits(t)
  BY <1>3 DEF Fits, Executing
<1>5. \A c \in Confirmation : conf[c].state = "unborn" /\ conf[c].wf = None /\ used[c] = 0
  BY <1>1 DEF Init
<1>6. \A w \in Workflow, i \in 1..Steps : ran[w][i] = 0
  BY <1>1 DEF Init
<1>7. OneToken
  BY <1>3, <1>5 DEF OneToken, Executes, Waits, Executing
<1>8. GoesOn
  BY <1>3, <1>5, <1>6 DEF GoesOn, Waits, Executing
<1>9. AttachedFirst /\ UnderApproval
  BY <1>1, <1>3, <1>5 DEF AttachedFirst, UnderApproval, Init
<1>10. StepsInOrder
  BY <1>6 DEF StepsInOrder
<1>11. PausedTold /\ PausedMatches
  BY <1>1 DEF PausedTold, PausedMatches, Init, Exists
<1>12. QED
  BY <1>2, <1>4, <1>7, <1>8, <1>9, <1>10, <1>11 DEF WorkflowInv, Types, Tokens

LEMMA NextInv == WorkflowInv /\ [Next]_vars => WorkflowInv'
<1>1. ASSUME WorkflowInv, Next PROVE WorkflowInv'
  BY <1>1, StepCases, ThreadStepInv, TimeStepInv
<1>2. ASSUME WorkflowInv, UNCHANGED vars PROVE WorkflowInv'
  <2>1. UNCHANGED <<store, bucket, late, conf, pc, next, rec, wf, step, cid, found, told, born,
                    left, ran, passed, used>>
    BY <1>2 DEF vars, stores, locals, history
  <2>2. Types'
    BY <1>2, <2>1 DEF WorkflowInv, Types, Shape, Fits, Place
  <2>3. OneToken'
    BY <1>2, <2>1 DEF WorkflowInv, Tokens, OneToken, Executes, Waits, Place
  <2>4. GoesOn'
    BY <1>2, <2>1 DEF WorkflowInv, Tokens, GoesOn, UpTo, Waits, Place
  <2>5. AttachedFirst' /\ UnderApproval'
    BY <1>2, <2>1 DEF WorkflowInv, Tokens, AttachedFirst, UnderApproval, Place
  <2>6. StepsInOrder' /\ PausedTold' /\ PausedMatches'
    BY <1>2, <2>1 DEF WorkflowInv, Tokens, StepsInOrder, PausedTold, PausedMatches
  <2>7. QED
    BY <2>2, <2>3, <2>4, <2>5, <2>6 DEF WorkflowInv, Tokens
<1>3. QED
  BY <1>1, <1>2

LEMMA AlwaysInv == Spec => []WorkflowInv
BY InitInv, NextInv, PTL DEF Spec

-----------------------------------------------------------------------------
(* The step relay.                                                         *)

(* Where only workflow w is handed on, so is only its entry. *)
LEMMA HandsOf ==
  ASSUME NEW w \in Workflow, \A v \in Workflow \ {w} : HandOf(v)' = HandOf(v)
  PROVE  LET hand == [v \in Workflow |-> HandOf(v)]
         IN  /\ hand' = [hand EXCEPT ![w] = HandOf(w)']
             /\ HandOf(w)' = HandOf(w) => hand' = hand
<1> HIDE DEF HandOf
<1>1. QED
  OBVIOUS

(* No workflow comes into a hand or on offer. *)
Dwindles ==
  /\ UNCHANGED <<born, ran, passed>>
  /\ \A w \in Workflow : /\ \A u \in Thread : Executes(u, w)' => Executes(u, w)
                         /\ \A c \in Confirmation : Waits(c, w)' => Waits(c, w)

LEMMA DropsOnly ==
  ASSUME WorkflowInv, Dwindles
  PROVE  \E dropped \in SUBSET Workflow : Relay!Drop(dropped)
<1> DEFINE dropped == {w \in Workflow : HandOf(w)' # HandOf(w)}
<1>1. ASSUME NEW w \in Workflow
      PROVE  \/ HandOf(w)' = HandOf(w)
             \/ HandOf(w) \in {"held", "offered"} /\ HandOf(w)' = "over"
  BY DEF HandOf, Dwindles, WorkflowInv, Tokens, OneToken
<1>2. [w \in Workflow |-> TriedOf(w)]' = [w \in Workflow |-> TriedOf(w)] /\ passed' = passed
  BY DEF Dwindles, TriedOf
<1> HIDE DEF HandOf, TriedOf
<1>3. \A w \in dropped : [v \in Workflow |-> HandOf(v)][w] \in {"held", "offered"}
  BY <1>1
<1>4. [w \in Workflow |-> HandOf(w)]'
        = [w \in Workflow |-> IF w \in dropped THEN "over" ELSE [v \in Workflow |-> HandOf(v)][w]]
  BY <1>1
<1>5. Relay!Drop(dropped)
  BY <1>2, <1>3, <1>4 DEF Relay!Drop
<1>6. QED
  BY <1>5

LEMMA QuietDrops ==
  ASSUME Quieter, UNCHANGED <<born, ran, passed>>, \A u \in Thread : Relayed(u)
  PROVE  Dwindles
<1>1. ASSUME NEW u \in Thread, Place(u)' \in Executing
      PROVE  wf'[u] = wf[u] /\ Place(u) \in Executing
  BY <1>1 DEF Relayed, Passive, Onward, Executing
<1>2. QED
  BY <1>1 DEF Dwindles, Executes, Waits, Quieter

LEMMA StaysInHand ==
  ASSUME WorkflowInv, NEW t \in Thread, Acts(t),
         \/ Quiet(t) \/ Advances(t) \/ Pause(t) \/ Finds(t)
         \/ \E c \in Confirmation : Asks(t, c)
  PROVE  Dwindles
<1> USE DEF WorkflowInv, Types
<1>1. CASE Quiet(t)
  BY <1>1, PassOn, QuietDrops DEF Quiet
<1>2. \A u \in Thread \ {t} : Place(u)' = Place(u) /\ wf'[u] = wf[u]
  BY OthersKeep
<1>3. CASE Advances(t) \/ Pause(t) \/ Finds(t)
  <2>1. /\ UNCHANGED <<born, ran, passed, conf>>
        /\ Place(t)' \in Executing => Place(t) \in Executing /\ wf'[t] = wf[t]
    BY <1>3 DEF Advances, Pause, Finds, EndStep, Lookup, Return, Goto, Shape, Place, Sweeping,
                Executing, history
  <2>2. QED
    BY <1>2, <2>1 DEF Dwindles, Executes, Waits
<1>4. ASSUME NEW c \in Confirmation, Asks(t, c) PROVE Dwindles
  <2>1. /\ UNCHANGED <<born, ran, passed, wf>>
        /\ Place(t)' = "asked" /\ Place(t) = "run" /\ conf[c].wf = None
    BY <1>4 DEF Asks, Goto, Shape, Place, Sweeping, history, Tokens, AttachedFirst
  <2>2. /\ \A d \in Confirmation \ {c} : conf'[d] = conf[d]
        /\ conf'[c].wf = conf[c].wf
    BY <1>4, StateWrite DEF Asks, ConfState
  <2>3. QED
    BY <1>2, <2>1, <2>2, NoneAssumption DEF Dwindles, Executes, Executing, Waits
<1>5. QED
  BY <1>1, <1>3, <1>4

LEMMA RunOpens ==
  ASSUME WorkflowInv, NEW t \in Thread, NEW w \in Workflow, Run(t, w)
  PROVE  Relay!Open(w)
<1> USE DEF WorkflowInv, Types
<1>1. /\ Place(t) = "idle" /\ Place(t)' = "begin" /\ wf'[t] = w
      /\ w \notin born /\ born' = born \cup {w} /\ UNCHANGED <<conf, ran, passed>>
  BY DEF Run, Command, SweepThen, Goto, Shape, Place, Sweeping, history
<1>2. \A u \in Thread \ {t} : Place(u)' = Place(u) /\ wf'[u] = wf[u]
  BY OthersKeep DEF Acts
<1>3. \A v \in Workflow \ {w}, u \in Thread : Executes(u, v)' <=> Executes(u, v)
  BY <1>1, <1>2 DEF Executes, Executing
<1>4. \A v \in Workflow \ {w} : HandOf(v)' = HandOf(v)
  BY <1>1, <1>3 DEF HandOf, Waits
<1>5. HandOf(w) = "new" /\ HandOf(w)' = "held"
  BY <1>1 DEF HandOf, Executes, Executing
<1>6. [v \in Workflow |-> TriedOf(v)]' = [v \in Workflow |-> TriedOf(v)]
  BY <1>1 DEF TriedOf
<1>7. QED
  BY <1>1, <1>4, <1>5, <1>6, HandsOf DEF Relay!Open, Relay!Pass

LEMMA StepCarries ==
  ASSUME WorkflowInv, NEW t \in Thread, Succeeds(t) \/ Fails(t) \/ Raises(t),
         NEW w, w = wf[t], NEW k, k = step[t]
  PROVE  w \in Workflow /\ k \in 1..Steps /\ Relay!Carry(w, k)
<1> USE DEF WorkflowInv, Types
<1>1. /\ w \in Workflow /\ k \in 1..Steps /\ Executes(t, w) /\ UpTo(w, k) /\ ran[w][k] = 0
      /\ UNCHANGED <<conf, born>> /\ Place(t) = "run"
      /\ \A u \in Thread \ {t} : Place(u)' = Place(u) /\ wf'[u] = wf[u]
  BY CarryOutFacts
<1>2. \/ /\ Place(t)' = "succeeded" /\ wf'[t] = w
         /\ passed' = [passed EXCEPT ![w] = @ \cup {k}]
      \/ Place(t)' \in {"failed", "idle"} /\ passed' = passed
  BY CarryOutFacts
<1>3. [v \in Workflow |-> TriedOf(v)]'
        = [[v \in Workflow |-> TriedOf(v)] EXCEPT ![w] = @ \cup {k}]
  <2>1. \A v \in Workflow \ {w} : TriedOf(v)' = TriedOf(v)
    BY CarryOutFacts DEF TriedOf
  <2>2. TriedOf(w)' = TriedOf(w) \cup {k}
    <3>1. \A i \in (1..Steps) \ {k} : ran'[w][i] = ran[w][i]
      BY CarryOutFacts
    <3>2. ran'[w][k] = 1
      BY CarryOutFacts
    <3>3. QED
      BY <1>1, <3>1, <3>2 DEF TriedOf
  <2> HIDE DEF TriedOf
  <2>3. QED
    BY <1>1, <2>1, <2>2
<1>4. k \notin TriedOf(w) /\ \A j \in 1..(k - 1) : j \in passed[w]
  <2>1. k \notin TriedOf(w)
    BY <1>1 DEF TriedOf
  <2>2. \A j \in 1..(k - 1) : j \in 1..Steps /\ j < k
    BY <1>1, StepsAssumption
  <2>3. QED
    BY <1>1, <2>1, <2>2 DEF UpTo
<1>5. \A v \in Workflow \ {w} : HandOf(v)' = HandOf(v)
  <2>1. \A v \in Workflow \ {w}, u \in Thread : Executes(u, v)' <=> Executes(u, v)
    BY <1>1, <1>2 DEF Executes, Executing
  <2>2. QED
    BY <1>1, <2>1 DEF HandOf, Waits
<1>6. HandOf(w) = "held"
  BY <1>1 DEF HandOf, Tokens, GoesOn, Executes
<1>7. CASE Place(t)' = "succeeded" /\ wf'[t] = w /\ passed' = [passed EXCEPT ![w] = @ \cup {k}]
  <2>1. HandOf(w)' = "held"
    BY <1>1, <1>6, <1>7 DEF HandOf, Executes, Executing, Tokens, GoesOn
  <2>2. QED
    BY <1>1, <1>3, <1>4, <1>5, <1>6, <1>7, <2>1, HandsOf DEF Relay!Carry
<1>8. CASE Place(t)' \in {"failed", "idle"} /\ passed' = passed
  <2>1. \A u \in Thread : ~Executes(u, w)'
    BY <1>1, <1>8 DEF Executes, Executing, Tokens, OneToken
  <2>2. \A c \in Confirmation : ~Waits(c, w)'
    BY <1>1 DEF Waits, Tokens, OneToken
  <2>3. HandOf(w)' = "over"
    BY <1>1, <2>1, <2>2 DEF HandOf, Tokens, GoesOn, Executes
  <2>4. QED
    BY <1>1, <1>3, <1>4, <1>5, <1>6, <1>8, <2>3, HandsOf DEF Relay!Carry
<1>9. QED
  BY <1>1, <1>2, <1>7, <1>8

LEMMA AttachOffers ==
  ASSUME WorkflowInv, NEW t \in Thread, Attach(t), NEW w, w = wf[t]
  PROVE  w \in Workflow /\ (Relay!Offer(w) \/ Dwindles)
<1> USE DEF WorkflowInv, Types
<1>1. /\ Place(t) = "attach" /\ Place(t)' = "pause"
      /\ UNCHANGED <<wf, born, ran, passed>>
  BY DEF Attach, Goto, Shape, Place, Sweeping, history
<1>2. PICK c \in Confirmation, k \in 1..Steps :
        /\ c = cid[t] /\ k = step[t] /\ w \in Workflow /\ w \in born
        /\ conf' = [conf EXCEPT ![c].wf = w, ![c].at = k]
        /\ conf[c].state # "unborn" /\ conf[c].wf = None
  <2>1. w \in Workflow /\ step[t] \in 1..Steps /\ w \in born
    BY <1>1 DEF Fits, Executing, Tokens, GoesOn
  <2>2. /\ cid[t] \in Confirmation /\ conf[cid[t]].state # "unborn"
        /\ conf[cid[t]].wf = None
    BY <1>1 DEF Tokens, AttachedFirst
  <2>3. QED
    BY <2>1, <2>2 DEF Attach
<1>3. /\ \A d \in Confirmation \ {c} : conf'[d] = conf[d]
      /\ conf'[c].state = conf[c].state /\ conf'[c].wf = w
  BY <1>2, StepsAssumption, AttachWrite
<1>4. \A u \in Thread \ {t} : Place(u)' = Place(u)
  BY OthersKeep DEF Acts
<1>5. Executes(t, w) /\ HandOf(w) = "held"
  BY <1>1, <1>2 DEF HandOf, Executes, Executing
<1>6. \A v \in Workflow, u \in Thread : Executes(u, v)' <=> Executes(u, v) /\ v # w
  BY <1>1, <1>4, <1>5 DEF Executes, Executing, Tokens, OneToken
<1>7. CASE conf[c].state = "pending"
  <2>1. \A d \in Confirmation, v \in Workflow \ {w} : Waits(d, v)' <=> Waits(d, v)
    <3>1. ASSUME NEW v \in Workflow \ {w} PROVE ~Waits(c, v)' /\ ~Waits(c, v)
      BY <1>2, <1>3, <3>1, NoneAssumption DEF Waits
    <3>2. QED
      BY <1>3, <3>1 DEF Waits
  <2>2. \A v \in Workflow \ {w} : HandOf(v)' = HandOf(v)
    BY <1>1, <1>6, <2>1 DEF HandOf
  <2>3. HandOf(w)' = "offered"
    BY <1>1, <1>2, <1>3, <1>6, <1>7 DEF HandOf, Waits
  <2>4. [v \in Workflow |-> TriedOf(v)]' = [v \in Workflow |-> TriedOf(v)]
    BY <1>1 DEF TriedOf
  <2>5. QED
    BY <1>1, <1>2, <1>5, <2>2, <2>3, <2>4, HandsOf DEF Relay!Offer, Relay!Pass
<1>8. CASE conf[c].state # "pending"
  BY <1>1, <1>2, <1>3, <1>6, <1>8 DEF Dwindles, Waits
<1>9. QED
  BY <1>2, <1>7, <1>8

LEMMA ApprovalGrants ==
  ASSUME WorkflowInv, NEW t \in Thread, IsGranted(t), NEW w, w = wf[t]
  PROVE  w \in Workflow /\ Relay!Grant(w)
<1> USE DEF WorkflowInv, Types
<1>1. /\ Place(t) = "approve" /\ Place(t)' = "resume"
      /\ UNCHANGED <<wf, born, ran, passed>>
  BY DEF IsGranted, Approve, Place, Sweeping, history
<1>2. PICK c \in Confirmation :
        /\ w \in Workflow /\ w \in born /\ Waits(c, w)
        /\ conf' = [conf EXCEPT ![c].state = "approved"]
  <2>1. /\ cid[t] \in told /\ w = conf[cid[t]].wf /\ w \in Workflow
        /\ conf[cid[t]].state = "pending" /\ cid[t] \in Confirmation
    BY <1>1 DEF IsGranted, Shape, Tokens, UnderApproval, AttachedFirst
  <2>2. QED
    BY <2>1 DEF IsGranted, Waits, Tokens, GoesOn
<1>3. /\ \A d \in Confirmation \ {c} : conf'[d] = conf[d]
      /\ conf'[c].state = "approved" /\ conf'[c].wf = conf[c].wf
  BY <1>2, StateWrite DEF ConfState
<1>4. \A u \in Thread \ {t} : Place(u)' = Place(u)
  BY OthersKeep DEF Acts, IsGranted
<1>5. \A v \in Workflow, u \in Thread : Executes(u, v)' <=> Executes(u, v) \/ (u = t /\ v = w)
  BY <1>1, <1>4 DEF Executes, Executing
<1>6. \A v \in Workflow \ {w}, d \in Confirmation : Waits(d, v)' <=> Waits(d, v)
  <2>1. ASSUME NEW v \in Workflow \ {w} PROVE ~Waits(c, v)' /\ ~Waits(c, v)
    BY <1>2, <1>3 DEF Waits
  <2>2. QED
    BY <1>3, <2>1 DEF Waits
<1>7. \A v \in Workflow \ {w} : HandOf(v)' = HandOf(v)
  BY <1>1, <1>5, <1>6 DEF HandOf
<1>8. HandOf(w) = "offered"
  BY <1>2 DEF HandOf, Tokens, OneToken
<1>9. HandOf(w)' = "held"
  BY <1>1, <1>2, <1>5 DEF HandOf
<1>10. [v \in Workflow |-> TriedOf(v)]' = [v \in Workflow |-> TriedOf(v)]
  BY <1>1 DEF TriedOf
<1>11. QED
  BY <1>1, <1>2, <1>7, <1>8, <1>9, <1>10, HandsOf DEF Relay!Grant, Relay!Pass

LEMMA StepRelays ==
  ASSUME WorkflowInv, [Next]_vars
  PROVE  [Relay!RelayNext]_(Relay!relay)
<1>1. CASE Dwindles
  BY <1>1, DropsOnly DEF Relay!RelayNext
<1>2. CASE UNCHANGED vars
  BY <1>1, <1>2 DEF vars, stores, locals, history, Dwindles, Executes, Waits, Place
<1>3. ASSUME NEW t \in Thread, Acts(t) PROVE [Relay!RelayNext]_(Relay!relay)
  <2>1. ASSUME NEW w \in Workflow, Run(t, w) PROVE Relay!RelayNext
    BY <2>1, RunOpens DEF Relay!RelayNext
  <2>2. CASE Succeeds(t) \/ Fails(t) \/ Raises(t)
    BY <2>2, StepCarries DEF Relay!RelayNext
  <2>3. CASE Attach(t)
    BY <1>1, <2>3, AttachOffers DEF Relay!RelayNext
  <2>4. CASE IsGranted(t)
    BY <2>4, ApprovalGrants DEF Relay!RelayNext
  <2>5. QED
    BY <1>1, <1>3, <2>1, <2>2, <2>3, <2>4, ThreadCases, StaysInHand
<1>4. ASSUME \/ \E w \in Workflow : LifetimePasses(w)
             \/ \E c \in Confirmation : ConfirmationExpires(c)
      PROVE  Dwindles
  <2>1. UNCHANGED <<locals, born, history>>
    BY <1>4 DEF LifetimePasses, ConfirmationExpires
  <2>2. Quieter
    <3>1. CASE conf' = conf
      BY <3>1, QuietWrite DEF WorkflowInv, Types
    <3>2. CASE \E c \in Confirmation : ConfirmationExpires(c)
      BY <3>2, QuietWrite DEF ConfirmationExpires, WorkflowInv, Types
    <3>3. QED
      BY <1>4, <3>1, <3>2 DEF LifetimePasses
  <2>3. QED
    BY <2>1, <2>2 DEF Dwindles, Executes, Waits, Place, Quieter, locals, history
<1>5. QED
  BY <1>1, <1>2, <1>3, <1>4, StepCases

-----------------------------------------------------------------------------
(* What holds of every behaviour.                                          *)

(* Every record, confirmation and thread has the fields of its place: the  *)
(* store holds whole records, and what a thread writes back is one.        *)
THEOREM WorkflowTypeCorrect == Spec => []Types
<1>1. WorkflowInv => Types
  BY DEF WorkflowInv
<1>2. QED
  BY <1>1, AlwaysInv, PTL

(* Steps are carried out in order, through any number of pauses, sweeps,   *)
(* commands on stale records and threads: _execute_workflow goes on where  *)
(* the confirmation says, and all before it has succeeded.                 *)
THEOREM OrderKept == Spec => []StepsInOrder
<1>1. WorkflowInv => StepsInOrder
  BY DEF WorkflowInv, Tokens
<1>2. QED
  BY <1>1, AlwaysInv, PTL

(* No step is carried out twice, and at most one under each confirmation,  *)
(* which was approved: the claim confirmation_store.approve makes between  *)
(* concurrent /confirm's is enough, whatever the workflow records say.     *)
THEOREM CarriedOutOnce == Spec => []NoStepTwice
<1>1. WorkflowInv => NoStepTwice
  <2>1. SUFFICES ASSUME WorkflowInv PROVE NoStepTwice
    OBVIOUS
  <2>2. \A c \in Confirmation : used[c] <= 1 /\ (conf[c].state # "approved" => used[c] = 0)
    BY <2>1 DEF WorkflowInv, Tokens, UnderApproval
  <2>3. \A w \in Workflow, i \in 1..Steps : ran[w][i] <= 1
    BY <2>1 DEF WorkflowInv, Tokens, GoesOn
  <2>4. QED
    BY <2>2, <2>3 DEF NoStepTwice
<1>2. QED
  BY <1>1, AlwaysInv, PTL

(* A paused record and its confirmation agree on the workflow and the step *)
(* although they are written one after the other, to two stores.           *)
THEOREM PausedAgree == Spec => []PausedMatches
<1>1. WorkflowInv => PausedMatches
  BY DEF WorkflowInv
<1>2. QED
  BY <1>1, AlwaysInv, PTL

(* Workflows and confirmations implement the step relay: between any two    *)
(* operations of threads, timer and time a workflow passes from hand to     *)
(* hand as the relay says, goes on where the one before stopped, and is not *)
(* taken up again once a step failed or its confirmation ended otherwise.   *)
THEOREM RelayImplemented == Spec => ImplementsRelay
<1>1. Init => Relay!RelayInit
  BY DEF Init, Relay!RelayInit, HandOf, TriedOf
<1>2. QED
  BY <1>1, StepRelays, AlwaysInv, PTL DEF Spec, ImplementsRelay, Relay!RelaySpec

(* What the relay guarantees of every workflow reaches the threads: after a *)
(* step that failed or raised nobody executes the workflow, and no pending  *)
(* confirmation is attached to it.                                          *)
THEOREM OverOnceFailed == Spec => []Relay!OverAfterFailure
<1>1. Relay!RelayInit => Relay!OverAfterFailure
  BY DEF Relay!RelayInit, Relay!OverAfterFailure
<1>2. ASSUME Relay!OverAfterFailure, [Relay!RelayNext]_(Relay!relay), WorkflowInv
      PROVE  Relay!OverAfterFailure'
  <2>1. CASE UNCHANGED Relay!relay
    BY <1>2, <2>1 DEF Relay!relay, Relay!OverAfterFailure
  <2>2. ASSUME NEW w \in Workflow, Relay!Open(w) \/ Relay!Offer(w) \/ Relay!Grant(w)
        PROVE  Relay!OverAfterFailure'
    BY <1>2, <2>2 DEF Relay!Open, Relay!Offer, Relay!Grant, Relay!Pass, Relay!OverAfterFailure
  <2>3. ASSUME NEW w \in Workflow, NEW i \in 1..Steps, Relay!Carry(w, i)
        PROVE  Relay!OverAfterFailure'
    <3>1. passed \in [Workflow -> SUBSET (1..Steps)]
      BY <1>2 DEF WorkflowInv, Types, Shape
    <3> DEFINE hand == [v \in Workflow |-> HandOf(v)]
               tried == [v \in Workflow |-> TriedOf(v)]
    <3>2. /\ hand[w] = "held" /\ tried' = [tried EXCEPT ![w] = @ \cup {i}]
          /\ \/ passed' = [passed EXCEPT ![w] = @ \cup {i}] /\ hand' = hand
             \/ hand' = [hand EXCEPT ![w] = "over"] /\ passed' = passed
      BY <2>3 DEF Relay!Carry
    <3>3. DOMAIN tried = Workflow /\ DOMAIN hand = Workflow
      OBVIOUS
    <3>4. \A v \in Workflow : tried[v] \subseteq passed[v] \/ hand[v] = "over"
      BY <1>2 DEF Relay!OverAfterFailure
    <3> HIDE DEF hand, tried
    <3>5. ASSUME NEW v \in Workflow
          PROVE  tried'[v] \subseteq passed'[v] \/ hand'[v] = "over"
      BY <3>1, <3>2, <3>3, <3>4
    <3>6. QED
      BY <3>5 DEF Relay!OverAfterFailure, hand, tried
  <2>4. ASSUME NEW dropped \in SUBSET Workflow, Relay!Drop(dropped)
        PROVE  Relay!OverAfterFailure'
    BY <1>2, <2>4 DEF Relay!Drop, Relay!OverAfterFailure
  <2>5. QED
    BY <1>2, <2>1, <2>2, <2>3, <2>4 DEF Relay!RelayNext
<1>3. QED
  BY <1>1, <1>2, RelayImplemented, AlwaysInv, PTL DEF ImplementsRelay, Relay!RelaySpec
=============================================================================
