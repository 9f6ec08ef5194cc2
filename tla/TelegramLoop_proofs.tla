-------------------------- MODULE TelegramLoop_proofs --------------------------
(***************************************************************************)
(* Proofs about the chat polling loop, for any number of updates, loops,   *)
(* callers and crashes: no message is lost, with one caller every loop     *)
(* that still listens is the one stop reaches, and no command is carried   *)
(* out twice but after an exception.                                       *)
(***************************************************************************)
EXTENDS TelegramLoop, FiniteSetTheorems, TLAPS

(* One step of the specification, without the thread that takes it. *)
LEMMA StepCases ==
  ASSUME NEW P, Next,
         Arrive => P, Crash => P,
         \A c \in Caller : Start(c) => P,
         \A c \in Caller : Stop(c) => P,
         \A c \in Caller : StartSaves(c) => P,
         \A c \in Caller : StartRefused(c) => P,
         \A c \in Caller : Stopped(c) => P,
         \A c \in Caller, l \in Loop : Launch(c, l) => P,
         \A l \in Loop : Begin(l) => P,
         \A l \in Loop : Ask(l) => P,
         \A l \in Loop : Receive(l) => P,
         \A l \in Loop : PollFails(l) => P,
         \A l \in Loop : TakeUp(l) => P,
         \A l \in Loop : Leave(l) => P,
         \A l \in Loop : Check(l) => P,
         \A l \in Loop : Execute(l) => P,
         \A l \in Loop : Raises(l) => P,
         \A l \in Loop : Breaks(l) => P,
         \A l \in Loop : Send(l) => P,
         \A l \in Loop : Persist(l) => P,
         \A l \in Loop : Set(l) => P,
         \A l \in Loop : Image(l) => P,
         \A l \in Loop : Write(l) => P,
         \A l \in Loop : SaveFails(l) => P,
         \A l \in Loop : Report(l) => P
  PROVE  P
  BY DEF Next, CallStep, LoopStep

-----------------------------------------------------------------------------
(* Type correctness.                                                       *)

LEMMA PageOfUpdates == \A from : Page(from) \subseteq 1..sent
  BY DEF Page

LEMMA TypeStep == TypeOK /\ Next => TypeOK'
  <1> SUFFICES ASSUME TypeOK, Next PROVE TypeOK'
    OBVIOUS
  <1> USE UpdateAssumption, BoundAssumption, ThreadAssumption
      DEF TypeOK, Update, Message, Thread, Place
  <1>1. Arrive => TypeOK'
    BY DEF Arrive, process, history
  <1>2. Crash => TypeOK'
    <2> SUFFICES ASSUME Crash PROVE TypeOK'
      OBVIOUS
    <2>1. memory' \in 0..MaxUpdate /\ disk' \in 0..MaxUpdate
      BY DEF Crash, At
    <2> QED
      BY <2>1 DEF Crash, history, Alive
  <1>3. \A c \in Caller : Start(c) => TypeOK'
    BY DEF Start, Goto, At, history
  <1>4. \A c \in Caller : Stop(c) => TypeOK'
    BY SMTT(20) DEF Stop, Goto, At, history
  <1>5. \A c \in Caller : StartSaves(c) => TypeOK'
    BY DEF StartSaves, Goto, At, history
  <1>6. \A c \in Caller : StartRefused(c) => TypeOK'
    BY DEF StartRefused, Goto, At, history
  <1>7. \A c \in Caller : Stopped(c) => TypeOK'
    BY DEF Stopped, Goto, At, history
  <1>8. \A c \in Caller, l \in Loop : Launch(c, l) => TypeOK'
    <2> SUFFICES ASSUME NEW c \in Caller, NEW l \in Loop, Launch(c, l) PROVE TypeOK'
      OBVIOUS
    <2>1. overlap' \in BOOLEAN
      BY DEF Launch
    <2> QED
      BY <2>1 DEF Launch, At
  <1>9. \A l \in Loop : Begin(l) => TypeOK'
    BY DEF Begin, Goto, At, history
  <1>10. \A l \in Loop : Ask(l) => TypeOK'
    BY DEF Ask, Goto, At, history
  <1>11. \A l \in Loop : Receive(l) => TypeOK'
    BY PageOfUpdates DEF Receive, Goto, At, history
  <1>12. \A l \in Loop : PollFails(l) => TypeOK'
    <2> SUFFICES ASSUME NEW l \in Loop, PollFails(l) PROVE TypeOK'
      OBVIOUS
    <2>1. batch' \in [Loop -> SUBSET Message] /\ now' \in [Loop -> Message \cup {0}]
      BY DEF PollFails, Wait
    <2>2. pc' \in [Thread -> Place]
      BY DEF PollFails, Wait, Goto
    <2>3. /\ status' \in {"stopped", "starting", "running", "error"}
          /\ UNCHANGED <<sent, dropped, memory, disk, held, told, offset, snap, joined, crashes,
                         handled, cut, overlap>>
      BY DEF PollFails, Wait, history
    <2> QED
      BY <2>1, <2>2, <2>3
  <1>13. \A l \in Loop : TakeUp(l) => TypeOK'
    BY SMTT(20) DEF TakeUp, Goto, At, history
  <1>14. \A l \in Loop : Leave(l) => TypeOK'
    BY DEF Leave, Goto, At, history
  <1>15. \A l \in Loop : Check(l) => TypeOK'
    BY DEF Check, Goto, At, history
  <1>16. \A l \in Loop : Execute(l) => TypeOK'
    <2> SUFFICES ASSUME NEW l \in Loop, Execute(l) PROVE TypeOK'
      OBVIOUS
    <2>1. handled' \in [Message -> 0..2]
      <3>1. (IF handled[now[l]] = 0 THEN 1 ELSE 2) \in 0..2
        OBVIOUS
      <3> QED
        BY <3>1 DEF Execute
    <2>2. pc' \in [Thread -> Place]
      BY DEF Execute, Goto
    <2>3. cut' \subseteq Message \cup {0}
      BY DEF Execute
    <2> QED
      BY <2>1, <2>2, <2>3 DEF Execute
  <1>17. \A l \in Loop : Raises(l) => TypeOK'
    <2> SUFFICES ASSUME NEW l \in Loop, Raises(l) PROVE TypeOK'
      OBVIOUS
    <2>1. batch' \in [Loop -> SUBSET Message] /\ now' \in [Loop -> Message \cup {0}]
      BY DEF Raises, Wait
    <2>2. pc' \in [Thread -> Place]
      BY DEF Raises, Wait, Goto
    <2> QED
      BY <2>1, <2>2 DEF Raises, Wait, history
  <1>18. \A l \in Loop : Send(l) => TypeOK'
    BY DEF Send, Goto, At, history
  <1>19. \A l \in Loop : Persist(l) => TypeOK'
    BY DEF Persist, Goto, At, history
  <1>20. \A l \in Loop : Set(l) => TypeOK'
    BY DEF Set, Goto, At, history
  <1>21. \A l \in Loop : Image(l) => TypeOK'
    BY DEF Image, Goto, At, history
  <1>22. \A l \in Loop : Write(l) => TypeOK'
    BY DEF Write, Goto, At, history
  <1>23. \A l \in Loop : SaveFails(l) => TypeOK'
    <2> SUFFICES ASSUME NEW l \in Loop, SaveFails(l) PROVE TypeOK'
      OBVIOUS
    <2>1. batch' \in [Loop -> SUBSET Message] /\ now' \in [Loop -> Message \cup {0}]
      BY DEF SaveFails, Wait
    <2>2. pc' \in [Thread -> Place]
      BY DEF SaveFails, Wait, Goto
    <2> QED
      BY <2>1, <2>2 DEF SaveFails, Wait, history
  <1>24. \A l \in Loop : Report(l) => TypeOK'
    BY DEF Report, Goto, At, history
  <1>25. \A l \in Loop : Breaks(l) => TypeOK'
    <2> SUFFICES ASSUME NEW l \in Loop, Breaks(l) PROVE TypeOK'
      OBVIOUS
    <2>1. batch' \in [Loop -> SUBSET Message] /\ now' \in [Loop -> Message \cup {0}]
      BY DEF Breaks, Wait
    <2>2. pc' \in [Thread -> Place]
      BY DEF Breaks, Wait, Goto
    <2>3. cut' \subseteq Message \cup {0}
      BY DEF Breaks
    <2> QED
      BY <2>1, <2>2, <2>3 DEF Breaks, Wait
  <1> HIDE DEF TypeOK, Update, Message, Thread, Place
  <1> QED
    BY StepCases, <1>1, <1>2, <1>3, <1>4, <1>5, <1>6, <1>7, <1>8, <1>9, <1>10, <1>11, <1>12, <1>13,
       <1>14, <1>15, <1>16, <1>17, <1>18, <1>19, <1>20, <1>21, <1>22, <1>23, <1>24, <1>25

(* Every variable keeps its type. *)
THEOREM TelegramTypeCorrect == Spec => []TypeOK
  <1>1. Init => TypeOK
    <2> SUFFICES ASSUME Init PROVE TypeOK
      OBVIOUS
    <2>1. pc \in [Thread -> Place]
      BY DEF Init, Place
    <2>2. /\ handled \in [Message -> 0..2] /\ cut \subseteq Message \cup {0}
          /\ batch \in [Loop -> SUBSET Message]
          /\ offset \in [Loop -> 0..MaxUpdate] /\ snap \in [Thread -> 0..MaxUpdate]
      BY UpdateAssumption DEF Init
    <2>3. now \in [Loop -> Message \cup {0}] /\ joined \in [Caller -> Loop \cup {None}]
      BY DEF Init
    <2>4. /\ sent \in 0..MaxUpdate /\ dropped \in 0..MaxUpdate
          /\ memory \in 0..MaxUpdate /\ disk \in 0..MaxUpdate /\ crashes \in Nat
      BY UpdateAssumption DEF Init
    <2> QED
      BY <2>1, <2>2, <2>3, <2>4 DEF Init, TypeOK
  <1>2. TypeOK /\ UNCHANGED vars => TypeOK'
    BY DEF TypeOK, vars, process, history, Message, Update
  <1> QED
    BY <1>1, <1>2, TypeStep, PTL DEF Spec

-----------------------------------------------------------------------------
(* No message is lost. What a thread holds of the processed id is as true  *)
(* as what is stored: every message up to it was carried out. A batch has  *)
(* no gaps, and the update in hand has none before it.                     *)
Upto(n) == \A u \in Message : u <= n => handled[u] > 0

StoredOk == Upto(memory) /\ Upto(disk) /\ Upto(dropped)
OffsetOk == \A l \in Loop : Upto(offset[l])
SnapOk == \A t \in Thread : Upto(snap[t])
BatchOk ==
  \A l \in Loop : \A v \in batch[l] : \A u \in Message :
    u < v /\ u \notin batch[l] /\ u # now[l] => handled[u] > 0
NowOk ==
  \A l \in Loop : now[l] # 0 =>
    /\ \A u \in Message : u < now[l] => handled[u] > 0
    /\ \A v \in batch[l] : now[l] < v
DoneOk == \A l \in Loop :
            (pc[l] \notin {"check", "execute"} /\ now[l] # 0) => handled[now[l]] > 0
CutOk == \A u \in cut \cap Message : handled[u] > 0
RestOk == \A l \in Loop :
            /\ pc[l] \in {"unborn", "launch", "head", "asked", "ended"} => now[l] = 0
            /\ pc[l] \in {"check", "execute"} => now[l] # 0

Carried == StoredOk /\ OffsetOk /\ SnapOk /\ BatchOk /\ NowOk /\ DoneOk /\ CutOk /\ RestOk

(* A page has no gaps either. *)
LEMMA PageWhole ==
  ASSUME sent \in Nat, NEW from, NEW v \in Page(from), NEW u \in 1..sent, u > from, u < v
  PROVE  u \in Page(from)
  <1> DEFINE there == {x \in 1..sent : x > from}
             below(x) == {y \in there : y < x}
  <1>1. IsFiniteSet(there)
    <2>1. IsFiniteSet(1..sent)
      BY FS_Interval
    <2> QED
      BY <2>1, FS_Subset
  <1>2. IsFiniteSet(below(v)) /\ below(u) \subseteq below(v)
    <2>1. below(v) \subseteq there
      OBVIOUS
    <2>2. v \in 1..sent
      BY DEF Page
    <2> QED
      BY <1>1, <2>1, <2>2, FS_Subset
  <1>3. Cardinality(below(u)) <= Cardinality(below(v))
    BY <1>2, FS_Subset
  <1>4. Cardinality(below(v)) < PageSize
    BY DEF Page
  <1>5. Cardinality(below(u)) \in Nat /\ Cardinality(below(v)) \in Nat
    BY <1>2, FS_Subset, FS_CardinalityType
  <1> QED
    BY <1>3, <1>4, <1>5, BoundAssumption DEF Page

LEMMA UptoCases == \A u, n \in Nat : u <= n => u < n \/ u = n
  OBVIOUS

LEMMA CarriedStep == TypeOK /\ Carried /\ Next => Carried'
  <1> SUFFICES ASSUME TypeOK, Carried, Next PROVE Carried'
    OBVIOUS
  <1> USE UpdateAssumption, ThreadAssumption
      DEF TypeOK, Place, Update, Message, Thread, Carried, StoredOk, OffsetOk, SnapOk, BatchOk,
          NowOk, DoneOk, CutOk, RestOk, Upto, At
  <1>1. Arrive => Carried'
    BY DEF Arrive, process, history
  <1>2. Crash => Carried'
    <2> SUFFICES ASSUME Crash PROVE Carried'
      OBVIOUS
    <2>1. StoredOk'
      BY DEF Crash, history
    <2>2. now' = [l \in Loop |-> 0] /\ batch' = [l \in Loop |-> {}]
      BY DEF Crash
    <2>3. \A l \in Loop : pc'[l] \in {"unborn", "ended"}
      BY DEF Crash, Alive
    <2>4. BatchOk' /\ NowOk' /\ DoneOk' /\ RestOk'
      BY <2>2, <2>3
    <2>5. CutOk'
      BY DEF Crash, history
    <2> QED
      BY <2>1, <2>4, <2>5 DEF Crash, history
  <1>3. \A c \in Caller : Start(c) => Carried'
    BY DEF Start, Goto, history
  <1>4. \A c \in Caller : Stop(c) => Carried'
    BY DEF Stop, Goto, history
  <1>5. \A c \in Caller : StartSaves(c) => Carried'
    BY DEF StartSaves, Goto, history
  <1>6. \A c \in Caller : StartRefused(c) => Carried'
    BY DEF StartRefused, Goto, history
  <1>7. \A c \in Caller : Stopped(c) => Carried'
    BY DEF Stopped, Goto, history
  <1>8. \A c \in Caller, l \in Loop : Launch(c, l) => Carried'
    <2> SUFFICES ASSUME NEW c \in Caller, NEW l \in Loop, Launch(c, l) PROVE Carried'
      OBVIOUS
    <2>1. UNCHANGED <<memory, disk, dropped, offset, snap, batch, now, handled, cut>>
      BY DEF Launch
    <2>2. pc[l] = "unborn" /\ \A k \in Loop : pc'[k] = pc[k] \/ (k = l /\ pc'[k] = "launch")
      BY DEF Launch
    <2>3. StoredOk' /\ OffsetOk' /\ SnapOk' /\ BatchOk' /\ NowOk'
      BY <2>1
    <2>4. DoneOk' /\ CutOk' /\ RestOk'
      BY <2>1, <2>2
    <2> QED
      BY <2>3, <2>4
  <1>9. \A l \in Loop : Begin(l) => Carried'
    BY DEF Begin, Goto, history
  <1>10. \A l \in Loop : Ask(l) => Carried'
    BY DEF Ask, Goto, history
  <1>11. \A l \in Loop : Receive(l) => Carried'
    <2> SUFFICES ASSUME NEW l \in Loop, Receive(l) PROVE Carried'
      OBVIOUS
    <2> DEFINE from == IF offset[l] > dropped THEN offset[l] ELSE dropped
    <2>1. Upto(from)
      OBVIOUS
    <2>2. batch' = [batch EXCEPT ![l] = {u \in Page(from) : u \in Message}] /\ now[l] = 0
      BY DEF Receive
    <2>3. UNCHANGED <<memory, disk, offset, now, snap, handled, cut>> /\ dropped' = from
      BY DEF Receive, history
    <2>4. BatchOk'
      <3> SUFFICES ASSUME NEW v \in Page(from), v \in Message,
                          NEW u \in Message, u < v, u \notin Page(from)
                   PROVE  handled[u] > 0
        BY <2>2, <2>3
      <3>1. CASE u <= from
        BY <3>1, <2>1
      <3>2. CASE u > from
        <4>1. u \in 1..sent
          BY PageOfUpdates
        <4> QED
          BY <4>1, <3>2, PageWhole
      <3>3. from \in Nat
        OBVIOUS
      <3> HIDE DEF from
      <3> QED
        BY <3>1, <3>2, <3>3
    <2>5. NowOk'
      BY <2>2, <2>3
    <2>6. StoredOk' /\ OffsetOk' /\ SnapOk'
      BY <2>1, <2>3
    <2>7. DoneOk' /\ CutOk' /\ RestOk'
      BY <2>2, <2>3 DEF Receive, Goto
    <2> QED
      BY <2>4, <2>5, <2>6, <2>7
  <1>12. \A l \in Loop : PollFails(l) => Carried'
    BY DEF PollFails, Wait, Goto, history
  <1>13. \A l \in Loop : TakeUp(l) => Carried'
    <2> SUFFICES ASSUME NEW l \in Loop, TakeUp(l) PROVE Carried'
      OBVIOUS
    <2>1. StoredOk' /\ OffsetOk' /\ SnapOk' /\ CutOk'
      BY DEF TakeUp, history
    <2>2. BatchOk'
      <3>1. handled' = handled /\ (now[l] # 0 => handled[now[l]] > 0)
        BY DEF TakeUp, history
      <3>2. CASE batch' = [batch EXCEPT ![l] = {}] /\ now' = [now EXCEPT ![l] = 0]
        BY <3>1, <3>2
      <3>3. ASSUME NEW n \in batch[l], now' = [now EXCEPT ![l] = n],
                   batch' = [batch EXCEPT ![l] = @ \ {n}]
            PROVE  BatchOk'
        <4> SUFFICES ASSUME NEW k \in Loop, NEW v \in batch'[k], NEW u \in Message,
                            u < v, u \notin batch'[k], u # now'[k]
                     PROVE  handled[u] > 0
          BY <3>1
        <4>1. CASE k = l
          <5>1. v \in batch[l] /\ u \notin batch[l]
            BY <3>3, <4>1
          <5>2. CASE u = now[l]
            BY <3>1, <5>2
          <5>3. CASE u # now[l]
            BY <5>1, <5>3
          <5> QED
            BY <5>2, <5>3
        <4>2. CASE k # l
          BY <3>3, <4>2
        <4> QED
          BY <4>1, <4>2
      <3> QED
        BY <3>2, <3>3 DEF TakeUp
    <2>3. NowOk'
      <3>1. handled' = handled /\ (now[l] # 0 => handled[now[l]] > 0)
        BY DEF TakeUp, history
      <3>2. CASE batch' = [batch EXCEPT ![l] = {}] /\ now' = [now EXCEPT ![l] = 0]
        BY <3>1, <3>2
      <3>3. ASSUME NEW n \in batch[l], \A v \in batch[l] : n <= v,
                   now' = [now EXCEPT ![l] = n], batch' = [batch EXCEPT ![l] = @ \ {n}]
            PROVE  NowOk'
        <4>1. n \in Message /\ \A v \in batch[l] \ {n} : n < v
          BY <3>3
        <4>2. \A u \in Message : u < n => handled[u] > 0
          <5>1. \A u \in Message : u < n => u \notin batch[l]
            BY <3>3, <4>1
          <5> QED
            BY <3>1, <3>3, <5>1
        <4>3. /\ now'[l] = n /\ batch'[l] = batch[l] \ {n}
              /\ \A k \in Loop \ {l} : now'[k] = now[k] /\ batch'[k] = batch[k]
          BY <3>3
        <4> QED
          BY <3>1, <4>1, <4>2, <4>3
      <3> QED
        BY <3>2, <3>3 DEF TakeUp
    <2>4. DoneOk' /\ RestOk'
      <3>1. CASE pc' = [pc EXCEPT ![l] = "check"]
        <4>1. now'[l] \in Message /\ \A k \in Loop \ {l} : now'[k] = now[k]
          BY <3>1 DEF TakeUp, Goto
        <4>2. handled' = handled
          BY DEF TakeUp, history
        <4> QED
          BY <3>1, <4>1, <4>2
      <3>2. CASE pc' = [pc EXCEPT ![l] = "head"]
        <4>1. now' = [now EXCEPT ![l] = 0] /\ handled' = handled
          BY <3>2 DEF TakeUp, Goto, history
        <4> QED
          BY <3>2, <4>1
      <3> QED
        BY <3>1, <3>2 DEF TakeUp, Goto
    <2> QED
      BY <2>1, <2>2, <2>3, <2>4
  <1>14. \A l \in Loop : Leave(l) => Carried'
    BY DEF Leave, Goto, history
  <1>15. \A l \in Loop : Check(l) => Carried'
    BY DEF Check, Goto, history
  <1>16. \A l \in Loop : Execute(l) => Carried'
    <2> SUFFICES ASSUME NEW l \in Loop, Execute(l) PROVE Carried'
      OBVIOUS
    <2>1. now[l] \in Message
      BY DEF Execute
    <2>2. handled' \in [Message -> 0..2] /\ handled'[now[l]] > 0
      <3>1. CASE now[l] \in cut
        BY <2>1, <3>1 DEF Execute
      <3>2. CASE now[l] \notin cut
        BY <2>1, <3>2 DEF Execute
      <3> QED
        BY <3>1, <3>2
    <2>3. \A u \in Message : handled[u] > 0 => handled'[u] > 0
      BY <2>1 DEF Execute
    <2>4. UNCHANGED <<memory, disk, dropped, offset, snap, batch, now>>
      BY DEF Execute
    <2>5. StoredOk' /\ OffsetOk' /\ SnapOk'
      BY <2>3, <2>4
    <2>6. BatchOk' /\ NowOk'
      BY <2>3, <2>4
    <2>7. DoneOk' /\ RestOk'
      BY <2>2, <2>3, <2>4 DEF Execute, Goto
    <2>8. CutOk'
      BY <2>3 DEF Execute
    <2> QED
      BY <2>5, <2>6, <2>7, <2>8
  <1>17. \A l \in Loop : Raises(l) => Carried'
    BY DEF Raises, Wait, Goto, history
  <1>18. \A l \in Loop : Send(l) => Carried'
    BY DEF Send, Goto, history
  <1>19. \A l \in Loop : Persist(l) => Carried'
    BY DEF Persist, Goto, history
  <1>20. \A l \in Loop : Set(l) => Carried'
    <2> SUFFICES ASSUME NEW l \in Loop, Set(l) PROVE Carried'
      OBVIOUS
    <2>1. Upto(now[l])
      <3>1. CASE now[l] = 0
        BY <3>1
      <3>2. CASE now[l] # 0
        <4>1. handled[now[l]] > 0 /\ \A u \in Message : u < now[l] => handled[u] > 0
          BY <3>2 DEF Set
        <4>2. now[l] \in Nat /\ \A u \in Message : u \in Nat
          OBVIOUS
        <4>3. \A u \in Message : u <= now[l] => u < now[l] \/ u = now[l]
          BY <4>2, UptoCases
        <4> QED
          BY <4>1, <4>3
      <3> QED
        BY <3>1, <3>2
    <2>2. UNCHANGED <<disk, dropped, offset, snap, batch, now, handled, cut>> /\ memory' = now[l]
      BY DEF Set, history
    <2> QED
      BY <2>1, <2>2 DEF Set, Goto
  <1>21. \A l \in Loop : Image(l) => Carried'
    BY DEF Image, Goto, history
  <1>22. \A l \in Loop : Write(l) => Carried'
    BY DEF Write, Goto, history
  <1>23. \A l \in Loop : SaveFails(l) => Carried'
    BY DEF SaveFails, Wait, Goto, history
  <1>24. \A l \in Loop : Report(l) => Carried'
    BY DEF Report, Goto, history
  <1>25. \A l \in Loop : Breaks(l) => Carried'
    <2> SUFFICES ASSUME NEW l \in Loop, Breaks(l) PROVE Carried'
      OBVIOUS
    <2>1. CutOk'
      <3>1. now[l] \in Message => handled[now[l]] > 0
        BY DEF Breaks
      <3> QED
        BY <3>1 DEF Breaks
    <2>2. UNCHANGED <<memory, disk, dropped, offset, snap, handled>>
      BY DEF Breaks, Wait
    <2>3. DoneOk' /\ RestOk' /\ BatchOk' /\ NowOk'
      BY <2>2 DEF Breaks, Wait, Goto
    <2> QED
      BY <2>1, <2>2, <2>3
  <1> HIDE DEF TypeOK, Place, Update, Message, Thread, Carried, StoredOk, OffsetOk, SnapOk, BatchOk,
          NowOk, DoneOk, CutOk, RestOk, Upto
  <1> QED
    BY StepCases, <1>1, <1>2, <1>3, <1>4, <1>5, <1>6, <1>7, <1>8, <1>9, <1>10, <1>11, <1>12, <1>13,
       <1>14, <1>15, <1>16, <1>17, <1>18, <1>19, <1>20, <1>21, <1>22, <1>23, <1>24, <1>25

(* No message is lost, whatever crashes, stops or overlapping loops do: an *)
(* id counts as processed only when every message up to it was carried out. *)
THEOREM TelegramNoUpdateLost == Spec => []NoUpdateLost
  <1>1. Init => Carried
    BY UpdateAssumption, ThreadAssumption
       DEF Init, Carried, StoredOk, OffsetOk, SnapOk, BatchOk, NowOk, DoneOk, CutOk, RestOk,
           Upto, Update, Message,
           Thread
  <1>2. Carried /\ UNCHANGED vars => Carried'
    BY DEF Carried, StoredOk, OffsetOk, SnapOk, BatchOk, NowOk, DoneOk, CutOk, RestOk, Upto,
           vars, process, history
  <1>3. Carried => NoUpdateLost
    BY DEF Carried, StoredOk, Upto, NoUpdateLost
  <1> QED
    BY <1>1, <1>2, <1>3, CarriedStep, TelegramTypeCorrect, PTL DEF Spec

-----------------------------------------------------------------------------
(* With one thread of the window at a time, every loop that has not been   *)
(* told to stop is the one that is held.                                   *)
OneCaller == \A c, d \in Caller : c = d

(* The loop a stop waits for has been told, and while it waits no other    *)
(* can be held.                                                            *)
JoinTold == \A c \in Caller : pc[c] = "join" => joined[c] \in told /\ held \in {joined[c], None}
CallersApart == \A c \in Caller : pc[c] \in {"idle", "write", "start", "join"}
Reach == LoopReachable /\ JoinTold /\ CallersApart

LEMMA ReachStep == ASSUME OneCaller PROVE TypeOK /\ Reach /\ Next => Reach'
  <1> SUFFICES ASSUME TypeOK, Reach, Next PROVE Reach'
    OBVIOUS
  <1> USE ThreadAssumption, OneCaller
      DEF TypeOK, Thread, Reach, LoopReachable, JoinTold, CallersApart, Alive, At, OneCaller
  <1>1. Arrive => Reach'
    BY DEF Arrive, process, history
  <1>2. Crash => Reach'
    BY DEF Crash, history
  <1>3. \A c \in Caller : Start(c) => Reach'
    BY DEF Start, Goto, history
  <1>4. \A c \in Caller : Stop(c) => Reach'
    BY DEF Stop, Goto, history
  <1>5. \A c \in Caller : StartSaves(c) => Reach'
    BY DEF StartSaves, Goto, history
  <1>6. \A c \in Caller : StartRefused(c) => Reach'
    BY DEF StartRefused, Goto, history
  <1>7. \A c \in Caller : Stopped(c) => Reach'
    BY DEF Stopped, Goto, history
  <1>8. \A c \in Caller, l \in Loop : Launch(c, l) => Reach'
    BY DEF Launch
  <1>9. \A l \in Loop : Begin(l) => Reach'
    BY DEF Begin, Goto, history
  <1>10. \A l \in Loop : Ask(l) => Reach'
    BY DEF Ask, Goto, history
  <1>11. \A l \in Loop : Receive(l) => Reach'
    BY DEF Receive, Goto, history
  <1>12. \A l \in Loop : PollFails(l) => Reach'
    BY DEF PollFails, Wait, Goto, history
  <1>13. \A l \in Loop : TakeUp(l) => Reach'
    BY DEF TakeUp, Goto, history
  <1>14. \A l \in Loop : Leave(l) => Reach'
    BY DEF Leave, Goto, history
  <1>15. \A l \in Loop : Check(l) => Reach'
    BY DEF Check, Goto, history
  <1>16. \A l \in Loop : Execute(l) => Reach'
    BY DEF Execute, Goto
  <1>17. \A l \in Loop : Raises(l) => Reach'
    BY DEF Raises, Wait, Goto, history
  <1>18. \A l \in Loop : Send(l) => Reach'
    BY DEF Send, Goto, history
  <1>19. \A l \in Loop : Persist(l) => Reach'
    BY DEF Persist, Goto, history
  <1>20. \A l \in Loop : Set(l) => Reach'
    BY DEF Set, Goto, history
  <1>21. \A l \in Loop : Image(l) => Reach'
    BY DEF Image, Goto, history
  <1>22. \A l \in Loop : Write(l) => Reach'
    BY DEF Write, Goto, history
  <1>23. \A l \in Loop : SaveFails(l) => Reach'
    BY DEF SaveFails, Wait, Goto, history
  <1>24. \A l \in Loop : Report(l) => Reach'
    BY DEF Report, Goto, history
  <1>25. \A l \in Loop : Breaks(l) => Reach'
    BY DEF Breaks, Wait, Goto
  <1> HIDE DEF TypeOK, Thread, Reach
  <1> QED
    BY StepCases, <1>1, <1>2, <1>3, <1>4, <1>5, <1>6, <1>7, <1>8, <1>9, <1>10, <1>11, <1>12, <1>13,
       <1>14, <1>15, <1>16, <1>17, <1>18, <1>19, <1>20, <1>21, <1>22, <1>23, <1>24, <1>25

(* With one caller at a time the stop button reaches every loop that still *)
(* listens, also after a stop that gave up waiting.                        *)
THEOREM TelegramLoopReachable == ASSUME OneCaller PROVE Spec => []LoopReachable
  <1>1. Init => Reach
    BY ThreadAssumption DEF Init, Reach, LoopReachable, JoinTold, CallersApart, Alive, Thread
  <1>2. Reach /\ UNCHANGED vars => Reach'
    BY DEF Reach, LoopReachable, JoinTold, CallersApart, Alive, vars, process, history
  <1>3. Reach => LoopReachable
    BY DEF Reach
  <1> QED
    BY <1>1, <1>2, <1>3, ReachStep, TelegramTypeCorrect, PTL DEF Spec

-----------------------------------------------------------------------------
(* No command is carried out twice. Before a crash, and while no two loops *)
(* have run at once, there is one loop alive; what was carried out is      *)
(* counted as processed, but for what an exception cut off, and for the    *)
(* update that loop is between carrying out and counting; and that one,    *)
(* and the one it is about to carry out, are past what is counted.         *)
Calm == crashes = 0 /\ ~overlap
OneAlive == \A l, k \in Loop : Alive(l) /\ Alive(k) => l = k
Carrying(l) == pc[l] \in {"send", "persist", "set"}
Counted == \A u \in Message :
             handled[u] > 0 => \/ u <= memory \/ u \in cut
                               \/ \E l \in Loop : Carrying(l) /\ now[l] = u
Ahead == \A l \in Loop : Carrying(l) \/ pc[l] = "execute" => now[l] > memory
NoneTwice == \A u \in Message : handled[u] <= 1

Once == Calm => OneAlive /\ Counted /\ Ahead /\ NoneTwice

(* A step that ends a crash or an overlap is not possible, *)
LEMMA CalmBefore == TypeOK /\ Next /\ Calm' => Calm
  <1> SUFFICES ASSUME TypeOK, Next, Calm' PROVE Calm
    OBVIOUS
  <1>1. crashes \in Nat /\ overlap \in BOOLEAN
    BY DEF TypeOK
  <1>2. (crashes' = 0 => crashes = 0) /\ (overlap => overlap')
    <2> DEFINE P == (crashes' = 0 => crashes = 0) /\ (overlap => overlap')
    <2>1. UNCHANGED <<crashes, overlap>> => P
      OBVIOUS
    <2>2. Crash => P
      BY <1>1 DEF Crash, history
    <2>3. \A c \in Caller, l \in Loop : Launch(c, l) => P
      BY DEF Launch
    <2>4. Arrive \/ (\E c \in Caller : Start(c) \/ Stop(c) \/ StartSaves(c) \/ StartRefused(c)
                                         \/ Stopped(c)) => UNCHANGED <<crashes, overlap>>
      BY DEF Arrive, Start, Stop, StartSaves, StartRefused, Stopped, history
    <2>5. \A l \in Loop : LoopStep(l) => UNCHANGED <<crashes, overlap>>
      BY DEF LoopStep, Begin, Ask, Receive, PollFails, TakeUp, Leave, Check, Execute, Raises,
             Breaks, Wait, Send, Persist, Set, Image, Write, SaveFails, Report, history
    <2> HIDE DEF P
    <2>6. P
      BY <2>1, <2>2, <2>3, <2>4, <2>5 DEF Next, CallStep
    <2> QED
      BY <2>6 DEF P
  <1> QED
    BY <1>1, <1>2 DEF Calm

(* and what carries nothing out, and neither begins nor crashes, keeps what *)
(* is said of one loop.                                                     *)
LEMMA OnceStep == TypeOK /\ Once /\ Next => Once'
  <1> SUFFICES ASSUME TypeOK, Once, Next, Calm' PROVE (OneAlive /\ Counted /\ Ahead /\ NoneTwice)'
    BY DEF Once
  <1> DEFINE P == (OneAlive /\ Counted /\ Ahead /\ NoneTwice)'
  <1>0. /\ Calm /\ OneAlive /\ Counted /\ Ahead /\ NoneTwice
        /\ memory \in Nat /\ \A l \in Loop : now[l] \in Nat
    BY CalmBefore, UpdateAssumption DEF Once, TypeOK, Message, Update
  <1>a. ASSUME UNCHANGED <<memory, handled, cut>>,
               \A l \in Loop : /\ Alive(l)' => Alive(l)
                               /\ Carrying(l) => Carrying(l)' /\ now'[l] = now[l]
                               /\ Carrying(l)' => Carrying(l) /\ now'[l] = now[l]
                               /\ pc'[l] = "execute" => now'[l] > memory
        PROVE  P
    <2>1. OneAlive'
      BY <1>0, <1>a DEF OneAlive
    <2>2. Counted'
      BY <1>0, <1>a DEF Counted
    <2>3. Ahead'
      BY <1>0, <1>a DEF Ahead
    <2> QED
      BY <1>0, <1>a, <2>1, <2>2, <2>3 DEF NoneTwice
  <1>b. ASSUME UNCHANGED <<memory, handled, cut, now>>, \A l \in Loop : pc'[l] = pc[l]
        PROVE  P
    BY <1>0, <1>a, <1>b DEF Alive, Carrying, Ahead
  <1> HIDE DEF P
  <1>1. Arrive => P
    BY <1>b DEF Arrive, process, history
  <1>2. Crash => P
    BY <1>0 DEF Crash, Calm
  <1>3. \A c \in Caller : Start(c) \/ Stop(c) \/ StartSaves(c) \/ StartRefused(c) \/ Stopped(c) => P
    <2> SUFFICES ASSUME NEW c \in Caller,
                        Start(c) \/ Stop(c) \/ StartSaves(c) \/ StartRefused(c) \/ Stopped(c)
                 PROVE  P
      OBVIOUS
    <2>1. UNCHANGED <<memory, handled, cut, now>>
      BY DEF Start, Stop, StartSaves, StartRefused, Stopped, history
    <2>2. \A l \in Loop : pc'[l] = pc[l]
      BY ThreadAssumption DEF TypeOK, Thread, Start, Stop, StartSaves, StartRefused, Stopped, Goto
    <2> QED
      BY <1>b, <2>1, <2>2
  <1>4. \A c \in Caller, l \in Loop : Launch(c, l) => P
    <2> SUFFICES ASSUME NEW c \in Caller, NEW l \in Loop, Launch(c, l) PROVE P
      OBVIOUS
    <2>1. \A k \in Loop : ~Alive(k)
      BY DEF Launch, Calm
    <2>2. \A k \in Loop : pc'[k] = IF k = l THEN "launch" ELSE pc[k]
      BY ThreadAssumption DEF TypeOK, Thread, Launch
    <2>3. UNCHANGED <<memory, handled, cut, now>>
      BY DEF Launch
    <2>4. \A k \in Loop : ~Carrying(k) /\ ~Carrying(k)' /\ pc'[k] # "execute"
      BY <2>1, <2>2 DEF Alive, Carrying
    <2>5. OneAlive'
      BY <2>1, <2>2 DEF OneAlive, Alive
    <2>6. Counted' /\ Ahead'
      BY <1>0, <2>3, <2>4 DEF Counted, Ahead
    <2> QED
      BY <1>0, <2>3, <2>5, <2>6 DEF NoneTwice, P
  <1>5. \A l \in Loop : (\/ Begin(l) \/ Ask(l) \/ Receive(l) \/ PollFails(l) \/ TakeUp(l)
                         \/ Leave(l) \/ Raises(l) \/ Image(l) \/ Write(l) \/ SaveFails(l)
                         \/ Report(l)) => P
    <2> SUFFICES ASSUME NEW l \in Loop,
                        \/ Begin(l) \/ Ask(l) \/ Receive(l) \/ PollFails(l) \/ TakeUp(l) \/ Leave(l)
                        \/ Raises(l) \/ Image(l) \/ Write(l) \/ SaveFails(l) \/ Report(l)
                 PROVE  P
      OBVIOUS
    <2>1. UNCHANGED <<memory, handled, cut>>
      BY DEF Begin, Ask, Receive, PollFails, TakeUp, Leave, Raises, Image, Write, SaveFails, Report,
             history
    <2>2. \A k \in Loop : k # l => pc'[k] = pc[k] /\ now'[k] = now[k]
      BY DEF TypeOK, Thread, Begin, Ask, Receive, PollFails, TakeUp, Leave, Raises, Image, Write,
             SaveFails, Report, Wait, Goto
    <2>3. /\ pc[l] \in {"launch", "head", "asked", "next", "execute", "image", "write", "report"}
          /\ pc'[l] \in {"head", "asked", "next", "check", "ended", "write", "report"}
      BY DEF TypeOK, Thread, Begin, Ask, Receive, PollFails, TakeUp, Leave, Raises, Image, Write,
             SaveFails, Report, Wait, Goto, At
    <2> QED
      BY <1>0, <1>a, <2>1, <2>2, <2>3 DEF Alive, Carrying, Ahead
  <1>6. \A l \in Loop : Check(l) => P
    <2> SUFFICES ASSUME NEW l \in Loop, Check(l) PROVE P
      OBVIOUS
    <2>1. UNCHANGED <<memory, handled, cut, now>> /\ pc[l] = "check"
      BY DEF Check, At, history
    <2>2. \A k \in Loop : k # l => pc'[k] = pc[k]
      BY DEF TypeOK, Thread, Check, Goto
    <2>3. pc'[l] = IF now[l] <= memory THEN "next" ELSE "execute"
      BY DEF TypeOK, Thread, Check, Goto
    <2> QED
      BY <1>0, <1>a, <2>1, <2>2, <2>3 DEF Alive, Carrying, Ahead
  <1>7. \A l \in Loop : Execute(l) => P
    <2> SUFFICES ASSUME NEW l \in Loop, Execute(l) PROVE P
      OBVIOUS
    <2>1. /\ pc[l] = "execute" /\ now[l] > memory /\ UNCHANGED <<memory, now>>
          /\ handled' = IF now[l] \in cut THEN handled
                        ELSE [handled EXCEPT ![now[l]] = IF @ = 0 THEN 1 ELSE 2]
          /\ cut' = cut \ {now[l]}
      BY <1>0 DEF Execute, At, Ahead
    <2>2. \A k \in Loop : k # l => ~Alive(k)
      BY <1>0, <2>1 DEF OneAlive, Alive
    <2>3. /\ pc'[l] = "send"
          /\ \A k \in Loop : k # l => pc'[k] = pc[k]
      BY DEF TypeOK, Thread, Execute, Goto
    <2>4. now[l] \in Message
      BY <1>0, <2>1 DEF TypeOK
    <2>5. handled[now[l]] \in 0..2 /\ (handled[now[l]] > 0 => now[l] \in cut)
      <3>1. \A k \in Loop : ~Carrying(k)
        BY <2>1, <2>2 DEF Alive, Carrying
      <3> QED
        BY <1>0, <2>1, <2>4, <3>1 DEF Counted, TypeOK
    <2>6. handled'[now[l]] <= 1 /\ \A u \in Message : u # now[l] => handled'[u] = handled[u]
      <3>1. CASE now[l] \in cut
        BY <1>0, <2>1, <2>4, <3>1 DEF NoneTwice
      <3>2. CASE now[l] \notin cut
        BY <2>1, <2>4, <2>5, <3>2 DEF TypeOK
      <3> QED
        BY <3>1, <3>2
    <2>7. Carrying(l)' /\ \A k \in Loop : k # l => ~Carrying(k) /\ pc'[k] \in {"unborn", "ended"}
      BY <2>2, <2>3 DEF Alive, Carrying
    <2>8. OneAlive'
      BY <2>7 DEF OneAlive, Alive
    <2>9. NoneTwice'
      BY <1>0, <2>6 DEF NoneTwice
    <2>10. Counted'
      <3>1. \A k \in Loop : ~Carrying(k)
        BY <2>1, <2>7 DEF Carrying
      <3> QED
        BY <1>0, <2>1, <2>6, <2>7, <3>1 DEF Counted
    <2>11. Ahead'
      BY <1>0, <2>1, <2>7 DEF Ahead, Carrying
    <2> QED
      BY <2>8, <2>9, <2>10, <2>11 DEF P
  <1>8. \A l \in Loop : Send(l) \/ Persist(l) => P
    <2> SUFFICES ASSUME NEW l \in Loop, Send(l) \/ Persist(l) PROVE P
      OBVIOUS
    <2>1. UNCHANGED <<memory, handled, cut, now>> /\ pc[l] \in {"send", "persist"}
      BY DEF Send, Persist, At, history
    <2>2. now[l] > memory
      BY <1>0, <2>1 DEF Ahead, Carrying
    <2>3. \A k \in Loop : k # l => pc'[k] = pc[k]
      BY DEF TypeOK, Thread, Send, Persist, Goto
    <2>4. pc'[l] \in {"persist", "set"}
      <3>1. ~(now[l] <= memory)
        BY <1>0, <2>2
      <3> QED
        BY <3>1 DEF TypeOK, Thread, Send, Persist, Goto
    <2> QED
      BY <1>0, <1>a, <2>1, <2>3, <2>4 DEF Alive, Carrying, Ahead
  <1>9. \A l \in Loop : Set(l) => P
    <2> SUFFICES ASSUME NEW l \in Loop, Set(l) PROVE P
      OBVIOUS
    <2>1. UNCHANGED <<handled, cut, now>> /\ memory' = now[l] /\ pc[l] = "set"
      BY DEF Set, At, history
    <2>2. now[l] > memory
      BY <1>0, <2>1 DEF Ahead, Carrying
    <2>3. pc'[l] = "image" /\ \A k \in Loop : k # l => pc'[k] = pc[k]
      BY DEF TypeOK, Thread, Set, Goto
    <2>4. \A k \in Loop : k # l => ~Alive(k) /\ pc'[k] \in {"unborn", "ended"}
      BY <1>0, <2>1, <2>3 DEF OneAlive, Alive
    <2>5. \A k \in Loop : ~Carrying(k)' /\ pc'[k] # "execute" /\ (k # l => ~Carrying(k))
      BY <2>3, <2>4 DEF Alive, Carrying
    <2>6. OneAlive' /\ Ahead' /\ NoneTwice'
      BY <1>0, <2>1, <2>4, <2>5 DEF OneAlive, Alive, Ahead, NoneTwice
    <2>7. \A u \in Message : u \in Nat
      BY UpdateAssumption DEF Message, Update
    <2>8. Counted'
      BY <1>0, <2>1, <2>2, <2>5, <2>7 DEF Counted
    <2> QED
      BY <2>6, <2>8 DEF P
  <1>10. \A l \in Loop : Breaks(l) => P
    <2> SUFFICES ASSUME NEW l \in Loop, Breaks(l) PROVE P
      OBVIOUS
    <2>1. UNCHANGED <<memory, handled>> /\ cut' = cut \cup {now[l]} /\ pc[l] = "send"
      BY DEF Breaks, At
    <2>2. \A k \in Loop : k # l => pc'[k] = pc[k] /\ now'[k] = now[k]
      BY DEF TypeOK, Thread, Breaks, Wait, Goto
    <2>3. pc'[l] = "head"
      BY DEF TypeOK, Thread, Breaks, Wait, Goto
    <2>4. OneAlive' /\ Ahead' /\ NoneTwice'
      BY <1>0, <2>1, <2>2, <2>3 DEF OneAlive, Alive, Ahead, Carrying, NoneTwice
    <2>5. Counted'
      BY <1>0, <2>1, <2>2, <2>3 DEF Counted, Carrying
    <2> QED
      BY <2>4, <2>5 DEF P
  <1>11. P
    <2>1. CASE Arrive \/ Crash
      BY <2>1, <1>1, <1>2
    <2>2. ASSUME NEW c \in Caller, Start(c) \/ Stop(c) \/ CallStep(c) PROVE P
      <3>1. CASE \E l \in Loop : Launch(c, l)
        BY <3>1, <1>4
      <3> QED
        BY <2>2, <3>1, <1>3 DEF CallStep
    <2>3. ASSUME NEW l \in Loop, LoopStep(l) PROVE P
      BY <2>3, <1>5, <1>6, <1>7, <1>8, <1>9, <1>10 DEF LoopStep
    <2> QED
      BY <2>1, <2>2, <2>3 DEF Next
  <1> QED
    BY <1>11 DEF P

(* Without a crash, and as long as no two loops run at once, no command is *)
(* carried out again unless an exception cut its handling off before the   *)
(* update was counted, however often the loop is stopped and started and   *)
(* whichever replies are refused and saves fail.                           *)
THEOREM TelegramOnlyOnce == Spec => []OnlyOnce
  <1>1. Init => Once
    BY UpdateAssumption, ThreadAssumption
       DEF Init, Once, OneAlive, Counted, Ahead, NoneTwice, Carrying, Alive, Thread
  <1>2. Once /\ UNCHANGED vars => Once'
    BY DEF Once, Calm, OneAlive, Counted, Ahead, NoneTwice, Carrying, Alive, vars, process, history
  <1>3. Once => OnlyOnce
    BY DEF Once, Calm, NoneTwice, OnlyOnce
  <1> QED
    BY <1>1, <1>2, <1>3, OnceStep, TelegramTypeCorrect, PTL DEF Spec
=============================================================================
