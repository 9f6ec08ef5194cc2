-------------------------- MODULE Evaluation_proofs --------------------------
(***************************************************************************)
(* Proofs about Evaluation for every set of loops and clients, every       *)
(* session definition with positive limits, and any number of calls and    *)
(* crashes: type correctness, one loop, what the stored runs account for,  *)
(* and that the counts of regressions and recoveries are those of the      *)
(* stored runs in their order.                                             *)
(***************************************************************************)
EXTENDS Evaluation, FiniteSetTheorems, TLAPS

Run == [iteration : Nat, ok : BOOLEAN]

Place == {"idle", "head", "read", "begin", "run", "store", "next", "wait", "woken",
          "settle", "cleanup"}

(* What a run leaves of the record it is applied to: one more run counted, and
   at most one regression or recovery (evaluation_runner.py, _apply_run_outcome). *)
LEMMA OutcomeCounts ==
    ASSUME cfg \in Configs, NEW session \in SessionRecord, NEW result \in Results, NEW list
    PROVE  LET after == Outcome(session, result, list)
               ok == result.ok
           IN  /\ after \in SessionRecord
               /\ after.done = session.done + 1
               /\ after.regressions = session.regressions + (IF Regression(list, ok) THEN 1 ELSE 0)
               /\ after.recoveries = session.recoveries + (IF Recovery(list, ok) THEN 1 ELSE 0)
<1> DEFINE ok == result.ok
           d == session.done + 1
           g == session.good + (IF ok THEN 1 ELSE 0)
           b == session.bad + (IF ok THEN 0 ELSE 1)
           r == session.regressions + (IF Regression(list, ok) THEN 1 ELSE 0)
           v == session.recoveries + (IF Recovery(list, ok) THEN 1 ELSE 0)
           s == IF ~result.job THEN session.streak ELSE IF ok THEN 0 ELSE session.streak + 1
           counted == [session EXCEPT !.done = d, !.good = g, !.bad = b, !.regressions = r,
                                      !.recoveries = v, !.streak = s]
<1>1. d \in Nat /\ g \in Nat /\ b \in Nat /\ r \in Nat /\ v \in Nat /\ s \in Nat
  BY DEF SessionRecord
<1>2. Outcome(session, result, list)
        \in {counted, [counted EXCEPT !.status = "blocked"], [counted EXCEPT !.status = "failed"]}
  BY DEF Outcome
<1> HIDE DEF d, g, b, r, v, s
<1>3. /\ counted \in SessionRecord
      /\ counted.done = d /\ counted.regressions = r /\ counted.recoveries = v
  BY <1>1 DEF SessionRecord
<1> HIDE DEF counted
<1>4. ASSUME NEW status \in {"blocked", "failed"}, NEW after,
             after = [counted EXCEPT !.status = status]
      PROVE  after \in SessionRecord
             /\ after.done = d /\ after.regressions = r /\ after.recoveries = v
  BY <1>3, <1>4 DEF SessionRecord, Settled
<1>5. LET after == Outcome(session, result, list)
      IN  after \in SessionRecord
          /\ after.done = d /\ after.regressions = r /\ after.recoveries = v
  BY <1>2, <1>3, <1>4
<1>6. QED
  BY <1>5 DEF d, r, v

(* A stored run makes the list one longer, wherever it is put. *)
LEMMA StoredTyped ==
    ASSUME runs \in Seq(Run), NEW run \in Run, NEW list \in Stored(run)
    PROVE  list \in Seq(Run) /\ Len(list) = Len(runs) + 1
<1>1. PICK i \in 0 .. Len(runs) :
         list = SubSeq(runs, 1, i) \o <<run>> \o SubSeq(runs, i + 1, Len(runs))
  BY DEF Stored
<1>2. Len(runs) \in Nat /\ i \in Nat /\ i <= Len(runs)
  BY <1>1
<1>3. SubSeq(runs, 1, i) \in Seq(Run) /\ Len(SubSeq(runs, 1, i)) = i
  BY <1>2
<1>4. /\ SubSeq(runs, i + 1, Len(runs)) \in Seq(Run)
      /\ Len(SubSeq(runs, i + 1, Len(runs))) = Len(runs) - i
  BY <1>2
<1>5. <<run>> \in Seq(Run) /\ Len(<<run>>) = 1
  OBVIOUS
<1>6. \A s, t \in Seq(Run) : s \o t \in Seq(Run) /\ Len(s \o t) = Len(s) + Len(t)
  OBVIOUS
<1> DEFINE before == SubSeq(runs, 1, i)
           after == SubSeq(runs, i + 1, Len(runs))
<1> HIDE DEF before, after
<1>7. before \in Seq(Run) /\ Len(before) = i /\ after \in Seq(Run) /\ Len(after) = Len(runs) - i
  BY <1>3, <1>4 DEF before, after
<1>8. before \o <<run>> \in Seq(Run) /\ Len(before \o <<run>>) = i + 1
  BY <1>2, <1>5, <1>6, <1>7
<1>9. list = (before \o <<run>>) \o after
  BY <1>1 DEF before, after
<1>10. QED
  BY <1>2, <1>6, <1>7, <1>8, <1>9

(* Over runs numbered one after the other, the next number is put last. *)
LEMMA StoredLast ==
    ASSUME runs \in Seq(Run), NEW run \in Run, NEW list \in Stored(run),
           \A i \in 1 .. Len(runs) : runs[i].iteration = i,
           run.iteration = Len(runs) + 1
    PROVE  /\ \A i \in 1 .. Len(runs) : list[i] = runs[i]
           /\ list[Len(runs) + 1] = run
<1>1. PICK i \in 0 .. Len(runs) :
         /\ list = SubSeq(runs, 1, i) \o <<run>> \o SubSeq(runs, i + 1, Len(runs))
         /\ i < Len(runs) => runs[i + 1].iteration >= run.iteration
  BY DEF Stored
<1>2. i = Len(runs)
  <2>1. Len(runs) \in Nat /\ i \in Nat /\ i <= Len(runs)
    BY <1>1
  <2>2. ASSUME i < Len(runs) PROVE FALSE
    <3>1. i + 1 \in 1 .. Len(runs)
      BY <2>1, <2>2
    <3>2. runs[i + 1].iteration = i + 1
      BY <3>1
    <3>3. QED
      BY <1>1, <2>1, <2>2, <3>2
  <2>3. QED
    BY <2>1, <2>2
<1>3. SubSeq(runs, 1, i) = runs /\ SubSeq(runs, i + 1, Len(runs)) = << >>
  BY <1>2
<1>4. list = runs \o <<run>> \o << >>
  BY <1>1, <1>3
<1>5. QED
  BY <1>4

(* The changes in a list of runs are those before its last run, and the last
   run when it differs from the one before it. *)
ChangesIn(list, from) ==
    {i \in 2 .. Len(list) : list[i - 1].ok = from /\ list[i].ok # from}

LEMMA ChangesGrow ==
    ASSUME NEW old \in Seq(Run), NEW new \in Seq(Run), NEW from \in BOOLEAN,
           Len(new) = Len(old) + 1,
           \A i \in 1 .. Len(old) : new[i] = old[i]
    PROVE  Cardinality(ChangesIn(new, from))
             = Cardinality(ChangesIn(old, from))
               + (IF /\ Len(new) >= 2
                     /\ new[Len(new) - 1].ok = from
                     /\ new[Len(new)].ok # from THEN 1 ELSE 0)
<1> DEFINE n == Len(old)
           differs == /\ Len(new) >= 2
                      /\ new[Len(new) - 1].ok = from
                      /\ new[Len(new)].ok # from
<1>1. n \in Nat /\ Len(new) = n + 1
  OBVIOUS
<1>2. IsFiniteSet(ChangesIn(old, from)) /\ n + 1 \notin ChangesIn(old, from)
  <2>1. ChangesIn(old, from) \subseteq 2 .. n /\ n + 1 \notin 2 .. n
    BY <1>1 DEF ChangesIn
  <2>2. IsFiniteSet(2 .. n)
    <3>1. 2 \in Int /\ n \in Int
      BY <1>1
    <3>2. QED
      BY <3>1, FS_Interval, Zenon
  <2>3. QED
    BY <2>1, <2>2, FS_Subset
<1>3. ASSUME NEW i \in 2 .. n PROVE i \in ChangesIn(new, from) <=> i \in ChangesIn(old, from)
  <2>1. i - 1 \in 1 .. n /\ i \in 1 .. n /\ i \in 2 .. n + 1
    BY <1>1
  <2>2. new[i] = old[i] /\ new[i - 1] = old[i - 1]
    BY <2>1
  <2>3. QED
    BY <1>1, <2>1, <2>2 DEF ChangesIn
<1>4. n + 1 \in ChangesIn(new, from) <=> differs
  BY <1>1 DEF ChangesIn
<1>5. ASSUME NEW i PROVE i \in ChangesIn(new, from) => i \in 2 .. n \/ i = n + 1
  BY <1>1 DEF ChangesIn
<1>6. ASSUME NEW i PROVE i \in ChangesIn(old, from) => i \in 2 .. n
  BY DEF ChangesIn
<1>7. CASE differs
  <2>1. ChangesIn(new, from) = ChangesIn(old, from) \cup {n + 1}
    BY <1>3, <1>4, <1>5, <1>6, <1>7
  <2>2. QED
    BY <1>2, <1>7, <2>1, FS_AddElement, ZenonT(30)
<1>8. CASE ~differs
  <2>1. ChangesIn(new, from) = ChangesIn(old, from)
    BY <1>3, <1>4, <1>5, <1>6, <1>8
  <2>2. QED
    BY <1>2, <1>8, <2>1, FS_CardinalityType
<1>9. QED
  BY <1>7, <1>8

(* The limits settle a session or leave it running. *)
LEMMA LimitTyped ==
    ASSUME NEW session
    PROVE  Limit(session) \in Settled \cup {"running"}
BY DEF Limit, Settled

LEMMA StatusEdits ==
    ASSUME NEW session \in SessionRecord, NEW status \in Settled \cup {"created", "running"}
    PROVE  LET edited == [session EXCEPT !.status = status]
           IN  /\ edited \in SessionRecord
               /\ edited.done = session.done
               /\ edited.regressions = session.regressions
               /\ edited.recoveries = session.recoveries
BY DEF SessionRecord

LEMMA WriteTyped ==
    ASSUME NEW record \in SessionRecord, Write(record), TypeOK
    PROVE  /\ rec' = record /\ rec' \in SessionRecord /\ lost' \in Nat
           /\ rec.done + lost <= rec'.done + lost' /\ lost <= lost'
           /\ rec.done \in Nat /\ record.done \in Nat /\ lost \in Nat
<1>1. rec.done \in Nat /\ record.done \in Nat /\ lost \in Nat
  BY DEF TypeOK, SessionRecord
<1>2. QED
  BY <1>1 DEF Write

-----------------------------------------------------------------------------
LEMMA InitTyped == Init => TypeOK
<1> SUFFICES ASSUME Init PROVE TypeOK
  OBVIOUS
<1>1. Created \in SessionRecord
  BY DEF Created, SessionRecord
<1>2. /\ rec \in SessionRecord /\ copy \in [Loop -> SessionRecord]
      /\ held \in [Client -> SessionRecord]
  BY <1>1 DEF Init
<1>3. runs \in Seq([iteration : Nat, ok : BOOLEAN])
  BY DEF Init
<1>4. QED
  BY <1>2, <1>3 DEF Init, TypeOK

LEMMA NextTyped == TypeOK /\ [Next]_vars => TypeOK'
<1> SUFFICES ASSUME TypeOK, [Next]_vars PROVE TypeOK'
  OBVIOUS
<1>0. /\ \A c \in Client : held[c] \in SessionRecord
      /\ \A l \in Loop : copy[l] \in SessionRecord
      /\ rec \in SessionRecord /\ cfg \in Configs
  BY DEF TypeOK
<1>a. ASSUME NEW l \in Loop, NEW p \in Place, Goto(l, p) PROVE pc' \in [Loop -> Place]
  BY <1>a DEF TypeOK, Place, Goto
<1>1. ASSUME NEW l \in Loop, CheckEvent(l) \/ Wait(l) PROVE TypeOK'
  BY <1>1 DEF TypeOK, CheckEvent, Wait, Goto, callVars
<1>2. ASSUME NEW l \in Loop, ReadAndDecide(l) PROVE TypeOK'
  <2>1. [rec EXCEPT !.status = IF @ = "running" THEN Limit(rec) ELSE @] \in SessionRecord
    BY <1>0, LimitTyped DEF SessionRecord
  <2>2. copy' \in [Loop -> SessionRecord]
    BY <1>2, <2>1 DEF TypeOK, ReadAndDecide
  <2>3. QED
    BY <1>2, <2>2 DEF TypeOK, ReadAndDecide, Goto, callVars
<1>3. ASSUME NEW l \in Loop, Begin(l) \/ ScheduleNext(l) \/ Settle(l) PROVE TypeOK'
  <2>1. rec' \in SessionRecord /\ lost' \in Nat
    BY <1>0, <1>3, WriteTyped DEF Begin, ScheduleNext, Settle
  <2>2. QED
    BY <1>3, <2>1 DEF TypeOK, Begin, ScheduleNext, Settle, Goto, callVars
<1>4. ASSUME NEW l \in Loop, RunEnds(l) PROVE TypeOK'
  <2>1. PICK result \in Results :
          \E list \in Stored([iteration |-> copy[l].done + 1, ok |-> result.ok]) :
             runs' = list /\ copy' = [copy EXCEPT ![l] = Outcome(@, result, list)]
    BY <1>4 DEF RunEnds
  <2>2. [iteration |-> copy[l].done + 1, ok |-> result.ok] \in Run
    BY <1>0 DEF SessionRecord, Results, Run
  <2>3. PICK list \in Stored([iteration |-> copy[l].done + 1, ok |-> result.ok]) :
             runs' = list /\ copy' = [copy EXCEPT ![l] = Outcome(@, result, list)]
    BY <2>1
  <2>4. list \in Seq(Run)
    BY <2>2, StoredTyped DEF TypeOK, Run
  <2>5. Outcome(copy[l], result, list) \in SessionRecord
    BY <1>0, OutcomeCounts
  <2>6. runs' \in Seq(Run) /\ copy' \in [Loop -> SessionRecord]
    BY <2>3, <2>4, <2>5 DEF TypeOK
  <2>7. QED
    BY <1>4, <2>6 DEF TypeOK, RunEnds, Goto, callVars, Run
<1>5. ASSUME NEW l \in Loop, StoreOutcome(l) PROVE TypeOK'
  <2>1. rec' \in SessionRecord /\ lost' \in Nat
    BY <1>0, <1>5, WriteTyped DEF StoreOutcome
  <2>2. [copy[l] EXCEPT !.status = IF @ = "running" THEN Limit(copy[l]) ELSE @] \in SessionRecord
    BY <1>0, LimitTyped DEF SessionRecord
  <2>3. copy' \in [Loop -> SessionRecord]
    BY <1>5, <2>2 DEF TypeOK, StoreOutcome
  <2>4. QED
    BY <1>5, <2>1, <2>3 DEF TypeOK, StoreOutcome, Goto, callVars
<1>6. ASSUME NEW l \in Loop, Woken(l) PROVE TypeOK'
  <2>1. [rec EXCEPT !.status = "stopped"] \in SessionRecord
    BY <1>0 DEF SessionRecord, Settled
  <2>2. copy' \in [Loop -> SessionRecord]
    BY <1>6, <2>1 DEF TypeOK, Woken
  <2>3. QED
    BY <1>6, <2>2 DEF TypeOK, Woken, Goto, callVars
<1>7. ASSUME NEW l \in Loop, Cleanup(l) \/ LoopFails(l) PROVE TypeOK'
  <2>1. CASE Cleanup(l)
    BY <2>1 DEF TypeOK, Cleanup, Goto, callVars
  <2>2. CASE LoopFails(l)
    <3>1. Goto(l, "cleanup") /\ lost' \in Nat /\ orphaned' = TRUE
      BY <2>2 DEF TypeOK, LoopFails
    <3>2. UNCHANGED <<callVars, rec, runs, registered, copy, ev>>
      BY <2>2 DEF LoopFails
    <3>3. QED
      BY <3>1, <3>2 DEF TypeOK, Goto, callVars
  <2>3. QED
    BY <1>7, <2>1, <2>2
<1>8. ASSUME NEW c \in Client, NEW op \in {"start", "stop"}, Call(c, op) PROVE TypeOK'
  <2>1. held' \in [Client -> SessionRecord] /\ ops' \in Nat
    BY <1>0, <1>8 DEF TypeOK, Call
  <2>2. cpc' \in [Client -> {"idle", "start", "stop", "write", "shutdown"}]
    BY <1>8 DEF TypeOK, Call
  <2>3. QED
    BY <1>8, <2>1, <2>2 DEF TypeOK, Call, loopVars
<1>9. ASSUME NEW c \in Client, Shutdown(c) PROVE TypeOK'
  BY <1>9 DEF TypeOK, Shutdown, SignalLoop
<1>10. ASSUME NEW c \in Client, StartRefused(c) PROVE TypeOK'
  BY <1>10 DEF TypeOK, StartRefused, Return, loopVars
<1>11. ASSUME NEW c \in Client, NEW l \in Loop, StartSession(c, l) PROVE TypeOK'
  <2>1. [held[c] EXCEPT !.status = "running"] \in SessionRecord
    BY <1>0 DEF SessionRecord
  <2>2. rec' \in SessionRecord /\ lost' \in Nat
    BY <1>11, <2>1, WriteTyped DEF StartSession
  <2>3. QED
    BY <1>11, <2>2 DEF TypeOK, StartSession, Return
<1>12. ASSUME NEW c \in Client, StopSession(c) PROVE TypeOK'
  <2>1. [held[c] EXCEPT !.status = "stopped"] \in SessionRecord
    BY <1>0 DEF SessionRecord, Settled
  <2>2. held' \in [Client -> SessionRecord]
    BY <1>12, <2>1 DEF TypeOK, StopSession
  <2>3. QED
    BY <1>12, <2>2 DEF TypeOK, StopSession, SignalLoop, Return
<1>13. ASSUME NEW c \in Client, WriteStopped(c) PROVE TypeOK'
  <2>1. rec' \in SessionRecord /\ lost' \in Nat
    BY <1>0, <1>13, WriteTyped DEF WriteStopped
  <2>2. QED
    BY <1>13, <2>1 DEF TypeOK, WriteStopped, Return, loopVars
<1>14. ASSUME NEW c \in Client, ShutdownRead(c) PROVE TypeOK'
  <2>1. [rec EXCEPT !.status = "stopped"] \in SessionRecord
    BY <1>0 DEF SessionRecord, Settled
  <2>2. held' \in [Client -> SessionRecord]
    BY <1>14, <2>1 DEF TypeOK, ShutdownRead
  <2>3. QED
    BY <1>14, <2>2 DEF TypeOK, ShutdownRead, Return, loopVars
<1>15. CASE ControllerEnds
  BY <1>15 DEF TypeOK, ControllerEnds
<1>16. CASE UNCHANGED vars
  BY <1>16 DEF TypeOK, vars
<1>17. QED
  BY <1>1, <1>2, <1>3, <1>4, <1>5, <1>6, <1>7, <1>8, <1>9, <1>10, <1>11, <1>12, <1>13,
     <1>14, <1>15, <1>16 DEF Next, LoopStep, ClientStep

(* The state of an evaluation session is always well typed. *)
THEOREM EvalTypeCorrect == Spec => []TypeOK
BY InitTyped, NextTyped, PTL DEF Spec

-----------------------------------------------------------------------------
(* One loop at a time, and it is the registered one: start_session spawns a
   loop only when the registered one has ended, under the runner's lock. *)
OneLoop == \A l \in Loop : pc[l] # "idle" => registered = l

LEMMA OneLoopStep == TypeOK /\ OneLoop /\ [Next]_vars => OneLoop'
<1> SUFFICES ASSUME TypeOK, OneLoop, [Next]_vars PROVE OneLoop'
  OBVIOUS
<1>0. \A l \in Loop : l # NoLoop
  BY LoopAssumption
<1>1. ASSUME NEW l \in Loop, LoopStep(l) \/ LoopFails(l) PROVE OneLoop'
  <2>1. CASE Cleanup(l)
    BY <2>1 DEF TypeOK, OneLoop, Cleanup, Goto
  <2>2. CASE \/ CheckEvent(l) \/ ReadAndDecide(l) \/ Begin(l) \/ RunEnds(l) \/ StoreOutcome(l)
             \/ ScheduleNext(l) \/ Wait(l) \/ Woken(l) \/ Settle(l) \/ LoopFails(l)
    <3>1. /\ pc[l] # "idle" /\ registered' = registered
          /\ \A m \in Loop : m # l => pc'[m] = pc[m]
      BY <2>2 DEF TypeOK, Goto, CheckEvent, ReadAndDecide, Begin, RunEnds, StoreOutcome,
                  ScheduleNext, Wait, Woken, Settle, LoopFails
    <3>2. QED
      BY <3>1 DEF OneLoop
  <2>3. QED
    BY <1>1, <2>1, <2>2 DEF LoopStep
<1>2. ASSUME NEW c \in Client, NEW l \in Loop, StartSession(c, l) PROVE OneLoop'
  <2>1. \A m \in Loop : pc[m] = "idle"
    BY <1>0, <1>2 DEF StartSession, Alive, OneLoop
  <2>2. QED
    BY <1>2, <2>1 DEF TypeOK, StartSession, OneLoop
<1>3. ASSUME UNCHANGED <<pc, registered>> PROVE OneLoop'
  BY <1>3 DEF OneLoop
<1>4. ASSUME NEW c \in Client, NEW op, Call(c, op) \/ Shutdown(c) \/ StartRefused(c)
                                      \/ StopSession(c) \/ WriteStopped(c) \/ ShutdownRead(c)
      PROVE  OneLoop'
  BY <1>3, <1>4 DEF Call, Shutdown, StartRefused, StopSession, WriteStopped, ShutdownRead,
                    loopVars
<1>5. CASE ControllerEnds
  BY <1>5 DEF ControllerEnds, OneLoop
<1>6. CASE UNCHANGED vars
  BY <1>3, <1>6 DEF vars
<1>7. QED
  BY <1>1, <1>2, <1>4, <1>5, <1>6 DEF Next, ClientStep

(* At most one loop runs a session, and stop_session can reach it. *)
THEOREM EvalOneLoop == Spec => []OneLoop
<1>1. Init => OneLoop
  BY DEF Init, OneLoop
<1>2. QED
  BY <1>1, OneLoopStep, EvalTypeCorrect, PTL DEF Spec

-----------------------------------------------------------------------------
(* What the stored runs account for.  No copy of the record, stored or held,
   counts more runs than are stored or than the limit allows; and the runs the
   stored record does not count are lost, but for the one of the loop that has
   yet to store its outcome. *)
Storing == \E l \in Loop : pc[l] = "store"

Counts(session) == session.done <= Len(runs) /\ session.done <= cfg.runs

CountInv ==
    /\ Counts(rec)
    /\ \A c \in Client : Counts(held[c])
    /\ \A l \in Loop :
         /\ Counts(copy[l])
         /\ pc[l] \in {"begin", "run"} => copy[l].done < cfg.runs
         /\ pc[l] \in {"begin", "run", "store"} => Len(runs) <= copy[l].done + lost
    /\ Len(runs) <= rec.done + lost + (IF Storing THEN 1 ELSE 0)

LEMMA Numbers ==
    ASSUME TypeOK
    PROVE  /\ Len(runs) \in Nat /\ lost \in Nat /\ cfg.runs \in Nat /\ rec.done \in Nat
           /\ rec \in SessionRecord /\ cfg \in Configs /\ runs \in Seq(Run)
           /\ \A l \in Loop : copy[l] \in SessionRecord /\ copy[l].done \in Nat
           /\ \A c \in Client : held[c] \in SessionRecord /\ held[c].done \in Nat
<1>1. cfg.runs \in Nat
  BY ConfigAssumption DEF TypeOK
<1>2. runs \in Seq(Run) /\ Len(runs) \in Nat
  BY DEF TypeOK, Run
<1>3. QED
  BY <1>1, <1>2 DEF TypeOK, SessionRecord

(* A write of any record that counts keeps the bounds, when the runs it does
   not count were lost already or belong to a loop that still stores. *)
LEMMA WriteCounts ==
    ASSUME TypeOK, CountInv, NEW record \in SessionRecord, Write(record), Counts(record),
           UNCHANGED <<cfg, runs, held>>,
           \A l \in Loop :
              /\ copy'[l].done = copy[l].done
              /\ pc'[l] \in {"begin", "run", "store"}
                 => pc[l] \in {"begin", "run", "store"} /\ (pc'[l] # "store" => pc[l] # "store"),
           Len(runs) <= rec.done + lost + (IF Storing' THEN 1 ELSE 0)
              \/ Len(runs) <= record.done + lost
    PROVE  CountInv'
<1>1. /\ rec' = record /\ lost' \in Nat /\ lost \in Nat /\ Len(runs) \in Nat
      /\ rec.done \in Nat /\ record.done \in Nat
      /\ rec.done + lost <= rec'.done + lost' /\ lost <= lost'
  BY WriteTyped, Numbers
<1>2. Counts(rec)' /\ \A c \in Client : Counts(held[c])'
  BY <1>1 DEF CountInv, Counts
<1>3. ASSUME NEW l \in Loop
      PROVE  /\ Counts(copy[l])'
             /\ pc'[l] \in {"begin", "run"} => copy'[l].done < cfg'.runs
             /\ pc'[l] \in {"begin", "run", "store"} => Len(runs') <= copy'[l].done + lost'
  <2>1. copy[l].done \in Nat /\ copy'[l].done = copy[l].done
    BY Numbers
  <2>2. QED
    BY <1>1, <2>1 DEF CountInv, Counts
<1>4. Len(runs') <= rec'.done + lost' + (IF Storing' THEN 1 ELSE 0)
  BY <1>1
<1>5. QED
  BY <1>2, <1>3, <1>4 DEF CountInv

LEMMA CountStep == TypeOK /\ OneLoop /\ CountInv /\ [Next]_vars => CountInv'
<1> SUFFICES ASSUME TypeOK, OneLoop, CountInv, [Next]_vars PROVE CountInv'
  OBVIOUS
<1>0. /\ Len(runs) \in Nat /\ lost \in Nat /\ cfg.runs \in Nat /\ rec.done \in Nat
      /\ rec \in SessionRecord /\ cfg \in Configs /\ runs \in Seq(Run)
      /\ \A l \in Loop : copy[l] \in SessionRecord /\ copy[l].done \in Nat
      /\ \A c \in Client : held[c] \in SessionRecord /\ held[c].done \in Nat
  BY Numbers
<1>1. ASSUME NEW l \in Loop, pc[l] # "idle" PROVE \A m \in Loop : m # l => pc[m] = "idle"
  BY <1>1 DEF OneLoop
<1>2. ASSUME NEW l \in Loop, CheckEvent(l) \/ Wait(l) \/ Woken(l) \/ Cleanup(l) PROVE CountInv'
  <2>1. UNCHANGED <<cfg, rec, runs, held, lost>>
    BY <1>2 DEF CheckEvent, Wait, Woken, Cleanup, callVars
  <2>2. \A m \in Loop : copy'[m].done \in {copy[m].done, rec.done}
    <3>1. CASE Woken(l)
      <4>1. [rec EXCEPT !.status = "stopped"].done = rec.done
        BY <1>0 DEF SessionRecord
      <4>2. QED
        BY <3>1, <4>1 DEF TypeOK, Woken
    <3>2. CASE CheckEvent(l) \/ Wait(l) \/ Cleanup(l)
      BY <3>2 DEF CheckEvent, Wait, Cleanup
    <3>3. QED
      BY <1>2, <3>1, <3>2
  <2>3. \A m \in Loop : /\ pc'[m] \in {"begin", "run", "store"}
                            => pc'[m] = pc[m] /\ copy'[m] = copy[m]
                        /\ pc[m] = "store" => pc'[m] = "store"
    BY <1>2 DEF TypeOK, CheckEvent, Wait, Woken, Cleanup, Goto
  <2>4. Storing' = Storing
    BY <2>3 DEF Storing
  <2>5. QED
    BY <1>0, <2>1, <2>2, <2>3, <2>4 DEF CountInv, Counts
<1>3. ASSUME NEW l \in Loop, ReadAndDecide(l) PROVE CountInv'
  <2>1. UNCHANGED <<cfg, rec, runs, held, lost>> /\ pc[l] = "read"
    BY <1>3 DEF ReadAndDecide, callVars
  <2>2. copy'[l].done = rec.done /\ \A m \in Loop : m # l => copy'[m] = copy[m]
    BY <1>0, <1>3 DEF TypeOK, SessionRecord, ReadAndDecide
  <2>3. /\ pc'[l] = IF rec.status # "running" THEN "cleanup"
                    ELSE IF Limit(rec) # "running" THEN "settle" ELSE "begin"
        /\ \A m \in Loop : m # l => pc'[m] = "idle" /\ pc[m] = "idle"
    BY <1>1, <1>3, <2>1 DEF TypeOK, ReadAndDecide, Goto
  <2>4. ~Storing /\ ~Storing'
    BY <2>1, <2>3 DEF Storing
  <2>5. pc'[l] \in {"begin", "run"} => rec.done < cfg.runs
    BY <1>0, <2>3 DEF Limit
  <2>6. QED
    BY <1>0, <2>1, <2>2, <2>3, <2>4, <2>5 DEF CountInv, Counts
<1>4. ASSUME NEW l \in Loop, Begin(l) \/ ScheduleNext(l) \/ Settle(l) PROVE CountInv'
  <2>1. /\ Write(copy[l]) /\ Counts(copy[l])
        /\ UNCHANGED <<cfg, runs, held, copy>>
    BY <1>4 DEF Begin, ScheduleNext, Settle, CountInv, callVars
  <2>2. \A m \in Loop :
          /\ pc'[m] \in {"begin", "run", "store"}
             => pc[m] \in {"begin", "run", "store"} /\ (pc'[m] # "store" => pc[m] # "store")
          /\ pc[m] = "store" => pc'[m] = "store"
    BY <1>4 DEF TypeOK, Begin, ScheduleNext, Settle, Goto
  <2>3. Storing => Storing'
    BY <2>2 DEF Storing
  <2>4. Len(runs) <= rec.done + lost + (IF Storing' THEN 1 ELSE 0)
    BY <1>0, <2>3 DEF CountInv
  <2>5. QED
    BY <1>0, <2>1, <2>2, <2>4, WriteCounts
<1>5. ASSUME NEW l \in Loop, RunEnds(l) PROVE CountInv'
  <2>1. UNCHANGED <<cfg, rec, held, lost>> /\ pc[l] = "run"
    BY <1>5 DEF RunEnds, callVars
  <2>2. /\ Len(runs') = Len(runs) + 1
        /\ copy'[l].done = copy[l].done + 1
        /\ \A m \in Loop : m # l => copy'[m] = copy[m]
    <3>1. PICK result \in Results :
            \E list \in Stored([iteration |-> copy[l].done + 1, ok |-> result.ok]) :
               runs' = list /\ copy' = [copy EXCEPT ![l] = Outcome(@, result, list)]
      BY <1>5 DEF RunEnds
    <3>2. [iteration |-> copy[l].done + 1, ok |-> result.ok] \in Run
      BY <1>0 DEF Results, Run
    <3>3. PICK list \in Stored([iteration |-> copy[l].done + 1, ok |-> result.ok]) :
               runs' = list /\ copy' = [copy EXCEPT ![l] = Outcome(@, result, list)]
      BY <3>1
    <3>4. Len(list) = Len(runs) + 1
      BY <1>0, <3>2, StoredTyped
    <3>5. Outcome(copy[l], result, list).done = copy[l].done + 1
      BY <1>0, OutcomeCounts
    <3>6. QED
      BY <3>3, <3>4, <3>5 DEF TypeOK
  <2>3. pc'[l] = "store" /\ \A m \in Loop : m # l => pc'[m] = "idle" /\ pc[m] = "idle"
    BY <1>1, <1>5, <2>1 DEF TypeOK, RunEnds, Goto
  <2>4. ~Storing /\ Storing'
    BY <2>1, <2>3 DEF Storing
  <2>5. copy[l].done < cfg.runs /\ Len(runs) <= copy[l].done + lost
    BY <2>1 DEF CountInv
  <2>6. Len(runs) <= rec.done + lost
    BY <1>0, <2>4 DEF CountInv
  <2>7. Counts(rec)' /\ \A c \in Client : Counts(held[c])'
    BY <1>0, <2>1, <2>2 DEF CountInv, Counts
  <2>8. \A m \in Loop : Counts(copy[m])'
    BY <1>0, <2>1, <2>2, <2>5, SMTT(20) DEF CountInv, Counts
  <2>9. \A m \in Loop : pc'[m] \in {"begin", "run", "store"} => m = l /\ pc'[m] = "store"
    BY <2>3
  <2>10. Len(runs') <= copy'[l].done + lost' /\ Len(runs') <= rec'.done + lost' + 1
    BY <1>0, <2>1, <2>2, <2>5, <2>6
  <2>11. QED
    BY <2>4, <2>7, <2>8, <2>9, <2>10 DEF CountInv
<1>6. ASSUME NEW l \in Loop, StoreOutcome(l) PROVE CountInv'
  <2>1. /\ Write(copy[l]) /\ Counts(copy[l]) /\ Len(runs) <= copy[l].done + lost
        /\ UNCHANGED <<cfg, runs, held>>
    BY <1>6 DEF StoreOutcome, CountInv, callVars
  <2>2. \A m \in Loop :
          /\ copy'[m].done = copy[m].done
          /\ pc'[m] \in {"begin", "run", "store"}
             => pc[m] \in {"begin", "run", "store"} /\ (pc'[m] # "store" => pc[m] # "store")
    BY <1>0, <1>6 DEF TypeOK, StoreOutcome, Goto, SessionRecord
  <2>3. QED
    BY <1>0, <2>1, <2>2, WriteCounts
<1>7. ASSUME NEW c \in Client, NEW l \in Loop, StartSession(c, l) PROVE CountInv'
  <2> DEFINE record == [held[c] EXCEPT !.status = "running"]
  <2>1. record \in SessionRecord /\ record.done = held[c].done
    BY <1>0, StatusEdits
  <2>2. Write(record) /\ UNCHANGED <<cfg, runs, held, copy>>
    BY <1>7 DEF StartSession
  <2> HIDE DEF record
  <2>3. Counts(record)
    BY <2>1 DEF CountInv, Counts
  <2>4. \A m \in Loop :
          /\ pc'[m] \in {"begin", "run", "store"}
             => pc[m] \in {"begin", "run", "store"} /\ (pc'[m] # "store" => pc[m] # "store")
          /\ pc[m] = "store" => pc'[m] = "store"
    BY <1>7 DEF TypeOK, StartSession
  <2>5. Storing => Storing'
    BY <2>4 DEF Storing
  <2>6. Len(runs) <= rec.done + lost + (IF Storing' THEN 1 ELSE 0)
    BY <1>0, <2>5 DEF CountInv
  <2>7. QED
    BY <2>1, <2>2, <2>3, <2>4, <2>6, WriteCounts
<1>8. ASSUME NEW c \in Client, WriteStopped(c) PROVE CountInv'
  <2>1. Write(held[c]) /\ Counts(held[c]) /\ UNCHANGED <<cfg, runs, copy, held, pc>>
    BY <1>8 DEF WriteStopped, CountInv, loopVars
  <2>2. Storing' = Storing
    BY <2>1 DEF Storing
  <2>3. Len(runs) <= rec.done + lost + (IF Storing' THEN 1 ELSE 0)
    BY <1>0, <2>2 DEF CountInv
  <2>4. QED
    BY <1>0, <2>1, <2>3, WriteCounts
<1>9. ASSUME UNCHANGED <<cfg, rec, runs, pc, copy, lost>>,
             \A c \in Client : held'[c].done \in {held[c].done, rec.done}
      PROVE  CountInv'
  <2>1. Storing' = Storing
    BY <1>9 DEF Storing
  <2>2. QED
    BY <1>9, <2>1 DEF CountInv, Counts
<1>10. ASSUME NEW c \in Client, NEW op, Call(c, op) \/ Shutdown(c) \/ StartRefused(c)
                                       \/ StopSession(c) \/ ShutdownRead(c)
       PROVE  CountInv'
  <2>1. \A d \in Client : held'[d].done \in {held[d].done, rec.done}
    <3>1. CASE Call(c, op) \/ Shutdown(c) \/ StartRefused(c)
      BY <3>1 DEF TypeOK, Call, Shutdown, StartRefused
    <3>2. CASE StopSession(c)
      <4>1. [held[c] EXCEPT !.status = "stopped"].done = held[c].done
        BY <1>0 DEF SessionRecord
      <4>2. QED
        BY <3>2, <4>1 DEF TypeOK, StopSession
    <3>3. CASE ShutdownRead(c)
      <4>1. [rec EXCEPT !.status = "stopped"].done = rec.done
        BY <1>0 DEF SessionRecord
      <4>2. QED
        BY <3>3, <4>1 DEF TypeOK, ShutdownRead
    <3>4. QED
      BY <1>10, <3>1, <3>2, <3>3
  <2>2. QED
    BY <1>9, <1>10, <2>1 DEF Call, Shutdown, StartRefused, StopSession, ShutdownRead, loopVars
<1>11. ASSUME NEW l \in Loop, LoopFails(l) PROVE CountInv'
  <2>1. /\ UNCHANGED <<cfg, rec, runs, copy, held>> /\ lost' \in Nat
        /\ lost' = IF pc[l] = "store" THEN lost + 1 ELSE lost
    BY <1>0, <1>11 DEF LoopFails, callVars
  <2>2. \A m \in Loop : pc'[m] \notin {"begin", "run", "store"}
    BY <1>1, <1>11 DEF TypeOK, LoopFails, Goto
  <2>3. Storing => pc[l] = "store"
    BY <1>1, <1>11 DEF Storing, LoopFails
  <2>4. Len(runs) <= rec.done + lost' /\ ~Storing'
    BY <1>0, <2>1, <2>2, <2>3 DEF CountInv, Storing
  <2>5. QED
    BY <1>0, <2>1, <2>2, <2>4 DEF CountInv, Counts
<1>12. CASE ControllerEnds
  <2>1. /\ UNCHANGED <<cfg, rec, runs, copy, held>> /\ lost' \in Nat
        /\ lost' = IF Storing THEN lost + 1 ELSE lost
        /\ \A m \in Loop : pc'[m] = "idle"
    BY <1>0, <1>12 DEF ControllerEnds, Storing
  <2>2. Len(runs) <= rec.done + lost' /\ ~Storing'
    BY <1>0, <2>1 DEF CountInv, Storing
  <2>3. QED
    BY <1>0, <2>1, <2>2 DEF CountInv, Counts
<1>13. CASE UNCHANGED vars
  BY <1>9, <1>13 DEF vars
<1>14. QED
  BY <1>2, <1>3, <1>4, <1>5, <1>6, <1>7, <1>8, <1>10, <1>11, <1>12, <1>13
     DEF Next, LoopStep, ClientStep

LEMMA CountInit == Init => CountInv
<1> SUFFICES ASSUME Init PROVE CountInv
  OBVIOUS
<1>1. cfg.runs \in Nat
  BY ConfigAssumption DEF Init
<1>2. QED
  BY <1>1 DEF Init, CountInv, Counts, Created

THEOREM EvalCounts == Spec => []CountInv
BY CountInit, CountStep, EvalTypeCorrect, EvalOneLoop, PTL DEF Spec

(* A session stores no more runs than its limit, over any number of starts,
   stops and crashes, but for those whose count was set back or never written. *)
THEOREM EvalRunBudget == Spec => []RunBudget
<1>1. TypeOK /\ CountInv => RunBudget
  <2> SUFFICES ASSUME TypeOK, CountInv PROVE RunBudget
    OBVIOUS
  <2>1. CASE Storing
    BY <2>1, Numbers DEF CountInv, Counts, Storing, RunBudget
  <2>2. CASE ~Storing
    BY <2>2, Numbers DEF CountInv, Counts, RunBudget
  <2>3. QED
    BY <2>1, <2>2
<1>2. QED
  BY <1>1, EvalCounts, EvalTypeCorrect, PTL

-----------------------------------------------------------------------------
(* Regressions and recoveries.  While no run is lost the stored runs are
   numbered one after the other, and any copy of the record that counts them
   all, wherever it is held, has the regressions and recoveries of their order:
   an older copy can be written, but it cannot count them all. *)
Agrees(session) ==
    session.done = Len(runs)
    => session.regressions = Changes(TRUE) /\ session.recoveries = Changes(FALSE)

AgreeInv ==
    lost = 0
    => /\ \A i \in 1 .. Len(runs) : runs[i].iteration = i
       /\ Agrees(rec)
       /\ \A c \in Client : Agrees(held[c])
       /\ \A l \in Loop : Agrees(copy[l])

(* A run that ends moves the counts as its place in the list does. *)
LEMMA RunAgrees ==
    ASSUME TypeOK, CountInv, AgreeInv, lost = 0, NEW l \in Loop, RunEnds(l)
    PROVE  /\ \A i \in 1 .. Len(runs') : runs'[i].iteration = i
           /\ Agrees(copy[l])'
<1>0. /\ Len(runs) \in Nat /\ runs \in Seq(Run) /\ cfg \in Configs
      /\ copy[l] \in SessionRecord /\ copy[l].done \in Nat
  BY Numbers
<1>1. pc[l] = "run"
  BY DEF RunEnds
<1>2. copy[l].done = Len(runs)
  BY <1>0, <1>1 DEF CountInv, Counts
<1>3. /\ copy[l].regressions = Changes(TRUE) /\ copy[l].recoveries = Changes(FALSE)
      /\ \A i \in 1 .. Len(runs) : runs[i].iteration = i
  BY <1>2 DEF AgreeInv, Agrees
<1>4. PICK result \in Results :
        \E list \in Stored([iteration |-> copy[l].done + 1, ok |-> result.ok]) :
           runs' = list /\ copy' = [copy EXCEPT ![l] = Outcome(@, result, list)]
  BY DEF RunEnds
<1> DEFINE run == [iteration |-> copy[l].done + 1, ok |-> result.ok]
<1>5. run \in Run /\ run.iteration = Len(runs) + 1 /\ run.ok = result.ok /\ result.ok \in BOOLEAN
  BY <1>0, <1>2 DEF Results, Run
<1>6. PICK list \in Stored(run) :
        runs' = list /\ copy' = [copy EXCEPT ![l] = Outcome(@, result, list)]
  BY <1>4
<1> HIDE DEF run
<1>7. /\ list \in Seq(Run) /\ Len(list) = Len(runs) + 1
      /\ \A i \in 1 .. Len(runs) : list[i] = runs[i]
      /\ list[Len(runs) + 1] = run
  BY <1>0, <1>3, <1>5, StoredTyped, StoredLast
<1>8. \A i \in 1 .. Len(list) : list[i].iteration = i
  BY <1>0, <1>3, <1>5, <1>7
<1>9. ASSUME NEW from \in BOOLEAN
      PROVE  Changes(from)' = Changes(from)
               + (IF /\ Len(list) >= 2
                     /\ list[Len(list) - 1].ok = from
                     /\ result.ok # from THEN 1 ELSE 0)
  <2>1. Changes(from)' = Cardinality(ChangesIn(list, from))
    BY <1>6 DEF Changes, ChangesIn
  <2>2. Changes(from) = Cardinality(ChangesIn(runs, from))
    BY DEF Changes, ChangesIn
  <2>3. list[Len(list)].ok = result.ok
    BY <1>5, <1>7
  <2>4. QED
    BY <1>0, <1>7, <2>1, <2>2, <2>3, ChangesGrow
<1>10. ASSUME Len(list) >= 2 PROVE list[Len(list) - 1].ok \in BOOLEAN
  <2>1. Len(list) - 1 \in 1 .. Len(list)
    BY <1>7, <1>10
  <2>2. list[Len(list) - 1] \in Run
    BY <1>7, <2>1
  <2>3. QED
    BY <2>2 DEF Run
<1> DEFINE after == Outcome(copy[l], result, list)
<1>11. /\ after.regressions = copy[l].regressions + (IF Regression(list, result.ok) THEN 1 ELSE 0)
       /\ after.recoveries = copy[l].recoveries + (IF Recovery(list, result.ok) THEN 1 ELSE 0)
  BY <1>0, OutcomeCounts
<1>12. Regression(list, result.ok)
         <=> Len(list) >= 2 /\ list[Len(list) - 1].ok = TRUE /\ result.ok # TRUE
  BY <1>5, <1>10 DEF Regression, PreviousOk
<1>13. Recovery(list, result.ok)
         <=> Len(list) >= 2 /\ list[Len(list) - 1].ok = FALSE /\ result.ok # FALSE
  BY <1>5, <1>10 DEF Recovery, PreviousOk
<1>14. after.regressions = Changes(TRUE)' /\ after.recoveries = Changes(FALSE)'
  <2> HIDE DEF after
  <2>1. after.regressions = Changes(TRUE)'
    BY <1>3, <1>9, <1>11, <1>12
  <2>2. after.recoveries = Changes(FALSE)'
    BY <1>3, <1>9, <1>11, <1>13
  <2>3. QED
    BY <2>1, <2>2
<1>15. copy'[l] = after
  BY <1>6 DEF TypeOK
<1>16. QED
  BY <1>6, <1>8, <1>14, <1>15 DEF Agrees

LEMMA AgreeStep ==
    TypeOK /\ CountInv /\ AgreeInv /\ [Next]_vars => AgreeInv'
<1> SUFFICES ASSUME TypeOK, CountInv, AgreeInv, [Next]_vars, lost' = 0 PROVE
       /\ \A i \in 1 .. Len(runs') : runs'[i].iteration = i
       /\ Agrees(rec)'
       /\ \A c \in Client : Agrees(held[c])'
       /\ \A l \in Loop : Agrees(copy[l])'
  BY DEF AgreeInv
<1>0. /\ Len(runs) \in Nat /\ lost \in Nat /\ rec.done \in Nat /\ rec \in SessionRecord
      /\ runs \in Seq(Run) /\ cfg \in Configs
      /\ \A l \in Loop : copy[l] \in SessionRecord /\ copy[l].done \in Nat
      /\ \A c \in Client : held[c] \in SessionRecord /\ held[c].done \in Nat
  BY Numbers
<1> DEFINE Same(new, old) == /\ new.done = old.done /\ new.regressions = old.regressions
                             /\ new.recoveries = old.recoveries
(* but where a run ends, a step moves copies of the record about and edits
   their status *)
<1>1. ASSUME lost = 0, runs' = runs,
             \/ Same(rec', rec) \/ (\E c \in Client : Same(rec', held[c]))
                \/ (\E l \in Loop : Same(rec', copy[l])),
             \A c \in Client : Same(held'[c], held[c]) \/ Same(held'[c], rec),
             \A l \in Loop : Same(copy'[l], copy[l]) \/ Same(copy'[l], rec)
      PROVE  /\ \A i \in 1 .. Len(runs') : runs'[i].iteration = i
             /\ Agrees(rec)'
             /\ \A c \in Client : Agrees(held[c])'
             /\ \A l \in Loop : Agrees(copy[l])'
  <2>1. \A from : Changes(from)' = Changes(from)
    BY <1>1 DEF Changes
  <2>2. /\ \A i \in 1 .. Len(runs) : runs[i].iteration = i
        /\ Agrees(rec)
        /\ \A c \in Client : Agrees(held[c])
        /\ \A l \in Loop : Agrees(copy[l])
    BY <1>1 DEF AgreeInv
  <2>3. QED
    BY <1>1, <2>1, <2>2, ZenonT(30) DEF Agrees
<1>2. ASSUME NEW record \in SessionRecord, Write(record) PROVE rec' = record /\ lost = 0
  BY <1>0, <1>2, WriteTyped
<1>3. ASSUME NEW session \in SessionRecord, NEW status \in Settled \cup {"created", "running"}
      PROVE  Same([session EXCEPT !.status = status], session)
  BY StatusEdits
<1>4. ASSUME NEW l \in Loop, CheckEvent(l) \/ Wait(l) \/ Cleanup(l) PROVE
         UNCHANGED <<lost, rec, runs, held, copy>>
  BY <1>4 DEF CheckEvent, Wait, Cleanup, callVars
<1>5. ASSUME NEW l \in Loop, ReadAndDecide(l) \/ Woken(l) PROVE
         /\ UNCHANGED <<lost, rec, runs, held>>
         /\ \A m \in Loop : Same(copy'[m], copy[m]) \/ Same(copy'[m], rec)
  <2>1. UNCHANGED <<lost, rec, runs, held>>
    BY <1>5 DEF ReadAndDecide, Woken, callVars
  <2>2. PICK status \in Settled \cup {"created", "running"} :
           copy' = [copy EXCEPT ![l] = [rec EXCEPT !.status = status]]
    <3>1. rec.status \in Settled \cup {"created", "running"} /\ "stopped" \in Settled
      BY <1>0 DEF SessionRecord, Settled
    <3>2. QED
      BY <1>5, <3>1, LimitTyped DEF ReadAndDecide, Woken
  <2>3. \A m \in Loop : m # l => copy'[m] = copy[m]
    BY <2>2
  <2>4. Same(copy'[l], rec)
    BY <1>0, <1>3, <2>2 DEF TypeOK
  <2>5. QED
    BY <2>1, <2>3, <2>4
<1>6. ASSUME NEW l \in Loop, Begin(l) \/ ScheduleNext(l) \/ Settle(l) PROVE
         lost = 0 /\ rec' = copy[l] /\ UNCHANGED <<runs, held, copy>>
  BY <1>0, <1>2, <1>6 DEF Begin, ScheduleNext, Settle, callVars
<1>7. ASSUME NEW l \in Loop, StoreOutcome(l) PROVE
         /\ lost = 0 /\ rec' = copy[l] /\ UNCHANGED <<runs, held>>
         /\ \A m \in Loop : Same(copy'[m], copy[m])
  <2>1. lost = 0 /\ rec' = copy[l] /\ UNCHANGED <<runs, held>>
    BY <1>0, <1>2, <1>7 DEF StoreOutcome, callVars
  <2>2. PICK status \in Settled \cup {"created", "running"} :
           copy' = [copy EXCEPT ![l] = [copy[l] EXCEPT !.status = status]]
    <3>1. copy[l].status \in Settled \cup {"created", "running"}
      BY <1>0 DEF SessionRecord
    <3>2. QED
      BY <1>7, <3>1, LimitTyped DEF StoreOutcome
  <2>3. \A m \in Loop : m # l => copy'[m] = copy[m]
    BY <2>2
  <2>4. Same(copy'[l], copy[l])
    BY <1>0, <1>3, <2>2 DEF TypeOK
  <2>5. QED
    BY <2>1, <2>3, <2>4
<1>8. ASSUME NEW c \in Client, NEW l \in Loop, StartSession(c, l) PROVE
         lost = 0 /\ Same(rec', held[c]) /\ UNCHANGED <<runs, held, copy>>
  <2> DEFINE record == [held[c] EXCEPT !.status = "running"]
  <2>1. record \in SessionRecord /\ Same(record, held[c])
    BY <1>0, StatusEdits
  <2>2. Write(record)
    BY <1>8 DEF StartSession
  <2>3. rec' = record /\ lost = 0
    BY <1>2, <2>1, <2>2
  <2>4. QED
    BY <1>8, <2>1, <2>3 DEF StartSession
<1>9. ASSUME NEW c \in Client, WriteStopped(c) PROVE
         lost = 0 /\ rec' = held[c] /\ UNCHANGED <<runs, held, copy>>
  BY <1>0, <1>2, <1>9 DEF WriteStopped, loopVars
<1>10. ASSUME NEW c \in Client, NEW op, Call(c, op) \/ Shutdown(c) \/ StartRefused(c)
                                       \/ StopSession(c) \/ ShutdownRead(c) PROVE
         /\ UNCHANGED <<lost, rec, runs, copy>>
         /\ \A d \in Client : Same(held'[d], held[d]) \/ Same(held'[d], rec)
  <2>1. UNCHANGED <<lost, rec, runs, copy>>
    BY <1>10 DEF Call, Shutdown, StartRefused, StopSession, ShutdownRead, loopVars
  <2>2. \/ held' = held
        \/ held' = [held EXCEPT ![c] = rec]
        \/ held' = [held EXCEPT ![c] = [held[c] EXCEPT !.status = "stopped"]]
        \/ held' = [held EXCEPT ![c] = [rec EXCEPT !.status = "stopped"]]
    BY <1>10 DEF Call, Shutdown, StartRefused, StopSession, ShutdownRead
  <2>3. \A d \in Client : d # c => held'[d] = held[d]
    BY <2>2 DEF TypeOK
  <2>4. held'[c] \in {held[c], rec, [held[c] EXCEPT !.status = "stopped"],
                      [rec EXCEPT !.status = "stopped"]}
    BY <2>2 DEF TypeOK
  <2>5. Same(held'[c], held[c]) \/ Same(held'[c], rec)
    <3>1. "stopped" \in Settled /\ held[c] \in SessionRecord /\ rec \in SessionRecord
      BY <1>0 DEF Settled
    <3>2. /\ Same([held[c] EXCEPT !.status = "stopped"], held[c])
          /\ Same([rec EXCEPT !.status = "stopped"], rec)
      BY <1>3, <3>1
    <3>3. QED
      BY <2>4, <3>2
  <2>6. QED
    BY <2>1, <2>3, <2>5
<1>11. ASSUME (\E l \in Loop : LoopFails(l)) \/ ControllerEnds PROVE
         lost = 0 /\ UNCHANGED <<rec, runs, held, copy>>
  BY <1>0, <1>11 DEF LoopFails, ControllerEnds, callVars
<1>12. ASSUME NEW l \in Loop, RunEnds(l) PROVE
         /\ \A i \in 1 .. Len(runs') : runs'[i].iteration = i
         /\ Agrees(rec)'
         /\ \A c \in Client : Agrees(held[c])'
         /\ \A m \in Loop : Agrees(copy[m])'
  <2>1. lost = 0 /\ UNCHANGED <<rec, held>>
    BY <1>12 DEF RunEnds, callVars
  <2>2. Len(runs') = Len(runs) + 1 /\ \A m \in Loop : m # l => copy'[m] = copy[m]
    <3>1. PICK result \in Results :
            \E list \in Stored([iteration |-> copy[l].done + 1, ok |-> result.ok]) :
               runs' = list /\ copy' = [copy EXCEPT ![l] = Outcome(@, result, list)]
      BY <1>12 DEF RunEnds
    <3>2. [iteration |-> copy[l].done + 1, ok |-> result.ok] \in Run
      BY <1>0 DEF Results, Run
    <3>3. QED
      BY <1>0, <3>1, <3>2, StoredTyped
  <2>3. \A session : session.done <= Len(runs) /\ session.done \in Nat
                     => session.done # Len(runs')
    BY <1>0, <2>2
  <2>4. Agrees(rec)' /\ \A c \in Client : Agrees(held[c])'
    BY <1>0, <2>1, <2>3 DEF Agrees, CountInv, Counts
  <2>5. \A m \in Loop : m # l => Agrees(copy[m])'
    BY <1>0, <2>2, <2>3 DEF Agrees, CountInv, Counts
  <2>6. QED
    BY <1>12, <2>1, <2>4, <2>5, RunAgrees
<1>13. CASE UNCHANGED vars
  BY <1>1, <1>13 DEF vars
<1> HIDE DEF Same
<1>14. \A session : Same(session, session)
  BY DEF Same
<1>15. QED
  BY <1>1, <1>4, <1>5, <1>6, <1>7, <1>8, <1>9, <1>10, <1>11, <1>12, <1>13, <1>14
     DEF Next, LoopStep, ClientStep

LEMMA AgreeInit == Init => AgreeInv
<1> SUFFICES ASSUME Init PROVE AgreeInv
  OBVIOUS
<1>1. runs = << >> /\ Len(runs) = 0
  BY DEF Init
<1>2. ASSUME NEW from PROVE Changes(from) = 0
  <2>1. {i \in 2 .. Len(runs) : runs[i - 1].ok = from /\ runs[i].ok # from} = {}
    BY <1>1
  <2>2. QED
    BY <2>1, FS_EmptySet DEF Changes
<1>3. Agrees(Created)
  BY <1>2 DEF Agrees, Created
<1>4. /\ rec = Created /\ \A c \in Client : held[c] = Created
      /\ \A l \in Loop : copy[l] = Created
  BY DEF Init
<1>5. QED
  BY <1>1, <1>3, <1>4 DEF AgreeInv

(* As long as every stored run is counted, the session's regressions and
   recoveries are those of its stored runs in their order, however its calls,
   stops and restarts met its loop. *)
THEOREM EvalCountsMatchRuns == Spec => []CountsMatchRuns
<1>1. TypeOK /\ CountInv /\ AgreeInv => CountsMatchRuns
  <2> SUFFICES ASSUME TypeOK, CountInv, AgreeInv, lost = 0, \A l \in Loop : pc[l] # "store"
               PROVE  /\ rec.regressions = Changes(TRUE)
                      /\ rec.recoveries = Changes(FALSE)
                      /\ rec.done = Len(runs)
    BY DEF CountsMatchRuns
  <2>1. ~Storing
    BY DEF Storing
  <2>2. rec.done = Len(runs)
    BY <2>1, Numbers DEF CountInv, Counts
  <2>3. QED
    BY <2>2 DEF AgreeInv, Agrees
<1>2. QED
  BY <1>1, AgreeInit, AgreeStep, EvalCounts, EvalTypeCorrect, PTL DEF Spec
=============================================================================
