------------------------ MODULE ContractQueue_proofs -------------------------
(***************************************************************************)
(* The contract queue for every number of tasks, programs and starts: what *)
(* one process at a time, with crashes between any two of its steps, does  *)
(* to the queue and to the approvals.                                      *)
(***************************************************************************)
EXTENDS ContractQueue, TLAPS

(* The steps of a program, by what they do to the files. *)
LEMMA StepCases ==
  ASSUME Next
  PROVE  \/ \E p \in Program :
              \/ Start(p) \/ Crash(p)
              \/ Load(p) \/ Sync(p) \/ Recover(p) \/ Halt(p)
              \/ Pick(p) \/ Reopen(p) \/ Select(p) \/ GivesUp(p)
              \/ UpdateLoad(p) \/ Mark(p) \/ Work(p) \/ End(p) \/ Rewrite(p)
              \/ Mend(p) \/ Consume(p) \/ Spend(p) \/ ReturnMain(p) \/ ReturnCycle(p)
         \/ \E t \in Task : Approve(t) \/ Reset(t)
         \/ ReadApprovals \/ AddApproval \/ OpenTask
BY DEF Next, ProgramStep

LEMMA SyncedType ==
  ASSUME queue \in [Task -> Status]
  PROVE  Synced(queue) \in [Task -> Status]
BY DEF Synced, Status

LEMMA StatusAfterType ==
  ASSUME NEW v \in Verdicts
  PROVE  StatusAfter(v) \in {"completed", "needs_approval", "failed"}
BY DEF StatusAfter, Verdicts

(* What the beginning of an attempt changes. *)
LEMMA AttemptType ==
  ASSUME TypeOK, NEW p \in Program, NEW t \in Task, Attempt(p, t)
  PROVE  /\ pc' \in [Program -> Places] /\ cur' = [cur EXCEPT ![p] = t]
         /\ cur' \in [Program -> Task]
         /\ pc'[p] \in {"markLoad", "endLoad"}
         /\ \A r \in Program \ {p} : pc'[r] = pc[r] /\ cur'[r] = cur[r]
         /\ verdict' \in [Program -> Verdicts] /\ rewritten' \in [Program -> BOOLEAN]
<1>. USE DEF TypeOK, ProgramsOK, AttemptsOK, Attempt
<1>1. cur' = [cur EXCEPT ![p] = t] /\ cur' \in [Program -> Task]
  OBVIOUS
<1>2. /\ pc' \in [Program -> Places] /\ pc'[p] \in {"markLoad", "endLoad"}
      /\ \A r \in Program \ {p} : pc'[r] = pc[r]
  BY DEF Goto, Places
<1>3. verdict' \in [Program -> Verdicts] /\ rewritten' \in [Program -> BOOLEAN]
  BY DEF Verdicts
<1>4. QED
  BY <1>1, <1>2, <1>3

(* Type correctness, one part of the state at a time. *)
LEMMA FilesStep == ASSUME TypeOK, Next PROVE FilesOK'
<1>. USE DEF TypeOK, FilesOK
<1>1. ASSUME NEW p \in Program, Start(p) \/ Work(p) \/ Rewrite(p) \/ Load(p) \/ Recover(p)
             \/ UpdateLoad(p) \/ Pick(p) \/ Select(p) \/ GivesUp(p) \/ Mend(p) \/ Consume(p)
      PROVE  FilesOK'
  BY <1>1 DEF Start, Work, Rewrite, Load, Recover, UpdateLoad, Pick, Select, GivesUp, Mend,
              Consume, history
<1>2. ASSUME NEW p \in Program, Sync(p) \/ Halt(p) \/ Reopen(p) \/ Mark(p) PROVE FilesOK'
  <2>1. queue' \in [Task -> Status]
    <3>1. CASE Sync(p) \/ Halt(p)
      BY <3>1 DEF Sync, Halt, Recovered, Stale, Status, ProgramsOK
    <3>2. CASE Reopen(p) \/ Mark(p)
      BY <3>2 DEF Reopen, Mark, Status, ProgramsOK
    <3>3. QED
      BY <1>2, <3>1, <3>2
  <2>2. QED
    BY <1>2, <2>1 DEF Sync, Halt, Reopen, Mark, history
<1>3. ASSUME NEW p \in Program, End(p) PROVE FilesOK'
  <2>1. StatusAfter(verdict[p]) \in Status
    BY StatusAfterType DEF AttemptsOK, Status
  <2>2. QED
    BY <1>3, <2>1 DEF End, ProgramsOK, history
<1>4. ASSUME NEW p \in Program, Spend(p) PROVE FilesOK'
  <2>1. Remaining(p) \in [Task -> Nat]
    BY <1>4 DEF Spend, Remaining, ProgramsOK
  <2>2. spent' \in [Task -> Nat]
    BY <1>4 DEF Spend, ProgramsOK
  <2>3. QED
    BY <1>4, <2>1, <2>2 DEF Spend
<1>5. ASSUME NEW p \in Program, Crash(p) \/ ReturnMain(p) \/ ReturnCycle(p) PROVE FilesOK'
  <2>1. waits' \subseteq waits \cup {cur[p]}
    BY <1>5 DEF Crash, ReturnMain, ReturnCycle, Leaves
  <2>2. QED
    BY <1>5, <2>1 DEF Crash, ReturnMain, ReturnCycle, ProgramsOK
<1>6. ASSUME NEW t \in Task, Approve(t) \/ Reset(t) PROVE FilesOK'
  BY <1>6 DEF Approve, Reset, Status
<1>7. CASE ReadApprovals \/ AddApproval \/ OpenTask
  BY <1>7 DEF ReadApprovals, AddApproval, OpenTask, OperatorOK, Status, history
<1>8. QED
  BY <1>1, <1>2, <1>3, <1>4, <1>5, <1>6, <1>7, StepCases

LEMMA ProgramsStep == ASSUME TypeOK, Next PROVE ProgramsOK'
<1>. USE DEF TypeOK, ProgramsOK, Places
<1>1. ASSUME NEW p \in Program, Start(p) PROVE ProgramsOK'
  BY <1>1, LimitsAssumption DEF Start, Goto, OperatorOK
<1>2. ASSUME NEW p \in Program, Load(p) \/ Recover(p) \/ UpdateLoad(p) PROVE ProgramsOK'
  BY <1>2, SyncedType, ZenonT(30) DEF Load, Recover, UpdateLoad, Loaded, Goto, FilesOK
<1>3. ASSUME NEW p \in Program, Pick(p) PROVE ProgramsOK'
  <2>1. copy' \in [Program -> [Task -> Status]] /\ UNCHANGED <<opt, seen>>
    BY <1>3, SyncedType DEF Pick, FilesOK
  <2>2. CASE \E t \in Task : Attempt(p, t)
    BY <2>1, <2>2, AttemptType
  <2>3. CASE /\ \E t \in Task : cur' = [cur EXCEPT ![p] = t]
             /\ Goto(p, "reopen")
    BY <2>1, <2>3 DEF Goto
  <2>4. CASE Goto(p, "off") /\ UNCHANGED cur
    BY <2>1, <2>4 DEF Goto
  <2>5. QED
    BY <1>3, <2>2, <2>3, <2>4 DEF Pick, First, Open
<1>4. ASSUME NEW p \in Program, Select(p) \/ GivesUp(p) PROVE ProgramsOK'
  <2>1. UNCHANGED <<copy, opt, seen>>
    BY <1>4 DEF Select, GivesUp
  <2>2. CASE \E t \in Task : Attempt(p, t)
    BY <2>1, <2>2, AttemptType
  <2>3. CASE Goto(p, "off") /\ UNCHANGED cur
    BY <2>1, <2>3 DEF Goto
  <2>4. QED
    BY <1>4, <2>2, <2>3 DEF Select, GivesUp, First
<1>5. ASSUME NEW p \in Program, Reopen(p) \/ Mend(p) PROVE ProgramsOK'
  <2>1. Attempt(p, cur[p]) /\ UNCHANGED <<copy, opt, seen>>
    BY <1>5 DEF Reopen, Mend, Again
  <2>2. QED
    BY <2>1, AttemptType
<1>6. ASSUME NEW p \in Program, Sync(p) \/ Halt(p) \/ Mark(p) \/ End(p) \/ Work(p)
             \/ Rewrite(p) \/ ReturnMain(p) \/ Crash(p)
      PROVE  ProgramsOK'
  BY <1>6 DEF Sync, Halt, Mark, End, Work, Rewrite, ReturnMain, Crash, Loaded, Goto
<1>7. ASSUME NEW p \in Program, Consume(p) PROVE ProgramsOK'
  BY <1>7 DEF Consume, Goto, FilesOK
<1>8. ASSUME NEW p \in Program, Spend(p) \/ ReturnCycle(p) PROVE ProgramsOK'
  <2>1. UNCHANGED <<copy, opt, seen>>
    BY <1>8 DEF Spend, ReturnCycle
  <2>2. CASE Attempt(p, cur[p])
    BY <2>1, <2>2, AttemptType
  <2>3. CASE UNCHANGED cur /\ \E place \in {"return", "select", "off"} : Goto(p, place)
    BY <2>1, <2>3 DEF Goto
  <2>4. QED
    BY <1>8, <2>2, <2>3 DEF Spend, ReturnCycle, Again
<1>9. ASSUME NEW t \in Task, Approve(t) \/ Reset(t) PROVE ProgramsOK'
  BY <1>9 DEF Approve, Reset, programs
<1>10. CASE ReadApprovals \/ AddApproval \/ OpenTask
  BY <1>10 DEF ReadApprovals, AddApproval, OpenTask, programs
<1>11. QED
  BY <1>1, <1>2, <1>3, <1>4, <1>5, <1>6, <1>7, <1>8, <1>9, <1>10, StepCases

LEMMA AttemptsStep == ASSUME TypeOK, Next PROVE AttemptsOK'
<1>. USE DEF TypeOK, AttemptsOK, Verdicts
<1>1. ASSUME NEW p \in Program, Start(p) PROVE AttemptsOK'
  BY <1>1 DEF Start
<1>2. ASSUME NEW p \in Program, Pick(p) \/ Select(p) \/ Reopen(p) PROVE AttemptsOK'
  <2>1. /\ tries' \in [Program -> 0..3] /\ calls' \in [Program -> Nat]
        /\ UNCHANGED <<executed, exhausted>>
    BY <1>2 DEF Pick, Select, Reopen
  <2>2. (\E t \in Task : Attempt(p, t)) \/ UNCHANGED <<verdict, rewritten>>
    BY <1>2 DEF Pick, Select, Reopen, First, Open, ProgramsOK
  <2>3. QED
    BY <2>1, <2>2, AttemptType
<1>3. ASSUME NEW p \in Program, Work(p) \/ Rewrite(p) PROVE AttemptsOK'
  BY <1>3 DEF Work, Rewrite
<1>4. ASSUME NEW p \in Program, Mend(p) \/ Spend(p) PROVE AttemptsOK'
  <2>1. Loop[cur[p]] \in 0..3
    BY LoopAssumption DEF ProgramsOK
  <2>2. tries' \in [Program -> 0..3] /\ UNCHANGED <<calls, executed, exhausted>>
    BY <1>4, <2>1 DEF Mend, Spend, Again
  <2>3. Attempt(p, cur[p]) \/ UNCHANGED <<verdict, rewritten>>
    BY <1>4 DEF Mend, Spend, Again
  <2>4. QED
    BY <2>2, <2>3, AttemptType DEF ProgramsOK
<1>5. ASSUME NEW p \in Program, ReturnCycle(p) PROVE AttemptsOK'
  <2>1. /\ calls' \in [Program -> Nat] /\ executed' \in [Program -> Nat]
        /\ tries' \in [Program -> 0..3]
    BY <1>5 DEF ReturnCycle
  <2>2. exhausted' \in [Program -> SUBSET Task]
    BY <1>5 DEF ReturnCycle, ProgramsOK
  <2>3. Attempt(p, cur[p]) \/ UNCHANGED <<verdict, rewritten>>
    BY <1>5 DEF ReturnCycle
  <2>4. QED
    BY <2>1, <2>2, <2>3, AttemptType DEF ProgramsOK
<1>6. ASSUME NEW p \in Program, Load(p) \/ Recover(p) \/ UpdateLoad(p) \/ Sync(p) \/ Halt(p)
             \/ Mark(p) \/ End(p) \/ GivesUp(p) \/ Consume(p) \/ ReturnMain(p) \/ Crash(p)
      PROVE  AttemptsOK'
  BY <1>6 DEF Load, Recover, UpdateLoad, Sync, Halt, Mark, End, GivesUp, Consume, ReturnMain, Crash
<1>7. ASSUME NEW t \in Task, Approve(t) \/ Reset(t) PROVE AttemptsOK'
  BY <1>7 DEF Approve, Reset, programs
<1>8. CASE ReadApprovals \/ AddApproval \/ OpenTask
  BY <1>8 DEF ReadApprovals, AddApproval, OpenTask, programs
<1>9. QED
  BY <1>1, <1>2, <1>3, <1>4, <1>5, <1>6, <1>7, <1>8, StepCases

LEMMA OperatorStep == ASSUME TypeOK, Next PROVE OperatorOK'
<1>. USE DEF TypeOK, OperatorOK
<1>1. ASSUME NEW p \in Program, Start(p) PROVE OperatorOK'
  <2>1. overlap' \in BOOLEAN
    BY <1>1, Zenon DEF Start
  <2>2. QED
    BY <1>1, <2>1 DEF Start, operator
<1>2. ASSUME NEW p \in Program, ~Start(p), Next, \E q \in Program : ProgramStep(q) \/ Crash(q)
      PROVE  OperatorOK'
  BY <1>2 DEF ProgramStep, Crash, Load, Sync, Recover, Halt, Pick, Reopen, Select, GivesUp,
    UpdateLoad, Mark, Work, End, Rewrite, Mend, Consume, Spend, ReturnMain, ReturnCycle,
    operator, bounds, history
<1>3. ASSUME NEW t \in Task, Approve(t) PROVE OperatorOK'
  <2>1. overlap' \in BOOLEAN
    BY <1>3, Zenon DEF Approve
  <2>2. QED
    BY <1>3, <2>1 DEF Approve, FilesOK
<1>4. ASSUME NEW t \in Task, Reset(t) PROVE OperatorOK'
  BY <1>4 DEF Reset, operator
<1>5. CASE ReadApprovals \/ AddApproval \/ OpenTask
  BY <1>5 DEF ReadApprovals, AddApproval, OpenTask, FilesOK, bounds, history
<1>6. QED
  BY <1>1, <1>2, <1>3, <1>4, <1>5 DEF Next

LEMMA TypeStep == ASSUME TypeOK, [Next]_vars PROVE TypeOK'
<1>1. CASE UNCHANGED vars
  BY <1>1 DEF vars, programs, operator, bounds, history, TypeOK, FilesOK, ProgramsOK, AttemptsOK,
              OperatorOK
<1>2. CASE Next
  BY <1>2, FilesStep, ProgramsStep, AttemptsStep, OperatorStep DEF TypeOK
<1>3. QED
  BY <1>1, <1>2

(* Every reachable state of the queue, the programs and the operator is    *)
(* well typed.                                                             *)
LEMMA TypeInit == ASSUME Init PROVE TypeOK
<1>1. 1 \in Task
  BY TasksAssumption DEF Task
<1>2. FilesOK
  BY DEF Init, FilesOK, Status
<1>3. ProgramsOK
  BY <1>1, <1>2, LimitsAssumption DEF Init, FilesOK, ProgramsOK, Places
<1>4. AttemptsOK
  BY DEF Init, AttemptsOK, Verdicts
<1>5. OperatorOK
  BY <1>1, <1>2 DEF Init, FilesOK, OperatorOK
<1>6. QED
  BY <1>2, <1>3, <1>4, <1>5 DEF TypeOK

THEOREM QueueTypeCorrect == Spec => []TypeOK
BY TypeInit, TypeStep, PTL DEF Spec

-----------------------------------------------------------------------------
(* One process at a time. While no two have been under way at once, a      *)
(* program that is up has the files to itself.                             *)
LEMMA GotoMoves ==
  ASSUME TypeOK, NEW p \in Program, NEW place, Goto(p, place)
  PROVE  pc'[p] = place /\ \A r \in Program \ {p} : pc'[r] = pc[r]
BY DEF TypeOK, ProgramsOK, Goto

LEMMA StepsMoveOne ==
  ASSUME TypeOK, NEW p \in Program, ProgramStep(p) \/ Crash(p)
  PROVE  /\ Up(p) /\ \A r \in Program \ {p} : pc'[r] = pc[r]
         /\ UNCHANGED <<operator, bounds, overlap>>
<1>1. CASE Pick(p) \/ Reopen(p) \/ Select(p) \/ Mend(p) \/ Spend(p) \/ ReturnCycle(p)
  <2>1. Up(p) /\ UNCHANGED <<operator, bounds, overlap>>
    BY <1>1 DEF Pick, Reopen, Select, Mend, Spend, ReturnCycle, Returns, Up, history
  <2>2. (\E t \in Task : Attempt(p, t)) \/ (\E place \in Places : Goto(p, place))
    BY <1>1 DEF Pick, Reopen, Select, Mend, Spend, ReturnCycle, Again, First, Open, Places, TypeOK,
                ProgramsOK
  <2>3. QED
    BY <2>1, <2>2, AttemptType, GotoMoves
<1>2. CASE \/ Load(p) \/ Sync(p) \/ Recover(p) \/ Halt(p) \/ GivesUp(p) \/ UpdateLoad(p)
           \/ Mark(p) \/ Work(p) \/ End(p) \/ Rewrite(p) \/ Consume(p) \/ ReturnMain(p) \/ Crash(p)
  <2>1. Up(p) /\ UNCHANGED <<operator, bounds, overlap>>
    BY <1>2 DEF Load, Sync, Recover, Halt, GivesUp, UpdateLoad, Mark, Work, End, Rewrite, Consume,
                ReturnMain, Crash, Returns, Up, history
  <2>2. \E place : Goto(p, place)
    BY <1>2 DEF Load, Sync, Recover, Halt, GivesUp, UpdateLoad, Mark, Work, End, Rewrite, Consume,
                ReturnMain, Crash
  <2>3. QED
    BY <2>1, <2>2, GotoMoves
<1>3. QED
  BY <1>1, <1>2 DEF ProgramStep

(* An overlap is not forgotten. *)
LEMMA OverlapStays == ASSUME TypeOK, [Next]_vars, overlap PROVE overlap'
<1>1. ASSUME NEW p \in Program, ProgramStep(p) \/ Crash(p) PROVE overlap'
  BY <1>1, StepsMoveOne
<1>2. ASSUME NEW p \in Program, Start(p) PROVE overlap'
  BY <1>2 DEF Start
<1>3. ASSUME NEW t \in Task, Approve(t) \/ Reset(t) PROVE overlap'
  BY <1>3 DEF Approve, Reset
<1>4. CASE ReadApprovals \/ AddApproval \/ OpenTask
  BY <1>4 DEF ReadApprovals, AddApproval, OpenTask, history
<1>5. QED
  BY <1>1, <1>2, <1>3, <1>4 DEF Next, vars, history

LEMMA AloneStep == ASSUME TypeOK, AloneSound, [Next]_vars PROVE AloneSound'
<1>. SUFFICES ASSUME ~overlap' PROVE (\A p \in Program : Up(p) => opc = "idle" /\ \A r \in Program : Up(r) => r = p)'
  BY DEF AloneSound
<1>0. ~overlap /\ \A p \in Program : Up(p) => opc = "idle" /\ \A r \in Program : Up(r) => r = p
  BY OverlapStays DEF AloneSound, TypeOK, OperatorOK
<1>1. ASSUME NEW p \in Program, ProgramStep(p) \/ Crash(p)
      PROVE  (\A q \in Program : Up(q) => opc = "idle" /\ \A r \in Program : Up(r) => r = q)'
  BY <1>0, <1>1, StepsMoveOne DEF Up, operator
<1>2. ASSUME NEW p \in Program, Start(p)
      PROVE  (\A q \in Program : Up(q) => opc = "idle" /\ \A r \in Program : Up(r) => r = q)'
  BY <1>2, GotoMoves DEF Start, Alone, Up, operator
<1>3. ASSUME NEW t \in Task, Approve(t)
      PROVE  (\A q \in Program : Up(q) => opc = "idle" /\ \A r \in Program : Up(r) => r = q)'
  BY <1>3 DEF Approve, Alone, Up, programs
<1>4. CASE ReadApprovals \/ AddApproval \/ OpenTask \/ \E t \in Task : Reset(t)
  BY <1>0, <1>4 DEF ReadApprovals, AddApproval, OpenTask, Reset, Up, programs, operator
<1>5. CASE UNCHANGED vars
  BY <1>0, <1>5 DEF Up, vars, programs, operator
<1>6. QED
  BY <1>1, <1>2, <1>3, <1>4, <1>5 DEF Next

-----------------------------------------------------------------------------
(* What waits for the operator.                                            *)
LEMMA ClosedSynced ==
  ASSUME NEW q \in [Task -> Status], waits \subseteq Task, Closed(q)
  PROVE  Closed(Synced(q))
BY DEF Closed, Synced

LEMMA ClosedRecovered ==
  ASSUME NEW q \in [Task -> Status], waits \subseteq Task, Closed(q)
  PROVE  Closed(Recovered(q))
BY DEF Closed, Recovered, Stale

LEMMA ClosedExcept ==
  ASSUME NEW q \in [Task -> Status], waits \subseteq Task, Closed(q),
         NEW t \in Task, t \notin waits, NEW v
  PROVE  Closed([q EXCEPT ![t] = v])
BY DEF Closed

(* Under a lone program the invariant is a matter of that program and the  *)
(* file.                                                                   *)
LEMMA WaitsFocus ==
  ASSUME TypeOK, AloneSound, WaitsSound, ~overlap,
         NEW p \in Program, ProgramStep(p) \/ Crash(p),
         Closed(queue)', Writes(p)' => Closed(copy[p])',
         (HasTask(p) \/ pc[p] = "reopen")' => (cur[p] \notin waits)'
  PROVE  WaitsSound'
<1>1. opc' = "idle" /\ \A r \in Program \ {p} : pc'[r] = "off"
  BY StepsMoveOne DEF AloneSound, Up, operator
<1>2. QED
  BY <1>1 DEF WaitsSound, Writes, HasTask

LEMMA WaitsProgram ==
  ASSUME TypeOK, AloneSound, WaitsSound, ~overlap, NEW p \in Program, ProgramStep(p) \/ Crash(p)
  PROVE  /\ Closed(queue)' /\ (Writes(p)' => Closed(copy[p])')
         /\ (HasTask(p) \/ pc[p] = "reopen")' => (cur[p] \notin waits)'
<1>. DEFINE Goal == /\ Closed(queue)' /\ (Writes(p)' => Closed(copy[p])')
                    /\ (HasTask(p) \/ pc[p] = "reopen")' => (cur[p] \notin waits)'
<1>. SUFFICES Goal
  OBVIOUS
<1>0. /\ queue \in [Task -> Status] /\ copy \in [Program -> [Task -> Status]]
      /\ copy[p] \in [Task -> Status]
      /\ pc \in [Program -> Places] /\ cur \in [Program -> Task] /\ waits \subseteq Task
  BY DEF TypeOK, FilesOK, ProgramsOK
<1>1. /\ Closed(queue) /\ (Writes(p) => Closed(copy[p]))
      /\ HasTask(p) \/ pc[p] = "reopen" => cur[p] \notin waits
  BY DEF WaitsSound
<1>2. CASE Load(p) \/ Recover(p) \/ UpdateLoad(p)
  <2>1. copy'[p] = Synced(queue) /\ UNCHANGED <<queue, waits, cur>>
    BY <1>0, <1>2 DEF Load, Recover, UpdateLoad, history
  <2>2. Closed(queue)' /\ Closed(copy[p])'
    BY <1>0, <1>1, <2>1, ClosedSynced DEF Closed
  <2>3. (HasTask(p) \/ pc[p] = "reopen")' => HasTask(p)
    BY <1>0, <1>2 DEF Load, Recover, UpdateLoad, Loaded, Goto, HasTask
  <2>4. QED
    BY <1>1, <2>1, <2>2, <2>3
<1>3. CASE Sync(p) \/ Halt(p)
  <2>1. Closed(queue') /\ UNCHANGED waits
    BY <1>0, <1>1, <1>3, ClosedRecovered DEF Sync, Halt, Writes, history
  <2>2. pc'[p] \in {"select", "recover", "off"}
    BY <1>0, <1>3 DEF Sync, Halt, Loaded, Goto
  <2>3. QED
    BY <2>1, <2>2 DEF Writes, HasTask, Closed
<1>4. CASE Pick(p)
  <2>1. copy'[p] = Synced(queue) /\ UNCHANGED <<queue, waits>>
    BY <1>0, <1>4 DEF Pick, history
  <2>2. Closed(queue)' /\ Closed(copy[p])'
    BY <1>0, <1>1, <2>1, ClosedSynced DEF Closed
  <2>3. CASE \E t \in Task : Synced(queue)[t] = "pending" /\ Attempt(p, t)
    <3>1. pc'[p] \in {"markLoad", "endLoad"} /\ cur'[p] \notin waits
      BY <1>0, <1>1, <2>3, ClosedSynced, AttemptType DEF Closed
    <3>2. QED
      BY <2>1, <2>2, <3>1
  <2>4. CASE \E t \in Task : Synced(queue)[t] = "needs_approval" /\ t \in Entity
                             /\ cur' = [cur EXCEPT ![p] = t]
    BY <1>0, <1>1, <2>1, <2>2, <2>4, ClosedSynced DEF Closed
  <2>5. CASE Goto(p, "off")
    BY <1>0, <2>2, <2>5 DEF Goto, HasTask
  <2>6. QED
    BY <1>4, <2>3, <2>4, <2>5 DEF Pick, First, Open
<1>5. CASE Reopen(p)
  <2>1. Closed(queue') /\ UNCHANGED <<waits, copy>>
    BY <1>0, <1>1, <1>5, ClosedExcept DEF Reopen, Writes, history
  <2>2. pc'[p] \in {"markLoad", "endLoad"} /\ cur'[p] = cur[p]
    BY <1>0, <1>5, AttemptType DEF Reopen
  <2>3. QED
    BY <1>1, <1>5, <2>1, <2>2 DEF Writes, HasTask, Closed, Reopen
<1>6. CASE Select(p) \/ GivesUp(p)
  <2>1. UNCHANGED <<queue, waits>>
    BY <1>6 DEF Select, GivesUp, history
  <2>2. CASE \E t \in Task : Synced(queue)[t] = "pending" /\ Attempt(p, t)
    <3>1. pc'[p] \in {"markLoad", "endLoad"} /\ cur'[p] \notin waits
      BY <1>0, <1>1, <2>2, ClosedSynced, AttemptType DEF Closed
    <3>2. QED
      BY <1>1, <2>1, <3>1 DEF Writes, Closed
  <2>3. CASE Goto(p, "off")
    BY <1>0, <1>1, <2>1, <2>3 DEF Goto, HasTask, Writes, Closed
  <2>4. QED
    BY <1>6, <2>2, <2>3 DEF Select, GivesUp, First
<1>7. CASE Mark(p) \/ End(p)
  <2>1. cur[p] \in Task /\ cur[p] \notin waits
    BY <1>0, <1>1, <1>7 DEF Mark, End, HasTask
  <2>2. Closed(queue') /\ UNCHANGED <<waits, cur>>
    <3>1. Closed(copy[p]) /\ UNCHANGED <<waits, cur>>
      BY <1>1, <1>7 DEF Mark, End, Writes, history
    <3>2. PICK v : queue' = [copy[p] EXCEPT ![cur[p]] = v]
      BY <1>7 DEF Mark, End
    <3>3. Closed([copy[p] EXCEPT ![cur[p]] = v])
      BY <1>0, <2>1, <3>1, ClosedExcept
    <3>4. QED
      BY <3>1, <3>2, <3>3
  <2>3. pc'[p] \in {"work", "decide"}
    BY <1>0, <1>7 DEF Mark, End, Goto
  <2>4. QED
    BY <2>1, <2>2, <2>3 DEF Writes, Closed
<1>8. CASE Work(p) \/ Rewrite(p) \/ Consume(p)
  <2>1. UNCHANGED <<queue, waits, cur>> /\ HasTask(p)
    BY <1>8 DEF Work, Rewrite, Consume, HasTask, history
  <2>2. pc'[p] \in {"endLoad", "spend"}
    BY <1>0, <1>8 DEF Work, Rewrite, Consume, Goto
  <2>3. QED
    BY <1>1, <2>1, <2>2 DEF Writes, Closed
<1>9. ASSUME Attempt(p, cur[p]), Mend(p) \/ Spend(p) \/ (ReturnCycle(p) /\ UNCHANGED waits)
      PROVE  Goal
  <2>1. UNCHANGED <<queue, waits>> /\ HasTask(p)
    BY <1>9 DEF Mend, Spend, ReturnCycle, Returns, HasTask, history
  <2>2. pc'[p] \in {"markLoad", "endLoad"} /\ cur'[p] = cur[p]
    BY <1>0, <1>9, AttemptType
  <2>3. QED
    BY <1>1, <2>1, <2>2 DEF Writes, Closed
<1>10. CASE Spend(p) /\ Goto(p, "return") /\ UNCHANGED cur
  <2>1. UNCHANGED <<queue, waits, cur>> /\ HasTask(p)
    BY <1>10 DEF Spend, HasTask
  <2>2. pc'[p] = "return"
    BY <1>0, <1>10 DEF Goto
  <2>3. QED
    BY <1>1, <2>1, <2>2 DEF Writes, Closed
<1>11. ASSUME Leaves(cur[p]) \/ UNCHANGED waits, UNCHANGED queue,
              \E place \in {"pick", "off", "select"} : Goto(p, place)
       PROVE  Goal
  <2>1. Closed(queue)'
    BY <1>1, <1>11 DEF Leaves, Closed
  <2>2. pc'[p] \in {"pick", "off", "select"}
    BY <1>0, <1>11 DEF Goto
  <2>3. QED
    BY <2>1, <2>2 DEF Writes, HasTask
<1>12. CASE ReturnMain(p) \/ ReturnCycle(p) \/ Crash(p)
  BY <1>9, <1>11, <1>12 DEF ReturnMain, ReturnCycle, Crash
<1>13. CASE Mend(p) \/ Spend(p)
  BY <1>9, <1>10, <1>13 DEF Mend, Spend, Again
<1>14. QED
  BY <1>2, <1>3, <1>4, <1>5, <1>6, <1>7, <1>8, <1>12, <1>13 DEF ProgramStep

LEMMA WaitsStep ==
  ASSUME TypeOK, AloneSound, WaitsSound, [Next]_vars PROVE WaitsSound'
<1>. SUFFICES ASSUME ~overlap' PROVE WaitsSound'
  BY DEF WaitsSound
<1>0. ~overlap
  BY OverlapStays
<1>. USE <1>0
<1>1. ASSUME NEW p \in Program, ProgramStep(p) \/ Crash(p) PROVE WaitsSound'
  BY <1>1, WaitsProgram, WaitsFocus
<1>2. ASSUME NEW p \in Program, Start(p) PROVE WaitsSound'
  <2>1. /\ UNCHANGED <<queue, waits, operator>> /\ opc = "idle"
        /\ \A r \in Program : pc'[r] \in {"off", "load"}
    BY <1>2, GotoMoves DEF Start, Alone, Up
  <2>2. QED
    BY <2>1 DEF WaitsSound, Writes, HasTask, Closed, operator
<1>3. ASSUME NEW t \in Task, Approve(t) PROVE WaitsSound'
  <2>1. UNCHANGED <<queue, waits, pc>> /\ ocopy' = queue /\ \A r \in Program : pc[r] = "off"
    BY <1>3 DEF Approve, Alone, Up, programs
  <2>2. QED
    BY <2>1 DEF WaitsSound, Writes, HasTask, Closed
<1>4. ASSUME NEW t \in Task, Reset(t) PROVE WaitsSound'
  <2>1. /\ queue' = [queue EXCEPT ![t] = "pending"] /\ waits' = waits \ {t}
        /\ UNCHANGED <<programs, operator>>
    BY <1>4 DEF Reset
  <2>2. queue \in [Task -> Status] /\ waits \subseteq Task
    BY DEF TypeOK, FilesOK
  <2>3. Closed(queue)'
    BY <2>1, <2>2 DEF WaitsSound, Closed
  <2>4. QED
    BY <2>1, <2>3 DEF WaitsSound, Writes, HasTask, Closed, programs, operator
<1>5. CASE ReadApprovals \/ AddApproval
  BY <1>5 DEF ReadApprovals, AddApproval, WaitsSound, Writes, HasTask, Closed, programs, history
<1>6. CASE OpenTask
  <2>1. /\ queue' = [ocopy EXCEPT ![otask] = "pending"] /\ waits' = waits \ {otask}
        /\ UNCHANGED programs /\ opc' = "idle" /\ Closed(ocopy)
    BY <1>6 DEF OpenTask, WaitsSound
  <2>2. ocopy \in [Task -> Status] /\ waits \subseteq Task
    BY DEF TypeOK, FilesOK, OperatorOK
  <2>3. Closed(queue)'
    BY <2>1, <2>2 DEF Closed
  <2>4. \A p \in Program : pc[p] = "off"
    BY <1>6 DEF OpenTask, AloneSound, Up
  <2>5. QED
    BY <2>1, <2>3, <2>4 DEF WaitsSound, Writes, HasTask, programs
<1>7. CASE UNCHANGED vars
  BY <1>7 DEF WaitsSound, Writes, HasTask, Closed, vars, programs, operator, history
<1>8. QED
  BY <1>1, <1>2, <1>3, <1>4, <1>5, <1>6, <1>7 DEF Next

-----------------------------------------------------------------------------
(* The approvals. *)
LEMMA ApprovalsStep ==
  ASSUME TypeOK, AloneSound, ApprovalsSound, [Next]_vars PROVE ApprovalsSound'
<1>. SUFFICES ASSUME ~overlap' PROVE ApprovalsSound'
  BY DEF ApprovalsSound
<1>0. ~overlap
  BY OverlapStays
<1>. USE <1>0
<1>1. ASSUME NEW p \in Program, ProgramStep(p) \/ Crash(p) PROVE ApprovalsSound'
  <2>1. opc' = "idle" /\ \A r \in Program \ {p} : pc'[r] = "off"
    BY <1>1, StepsMoveOne DEF AloneSound, Up, operator
  <2>2. pc'[p] = "spend" => Consume(p)
    <3>1. CASE Pick(p) \/ Reopen(p) \/ Select(p) \/ Mend(p) \/ Spend(p) \/ ReturnCycle(p)
      <4>1. \/ \E t \in Task : Attempt(p, t)
            \/ \E place \in Places \ {"spend"} : Goto(p, place)
        BY <3>1 DEF Pick, Reopen, Select, Mend, Spend, ReturnCycle, Again, First, Open, Places,
                    TypeOK, ProgramsOK
      <4>2. QED
        BY <4>1, AttemptType, GotoMoves
    <3>2. CASE \/ Load(p) \/ Sync(p) \/ Recover(p) \/ Halt(p) \/ GivesUp(p) \/ UpdateLoad(p)
               \/ Mark(p) \/ Work(p) \/ End(p) \/ Rewrite(p) \/ ReturnMain(p) \/ Crash(p)
      <4>1. \E place \in Places \ {"spend"} : Goto(p, place)
        BY <3>2 DEF Load, Sync, Recover, Halt, GivesUp, UpdateLoad, Mark, Work, End, Rewrite,
                    ReturnMain, Crash, Loaded, Places
      <4>2. QED
        BY <4>1, GotoMoves
    <3>3. QED
      BY <1>1, <3>1, <3>2 DEF ProgramStep
  <2>3. Consume(p) => seen'[p] = approvals' /\ approvals'[cur'[p]] > 0
    BY DEF Consume, TypeOK, ProgramsOK
  <2>4. QED
    BY <2>1, <2>2, <2>3 DEF ApprovalsSound
<1>2. ASSUME NEW p \in Program, Start(p) PROVE ApprovalsSound'
  <2>1. opc' = "idle" /\ \A r \in Program : pc'[r] \in {"off", "load"}
    BY <1>2, GotoMoves DEF Start, Alone, Up, operator
  <2>2. QED
    BY <2>1 DEF ApprovalsSound
<1>3. ASSUME NEW t \in Task, Approve(t) \/ Reset(t) PROVE ApprovalsSound'
  BY <1>3 DEF Approve, Reset, ApprovalsSound, programs, operator
<1>4. CASE ReadApprovals \/ AddApproval \/ OpenTask
  <2>1. \A p \in Program : pc[p] = "off"
    BY <1>4 DEF ReadApprovals, AddApproval, OpenTask, AloneSound, Up
  <2>2. QED
    BY <1>4, <2>1 DEF ReadApprovals, AddApproval, OpenTask, ApprovalsSound, programs
<1>5. CASE UNCHANGED vars
  BY <1>5 DEF ApprovalsSound, vars, programs, operator
<1>6. QED
  BY <1>1, <1>2, <1>3, <1>4, <1>5 DEF Next

LEMMA GrantsStep ==
  ASSUME TypeOK, AloneSound, ApprovalsSound, GrantsOnce, [Next]_vars PROVE GrantsOnce'
<1>. SUFFICES ASSUME ~overlap' PROVE GrantsOnce'
  BY DEF GrantsOnce
<1>0. ~overlap
  BY OverlapStays
<1>1. /\ approvals \in [Task -> Nat] /\ granted \in [Task -> Nat] /\ spent \in [Task -> Nat]
      /\ \A t \in Task : spent[t] + approvals[t] <= granted[t]
  BY <1>0 DEF TypeOK, FilesOK, GrantsOnce
<1>2. ASSUME NEW p \in Program, Spend(p) PROVE GrantsOnce'
  <2>1. /\ cur[p] \in Task /\ seen[p] = approvals /\ approvals[cur[p]] > 0
    BY <1>0, <1>2 DEF Spend, ApprovalsSound, TypeOK, ProgramsOK
  <2>2. approvals' = [approvals EXCEPT ![cur[p]] = approvals[cur[p]] - 1] /\ UNCHANGED granted
    BY <1>2, <2>1 DEF Spend, Remaining
  <2>3. UNCHANGED spent \/ spent' = [spent EXCEPT ![cur[p]] = spent[cur[p]] + 1]
    BY <1>2 DEF Spend
  <2>4. QED
    BY <1>1, <2>1, <2>2, <2>3 DEF GrantsOnce
<1>3. CASE AddApproval
  <2>1. oseen = approvals /\ otask \in Task
    BY <1>0, <1>3 DEF AddApproval, ApprovalsSound, TypeOK, OperatorOK
  <2>2. QED
    BY <1>1, <1>3, <2>1 DEF AddApproval, GrantsOnce
<1>4. CASE UNCHANGED <<approvals, granted, spent>>
  BY <1>1, <1>4 DEF GrantsOnce
<1>5. CASE \E p \in Program : Start(p) \/ Crash(p) \/ (ProgramStep(p) /\ ~Spend(p))
  BY <1>4, <1>5 DEF Start, Crash, ProgramStep, Load, Sync, Recover, Halt, Pick, Reopen, Select,
    GivesUp, UpdateLoad, Mark, Work, End, Rewrite, Mend, Consume, ReturnMain, ReturnCycle, history
<1>6. CASE ReadApprovals \/ OpenTask \/ (\E t \in Task : Approve(t) \/ Reset(t)) \/ UNCHANGED vars
  BY <1>4, <1>6 DEF ReadApprovals, OpenTask, Approve, Reset, vars, history
<1>7. QED
  BY <1>2, <1>3, <1>5, <1>6 DEF Next

-----------------------------------------------------------------------------
IInv == TypeOK /\ AloneSound /\ WaitsSound /\ ApprovalsSound /\ GrantsOnce

LEMMA Inductive == Spec => []IInv
<1>1. Init => IInv
  <2>. SUFFICES ASSUME Init PROVE IInv
    OBVIOUS
  <2>1. AloneSound /\ WaitsSound /\ ApprovalsSound
    BY DEF Init, AloneSound, WaitsSound, ApprovalsSound, Up, Closed, Writes, HasTask
  <2>2. GrantsOnce
    BY DEF Init, GrantsOnce
  <2>3. QED
    BY <2>1, <2>2, TypeInit DEF IInv
<1>2. IInv /\ [Next]_vars => IInv'
  BY TypeStep, AloneStep, WaitsStep, ApprovalsStep, GrantsStep DEF IInv
<1>3. QED
  BY <1>1, <1>2, PTL DEF Spec

(* However many approvals, programs and crashes there are: as long as one  *)
(* process works on the files at a time, an approval that is given lets at *)
(* most one attempt be repeated.                                           *)
THEOREM ApprovalsGrantOnce == Spec => []GrantsOnce
BY Inductive, PTL DEF IInv

(* A task that ended badly, waits for an approval or was cut by a crash is *)
(* not begun again by any later program before the operator has put it     *)
(* back into the queue.                                                    *)
THEOREM TasksAreLeft == Spec => LeftToOperator
<1>1. IInv /\ [Next]_vars => [\A p \in Program, t \in waits : Begins(p, t) => overlap]_vars
  BY DEF IInv, WaitsSound, Begins, HasTask
<1>2. QED
  BY <1>1, Inductive, PTL DEF Spec, LeftToOperator
=============================================================================
