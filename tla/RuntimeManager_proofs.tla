------------------------ MODULE RuntimeManager_proofs ------------------------
(***************************************************************************)
(* The runtime manager for every number of processes, callers and calls:   *)
(* types, the status against _process in every interleaving, and the single *)
(* gateway unless a start has crossed a stop.                              *)
(***************************************************************************)
EXTENDS RuntimeManager, FiniteSetTheorems, TLAPS

(* The calls of one thread, in the order of the code. *)
LEMMA StepCases ==
  ASSUME Next
  PROVE  \/ \E c \in Caller :
              \/ AlreadyUp(c) \/ NotInstalled(c) \/ SpawnFails(c)
              \/ \E p \in Process : Spawn(c, p)
              \/ Settle(c) \/ StartReturns(c)
              \/ NothingToStop(c) \/ StopBegins(c) \/ Terminate(c)
              \/ StopFails(c) \/ Forget(c)
              \/ \E verb \in {"start", "stop", "restart"} : Call(c, verb)
         \/ \E p \in Process : Exits(p)
         \/ Refresh
BY DEF Next, CallStep

(* What a refresh leaves is a process and a status. *)
LEMMA ObservedType ==
  ASSUME TypeOK
  PROVE  /\ Managed \in Process \cup {NoProcess}
         /\ Observed \in {"stopped", "starting", "running", "error"}
         /\ Observed = "running" /\ (status = "running" => process # NoProcess)
              => Managed # NoProcess
         /\ \A p \in Process : Live(p) /\ p = process => Managed = p
         /\ Observed \notin {"starting", "running"} => ~Live(process)
         /\ Live(process) => Managed = process
BY NoProcessAssumption DEF TypeOK, Managed, Observed, Live

LEMMA TypeStep == ASSUME TypeOK, [Next]_vars PROVE TypeOK'
<1>1. CASE UNCHANGED vars
  BY <1>1 DEF TypeOK, vars
<1>2. CASE Refresh
  BY <1>2, ObservedType DEF Refresh, TypeOK
<1>3. ASSUME NEW p \in Process, Exits(p) PROVE TypeOK'
  BY <1>3 DEF Exits, TypeOK
<1>4. ASSUME NEW c \in Caller, NEW verb \in {"start", "stop", "restart"}, Call(c, verb)
      PROVE TypeOK'
  BY <1>4, CallsAssumption DEF Call, Goto, TypeOK, Places
<1>5. ASSUME NEW c \in Caller,
             AlreadyUp(c) \/ NotInstalled(c) \/ SpawnFails(c) \/ Settle(c) \/ StartReturns(c)
      PROVE TypeOK'
  BY <1>5, ObservedType
  DEF AlreadyUp, NotInstalled, SpawnFails, Settle, StartReturns, Goto, TypeOK, Places
<1>6. ASSUME NEW c \in Caller, NEW p \in Process, Spawn(c, p) PROVE TypeOK'
  BY <1>6 DEF Spawn, Launch, Goto, TypeOK, Places
<1>7. ASSUME NEW c \in Caller, NothingToStop(c) \/ StopFails(c) \/ Forget(c) PROVE TypeOK'
  BY <1>7, ObservedType DEF NothingToStop, StopFails, Forget, StopReturns, Goto, TypeOK, Places
<1>8. ASSUME NEW c \in Caller, StopBegins(c) \/ Terminate(c) PROVE TypeOK'
  BY <1>8 DEF StopBegins, Terminate, Live, Goto, TypeOK, Places
<1>9. QED
  BY <1>1, <1>2, <1>3, <1>4, <1>5, <1>6, <1>7, <1>8, StepCases

(* Every reachable state of the manager is well typed. *)
THEOREM RuntimeTypeCorrect == Spec => []TypeOK
<1>1. Init => TypeOK
  <2>1. 0 \in 0..MaxCalls
    BY CallsAssumption
  <2>2. QED
    BY <2>1, ZenonT(30) DEF Init, TypeOK, Places
<1>2. QED
  BY <1>1, TypeStep, PTL DEF Spec

-----------------------------------------------------------------------------

(* In every interleaving of any number of calls, the status is running only *)
(* with a process in _process: the case refresh_status does not handle does *)
(* not arise.                                                              *)
THEOREM RuntimeRunningHasProcess == Spec => []RunningHasProcess
<1>1. Init => RunningHasProcess
  BY DEF Init, RunningHasProcess
<1>2. ASSUME TypeOK, RunningHasProcess, [Next]_vars PROVE RunningHasProcess'
  <2>1. CASE UNCHANGED vars
    BY <1>2, <2>1 DEF vars, RunningHasProcess
  <2>2. CASE Refresh
    BY <1>2, <2>2, ObservedType DEF Refresh, RunningHasProcess
  <2>3. ASSUME NEW p \in Process, Exits(p) PROVE RunningHasProcess'
    BY <1>2, <2>3 DEF Exits, RunningHasProcess
  <2>4. ASSUME NEW c \in Caller,
               \/ \E verb \in {"start", "stop", "restart"} : Call(c, verb)
               \/ StopBegins(c) \/ Terminate(c)
        PROVE RunningHasProcess'
    BY <1>2, <2>4 DEF Call, StopBegins, Terminate, RunningHasProcess
  <2>5. ASSUME NEW c \in Caller,
               AlreadyUp(c) \/ NotInstalled(c) \/ SpawnFails(c) \/ StartReturns(c)
        PROVE RunningHasProcess'
    BY <1>2, <2>5, ObservedType
    DEF AlreadyUp, NotInstalled, SpawnFails, StartReturns, RunningHasProcess
  <2>6. ASSUME NEW c \in Caller, Settle(c) PROVE RunningHasProcess'
    BY <1>2, <2>6 DEF Settle, Live, RunningHasProcess
  <2>7. ASSUME NEW c \in Caller,
               \/ \E p \in Process : Spawn(c, p)
               \/ NothingToStop(c) \/ StopFails(c) \/ Forget(c)
        PROVE RunningHasProcess'
    BY <1>2, <2>7 DEF Spawn, Launch, NothingToStop, StopFails, Forget, RunningHasProcess
  <2>8. QED
    BY <1>2, <2>1, <2>2, <2>3, <2>4, <2>5, <2>6, <2>7, StepCases
<1>3. QED
  BY <1>1, <1>2, RuntimeTypeCorrect, PTL DEF Spec

-----------------------------------------------------------------------------

(* Unless a start has crossed a stop: what is alive is what the manager     *)
(* holds, and a stop holds that process too until it has ended.            *)
ManagerSound ==
  /\ \A p \in Process : Live(p) => p = process
  /\ \A c \in Caller :
       /\ pc[c] \in {"stopping", "forget"} => process \in {held[c], NoProcess} \/ ~Live(process)
       /\ pc[c] = "forget" => ~Live(held[c])

LEMMA ManagerStep ==
  ASSUME TypeOK, ~crossed => ManagerSound, [Next]_vars, ~crossed'
  PROVE  ManagerSound'
<1>0. ~crossed /\ ManagerSound
  <2>1. crossed => crossed'
    BY StepCases
    DEF vars, Refresh, Exits, Call, AlreadyUp, NotInstalled, SpawnFails, Spawn, Launch, Settle,
        StartReturns, NothingToStop, StopBegins, Terminate, StopFails, Forget
  <2>2. QED
    BY <2>1
<1>1. CASE UNCHANGED vars
  BY <1>0, <1>1 DEF ManagerSound, Live, vars
<1>2. CASE Refresh
  BY <1>0, <1>2 DEF Refresh, Managed, ManagerSound, Live
<1>3. ASSUME NEW p \in Process, Exits(p) PROVE ManagerSound'
  BY <1>0, <1>3 DEF Exits, ManagerSound, Live, TypeOK
<1>4. ASSUME NEW c \in Caller, NEW verb \in {"start", "stop", "restart"}, Call(c, verb)
      PROVE ManagerSound'
  BY <1>0, <1>4 DEF Call, Goto, ManagerSound, Live, TypeOK
<1>5. ASSUME NEW c \in Caller, AlreadyUp(c) \/ NotInstalled(c) \/ SpawnFails(c) \/ StartReturns(c)
      PROVE ManagerSound'
  BY <1>0, <1>5
  DEF AlreadyUp, NotInstalled, SpawnFails, StartReturns, Managed, Goto, ManagerSound, Live, TypeOK
<1>6. ASSUME NEW c \in Caller, Settle(c) PROVE ManagerSound'
  BY <1>0, <1>6 DEF Settle, Goto, ManagerSound, Live, TypeOK
<1>7. ASSUME NEW c \in Caller, NEW p \in Process, Spawn(c, p) PROVE ManagerSound'
  <2>1. ~Live(process)
    BY <1>7, ObservedType DEF Spawn
  <2>2. \A q \in Process : ~Live(q)
    BY <1>0, <2>1 DEF ManagerSound
  <2>3. \A d \in Caller : pc[d] \notin {"stopping", "forget"}
    BY <1>7 DEF Spawn, Launch
  <2>4. \A d \in Caller : pc'[d] \notin {"stopping", "forget"}
    BY <1>7, <2>3 DEF Spawn, Launch, Goto, TypeOK
  <2>5. QED
    BY <1>7, <2>2, <2>4 DEF Spawn, Launch, ManagerSound, Live, TypeOK
<1>8. ASSUME NEW c \in Caller, NothingToStop(c) PROVE ManagerSound'
  BY <1>0, <1>8 DEF NothingToStop, StopReturns, Goto, ManagerSound, Live, TypeOK
<1>9. ASSUME NEW c \in Caller, StopBegins(c) PROVE ManagerSound'
  BY <1>0, <1>9 DEF StopBegins, Goto, ManagerSound, Live, TypeOK
<1>10. ASSUME NEW c \in Caller, Terminate(c) PROVE ManagerSound'
  <2>1. ~(Live(held[c])')
    BY <1>10, NoProcessAssumption DEF Terminate, Live, TypeOK
  <2>2. held' = held /\ process' = process
    BY <1>10 DEF Terminate
  <2>3. \A p : Live(p)' => Live(p)
    BY <1>10 DEF Terminate, Live, TypeOK
  <2>4. \A d \in Caller : d # c => pc'[d] = pc[d]
    BY <1>10 DEF Terminate, Goto, TypeOK
  <2>5. pc[c] = "stopping"
    BY <1>10 DEF Terminate
  <2>6. QED
    BY <1>0, <2>1, <2>2, <2>3, <2>4, <2>5 DEF ManagerSound, Live
<1>11. ASSUME NEW c \in Caller, StopFails(c) PROVE ManagerSound'
  <2>1. os' = os /\ process' = Managed
    BY <1>11 DEF StopFails
  <2>2. \A d \in Caller : pc'[d] \in {"stopping", "forget"} => d # c /\ pc'[d] = pc[d]
    BY <1>11 DEF StopFails, StopReturns, Goto, TypeOK
  <2>3. \A d \in Caller : d # c => held'[d] = held[d]
    BY <1>11 DEF StopFails, TypeOK
  <2>4. QED
    BY <1>0, <2>1, <2>2, <2>3, NoProcessAssumption DEF ManagerSound, Live, Managed
<1>12. ASSUME NEW c \in Caller, Forget(c) PROVE ManagerSound'
  <2>1. \A p \in Process : ~Live(p)
    BY <1>0, <1>12 DEF Forget, ManagerSound, Live
  <2>2. os' = os /\ process' = NoProcess
    BY <1>12 DEF Forget
  <2>3. \A d \in Caller : pc'[d] \in {"stopping", "forget"} => d # c /\ pc'[d] = pc[d]
    BY <1>12 DEF Forget, StopReturns, Goto, TypeOK
  <2>4. \A d \in Caller : d # c => held'[d] = held[d]
    BY <1>12 DEF Forget, TypeOK
  <2>5. QED
    BY <1>0, <2>1, <2>2, <2>3, <2>4 DEF ManagerSound, Live
<1>13. QED
  BY <1>1, <1>2, <1>3, <1>4, <1>5, <1>6, <1>7, <1>8, <1>9, <1>10, <1>11, <1>12, StepCases

LEMMA ManagerCorrect == Spec => [](~crossed => ManagerSound)
<1>1. Init => (~crossed => ManagerSound)
  BY DEF Init, ManagerSound, Live
<1>2. TypeOK /\ (~crossed => ManagerSound) /\ [Next]_vars => (~crossed => ManagerSound)'
  BY ManagerStep
<1>3. QED
  BY <1>1, <1>2, RuntimeTypeCorrect, PTL DEF Spec

(* For any number of callers and calls, as long as no start has spawned its *)
(* process while a stop was under way there is at most one gateway.        *)
THEOREM RuntimeOneProcess == Spec => []OneProcess
<1>1. ASSUME ManagerSound PROVE Cardinality({p \in Process : os[p] = "live"}) <= 1
  <2>1. {p \in Process : os[p] = "live"} \subseteq {process}
    <3>1. SUFFICES ASSUME NEW p \in Process, os[p] = "live" PROVE p = process
      OBVIOUS
    <3>2. QED
      BY <1>1, <3>1, NoProcessAssumption DEF ManagerSound, Live
  <2>2. IsFiniteSet({process}) /\ Cardinality({process}) = 1
    BY FS_Singleton
  <2>3. Cardinality({p \in Process : os[p] = "live"}) <= Cardinality({process})
    BY <2>1, <2>2, FS_Subset
  <2>4. QED
    BY <2>2, <2>3
<1>2. (~crossed => ManagerSound) => OneProcess
  BY <1>1 DEF OneProcess
<1>3. QED
  BY <1>2, ManagerCorrect, PTL

(* Under the same condition the manager always holds the gateway that is    *)
(* alive, so that a stop reaches it.                                       *)
THEOREM RuntimeNothingLeftBehind == Spec => []NothingLeftBehind
<1>1. (~crossed => ManagerSound) => NothingLeftBehind
  BY DEF ManagerSound, NothingLeftBehind
<1>2. QED
  BY <1>1, ManagerCorrect, PTL
=============================================================================
