--------------------------- MODULE TaskChain_proofs ---------------------------
(***************************************************************************)
(* Proofs about TaskChain for every set of loops and clients, every chain  *)
(* definition with positive limits, and any number of calls and crashes:   *)
(* type correctness, one loop that a stop can reach, how soon a stop acts, *)
(* what the step records account for, what a running record means, and     *)
(* that a chain reports success only on steps that succeeded.              *)
(***************************************************************************)
EXTENDS TaskChain, TLAPS

(* The empty string is none of the names it is compared with. *)
LEMMA UnsetIsOther ==
    Unset \notin {"completed", "failed", "auto_compare", "done", "report", "report_success",
                 "report_failed", "report_recovery", "validate", "primary_validate",
                 "validate_primary", "feature_gate_before", "feature_gate_after"}
BY Zenon DEF Unset

(* Every branch rule names real stages and a report the code knows
   (task_chain_policy.py 42-219). *)
LEMMA RulesTyped ==
    ASSUME NEW kind, NEW r \in BranchRules(kind), kind \in V2Kinds
    PROVE  /\ r.next \in Stage
           /\ r.report \in Report \cup {Unset, "auto_compare"}
           /\ r.pauses \in BOOLEAN
<1> DEFINE Good(x) == /\ x.next \in Stage /\ x.report \in Report \cup {Unset, "auto_compare"}
                      /\ x.pauses \in BOOLEAN
<1>1. \A stage, on, next, report, pauses :
         next \in Stage /\ report \in Report \cup {Unset, "auto_compare"} /\ pauses \in BOOLEAN
         => Good(Rule(stage, on, next, report, pauses))
  BY DEF Rule
<1>2. {"report", "validate_primary", "validate_fallback", "compare_target",
       "feature_gate_before", "feature_gate_after"} \subseteq Stage
  BY DEF Stage
<1>3. {"completed", "failed"} \subseteq Report
  BY DEF Report
<1> HIDE DEF Good
<1>4. ASSUME NEW exhausted, Good(exhausted), r \in FallbackRules(exhausted) PROVE Good(r)
  BY <1>1, <1>2, <1>3, <1>4 DEF FallbackRules
<1>5. ASSUME kind = "validate_with_fallback" PROVE Good(r)
  <2>1. BranchRules(kind)
          = FallbackRules(Rule("validate_fallback", Bad, "report", "failed", FALSE))
    BY <1>5 DEF BranchRules
  <2>2. QED
    BY <2>1, <1>1, <1>2, <1>3, <1>4
<1>6. ASSUME kind = "dispatch_recover_resume" PROVE Good(r)
  <2>1. BranchRules(kind)
          = FallbackRules(Rule("validate_fallback", Bad, "validate_fallback", Unset, TRUE))
    BY <1>6 DEF BranchRules
  <2>2. QED
    BY <2>1, <1>1, <1>2, <1>3, <1>4
<1>7. ASSUME kind = "validate_compare_report" PROVE Good(r)
  <2>1. BranchRules(kind)
          = {Rule("validate_primary", StepStatus, "compare_target", Unset, FALSE),
             Rule("compare_target", StepStatus, "report", "auto_compare", FALSE)}
    BY <1>7 DEF BranchRules
  <2>2. QED
    BY <2>1, <1>1, <1>2
<1>8. ASSUME kind = "feature_validate_gate" PROVE Good(r)
  <2>1. BranchRules(kind)
          = {Rule("feature_gate_before", {"success"}, "validate_primary", Unset, FALSE),
             Rule("feature_gate_before", {"failed"}, "feature_gate_before", Unset, TRUE),
             Rule("validate_primary", {"success"}, "feature_gate_after", Unset, FALSE),
             Rule("validate_primary", Bad, "validate_primary", Unset, TRUE),
             Rule("feature_gate_after", {"success"}, "report", "completed", FALSE),
             Rule("feature_gate_after", {"failed"}, "feature_gate_after", Unset, TRUE)}
    BY <1>8 DEF BranchRules
  <2>2. /\ \A on : Good(Rule("feature_gate_before", on, "validate_primary", Unset, FALSE))
        /\ \A on : Good(Rule("feature_gate_before", on, "feature_gate_before", Unset, TRUE))
        /\ \A on : Good(Rule("validate_primary", on, "feature_gate_after", Unset, FALSE))
    BY <1>1, <1>2
  <2>3. /\ \A on : Good(Rule("validate_primary", on, "validate_primary", Unset, TRUE))
        /\ \A on : Good(Rule("feature_gate_after", on, "report", "completed", FALSE))
        /\ \A on : Good(Rule("feature_gate_after", on, "feature_gate_after", Unset, TRUE))
    BY <1>1, <1>2, <1>3
  <2>4. QED
    BY <2>1, <2>2, <2>3
<1>9. Good(r)
  BY <1>5, <1>6, <1>7, <1>8 DEF V2Kinds
<1>10. QED
  BY <1>9 DEF Good

(* So does the decision, also when no rule matches. *)
LEMMA DecisionTyped ==
    ASSUME NEW kind \in V2Kinds, NEW stage \in Stage, NEW status \in StepStatus
    PROVE  /\ Decision(kind, stage, status).next \in Stage
           /\ Decision(kind, stage, status).report \in Report \cup {Unset, "auto_compare"}
           /\ Decision(kind, stage, status).pauses \in BOOLEAN
<1> DEFINE matching == {r \in BranchRules(kind) : r.stage = stage /\ status \in r.on}
<1>1. CASE matching = {}
  BY <1>1 DEF Decision, Rule
<1>2. CASE matching # {}
  <2>1. Decision(kind, stage, status) \in BranchRules(kind)
    BY <1>2 DEF Decision
  <2>2. QED
    BY <2>1, RulesTyped
<1>3. QED
  BY <1>1, <1>2

(* A step's outcome is a record with one more step counted; nothing but the
   outcome decides the other fields (task_chain_runner.py 508-664). *)
LEMMA CountedTyped ==
    ASSUME NEW chain \in ChainRecord, NEW status \in StepStatus
    PROVE  Counted(chain, status) \in ChainRecord /\ Counted(chain, status).steps = chain.steps + 1
<1>1. /\ chain.steps + 1 \in Nat /\ chain.succ + 1 \in Nat /\ chain.fail + 1 \in Nat
      /\ chain.idle + 1 \in Nat
  BY DEF ChainRecord
<1> DEFINE good == status = "success"
           b == IF good THEN chain.succ + 1 ELSE chain.succ
           f == IF good THEN chain.fail ELSE chain.fail + 1
           i == IF good THEN 0 ELSE chain.idle + 1
<1>3. b \in Nat /\ f \in Nat /\ i \in Nat
  BY <1>1 DEF ChainRecord
<1>4. Counted(chain, status)
        = [chain EXCEPT !.steps = chain.steps + 1, !.succ = b, !.fail = f, !.idle = i]
  BY DEF Counted
<1> HIDE DEF b, f, i
<1>5. Counted(chain, status) \in ChainRecord
  BY <1>1, <1>3, <1>4 DEF ChainRecord
<1>6. Counted(chain, status).steps = chain.steps + 1
  BY <1>4 DEF ChainRecord
<1>7. QED
  BY <1>5, <1>6

LEMMA OutcomeV1Typed ==
    ASSUME NEW c \in Configs, NEW chain \in ChainRecord, NEW status \in StepStatus
    PROVE  /\ OutcomeV1(c, chain, status) \in ChainRecord
           /\ OutcomeV1(c, chain, status).steps = chain.steps + 1
<1> DEFINE moved == AdvanceStage(c, chain, status)
           updated == [Counted(chain, status) EXCEPT !.stage = moved.stage,
                                                     !.report = moved.report]
<1>1. moved.stage \in Stage /\ moved.report \in Report
  <2>1. chain.report \in Report
    BY DEF ChainRecord
  <2>2. QED
    BY <2>1 DEF AdvanceStage, Stage, Report
<1>2. updated \in ChainRecord /\ updated.steps = chain.steps + 1
  BY <1>1, CountedTyped DEF ChainRecord
<1>3. ASSUME NEW s \in Status
      PROVE  /\ [updated EXCEPT !.status = s] \in ChainRecord
             /\ [updated EXCEPT !.status = s].steps = chain.steps + 1
  BY <1>2 DEF ChainRecord
<1>4. {"blocked", "failed", "completed"} \subseteq Status
  BY DEF Status, Settled
<1> HIDE DEF moved
<1>5. QED
  BY <1>2, <1>3, <1>4 DEF OutcomeV1, moved

LEMMA OutcomeV2Typed ==
    ASSUME NEW c \in Configs, c.kind \in V2Kinds, NEW chain \in ChainRecord,
           NEW status \in StepStatus
    PROVE  /\ OutcomeV2(c, chain, status) \in ChainRecord
           /\ OutcomeV2(c, chain, status).steps = chain.steps + 1
<1> DEFINE decision == Decision(c.kind, chain.stage, status)
           updated == [Counted(chain, status) EXCEPT
                         !.stage = decision.next,
                         !.report = ReportAfter(chain, status, decision)]
<1>1. chain.stage \in Stage /\ chain.report \in Report
  BY DEF ChainRecord
<1>2. decision.next \in Stage /\ decision.report \in Report \cup {Unset, "auto_compare"}
  BY <1>1, DecisionTyped
<1>3. ReportAfter(chain, status, decision) \in Report
  BY <1>1, <1>2 DEF ReportAfter, Report
<1> HIDE DEF decision
<1>4. updated \in ChainRecord /\ updated.steps = chain.steps + 1
  BY <1>2, <1>3, CountedTyped DEF ChainRecord
<1>5. ASSUME NEW s \in Status
      PROVE  /\ [updated EXCEPT !.status = s] \in ChainRecord
             /\ [updated EXCEPT !.status = s].steps = chain.steps + 1
  BY <1>4 DEF ChainRecord
<1> DEFINE reported == [chain EXCEPT !.steps = @ + 1, !.succ = @ + 1, !.stage = "done",
                                     !.status = chain.report]
<1>6. reported \in ChainRecord /\ reported.steps = chain.steps + 1
  <2>1. chain.report \in Status /\ "done" \in Stage
    BY <1>1 DEF Stage, Report, Status, Settled
  <2>2. chain.steps + 1 \in Nat /\ chain.succ + 1 \in Nat
    BY DEF ChainRecord
  <2>3. QED
    BY <2>1, <2>2 DEF ChainRecord
<1>7. {"paused", "failed"} \subseteq Status
  BY DEF Status, Settled
<1>8. QED
  BY <1>4, <1>5, <1>6, <1>7 DEF OutcomeV2, decision

LEMMA OutcomeTyped ==
    ASSUME NEW c \in Configs, NEW chain \in ChainRecord, NEW status \in StepStatus
    PROVE  /\ Outcome(c, chain, status) \in ChainRecord
           /\ Outcome(c, chain, status).steps = chain.steps + 1
BY OutcomeV1Typed, OutcomeV2Typed DEF Outcome

LEMMA ResultsTyped ==
    ASSUME NEW c, NEW chain PROVE Results(c, chain) \subseteq StepStatus
BY DEF Results, StepStatus

(* What the checks before a step answer (task_chain_runner.py 165-192). *)
LEMMA VerdictTyped ==
    ASSUME NEW chain
    PROVE  Verdict(chain) \in Settled \cup {"running"}
BY DEF Verdict, Settled

LEMMA RecordUpdates ==
    ASSUME NEW chain \in ChainRecord
    PROVE  /\ \A s \in Status : [chain EXCEPT !.status = s] \in ChainRecord
           /\ Started(chain) \in ChainRecord /\ Resumed(chain) \in ChainRecord
           /\ Started(chain).steps = chain.steps /\ Resumed(chain).steps = chain.steps
           /\ chain.steps \in Nat /\ chain.status \in Status
<1>1. \A s \in Status : [chain EXCEPT !.status = s] \in ChainRecord
  BY DEF ChainRecord
<1>2. chain.steps \in Nat /\ chain.resumes + 1 \in Nat /\ chain.status \in Status
  BY DEF ChainRecord
<1>3. "running" \in Status
  BY DEF Status
<1>4. Started(chain) \in ChainRecord /\ Started(chain).steps = chain.steps
  BY <1>1, <1>3 DEF Started, ChainRecord
<1>5. Resumed(chain) \in ChainRecord /\ Resumed(chain).steps = chain.steps
  BY <1>2, <1>3 DEF Resumed, ChainRecord
<1>6. QED
  BY <1>1, <1>2, <1>4, <1>5

-----------------------------------------------------------------------------
LEMMA InitTyped == Init => TypeOK
<1> SUFFICES ASSUME Init PROVE TypeOK
  OBVIOUS
<1>1. cfg.kind \in V1Kinds \cup V2Kinds
  BY ConfigAssumption DEF Init
<1>2. Created(cfg) \in ChainRecord
  BY <1>1 DEF Created, ChainRecord, InitialStage, V1Kinds, V2Kinds, Stage, Report, Status
<1>3. QED
  BY <1>2 DEF Init, TypeOK

LEMMA WriteTyped ==
    ASSUME NEW record \in ChainRecord, Write(record), TypeOK
    PROVE  /\ rec' = record /\ rec' \in ChainRecord /\ lost' \in Nat
           /\ rec.steps + lost <= rec'.steps + lost' /\ lost <= lost'
<1>1. rec.steps \in Nat /\ record.steps \in Nat /\ lost \in Nat
  BY DEF TypeOK, ChainRecord
<1>2. QED
  BY <1>1 DEF Write

LEMMA NextTyped == TypeOK /\ [Next]_vars => TypeOK'
<1> SUFFICES ASSUME TypeOK, [Next]_vars PROVE TypeOK'
  OBVIOUS
<1>0. /\ \A c \in Client : held[c] \in ChainRecord
      /\ \A l \in Loop : copy[l] \in ChainRecord
      /\ rec \in ChainRecord /\ cfg \in Configs
  BY DEF TypeOK
<1>1. ASSUME NEW l \in Loop, CheckEvent(l) PROVE TypeOK'
  BY <1>1 DEF TypeOK, CheckEvent, callVars
<1>2. ASSUME NEW l \in Loop, ReadAndDecide(l) PROVE TypeOK'
  <2>1. [rec EXCEPT !.status = IF @ = "running" THEN Verdict(rec) ELSE @] \in ChainRecord
    BY <1>0, VerdictTyped DEF ChainRecord, Status
  <2>2. copy' \in [Loop -> ChainRecord]
    BY <1>2, <2>1 DEF TypeOK, ReadAndDecide
  <2>3. late' \in [Loop -> Nat]
    BY <1>2 DEF TypeOK, ReadAndDecide
  <2>4. QED
    BY <1>2, <2>2, <2>3 DEF TypeOK, ReadAndDecide, callVars
<1>3. ASSUME NEW l \in Loop, Settle(l) PROVE TypeOK'
  <2>1. rec' \in ChainRecord /\ lost' \in Nat
    BY <1>0, <1>3, WriteTyped DEF Settle
  <2>2. QED
    BY <1>3, <2>1 DEF TypeOK, Settle, callVars
<1>4. ASSUME NEW l \in Loop, StepEnds(l) PROVE TypeOK'
  <2>1. copy' \in [Loop -> ChainRecord]
    BY <1>0, <1>4, OutcomeTyped, ResultsTyped DEF TypeOK, StepEnds
  <2>2. QED
    BY <1>4, <2>1 DEF TypeOK, StepEnds, callVars
<1>5. ASSUME NEW l \in Loop, StoreOutcome(l) PROVE TypeOK'
  <2>1. rec' \in ChainRecord /\ lost' \in Nat
    BY <1>0, <1>5, WriteTyped DEF StoreOutcome
  <2>2. QED
    BY <1>5, <2>1 DEF TypeOK, StoreOutcome, callVars
<1>6. ASSUME NEW l \in Loop, AfterStop(l) PROVE TypeOK'
  <2>1. [rec EXCEPT !.status = "stopped"] \in ChainRecord
    BY <1>0 DEF ChainRecord, Status, Settled
  <2>2. QED
    BY <1>6, <2>1 DEF TypeOK, AfterStop, callVars
<1>7. ASSUME NEW l \in Loop, Cleanup(l) \/ LoopFails(l) PROVE TypeOK'
  <2>1. CASE Cleanup(l)
    BY <2>1 DEF TypeOK, Cleanup, callVars
  <2>2. CASE LoopFails(l)
    <3>1. /\ pc' = [pc EXCEPT ![l] = "cleanup"]
          /\ lost' \in Nat /\ orphaned' = TRUE
      BY <2>2 DEF TypeOK, LoopFails
    <3>2. UNCHANGED <<cfg, cpc, held, ops, crashes, asked, rec, logged, registered, copy, ev,
                      late>>
      BY <2>2 DEF LoopFails, callVars
    <3>3. QED
      BY <3>1, <3>2 DEF TypeOK
  <2>3. QED
    BY <1>7, <2>1, <2>2
<1>8. ASSUME NEW c \in Client, NEW op \in {"start", "resume", "pause", "stop"}, Call(c, op)
      PROVE  TypeOK'
  <2>1. held' \in [Client -> ChainRecord]
    BY <1>0, <1>8 DEF TypeOK, Call
  <2>2. /\ cpc' \in [Client -> {"idle", "start", "resume", "pause", "stop", "write", "shutdown"}]
        /\ ops' \in Nat
    BY <1>8 DEF TypeOK, Call
  <2>3. UNCHANGED <<cfg, rec, logged, registered, pc, copy, ev, late, asked, crashes, lost,
                    orphaned>>
    BY <1>8 DEF Call, loopVars
  <2>4. QED
    BY <2>1, <2>2, <2>3 DEF TypeOK
<1>9. ASSUME NEW c \in Client, Shutdown(c) PROVE TypeOK'
  BY <1>9 DEF TypeOK, Shutdown, SignalLoop
<1>10. ASSUME NEW c \in Client, StartRefused(c) PROVE TypeOK'
  BY <1>10 DEF TypeOK, StartRefused, Return, loopVars
<1>11. ASSUME NEW c \in Client, NEW l \in Loop, StartChain(c, l) \/ ResumeChain(c, l)
       PROVE  TypeOK'
  <2>1. rec' \in ChainRecord /\ lost' \in Nat
    BY <1>0, <1>11, WriteTyped, RecordUpdates DEF StartChain, ResumeChain
  <2>2. Spawn(l) /\ Return(c) /\ UNCHANGED <<cfg, logged, held, ops, crashes>>
    BY <1>11 DEF StartChain, ResumeChain
  <2>3. /\ pc' \in [Loop -> {"idle", "head", "read", "settle", "step", "store", "after", "cleanup"}]
        /\ registered' \in Loop \cup {NoLoop} /\ orphaned' \in BOOLEAN
        /\ ev' \in [Loop -> BOOLEAN] /\ late' \in [Loop -> Nat]
        /\ asked' \subseteq {"pause", "stop"} /\ copy' = copy
    BY <2>2 DEF TypeOK, Spawn
  <2>4. cpc' \in [Client -> {"idle", "start", "resume", "pause", "stop", "write", "shutdown"}]
    BY <2>2 DEF TypeOK, Return
  <2>5. QED
    BY <2>1, <2>2, <2>3, <2>4 DEF TypeOK
<1>12. ASSUME NEW c \in Client, SetStopEvent(c) PROVE TypeOK'
  <2>1. held' \in [Client -> ChainRecord]
    <3>1. {"paused", "stopped"} \subseteq Status
      BY DEF Status, Settled
    <3>2. \A s \in {"paused", "stopped"} : [held[c] EXCEPT !.status = s] \in ChainRecord
      BY <1>0, <3>1, RecordUpdates
    <3>3. QED
      BY <1>12, <3>2 DEF TypeOK, SetStopEvent
  <2>2. QED
    BY <1>12, <2>1 DEF TypeOK, SetStopEvent, SignalLoop, Return
<1>13. ASSUME NEW c \in Client, WriteSettled(c) PROVE TypeOK'
  <2>1. rec' \in ChainRecord /\ lost' \in Nat
    BY <1>0, <1>13, WriteTyped DEF WriteSettled
  <2>2. QED
    BY <1>13, <2>1 DEF TypeOK, WriteSettled, Return, loopVars
<1>14. ASSUME NEW c \in Client, ShutdownRead(c) PROVE TypeOK'
  <2>1. [rec EXCEPT !.status = "stopped"] \in ChainRecord
    BY <1>0 DEF ChainRecord, Status, Settled
  <2>2. held' \in [Client -> ChainRecord]
    BY <1>14, <2>1 DEF TypeOK, ShutdownRead
  <2>3. QED
    BY <1>14, <2>2 DEF TypeOK, ShutdownRead, Return, loopVars
<1>15. CASE ControllerEnds
  BY <1>15 DEF TypeOK, ControllerEnds
<1>16. CASE UNCHANGED vars
  BY <1>16 DEF TypeOK, vars
<1>17. QED
  BY <1>1, <1>2, <1>3, <1>4, <1>5, <1>6, <1>7, <1>8, <1>9, <1>10, <1>11, <1>12, <1>13,
     <1>14, <1>15, <1>16 DEF Next, LoopStep, ClientStep

(* The state is always well typed. *)
THEOREM ChainTypeCorrect == Spec => []TypeOK
BY InitTyped, NextTyped, PTL DEF Spec

-----------------------------------------------------------------------------
(* One loop: with TypeOK the property is inductive.  A new loop is spawned
   only when the registered one has ended, and then no other can be alive. *)
LEMMA OneLoopStep == TypeOK /\ OneLoopReachable /\ [Next]_vars => OneLoopReachable'
<1> SUFFICES ASSUME TypeOK, OneLoopReachable, [Next]_vars PROVE OneLoopReachable'
  OBVIOUS
<1>0. \A l \in Loop : l # NoLoop
  BY LoopAssumption
<1>1. ASSUME NEW l \in Loop, LoopStep(l) \/ LoopFails(l) PROVE OneLoopReachable'
  <2>1. CASE Cleanup(l)
    BY <2>1 DEF TypeOK, OneLoopReachable, Cleanup
  <2>2. CASE CheckEvent(l) \/ ReadAndDecide(l) \/ Settle(l)
    BY <2>2 DEF TypeOK, OneLoopReachable, CheckEvent, ReadAndDecide, Settle
  <2>3. CASE StepEnds(l) \/ StoreOutcome(l) \/ AfterStop(l) \/ LoopFails(l)
    BY <2>3 DEF TypeOK, OneLoopReachable, StepEnds, StoreOutcome, AfterStop, LoopFails
  <2>4. QED
    BY <1>1, <2>1, <2>2, <2>3 DEF LoopStep
<1>2. ASSUME NEW c \in Client, NEW l \in Loop, StartChain(c, l) \/ ResumeChain(c, l)
      PROVE  OneLoopReachable'
  <2>1. ~Alive(registered) /\ Spawn(l)
    BY <1>2 DEF StartChain, ResumeChain
  <2>2. \A m \in Loop : pc[m] = "idle"
    BY <2>1, <1>0 DEF Alive, OneLoopReachable
  <2>3. QED
    BY <2>1, <2>2 DEF TypeOK, Spawn, OneLoopReachable
<1>3. ASSUME UNCHANGED <<pc, registered>> PROVE OneLoopReachable'
  BY <1>3 DEF OneLoopReachable
<1>4. ASSUME NEW c \in Client, NEW op, Call(c, op) \/ Shutdown(c) \/ StartRefused(c)
                                      \/ SetStopEvent(c) \/ WriteSettled(c) \/ ShutdownRead(c)
      PROVE  OneLoopReachable'
  BY <1>3, <1>4 DEF Call, Shutdown, StartRefused, SetStopEvent, WriteSettled, ShutdownRead,
                    loopVars
<1>5. CASE ControllerEnds
  BY <1>5 DEF ControllerEnds, OneLoopReachable
<1>6. CASE UNCHANGED vars
  BY <1>3, <1>6 DEF vars
<1>7. QED
  BY <1>1, <1>2, <1>4, <1>5, <1>6 DEF Next, ClientStep

(* The loop that is alive is the one a stop can reach. *)
THEOREM ChainOneLoop == Spec => []OneLoopReachable
<1>1. Init => OneLoopReachable
  BY DEF Init, OneLoopReachable
<1>2. QED
  BY <1>1, OneLoopStep, ChainTypeCorrect, PTL DEF Spec

-----------------------------------------------------------------------------
(* How late a loop can be: it begins a step after its event was set only from
   "read", and comes back there only past an event that is not set. *)
Prompt(l) ==
    /\ late[l] <= 1
    /\ pc[l] = "read" => late[l] = 0
    /\ pc[l] # "idle" /\ ~ev[l] => late[l] = 0

PromptInv == \A l \in Loop : Prompt(l)

LEMMA PromptStep == TypeOK /\ PromptInv /\ [Next]_vars => PromptInv'
<1> SUFFICES ASSUME TypeOK, PromptInv, [Next]_vars, NEW l \in Loop PROVE Prompt(l)'
  BY DEF PromptInv
<1>0. Prompt(l) /\ late[l] \in Nat
  BY DEF PromptInv, TypeOK
<1>1. ASSUME NEW m \in Loop, LoopStep(m) \/ LoopFails(m) PROVE Prompt(l)'
  <2>1. CASE CheckEvent(m)
    BY <1>0, <2>1 DEF TypeOK, Prompt, CheckEvent
  <2>2. CASE ReadAndDecide(m)
    <3>1. CASE l # m
      BY <1>0, <2>2, <3>1 DEF TypeOK, Prompt, ReadAndDecide
    <3>2. CASE l = m
      <4>1. late[l] = 0 /\ ev' = ev /\ pc'[l] # "read"
        BY <1>0, <2>2, <3>2 DEF TypeOK, Prompt, ReadAndDecide
      <4>2. late'[l] = IF ev[l] /\ rec.status = "running" /\ Verdict(rec) = "running"
                       THEN 1 ELSE 0
        BY <4>1, <2>2, <3>2 DEF TypeOK, ReadAndDecide
      <4>3. QED
        BY <4>1, <4>2 DEF Prompt
    <3>3. QED
      BY <3>1, <3>2
  <2>3. CASE Settle(m) \/ StepEnds(m) \/ AfterStop(m) \/ LoopFails(m)
    <3>1. UNCHANGED <<ev, late>> /\ pc[m] \notin {"idle", "head", "cleanup"}
      BY <2>3 DEF Settle, StepEnds, AfterStop, LoopFails
    <3>2. pc' \in {[pc EXCEPT ![m] = p] : p \in {"cleanup", "store", "settle"}}
      BY <2>3 DEF Settle, StepEnds, AfterStop, LoopFails
    <3>3. QED
      BY <1>0, <3>1, <3>2 DEF TypeOK, Prompt
  <2>4. CASE StoreOutcome(m)
    BY <1>0, <2>4 DEF TypeOK, Prompt, StoreOutcome
  <2>5. CASE Cleanup(m)
    BY <1>0, <2>5 DEF TypeOK, Prompt, Cleanup
  <2>6. QED
    BY <1>1, <2>1, <2>2, <2>3, <2>4, <2>5 DEF LoopStep
<1>2. ASSUME NEW c \in Client, NEW m \in Loop, StartChain(c, m) \/ ResumeChain(c, m)
      PROVE  Prompt(l)'
  <2>1. Spawn(m)
    BY <1>2 DEF StartChain, ResumeChain
  <2>2. QED
    BY <1>0, <2>1 DEF TypeOK, Spawn, Prompt
<1>3. ASSUME UNCHANGED <<pc, late>>, ev[l] => ev'[l] PROVE Prompt(l)'
  BY <1>0, <1>3 DEF Prompt
<1>4. ASSUME NEW c \in Client, Shutdown(c) \/ SetStopEvent(c) PROVE Prompt(l)'
  <2>1. ev[l] => ev'[l]
    BY <1>4 DEF Shutdown, SetStopEvent, SignalLoop
  <2>2. QED
    BY <1>3, <1>4, <2>1 DEF Shutdown, SetStopEvent
<1>5. ASSUME NEW c \in Client, NEW op, Call(c, op) \/ StartRefused(c) \/ WriteSettled(c)
                                      \/ ShutdownRead(c)
      PROVE  Prompt(l)'
  BY <1>3, <1>5 DEF Call, StartRefused, WriteSettled, ShutdownRead, loopVars
<1>6. CASE ControllerEnds
  BY <1>0, <1>6 DEF ControllerEnds, Prompt
<1>7. CASE UNCHANGED vars
  BY <1>3, <1>7 DEF vars
<1>8. QED
  BY <1>1, <1>2, <1>4, <1>5, <1>6, <1>7 DEF Next, ClientStep

(* After a stop at most one more step begins. *)
THEOREM ChainStopIsPrompt == Spec => []StopIsPrompt
<1>1. Init => PromptInv
  BY DEF Init, PromptInv, Prompt
<1>2. PromptInv => StopIsPrompt
  BY DEF PromptInv, Prompt, StopIsPrompt
<1>3. QED
  BY <1>1, <1>2, PromptStep, ChainTypeCorrect, PTL DEF Spec

-----------------------------------------------------------------------------
(* What the stored step records account for.  Every copy counts no more steps
   than are stored and than the limit allows; and the records that the stored
   chain does not count are lost, but for the one of a loop that has yet to
   store its outcome. *)
Storing == \E l \in Loop : pc[l] = "store"

Counts(chain) == chain.steps <= logged /\ chain.steps <= cfg.steps

CountInv ==
    /\ Counts(rec)
    /\ \A c \in Client : Counts(held[c])
    /\ \A l \in Loop :
         /\ Counts(copy[l])
         /\ pc[l] = "step" => copy[l].steps < cfg.steps
         /\ pc[l] \in {"step", "store"} => logged <= copy[l].steps + lost
    /\ logged <= rec.steps + lost + (IF Storing THEN 1 ELSE 0)

(* What a write of any record that counts leaves of the bounds. *)
LEMMA WriteCounts ==
    ASSUME TypeOK, CountInv, NEW record \in ChainRecord, Write(record), Counts(record),
           UNCHANGED <<cfg, logged, copy, held>>,
           \A l \in Loop : pc'[l] \in {"step", "store"} => pc'[l] = pc[l],
           logged <= rec.steps + lost + (IF Storing' THEN 1 ELSE 0)
              \/ logged <= record.steps + lost
    PROVE  CountInv'
<1>1. /\ rec' = record /\ lost' \in Nat /\ lost \in Nat /\ logged \in Nat
      /\ rec.steps \in Nat /\ record.steps \in Nat
      /\ rec.steps + lost <= rec'.steps + lost' /\ lost <= lost'
  BY WriteTyped DEF TypeOK, ChainRecord
<1>2. Counts(rec)' /\ \A c \in Client : Counts(held[c])'
  BY <1>1 DEF CountInv, Counts
<1>3. ASSUME NEW l \in Loop
      PROVE  /\ Counts(copy[l])'
             /\ pc'[l] = "step" => copy'[l].steps < cfg'.steps
             /\ pc'[l] \in {"step", "store"} => logged' <= copy'[l].steps + lost'
  <2>1. copy[l].steps \in Nat
    BY DEF TypeOK, ChainRecord
  <2>2. QED
    BY <1>1, <2>1 DEF CountInv, Counts
<1>4. logged' <= rec'.steps + lost' + (IF Storing' THEN 1 ELSE 0)
  BY <1>1
<1>5. QED
  BY <1>2, <1>3, <1>4 DEF CountInv

LEMMA CountStep == TypeOK /\ OneLoopReachable /\ CountInv /\ [Next]_vars => CountInv'
<1> SUFFICES ASSUME TypeOK, OneLoopReachable, CountInv, [Next]_vars PROVE CountInv'
  OBVIOUS
<1>0. /\ logged \in Nat /\ lost \in Nat /\ cfg.steps \in Nat /\ rec.steps \in Nat
      /\ rec \in ChainRecord /\ cfg \in Configs
      /\ \A l \in Loop : copy[l] \in ChainRecord /\ copy[l].steps \in Nat
      /\ \A c \in Client : held[c] \in ChainRecord /\ held[c].steps \in Nat
  BY ConfigAssumption DEF TypeOK, ChainRecord
<1>1. ASSUME NEW l \in Loop, pc[l] # "idle" PROVE \A m \in Loop : m # l => pc[m] = "idle"
  BY <1>1 DEF OneLoopReachable
<1>2. ASSUME NEW l \in Loop, CheckEvent(l) \/ AfterStop(l) \/ Cleanup(l) PROVE CountInv'
  <2>1. UNCHANGED <<cfg, rec, logged, held, lost>>
    BY <1>2 DEF CheckEvent, AfterStop, Cleanup, callVars
  <2>2. \A m \in Loop : copy'[m].steps \in {copy[m].steps, rec.steps}
    BY <1>0, <1>2 DEF TypeOK, ChainRecord, CheckEvent, AfterStop, Cleanup
  <2>3. \A m \in Loop : /\ pc'[m] \in {"step", "store"} => pc'[m] = pc[m] /\ copy'[m] = copy[m]
                        /\ pc[m] = "store" => pc'[m] = "store"
    BY <1>2 DEF TypeOK, CheckEvent, AfterStop, Cleanup
  <2>4. Storing' = Storing
    BY <2>3 DEF Storing
  <2>5. QED
    BY <1>0, <2>1, <2>2, <2>3, <2>4 DEF CountInv, Counts
<1>3. ASSUME NEW l \in Loop, ReadAndDecide(l) PROVE CountInv'
  <2>1. UNCHANGED <<cfg, rec, logged, held, lost>>
    BY <1>3 DEF ReadAndDecide, callVars
  <2>2. copy'[l].steps = rec.steps /\ \A m \in Loop : m # l => copy'[m] = copy[m]
    BY <1>0, <1>3 DEF TypeOK, ChainRecord, ReadAndDecide
  <2>3. \A m \in Loop : m # l => pc'[m] = "idle" /\ pc[m] = "idle"
    BY <1>1, <1>3 DEF TypeOK, ReadAndDecide
  <2>4. pc[l] = "read" /\ pc'[l] # "store"
    BY <1>3 DEF TypeOK, ReadAndDecide
  <2>5. ~Storing /\ ~Storing'
    BY <2>3, <2>4 DEF Storing
  <2>6. pc'[l] = "step" => rec.steps < cfg.steps
    <3>1. ASSUME pc'[l] = "step" PROVE Verdict(rec) = "running"
      BY <1>3, <3>1 DEF TypeOK, ReadAndDecide
    <3>2. ASSUME Verdict(rec) = "running" PROVE ~(rec.steps >= cfg.steps)
      BY <3>2 DEF Verdict
    <3>3. QED
      BY <1>0, <3>1, <3>2
  <2>7. QED
    BY <1>0, <2>1, <2>2, <2>3, <2>4, <2>5, <2>6 DEF CountInv, Counts
<1>4. ASSUME NEW l \in Loop, Settle(l) PROVE CountInv'
  <2>1. Write(copy[l]) /\ Counts(copy[l])
    BY <1>4 DEF Settle, CountInv
  <2>2. /\ \A m \in Loop : pc'[m] \in {"step", "store"} => pc'[m] = pc[m]
        /\ \A m \in Loop : pc[m] = "store" => pc'[m] = "store"
    BY <1>4 DEF TypeOK, Settle
  <2>3. Storing => Storing'
    BY <2>2 DEF Storing
  <2>4. logged <= rec.steps + lost + (IF Storing' THEN 1 ELSE 0)
    BY <1>0, <2>3 DEF CountInv
  <2>5. QED
    BY <1>0, <1>4, <2>1, <2>2, <2>4, WriteCounts DEF Settle, callVars
<1>5. ASSUME NEW l \in Loop, StepEnds(l) PROVE CountInv'
  <2>1. UNCHANGED <<cfg, rec, held, lost>> /\ logged' = logged + 1 /\ pc[l] = "step"
    BY <1>5 DEF StepEnds, callVars
  <2>2. copy'[l].steps = copy[l].steps + 1 /\ \A m \in Loop : m # l => copy'[m] = copy[m]
    <3>1. PICK status \in Results(cfg, copy[l]) :
             copy' = [copy EXCEPT ![l] = Outcome(cfg, copy[l], status)]
      BY <1>5 DEF StepEnds
    <3>2. Outcome(cfg, copy[l], status).steps = copy[l].steps + 1
      BY <1>0, ResultsTyped, OutcomeTyped
    <3>3. QED
      BY <3>1, <3>2 DEF TypeOK
  <2>3. pc'[l] = "store" /\ \A m \in Loop : m # l => pc'[m] = "idle" /\ pc[m] = "idle"
    BY <1>1, <1>5 DEF TypeOK, StepEnds
  <2>4. ~Storing /\ Storing'
    BY <2>1, <2>3 DEF Storing
  <2>5. copy[l].steps < cfg.steps /\ logged <= copy[l].steps + lost
    BY <2>1 DEF CountInv
  <2>6. logged' <= rec.steps + lost + 1
    BY <1>0, <2>1, <2>4 DEF CountInv
  <2>7. QED
    BY <1>0, <2>1, <2>2, <2>3, <2>4, <2>5, <2>6 DEF CountInv, Counts
<1>6. ASSUME NEW l \in Loop, StoreOutcome(l) PROVE CountInv'
  <2>1. Write(copy[l]) /\ Counts(copy[l]) /\ logged <= copy[l].steps + lost
    BY <1>6 DEF StoreOutcome, CountInv
  <2>2. \A m \in Loop : pc'[m] \in {"step", "store"} => pc'[m] = pc[m]
    BY <1>6 DEF TypeOK, StoreOutcome
  <2>3. QED
    BY <1>0, <1>6, <2>1, <2>2, WriteCounts DEF StoreOutcome, callVars
<1>7. ASSUME NEW c \in Client, NEW l \in Loop, StartChain(c, l) \/ ResumeChain(c, l)
      PROVE  CountInv'
  <2>1. PICK record \in {Started(held[c]), Resumed(held[c])} : Write(record)
    BY <1>7 DEF StartChain, ResumeChain
  <2>2. record \in ChainRecord /\ Counts(record)
    BY <1>0, RecordUpdates, ZenonT(30) DEF CountInv, Counts
  <2>3. Spawn(l) /\ UNCHANGED <<cfg, logged, held>>
    BY <1>7 DEF StartChain, ResumeChain
  <2>4. /\ \A m \in Loop : pc'[m] \in {"step", "store"} => pc'[m] = pc[m]
        /\ \A m \in Loop : pc[m] = "store" => pc'[m] = "store"
    BY <2>3 DEF TypeOK, Spawn
  <2>5. Storing => Storing'
    BY <2>4 DEF Storing
  <2>6. logged <= rec.steps + lost + (IF Storing' THEN 1 ELSE 0)
    BY <1>0, <2>5 DEF CountInv
  <2>7. QED
    BY <2>1, <2>2, <2>3, <2>4, <2>6, WriteCounts DEF Spawn
<1>8. ASSUME NEW c \in Client, WriteSettled(c) PROVE CountInv'
  <2>1. Write(held[c]) /\ Counts(held[c]) /\ UNCHANGED <<cfg, logged, copy, held, pc>>
    BY <1>8 DEF WriteSettled, CountInv, loopVars
  <2>2. Storing' = Storing
    BY <2>1 DEF Storing
  <2>3. logged <= rec.steps + lost + (IF Storing' THEN 1 ELSE 0)
    BY <1>0, <2>2 DEF CountInv
  <2>4. QED
    BY <1>0, <2>1, <2>3, WriteCounts
<1>9. ASSUME UNCHANGED <<cfg, rec, logged, pc, copy, lost>>,
             \A c \in Client : held'[c].steps \in {held[c].steps, rec.steps}
      PROVE  CountInv'
  <2>1. Storing' = Storing
    BY <1>9 DEF Storing
  <2>2. QED
    BY <1>9, <2>1 DEF CountInv, Counts
<1>10. ASSUME NEW c \in Client, NEW op, Call(c, op) \/ Shutdown(c) \/ StartRefused(c)
                                       \/ SetStopEvent(c) \/ ShutdownRead(c)
       PROVE  CountInv'
  <2>1. \A d \in Client : held'[d].steps \in {held[d].steps, rec.steps}
    BY <1>0, <1>10 DEF TypeOK, ChainRecord, Call, Shutdown, StartRefused, SetStopEvent,
                       ShutdownRead
  <2>2. QED
    BY <1>9, <1>10, <2>1 DEF Call, Shutdown, StartRefused, SetStopEvent, ShutdownRead,
                             loopVars
<1>11. ASSUME NEW l \in Loop, LoopFails(l) PROVE CountInv'
  <2>1. /\ UNCHANGED <<cfg, rec, logged, copy, held>> /\ lost' \in Nat
        /\ lost' = IF pc[l] = "store" THEN lost + 1 ELSE lost
    BY <1>0, <1>11 DEF LoopFails, callVars
  <2>2. /\ \A m \in Loop : pc'[m] \in {"step", "store"} => pc'[m] = pc[m]
        /\ \A m \in Loop : pc'[m] # "store"
    BY <1>1, <1>11 DEF TypeOK, LoopFails
  <2>3. Storing => pc[l] = "store"
    BY <1>1, <1>11 DEF Storing, LoopFails
  <2>4. logged <= rec.steps + lost'
    BY <1>0, <2>1, <2>3 DEF CountInv
  <2>5. ~Storing'
    BY <2>2 DEF Storing
  <2>6. QED
    BY <1>0, <2>1, <2>2, <2>4, <2>5 DEF CountInv, Counts
<1>12. CASE ControllerEnds
  <2>1. /\ UNCHANGED <<cfg, rec, logged, copy, held>> /\ lost' \in Nat
        /\ lost' = IF Storing THEN lost + 1 ELSE lost
        /\ \A m \in Loop : pc'[m] = "idle"
    BY <1>0, <1>12 DEF ControllerEnds, Storing
  <2>2. logged <= rec.steps + lost' /\ ~Storing'
    BY <1>0, <2>1 DEF CountInv, Storing
  <2>3. QED
    BY <1>0, <2>1, <2>2 DEF CountInv, Counts
<1>13. CASE UNCHANGED vars
  BY <1>9, <1>13 DEF vars
<1>14. QED
  BY <1>2, <1>3, <1>4, <1>5, <1>6, <1>7, <1>8, <1>10, <1>11, <1>12, <1>13
     DEF Next, LoopStep, ClientStep

LEMMA CountInit == Init => CountInv
<1> SUFFICES ASSUME Init PROVE CountInv
  OBVIOUS
<1>1. cfg.steps \in Nat
  BY ConfigAssumption DEF Init
<1>2. QED
  BY <1>1 DEF Init, CountInv, Counts, Created

(* The chain counts no step that is not recorded, *)
THEOREM ChainStepsLogged == Spec => []StepsAreLogged
<1>1. CountInv => StepsAreLogged
  BY DEF CountInv, Counts, StepsAreLogged
<1>2. QED
  BY <1>1, CountInit, CountStep, ChainTypeCorrect, ChainOneLoop, PTL DEF Spec

(* and runs no more steps than its limit but for those whose count was lost. *)
THEOREM ChainStepBudget == Spec => []StepBudget
<1>1. TypeOK /\ CountInv => StepBudget
  <2> SUFFICES ASSUME TypeOK, CountInv PROVE StepBudget
    OBVIOUS
  <2>1. /\ logged \in Nat /\ lost \in Nat /\ cfg.steps \in Nat /\ rec.steps \in Nat
        /\ \A l \in Loop : copy[l].steps \in Nat
    BY ConfigAssumption DEF TypeOK, ChainRecord
  <2>2. CASE Storing
    BY <2>1, <2>2 DEF CountInv, Counts, Storing, StepBudget
  <2>3. CASE ~Storing
    BY <2>1, <2>3 DEF CountInv, Counts, StepBudget
  <2>4. QED
    BY <2>2, <2>3
<1>2. QED
  BY <1>1, CountInit, CountStep, ChainTypeCorrect, ChainOneLoop, PTL DEF Spec

-----------------------------------------------------------------------------
(* What keeps a running record from being left behind: some loop is still on
   its way to a write that settles it. *)
RunningInv ==
    /\ rec.status = "running" => orphaned \/ \E l \in Loop : pc[l] \notin {"idle", "cleanup"}
    /\ \A l \in Loop : pc[l] = "settle" => copy[l].status # "running"
    /\ \A c \in Client : cpc[c] = "write" => held[c].status # "running"

LEMMA RunningStep == TypeOK /\ OneLoopReachable /\ RunningInv /\ [Next]_vars => RunningInv'
<1> SUFFICES ASSUME TypeOK, OneLoopReachable, RunningInv, [Next]_vars PROVE RunningInv'
  OBVIOUS
<1>0. /\ \A l \in Loop : copy[l] \in ChainRecord
      /\ \A c \in Client : held[c] \in ChainRecord
      /\ rec \in ChainRecord
  BY DEF TypeOK
<1>1. ASSUME NEW l \in Loop, LoopStep(l) PROVE RunningInv'
  <2>0. UNCHANGED <<cpc, held>>
    BY <1>1 DEF LoopStep, CheckEvent, ReadAndDecide, Settle, StepEnds, StoreOutcome, AfterStop,
                Cleanup, callVars
  <2>1. CASE CheckEvent(l) \/ StepEnds(l)
    BY <2>0, <2>1 DEF TypeOK, RunningInv, CheckEvent, StepEnds
  <2>2. CASE ReadAndDecide(l)
    <3>1. rec.status = "running" => pc'[l] \in {"settle", "step"}
      BY <2>2 DEF TypeOK, ReadAndDecide
    <3>2. pc'[l] = "settle" => copy'[l].status # "running"
      <4>1. pc'[l] = "settle" => rec.status = "running" /\ Verdict(rec) # "running"
        BY <2>2 DEF TypeOK, ReadAndDecide
      <4>2. rec.status = "running" => copy'[l].status = Verdict(rec)
        BY <1>0, <2>2 DEF TypeOK, ReadAndDecide, ChainRecord
      <4>3. QED
        BY <4>1, <4>2
    <3>3. rec' = rec /\ \A m \in Loop : m # l => pc'[m] = pc[m] /\ copy'[m] = copy[m]
      BY <2>2 DEF TypeOK, ReadAndDecide
    <3>4. QED
      BY <2>0, <3>1, <3>2, <3>3 DEF RunningInv
  <2>3. CASE Settle(l)
    <3>1. rec'.status # "running"
      BY <2>3 DEF RunningInv, Settle, Write
    <3>2. copy' = copy /\ \A m \in Loop : pc'[m] = "settle" => pc[m] = "settle"
      BY <2>3 DEF TypeOK, Settle
    <3>3. QED
      BY <2>0, <3>1, <3>2 DEF RunningInv
  <2>4. CASE StoreOutcome(l)
    <3>1. rec' = copy[l] /\ copy' = copy
      BY <2>4 DEF StoreOutcome, Write
    <3>2. pc'[l] = IF copy[l].status \in Settled THEN "cleanup" ELSE "head"
      BY <2>4 DEF TypeOK, StoreOutcome
    <3>3. "running" \notin Settled
      BY DEF Settled
    <3>4. \A m \in Loop : pc'[m] = "settle" => pc[m] = "settle"
      BY <2>4 DEF TypeOK, StoreOutcome
    <3>5. QED
      BY <2>0, <3>1, <3>2, <3>3, <3>4 DEF RunningInv
  <2>5. CASE AfterStop(l)
    <3>1. copy'[l].status = "stopped"
      BY <1>0, <2>5 DEF TypeOK, AfterStop, ChainRecord
    <3>2. rec.status = "running" => pc'[l] = "settle"
      BY <2>5 DEF TypeOK, AfterStop
    <3>3. rec' = rec /\ \A m \in Loop : m # l => pc'[m] = pc[m] /\ copy'[m] = copy[m]
      BY <2>5 DEF TypeOK, AfterStop
    <3>4. QED
      BY <2>0, <3>1, <3>2, <3>3 DEF RunningInv
  <2>6. CASE Cleanup(l)
    <3>1. UNCHANGED <<rec, copy, orphaned>> /\ pc[l] = "cleanup"
      BY <2>6 DEF Cleanup
    <3>2. \A m \in Loop : m # l => pc'[m] = pc[m]
      BY <2>6 DEF TypeOK, Cleanup
    <3>3. pc'[l] = "idle"
      BY <2>6 DEF TypeOK, Cleanup
    <3>4. QED
      BY <2>0, <3>1, <3>2, <3>3 DEF RunningInv
  <2>7. QED
    BY <1>1, <2>1, <2>2, <2>3, <2>4, <2>5, <2>6 DEF LoopStep
<1>2. ASSUME NEW l \in Loop, LoopFails(l) PROVE RunningInv'
  BY <1>2 DEF TypeOK, RunningInv, LoopFails, callVars
<1>3. ASSUME NEW c \in Client, NEW l \in Loop, StartChain(c, l) \/ ResumeChain(c, l)
      PROVE  RunningInv'
  <2>1. Spawn(l) /\ Return(c) /\ held' = held
    BY <1>3 DEF StartChain, ResumeChain
  <2>2. /\ pc'[l] = "head" /\ copy' = copy
        /\ \A m \in Loop : pc'[m] = "settle" => pc[m] = "settle"
    BY <2>1 DEF TypeOK, Spawn
  <2>3. \A d \in Client : cpc'[d] = "write" => cpc[d] = "write"
    BY <2>1 DEF TypeOK, Return
  <2>4. QED
    BY <2>1, <2>2, <2>3 DEF RunningInv
<1>4. ASSUME NEW c \in Client, WriteSettled(c) PROVE RunningInv'
  <2>1. rec'.status # "running"
    BY <1>4 DEF RunningInv, WriteSettled, Write
  <2>2. \A d \in Client : cpc'[d] = "write" => cpc[d] = "write"
    BY <1>4 DEF TypeOK, WriteSettled, Return
  <2>3. QED
    BY <1>4, <2>1, <2>2 DEF RunningInv, WriteSettled, loopVars
<1>5. ASSUME NEW c \in Client, NEW op \in {"start", "resume", "pause", "stop"},
             Call(c, op) \/ Shutdown(c) \/ StartRefused(c) \/ SetStopEvent(c) \/ ShutdownRead(c)
      PROVE  RunningInv'
  <2>1. UNCHANGED <<rec, pc, copy, orphaned>>
    BY <1>5 DEF Call, Shutdown, StartRefused, SetStopEvent, ShutdownRead, loopVars
  <2>2. \A d \in Client : d # c => cpc'[d] = cpc[d] /\ held'[d] = held[d]
    BY <1>5 DEF TypeOK, Call, Shutdown, StartRefused, SetStopEvent, ShutdownRead, Return
  <2>3. cpc'[c] = "write" => held'[c].status # "running"
    <3>1. CASE Call(c, op) \/ Shutdown(c) \/ StartRefused(c)
      BY <3>1 DEF TypeOK, Call, Shutdown, StartRefused, Return
    <3>2. CASE SetStopEvent(c)
      BY <1>0, <3>2 DEF TypeOK, SetStopEvent, Return, ChainRecord
    <3>3. CASE ShutdownRead(c)
      BY <1>0, <3>3 DEF TypeOK, ShutdownRead, Return, ChainRecord
    <3>4. QED
      BY <1>5, <3>1, <3>2, <3>3
  <2>4. QED
    BY <2>1, <2>2, <2>3 DEF RunningInv
<1>6. CASE ControllerEnds
  BY <1>6 DEF ControllerEnds, RunningInv
<1>7. CASE UNCHANGED vars
  BY <1>7 DEF vars, RunningInv
<1>8. QED
  BY <1>1, <1>2, <1>3, <1>4, <1>5, <1>6, <1>7 DEF Next, ClientStep

(* A running record has its loop, unless a loop or the controller failed. *)
THEOREM ChainRunningHasLoop == Spec => []RunningHasLoop
<1>1. Init => RunningInv
  BY DEF Init, RunningInv, Created
<1>2. OneLoopReachable /\ RunningInv => RunningHasLoop
  BY LoopAssumption DEF OneLoopReachable, RunningInv, RunningHasLoop
<1>3. QED
  BY <1>1, <1>2, RunningStep, ChainTypeCorrect, ChainOneLoop, PTL DEF Spec

-----------------------------------------------------------------------------
(* A report that says completed.  Whatever a record's history, its stage and
   what its report will say rest on successes it has counted; a step's outcome
   keeps it so, and a call changes neither stage, report nor successes. *)
Reporting == {"report", "report_success", "report_failed", "report_recovery"}

Behind(c, chain) ==
    IF c.kind = "feature_validate_gate"
    THEN /\ chain.stage = "validate_primary" => chain.succ >= 1
         /\ chain.stage = "feature_gate_after" => chain.succ >= 2
         /\ chain.stage \in Reporting => chain.succ >= 3
         /\ chain.stage = "done" => chain.succ >= 4
    ELSE IF c.kind \in {"validate_then_report", "feature_validate_loop"}
    THEN chain.stage = "done" => chain.succ >= 1
    ELSE chain.report = "completed"
         => /\ chain.stage \in Reporting => chain.succ >= 1
            /\ chain.stage = "done" => chain.succ >= 2

(* A report step is the step of the reporting stages, and it succeeds. *)
LEMMA ReportSteps ==
    ASSUME NEW c, NEW chain
    PROVE  /\ NextFamily(c, chain) = "report" <=> chain.stage \in Reporting
           /\ chain.stage \in Reporting => Results(c, chain) = {"success"}
<1>1. NextFamily(c, chain) = "report" <=> chain.stage \in Reporting
  BY DEF NextFamily, Reporting
<1>2. NextFamily(c, chain) = "report" => Results(c, chain) = {"success"}
  BY DEF Results
<1>3. QED
  BY <1>1, <1>2

(* The decision is a rule for the stage and the result, or stays in place. *)
LEMMA DecisionCases ==
    ASSUME NEW kind, NEW stage, NEW status
    PROVE  \/ Decision(kind, stage, status) = Rule(stage, {status}, stage, Unset, TRUE)
           \/ /\ Decision(kind, stage, status) \in BranchRules(kind)
              /\ Decision(kind, stage, status).stage = stage
              /\ status \in Decision(kind, stage, status).on
BY DEF Decision

(* Of the gated kind a stage is left for the next only by a success. *)
LEMMA GateDecision ==
    ASSUME NEW stage, NEW status
    PROVE  LET next == Decision("feature_validate_gate", stage, status).next
           IN  \/ next = stage
               \/ /\ status = "success"
                  /\ \/ stage = "feature_gate_before" /\ next = "validate_primary"
                     \/ stage = "validate_primary" /\ next = "feature_gate_after"
                     \/ stage = "feature_gate_after" /\ next = "report"
<1> DEFINE decision == Decision("feature_validate_gate", stage, status)
<1>1. CASE decision = Rule(stage, {status}, stage, Unset, TRUE)
  BY <1>1 DEF Rule
<1>2. CASE /\ decision \in BranchRules("feature_validate_gate")
           /\ decision.stage = stage /\ status \in decision.on
  <2>1. BranchRules("feature_validate_gate")
          = {Rule("feature_gate_before", {"success"}, "validate_primary", Unset, FALSE),
             Rule("feature_gate_before", {"failed"}, "feature_gate_before", Unset, TRUE),
             Rule("validate_primary", {"success"}, "feature_gate_after", Unset, FALSE),
             Rule("validate_primary", Bad, "validate_primary", Unset, TRUE),
             Rule("feature_gate_after", {"success"}, "report", "completed", FALSE),
             Rule("feature_gate_after", {"failed"}, "feature_gate_after", Unset, TRUE)}
    BY DEF BranchRules
  <2> HIDE DEF decision
  <2>2. \/ decision = Rule("feature_gate_before", {"success"}, "validate_primary", Unset, FALSE)
        \/ decision = Rule("feature_gate_before", {"failed"}, "feature_gate_before", Unset, TRUE)
        \/ decision = Rule("validate_primary", {"success"}, "feature_gate_after", Unset, FALSE)
        \/ decision = Rule("validate_primary", Bad, "validate_primary", Unset, TRUE)
        \/ decision = Rule("feature_gate_after", {"success"}, "report", "completed", FALSE)
        \/ decision = Rule("feature_gate_after", {"failed"}, "feature_gate_after", Unset, TRUE)
    BY <1>2, <2>1
  <2>3. \/ decision.next = stage
        \/ /\ status = "success"
           /\ \/ stage = "feature_gate_before" /\ decision.next = "validate_primary"
              \/ stage = "validate_primary" /\ decision.next = "feature_gate_after"
              \/ stage = "feature_gate_after" /\ decision.next = "report"
    BY <1>2, <2>2 DEF Rule
  <2>4. QED
    BY <2>3 DEF decision
<1>3. QED
  BY <1>1, <1>2, DecisionCases

(* Of the other v2 kinds a report that is to say completed is decided by a
   success, or by the comparison. *)
LEMMA BranchDecision ==
    ASSUME NEW kind \in V2Kinds \ {"feature_validate_gate"}, NEW stage, NEW status
    PROVE  LET decision == Decision(kind, stage, status)
           IN  \/ decision.next = stage /\ decision.report = Unset
               \/ decision.next \in {"validate_fallback", "compare_target"}
               \/ decision.next = "report" /\ decision.report = "failed"
               \/ decision.next = "report" /\ decision.report = "auto_compare"
               \/ /\ decision.next = "report" /\ decision.report = "completed"
                  /\ status = "success"
<1> DEFINE decision == Decision(kind, stage, status)
           Good(d) == \/ d.next = stage /\ d.report = Unset
                      \/ d.next \in {"validate_fallback", "compare_target"}
                      \/ d.next = "report" /\ d.report = "failed"
                      \/ d.next = "report" /\ d.report = "auto_compare"
                      \/ d.next = "report" /\ d.report = "completed" /\ status = "success"
<1> SUFFICES Good(decision)
  OBVIOUS
<1>1. CASE decision = Rule(stage, {status}, stage, Unset, TRUE)
  BY <1>1 DEF Rule
<1>2. CASE /\ decision \in BranchRules(kind)
           /\ decision.stage = stage /\ status \in decision.on
  <2>1. ASSUME NEW exhausted, decision \in FallbackRules(exhausted),
               exhausted \in {Rule("validate_fallback", Bad, "report", "failed", FALSE),
                              Rule("validate_fallback", Bad, "validate_fallback", Unset, TRUE)}
        PROVE  Good(decision)
    <3> HIDE DEF decision
    <3>1. \/ decision = Rule("validate_primary", {"success"}, "report", "completed", FALSE)
          \/ decision = Rule("validate_primary", Bad, "validate_fallback", Unset, FALSE)
          \/ decision = Rule("validate_fallback", {"success"}, "report", "completed", FALSE)
          \/ decision = Rule("validate_fallback", Bad, "report", "failed", FALSE)
          \/ decision = Rule("validate_fallback", Bad, "validate_fallback", Unset, TRUE)
      BY <2>1 DEF FallbackRules
    <3>2. QED
      BY <1>2, <3>1 DEF Rule
  <2>2. CASE kind = "validate_with_fallback"
    BY <1>2, <2>1, <2>2 DEF BranchRules
  <2>3. CASE kind = "dispatch_recover_resume"
    BY <1>2, <2>1, <2>3 DEF BranchRules
  <2>4. CASE kind = "validate_compare_report"
    <3>1. BranchRules(kind)
            = {Rule("validate_primary", StepStatus, "compare_target", Unset, FALSE),
               Rule("compare_target", StepStatus, "report", "auto_compare", FALSE)}
      BY <2>4 DEF BranchRules
    <3> HIDE DEF decision
    <3>2. \/ decision = Rule("validate_primary", StepStatus, "compare_target", Unset, FALSE)
          \/ decision = Rule("compare_target", StepStatus, "report", "auto_compare", FALSE)
      BY <1>2, <3>1
    <3>3. CASE decision = Rule("validate_primary", StepStatus, "compare_target", Unset, FALSE)
      <4>1. decision.next = "compare_target"
        BY <3>3 DEF Rule
      <4>2. QED
        BY <4>1
    <3>4. CASE decision = Rule("compare_target", StepStatus, "report", "auto_compare", FALSE)
      <4>1. decision.next = "report" /\ decision.report = "auto_compare"
        BY <3>4 DEF Rule
      <4>2. QED
        BY <4>1
    <3>5. QED
      BY <3>2, <3>3, <3>4
  <2>5. QED
    BY <2>2, <2>3, <2>4 DEF V2Kinds
<1>3. \/ decision = Rule(stage, {status}, stage, Unset, TRUE)
      \/ decision \in BranchRules(kind) /\ decision.stage = stage /\ status \in decision.on
  BY DecisionCases
<1> HIDE DEF Good
<1>4. QED
  BY <1>1, <1>2, <1>3

(* The counters after a step, and what else it leaves alone. *)
LEMMA CountedFields ==
    ASSUME NEW chain \in ChainRecord, NEW status
    PROVE  /\ Counted(chain, status).succ
                = IF status = "success" THEN chain.succ + 1 ELSE chain.succ
           /\ chain.succ \in Nat /\ chain.report \in Report
BY DEF Counted, ChainRecord

(* Moving a counted record to a stage and a report. *)
LEMMA MovedFields ==
    ASSUME NEW chain \in ChainRecord, NEW status \in StepStatus, NEW stage \in Stage,
           NEW report \in Report, NEW s \in Status
    PROVE  LET updated == [Counted(chain, status) EXCEPT !.stage = stage, !.report = report]
               settled == [updated EXCEPT !.status = s]
           IN  /\ updated.stage = stage /\ updated.report = report
               /\ settled.stage = stage /\ settled.report = report
               /\ updated.succ = IF status = "success" THEN chain.succ + 1 ELSE chain.succ
               /\ settled.succ = updated.succ
<1> DEFINE counted == Counted(chain, status)
<1>1. counted \in ChainRecord
  BY CountedTyped
<1>2. counted.succ = IF status = "success" THEN chain.succ + 1 ELSE chain.succ
  BY CountedFields
<1> HIDE DEF counted
<1> DEFINE updated == [counted EXCEPT !.stage = stage, !.report = report]
<1>3. /\ updated \in ChainRecord /\ updated.stage = stage /\ updated.report = report
      /\ updated.succ = counted.succ
  BY <1>1 DEF ChainRecord
<1> HIDE DEF updated
<1> DEFINE settled == [updated EXCEPT !.status = s]
<1>4. settled.stage = stage /\ settled.report = report /\ settled.succ = updated.succ
  BY <1>3 DEF ChainRecord
<1>5. QED
  BY <1>2, <1>3, <1>4 DEF counted, updated

(* What an outcome makes of the fields the report rests on. *)
LEMMA OutcomeV1Fields ==
    ASSUME NEW c \in Configs, NEW chain \in ChainRecord, NEW status \in StepStatus
    PROVE  LET after == OutcomeV1(c, chain, status)
               moved == AdvanceStage(c, chain, status)
           IN  /\ after.stage = moved.stage /\ after.report = moved.report
               /\ after.succ = IF status = "success" THEN chain.succ + 1 ELSE chain.succ
<1> DEFINE moved == AdvanceStage(c, chain, status)
           updated == [Counted(chain, status) EXCEPT !.stage = moved.stage,
                                                     !.report = moved.report]
           after == OutcomeV1(c, chain, status)
<1>1. moved.stage \in Stage /\ moved.report \in Report
  <2>1. chain.report \in Report
    BY DEF ChainRecord
  <2>2. QED
    BY <2>1 DEF AdvanceStage, Stage, Report
<1>2. \/ after = updated
      \/ \E s \in {"blocked", "failed", "completed"} : after = [updated EXCEPT !.status = s]
  BY DEF OutcomeV1
<1>3. {"blocked", "failed", "completed"} \subseteq Status
  BY DEF Status, Settled
<1> HIDE DEF moved, after
<1>4. \A s \in Status :
         LET settled == [updated EXCEPT !.status = s]
         IN  /\ updated.stage = moved.stage /\ updated.report = moved.report
             /\ settled.stage = moved.stage /\ settled.report = moved.report
             /\ updated.succ = IF status = "success" THEN chain.succ + 1 ELSE chain.succ
             /\ settled.succ = updated.succ
  BY <1>1, MovedFields
<1> HIDE DEF updated
<1>5. /\ after.stage = moved.stage /\ after.report = moved.report
      /\ after.succ = IF status = "success" THEN chain.succ + 1 ELSE chain.succ
  BY <1>2, <1>3, <1>4
<1>6. QED
  BY <1>5 DEF after, moved

LEMMA OutcomeV2Fields ==
    ASSUME NEW c \in Configs, c.kind \in V2Kinds, NEW chain \in ChainRecord,
           NEW status \in StepStatus
    PROVE  LET after == OutcomeV2(c, chain, status)
               decision == Decision(c.kind, chain.stage, status)
           IN  IF chain.stage \in Reporting
               THEN /\ after.stage = "done" /\ after.report = chain.report
                    /\ after.succ = chain.succ + 1
               ELSE /\ after.stage = decision.next
                    /\ after.report = ReportAfter(chain, status, decision)
                    /\ after.succ = IF status = "success" THEN chain.succ + 1 ELSE chain.succ
<1> DEFINE decision == Decision(c.kind, chain.stage, status)
           report == ReportAfter(chain, status, decision)
           updated == [Counted(chain, status) EXCEPT !.stage = decision.next,
                                                     !.report = report]
           after == OutcomeV2(c, chain, status)
<1>1. CASE chain.stage \in Reporting
  <2>1. after = [chain EXCEPT !.steps = @ + 1, !.succ = @ + 1, !.stage = "done",
                              !.status = chain.report]
    BY <1>1, ReportSteps DEF OutcomeV2
  <2>2. QED
    BY <1>1, <2>1 DEF ChainRecord
<1>2. CASE chain.stage \notin Reporting
  <2>1. chain.stage \in Stage /\ chain.report \in Report
    BY DEF ChainRecord
  <2>2. decision.next \in Stage /\ decision.report \in Report \cup {Unset, "auto_compare"}
    BY <2>1, DecisionTyped
  <2>3. report \in Report
    BY <2>1, <2>2 DEF ReportAfter, Report
  <2>4. \/ after = updated
        \/ \E s \in {"paused", "failed"} : after = [updated EXCEPT !.status = s]
    BY <1>2, ReportSteps DEF OutcomeV2
  <2>5. {"paused", "failed"} \subseteq Status
    BY DEF Status, Settled
  <2> HIDE DEF decision, report, after
  <2>6. \A s \in Status :
           LET settled == [updated EXCEPT !.status = s]
           IN  /\ updated.stage = decision.next /\ updated.report = report
               /\ settled.stage = decision.next /\ settled.report = report
               /\ updated.succ = IF status = "success" THEN chain.succ + 1 ELSE chain.succ
               /\ settled.succ = updated.succ
    BY <2>2, <2>3, MovedFields
  <2> HIDE DEF updated
  <2>7. /\ after.stage = decision.next /\ after.report = report
        /\ after.succ = IF status = "success" THEN chain.succ + 1 ELSE chain.succ
    BY <2>4, <2>5, <2>6
  <2>8. QED
    BY <1>2, <2>7 DEF after, decision, report
<1>3. QED
  BY <1>1, <1>2

LEMMA OutcomeBehind ==
    ASSUME NEW c \in Configs, NEW chain \in ChainRecord, NEW status \in Results(c, chain),
           Behind(c, chain)
    PROVE  Behind(c, Outcome(c, chain, status))
<1> DEFINE after == Outcome(c, chain, status)
<1>0. status \in StepStatus /\ chain.succ \in Nat /\ chain.report \in Report
  BY ResultsTyped, CountedFields
<1>1. chain.stage \in Reporting => status = "success"
  BY ReportSteps
<1>2. ASSUME c.kind \notin V2Kinds PROVE Behind(c, after)
  <2> DEFINE moved == AdvanceStage(c, chain, status)
  <2>1. /\ after.stage = moved.stage /\ after.report = moved.report
        /\ after.succ = IF status = "success" THEN chain.succ + 1 ELSE chain.succ
    BY <1>0, <1>2, OutcomeV1Fields DEF Outcome
  <2>2. c.kind \in V1Kinds
    BY <1>2, ConfigAssumption
  <2>3. CASE c.kind \in {"validate_then_report", "feature_validate_loop"}
    <3>1. after.stage = "done" => chain.stage \in Reporting
      BY <2>1, <2>3, ReportSteps DEF AdvanceStage
    <3>2. QED
      BY <1>0, <1>1, <2>1, <2>3, <3>1 DEF Behind
  <2>4. CASE c.kind = "dispatch_validate_recover"
    <3>1. CASE chain.stage \in Reporting
      <4>1. after.stage = "done" /\ after.report = chain.report
        BY <2>1, <2>4, <3>1, ReportSteps DEF AdvanceStage
      <4>2. QED
        BY <1>0, <1>1, <2>1, <2>4, <3>1, <4>1 DEF Behind, Reporting
    <3>2. CASE chain.stage \notin Reporting
      <4>1. CASE status = "success"
        <5>1. after.stage \in {"report_recovery", "report_success"}
          BY <2>1, <2>4, <3>2, <4>1, ReportSteps DEF AdvanceStage
        <5>2. QED
          BY <1>0, <2>1, <2>4, <4>1, <5>1 DEF Behind, Reporting
      <4>2. CASE status # "success"
        <5>1. after.stage = "fallback_validate" \/ after.report = "failed"
          BY <2>1, <2>4, <3>2, <4>2, ReportSteps DEF AdvanceStage
        <5>2. QED
          BY <2>4, <5>1 DEF Behind, Reporting
      <4>3. QED
        BY <4>1, <4>2
    <3>3. QED
      BY <3>1, <3>2
  <2>5. QED
    BY <2>2, <2>3, <2>4 DEF V1Kinds
<1>3. ASSUME c.kind \in V2Kinds, chain.stage \in Reporting PROVE Behind(c, after)
  <2>1. after.stage = "done" /\ after.report = chain.report /\ after.succ = chain.succ + 1
    BY <1>0, <1>3, OutcomeV2Fields DEF Outcome
  <2>2. QED
    BY <1>0, <1>3, <2>1 DEF Behind, Reporting, V2Kinds
<1>4. ASSUME c.kind \in V2Kinds, chain.stage \notin Reporting PROVE Behind(c, after)
  <2> DEFINE decision == Decision(c.kind, chain.stage, status)
  <2>1. /\ after.stage = decision.next
        /\ after.report = ReportAfter(chain, status, decision)
        /\ after.succ = IF status = "success" THEN chain.succ + 1 ELSE chain.succ
    BY <1>0, <1>4, OutcomeV2Fields DEF Outcome
  <2>2. CASE c.kind = "feature_validate_gate"
    <3>1. \/ after.stage = chain.stage
          \/ /\ status = "success"
             /\ \/ chain.stage = "feature_gate_before" /\ after.stage = "validate_primary"
                \/ chain.stage = "validate_primary" /\ after.stage = "feature_gate_after"
                \/ chain.stage = "feature_gate_after" /\ after.stage = "report"
      BY <2>1, <2>2, GateDecision
    <3>2. after.succ \in Nat /\ after.succ >= chain.succ
          /\ (status = "success" => after.succ = chain.succ + 1)
      BY <1>0, <2>1
    <3> HIDE DEF after
    <3>3. QED
      BY <1>0, <2>2, <3>1, <3>2 DEF Behind, Reporting
  <2>3. CASE c.kind # "feature_validate_gate"
    <3>1. c.kind \in V2Kinds \ {"feature_validate_gate"}
      BY <1>4, <2>3
    <3>2. \/ decision.next = chain.stage /\ decision.report = Unset
          \/ decision.next \in {"validate_fallback", "compare_target"}
          \/ decision.next = "report" /\ decision.report = "failed"
          \/ decision.next = "report" /\ decision.report = "auto_compare"
          \/ /\ decision.next = "report" /\ decision.report = "completed"
             /\ status = "success"
      BY <3>1, BranchDecision
    <3>3. after.succ \in Nat /\ after.succ >= chain.succ
          /\ (status = "success" => after.succ = chain.succ + 1)
      BY <1>0, <2>1
    <3> HIDE DEF after, decision
    <3>4. CASE decision.next = chain.stage /\ decision.report = Unset
      <4>1. after.stage = chain.stage /\ after.report = chain.report
        BY <2>1, <3>4, UnsetIsOther DEF ReportAfter
      <4>2. QED
        BY <1>0, <2>3, <3>1, <3>3, <4>1 DEF Behind, V2Kinds
    <3>5. CASE decision.next \in {"validate_fallback", "compare_target"}
      BY <2>1, <3>1, <3>5 DEF Behind, Reporting, V2Kinds
    <3>6. CASE decision.next = "report" /\ decision.report = "failed"
      <4>1. after.report = "failed"
        BY <2>1, <3>6, UnsetIsOther DEF ReportAfter
      <4>2. QED
        BY <3>1, <4>1 DEF Behind, V2Kinds
    <3>7. CASE decision.next = "report" /\ decision.report = "auto_compare"
      <4>1. after.stage = "report" /\ (after.report = "completed"
                                       => chain.succ > 0 \/ status = "success")
        BY <2>1, <3>7 DEF ReportAfter
      <4>2. after.report = "completed" => after.succ >= 1
        BY <1>0, <3>3, <4>1
      <4>3. QED
        BY <3>1, <4>1, <4>2 DEF Behind, V2Kinds
    <3>8. CASE decision.next = "report" /\ status = "success"
      <4>1. after.stage = "report" /\ after.succ >= 1
        BY <1>0, <2>1, <3>3, <3>8
      <4>2. QED
        BY <3>1, <4>1 DEF Behind, V2Kinds
    <3>9. QED
      BY <3>2, <3>4, <3>5, <3>6, <3>7, <3>8
  <2>4. QED
    BY <2>2, <2>3
<1>5. QED
  BY <1>2, <1>3, <1>4

TruthInv ==
    /\ Behind(cfg, rec)
    /\ \A l \in Loop : Behind(cfg, copy[l])
    /\ \A c \in Client : Behind(cfg, held[c])

LEMMA TruthStep == TypeOK /\ TruthInv /\ [Next]_vars => TruthInv'
<1> SUFFICES ASSUME TypeOK, TruthInv, [Next]_vars PROVE TruthInv'
  OBVIOUS
<1>0. /\ \A l \in Loop : copy[l] \in ChainRecord
      /\ \A c \in Client : held[c] \in ChainRecord
      /\ rec \in ChainRecord /\ cfg \in Configs
  BY DEF TypeOK
<1> DEFINE Same(new, old) ==
             new.stage = old.stage /\ new.report = old.report /\ new.succ = old.succ
(* but where a step ends, the records move about and change status and resumes *)
<1>1. ASSUME cfg' = cfg,
             \/ Same(rec', rec) \/ (\E c \in Client : Same(rec', held[c]))
                \/ (\E l \in Loop : Same(rec', copy[l])),
             \A c \in Client : Same(held'[c], held[c]) \/ Same(held'[c], rec),
             \A l \in Loop : Same(copy'[l], copy[l]) \/ Same(copy'[l], rec)
      PROVE  TruthInv'
  BY <1>1 DEF TruthInv, Behind
<1>2. ASSUME NEW chain \in ChainRecord
      PROVE  /\ \A status : Same([chain EXCEPT !.status = status], chain)
             /\ Same(Started(chain), chain) /\ Same(Resumed(chain), chain)
  BY DEF ChainRecord, Started, Resumed
<1>3. ASSUME NEW l \in Loop, CheckEvent(l) \/ Cleanup(l) \/ LoopFails(l) PROVE
         UNCHANGED <<cfg, rec, held, copy>>
  BY <1>3 DEF CheckEvent, Cleanup, LoopFails, callVars
<1>4. ASSUME NEW l \in Loop, ReadAndDecide(l) \/ AfterStop(l) PROVE
         /\ UNCHANGED <<cfg, rec, held>>
         /\ \A m \in Loop : Same(copy'[m], copy[m]) \/ Same(copy'[m], rec)
  <2>1. UNCHANGED <<cfg, rec, held>>
    BY <1>4 DEF ReadAndDecide, AfterStop, callVars
  <2>2. \/ copy' = copy
        \/ \E status : copy' = [copy EXCEPT ![l] = [rec EXCEPT !.status = status]]
    BY <1>4 DEF ReadAndDecide, AfterStop
  <2>3. \A m \in Loop : m # l => copy'[m] = copy[m]
    BY <2>2 DEF TypeOK
  <2>4. copy'[l] = copy[l] \/ \E status : copy'[l] = [rec EXCEPT !.status = status]
    BY <2>2 DEF TypeOK
  <2>5. Same(copy'[l], copy[l]) \/ Same(copy'[l], rec)
    <3>1. ASSUME NEW status, copy'[l] = [rec EXCEPT !.status = status]
          PROVE  Same(copy'[l], rec)
      BY <1>0, <1>2, <3>1
    <3>2. QED
      BY <2>4, <3>1
  <2>6. QED
    BY <2>1, <2>3, <2>5
<1>5. ASSUME NEW l \in Loop, Settle(l) \/ StoreOutcome(l) PROVE
         rec' = copy[l] /\ UNCHANGED <<cfg, held, copy>>
  BY <1>5 DEF Settle, StoreOutcome, Write, callVars
<1>6. ASSUME NEW l \in Loop, StepEnds(l) PROVE TruthInv'
  <2>1. UNCHANGED <<cfg, rec, held>>
    BY <1>6 DEF StepEnds, callVars
  <2>2. PICK status \in Results(cfg, copy[l]) :
           copy' = [copy EXCEPT ![l] = Outcome(cfg, copy[l], status)]
    BY <1>6 DEF StepEnds
  <2>3. Behind(cfg, Outcome(cfg, copy[l], status))
    BY <1>0, OutcomeBehind DEF TruthInv
  <2>4. \A m \in Loop : Behind(cfg, copy'[m])
    BY <2>2, <2>3 DEF TypeOK, TruthInv
  <2>5. QED
    BY <2>1, <2>4 DEF TruthInv
<1>7. ASSUME NEW c \in Client, NEW l \in Loop, StartChain(c, l) \/ ResumeChain(c, l) PROVE
         Same(rec', held[c]) /\ UNCHANGED <<cfg, held, copy>>
  <2>1. rec' \in {Started(held[c]), Resumed(held[c])}
    BY <1>7 DEF StartChain, ResumeChain, Write
  <2>2. QED
    BY <1>0, <1>2, <1>7, <2>1 DEF StartChain, ResumeChain, Spawn
<1>8. ASSUME NEW c \in Client, WriteSettled(c) PROVE
         rec' = held[c] /\ UNCHANGED <<cfg, held, copy>>
  BY <1>8 DEF WriteSettled, Write, loopVars
<1>9. ASSUME NEW c \in Client, NEW op, Call(c, op) \/ Shutdown(c) \/ StartRefused(c)
                                      \/ SetStopEvent(c) \/ ShutdownRead(c) PROVE
         /\ UNCHANGED <<cfg, rec, copy>>
         /\ \A d \in Client : Same(held'[d], held[d]) \/ Same(held'[d], rec)
  <2>1. UNCHANGED <<cfg, rec, copy>>
    BY <1>9 DEF Call, Shutdown, StartRefused, SetStopEvent, ShutdownRead, loopVars
  <2>2. \/ held' = held
        \/ held' = [held EXCEPT ![c] = rec]
        \/ \E status : held' = [held EXCEPT ![c] = [held[c] EXCEPT !.status = status]]
        \/ held' = [held EXCEPT ![c] = [rec EXCEPT !.status = "stopped"]]
    BY <1>9 DEF Call, Shutdown, StartRefused, SetStopEvent, ShutdownRead
  <2>3. \A d \in Client : d # c => held'[d] = held[d]
    BY <2>2 DEF TypeOK
  <2>4. \/ held'[c] = held[c] \/ held'[c] = rec
        \/ \E status : held'[c] = [held[c] EXCEPT !.status = status]
        \/ held'[c] = [rec EXCEPT !.status = "stopped"]
    BY <2>2 DEF TypeOK
  <2>5. Same(held'[c], held[c]) \/ Same(held'[c], rec)
    <3>1. ASSUME NEW status, held'[c] = [held[c] EXCEPT !.status = status]
          PROVE  Same(held'[c], held[c])
      BY <1>0, <1>2, <3>1
    <3>2. ASSUME held'[c] = [rec EXCEPT !.status = "stopped"] PROVE Same(held'[c], rec)
      BY <1>0, <1>2, <3>2
    <3>3. QED
      BY <2>4, <3>1, <3>2
  <2>6. QED
    BY <2>1, <2>3, <2>5
<1>10. CASE ControllerEnds \/ UNCHANGED vars
  BY <1>1, <1>10 DEF ControllerEnds, vars
<1> HIDE DEF Same
<1>11. \A chain : Same(chain, chain)
  BY DEF Same
<1>12. QED
  BY <1>1, <1>3, <1>4, <1>5, <1>6, <1>7, <1>8, <1>9, <1>10, <1>11 DEF Next, LoopStep, ClientStep

LEMMA TruthInit == Init => TruthInv
<1> SUFFICES ASSUME Init PROVE TruthInv
  OBVIOUS
<1>1. cfg \in Configs /\ cfg.kind \in V1Kinds \cup V2Kinds
  BY ConfigAssumption DEF Init
<1>2. InitialStage(cfg.kind) \in {"validate", "primary_validate", Unset, "feature_gate_before",
                                  "validate_primary"}
  BY DEF InitialStage
<1>3. /\ InitialStage(cfg.kind) \notin Reporting /\ InitialStage(cfg.kind) # "done"
      /\ InitialStage(cfg.kind) # "feature_gate_after"
  BY <1>2, UnsetIsOther DEF Reporting
<1>4. cfg.kind = "feature_validate_gate" => InitialStage(cfg.kind) = "feature_gate_before"
  BY DEF InitialStage
<1>5. Behind(cfg, Created(cfg))
  BY <1>3, <1>4 DEF Behind, Created
<1>6. QED
  BY <1>5 DEF Init, TruthInv

(* A chain that ended reporting completed rests on the successes its kind
   calls for, in every interleaving: whichever of its copies was written
   last, the successes that its report speaks of are counted in it. *)
THEOREM ChainReportTruthful == Spec => []ReportTruthful
<1>1. TypeOK /\ TruthInv => ReportTruthful
  <2> SUFFICES ASSUME TypeOK, TruthInv, rec.stage = "done", rec.report = "completed"
               PROVE  rec.succ >= SuccessesBehind(cfg.kind)
    BY DEF ReportTruthful
  <2>1. Behind(cfg, rec)
    BY DEF TruthInv
  <2>2. QED
    BY <2>1 DEF Behind, SuccessesBehind
<1>2. QED
  BY <1>1, TruthInit, TruthStep, ChainTypeCorrect, PTL DEF Spec
=============================================================================
