----------------------------- MODULE ChainPolicy -----------------------------
(***************************************************************************)
(* The task chain's policy as pure operators: which step comes next, which *)
(* results a step can have, and what a result makes of the chain record    *)
(* (app/controller/task_chain_policy.py and the outcome half of            *)
(* task_chain_runner.py).  A chain's configuration cfg is                  *)
(*   [kind, primary, fallback, steps, failures, idle]: its type, where the *)
(* validation runs ("local" or "remote"), where the fallback runs ("stop": *)
(* there is none) and its three limits.                                    *)
(***************************************************************************)
EXTENDS Naturals

V1Kinds == {"validate_then_report", "feature_validate_loop", "dispatch_validate_recover"}
V2Kinds == {"validate_with_fallback", "validate_compare_report", "dispatch_recover_resume",
            "feature_validate_gate"}

Settled == {"completed", "failed", "stopped", "blocked", "paused"}
Status == Settled \cup {"created", "running"}

StepStatus == {"success", "failed", "timed_out", "unavailable", "refused"}
Bad == StepStatus \ {"success"}

(* the empty string: no stage yet, or no report decided *)
Unset == ""

Stage == {Unset, "validate", "report", "done", "feature_status_after", "primary_validate",
          "fallback_validate", "report_success", "report_failed", "report_recovery",
          "validate_primary", "validate_fallback", "compare_target",
          "feature_gate_before", "feature_gate_after"}
Report == {"completed", "failed"}

(* definitions _build_task_chain accepts: a dispatching kind has a remote
   primary target, three kinds need a fallback, and a comparison compares two
   different targets *)
Accepted(cfg) ==
    /\ cfg.kind \in {"dispatch_validate_recover", "dispatch_recover_resume"}
          => cfg.primary = "remote"
    /\ cfg.kind \in {"validate_with_fallback", "validate_compare_report",
                     "dispatch_recover_resume"} => cfg.fallback # "stop"
    /\ cfg.kind = "validate_compare_report"
          => ~(cfg.primary = "local" /\ cfg.fallback = "local")

Config(limits) ==
    {cfg \in [kind : V1Kinds \cup V2Kinds, primary : {"local", "remote"},
              fallback : {"stop", "local", "remote"},
              steps : limits, failures : limits, idle : limits] : Accepted(cfg)}

InitialStage(kind) ==
    CASE kind = "validate_then_report" -> "validate"
      [] kind = "dispatch_validate_recover" -> "primary_validate"
      [] kind = "feature_validate_loop" -> Unset
      [] kind = "feature_validate_gate" -> "feature_gate_before"
      [] OTHER -> "validate_primary"

HasFallback(cfg) == cfg.fallback # "stop"

----------------------------------------------------------------------------
(* The branch rules of the v2 kinds.  A rule for a stage says, of the step
   results it covers, the stage that follows, the report they lead to
   (Unset: left as it is) and whether the chain pauses for the operator. *)
Rule(stage, on, next, report, pauses) ==
    [stage |-> stage, on |-> on, next |-> next, report |-> report, pauses |-> pauses]

(* mutant: a failed primary goes to the report *)
RulesWithoutFallback(exhausted) ==
    {Rule("validate_primary", StepStatus, "report", Unset, FALSE), exhausted}

FallbackRules(exhausted) ==
    {Rule("validate_primary", {"success"}, "report", "completed", FALSE),
     Rule("validate_primary", Bad, "validate_fallback", Unset, FALSE),
     Rule("validate_fallback", {"success"}, "report", "completed", FALSE),
     exhausted}

BranchRules(kind) ==
    CASE kind = "validate_with_fallback" ->
           FallbackRules(Rule("validate_fallback", Bad, "report", "failed", FALSE))
      [] kind = "dispatch_recover_resume" ->
           FallbackRules(Rule("validate_fallback", Bad, "validate_fallback", Unset, TRUE))
      [] kind = "validate_compare_report" ->
           {Rule("validate_primary", StepStatus, "compare_target", Unset, FALSE),
            Rule("compare_target", StepStatus, "report", "auto_compare", FALSE)}
      [] kind = "feature_validate_gate" ->
           {Rule("feature_gate_before", {"success"}, "validate_primary", Unset, FALSE),
            Rule("feature_gate_before", {"failed"}, "feature_gate_before", Unset, TRUE),
            Rule("validate_primary", {"success"}, "feature_gate_after", Unset, FALSE),
            Rule("validate_primary", Bad, "validate_primary", Unset, TRUE),
            Rule("feature_gate_after", {"success"}, "report", "completed", FALSE),
            Rule("feature_gate_after", {"failed"}, "feature_gate_after", Unset, TRUE)}

(* the rule that covers a result; with none the chain pauses where it is *)
Decision(kind, stage, status) ==
    LET matching == {r \in BranchRules(kind) : r.stage = stage /\ status \in r.on}
    IN  IF matching = {} THEN Rule(stage, {status}, stage, Unset, TRUE)
        ELSE CHOOSE r \in matching : TRUE

(* what the report will say after a decision *)
ReportAfter(chain, status, decision) ==
    IF decision.report = "auto_compare"
    THEN IF chain.succ > 0 \/ status = "success" THEN "completed" ELSE "failed"
    ELSE IF decision.report # Unset THEN decision.report ELSE chain.report

----------------------------------------------------------------------------
(* The step that comes next: "none" when the stage asks for no step. *)
NextFamily(cfg, chain) ==
    CASE chain.stage \in {"feature_gate_before", "feature_gate_after", "feature_status_after"}
           -> "feature_status"
      [] chain.stage = Unset /\ cfg.kind = "feature_validate_loop" -> "feature_status"
      [] chain.stage \in {"report", "report_success", "report_failed", "report_recovery"}
           -> "report"
      [] chain.stage = "done" -> "none"
      [] OTHER -> "validation"

(* where a validation runs *)
Target(cfg, chain) ==
    IF /\ chain.stage \in {"fallback_validate", "validate_fallback", "compare_target"}
       /\ HasFallback(cfg)
    THEN cfg.fallback ELSE cfg.primary

(* the results a step can have: a local command is never refused *)
Results(cfg, chain) ==
    CASE NextFamily(cfg, chain) = "feature_status" -> {"success", "failed"}
      [] NextFamily(cfg, chain) = "report" -> {"success"}
      [] OTHER -> IF Target(cfg, chain) = "remote" THEN StepStatus
                  ELSE StepStatus \ {"refused"}

(* the counters after a step *)
Counted(chain, status) ==
    [chain EXCEPT !.steps = @ + 1,
                  !.succ = IF status = "success" THEN @ + 1 ELSE @,
                  !.fail = IF status = "success" THEN @ ELSE @ + 1,
                  !.idle = IF status = "success" THEN 0 ELSE @ + 1]

(* v1: the stages are a fixed path, and a dispatching chain's report says
   which branch it took *)
MayFallBack(cfg, chain) ==
    /\ cfg.kind = "dispatch_validate_recover"
    /\ chain.stage \in {Unset, "primary_validate"}
    /\ HasFallback(cfg)

AdvanceStage(cfg, chain, status) ==
    LET to(stage, report) == [stage |-> stage, report |-> report]
        reporting == NextFamily(cfg, chain) = "report"
    IN  IF reporting
        THEN to("done", IF cfg.kind = "dispatch_validate_recover"
                        THEN chain.report ELSE "completed")
        ELSE CASE cfg.kind = "validate_then_report" -> to("report", chain.report)
               [] cfg.kind = "feature_validate_loop" ->
                    to(CASE chain.stage = Unset -> "validate"
                         [] chain.stage = "validate" -> "feature_status_after"
                         [] OTHER -> "report", chain.report)
               [] OTHER ->
                    IF status = "success"
                    THEN to(IF chain.stage = "fallback_validate" THEN "report_recovery"
                            ELSE "report_success", "completed")
                    ELSE IF chain.stage # "fallback_validate" /\ HasFallback(cfg)
                    THEN to("fallback_validate", chain.report)
                    ELSE to("report_failed", "failed")

OutcomeV1(cfg, chain, status) ==
    LET moved == AdvanceStage(cfg, chain, status)
        updated == [Counted(chain, status) EXCEPT !.stage = moved.stage,
                                                  !.report = moved.report]
        as(s) == [updated EXCEPT !.status = s]
    IN  IF status = "unavailable" /\ ~MayFallBack(cfg, chain) THEN as("blocked")
        ELSE IF updated.fail >= cfg.failures THEN as("failed")
        ELSE IF updated.idle >= cfg.idle THEN as("blocked")
        ELSE IF NextFamily(cfg, chain) = "report"
             THEN as(IF cfg.kind = "dispatch_validate_recover" /\ chain.report = "failed"
                     THEN "failed" ELSE "completed")
        ELSE updated

(* v2: the decision comes first, then the failure limit; the no-progress
   limit is looked at when the loop comes round *)
OutcomeV2(cfg, chain, status) ==
    LET decision == Decision(cfg.kind, chain.stage, status)
        updated == [Counted(chain, status) EXCEPT
                      !.stage = decision.next,
                      !.report = ReportAfter(chain, status, decision)]
    IN  IF NextFamily(cfg, chain) = "report"
        THEN [chain EXCEPT !.steps = @ + 1, !.succ = @ + 1, !.stage = "done",
                           !.status = chain.report]
        ELSE IF decision.pauses THEN [updated EXCEPT !.status = "paused"]
        ELSE IF updated.fail >= cfg.failures THEN [updated EXCEPT !.status = "failed"]
        ELSE updated

Outcome(cfg, chain, status) ==
    IF cfg.kind \in V2Kinds THEN OutcomeV2(cfg, chain, status)
    ELSE OutcomeV1(cfg, chain, status)
=============================================================================
