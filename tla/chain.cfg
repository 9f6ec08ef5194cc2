SPECIFICATION FairSpec
CONSTANTS
    Loop = {l1, l2}
    NoLoop = NoLoop
    Client = {c1, c2}
    Configs <- SomeConfigs
    MaxOps <- SomeCalls
    MaxCrashes = 1
INVARIANTS
    OneLoopReachable
    StopIsPrompt
    StepBudget
    RunningHasLoop
    ReportTruthful
PROPERTIES
    ChainComesToRest
VIEW WithoutLeftovers
CHECK_DEADLOCK FALSE
