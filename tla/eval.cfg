SPECIFICATION FairSpec
CONSTANTS
    Loop = {l1, l2}
    NoLoop = NoLoop
    Client = {c1, c2}
    Configs <- SomeSessions
    MaxOps <- SomeCalls
    MaxCrashes = 1
INVARIANTS
    CountsMatchRuns
    RunBudget
PROPERTIES
    PacedComesToRest
VIEW WithoutLeftovers
CHECK_DEADLOCK FALSE
