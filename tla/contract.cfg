SPECIFICATION FairSpec
CONSTANTS
    Tasks = 2
    Contracts = {1, 2}
    Entity = {1}
    Loop <- Loops
    Program = {p1, p2}
    MaxRuns = 2
    Retries = 1
    Limits <- SomeLimits
INVARIANTS
    GrantsOnce
PROPERTIES
    LeftToOperator
    ProgramsEnd
VIEW WithoutLeftovers
CHECK_DEADLOCK FALSE
