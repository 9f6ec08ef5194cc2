SPECIFICATION FairSpec
CONSTANTS
    n1 = n1
    n2 = n2
    w1 = w1
    w2 = w2
    Job = {j1, j2}
    Node = {n1, n2}
    Worker = {w1, w2}
    NoJob = NoJob
    Setups <- EitherSetup
    MaxStarts <- SomeStarts
INVARIANTS
    OneRunPerJob
    RunningHasWorker
PROPERTIES
    ImplementsJobLedger
    JobsSettle
VIEW WithoutLeftovers
CHECK_DEADLOCK FALSE
