SPECIFICATION Spec
CONSTANTS
    t1 = t1
    t2 = t2
    t3 = t3
    Task = {t1, t2}
    Session = {s1, s2}
    NoSession = NoSession
    NoTask = NoTask
    Deps <- ChainDeps
    Gate <- OneGated
    BadContract = {}
    MaxRetries = 3
    Submitter = {}
    Approver = {}
    Console = {}
    Plans = {}
    Seeded = {t1, t2}
    MaxExecutions = 3
    Threshold = 2
    IdlePollLimit = 1
    StopWhenEmpty = FALSE
    MaxStarts = 3
    MaxOps = 0
INVARIANTS
    RunsWithinRetryBudget
    ExecutionBudget
    ReclaimOnResume
    QueueLeadsState
    ClosingReasonHolds
    StreakBounded
PROPERTIES
    ImplementsLedger
CHECK_DEADLOCK FALSE
