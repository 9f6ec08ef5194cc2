SPECIFICATION Spec
CONSTANTS
    t1 = t1
    t2 = t2
    t3 = t3
    Task = {t1, t2}
    Session = {s1}
    NoSession = NoSession
    NoTask = NoTask
    Deps <- ChainDeps
    Gate <- OneGated
    BadContract = {}
    MaxRetries = 2
    Submitter = {}
    Approver = {}
    Console = {c1}
    Plans = {}
    Seeded = {t1, t2}
    MaxExecutions = 3
    Threshold = 2
    IdlePollLimit = 1
    StopWhenEmpty = FALSE
    MaxStarts = 1
    MaxOps = 1
PROPERTIES
    PausedMeansNoStart
CHECK_DEADLOCK FALSE
