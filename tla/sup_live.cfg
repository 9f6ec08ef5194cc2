SPECIFICATION FairSpec
CONSTANTS
    t1 = t1
    t2 = t2
    t3 = t3
    Task = {t1, t2, t3}
    Session = {s1}
    NoSession = NoSession
    NoTask = NoTask
    Deps <- ChainDeps
    Gate <- AllOpen
    BadContract = {t3}
    MaxRetries = 2
    Submitter = {}
    Approver = {}
    Console = {c1}
    Plans = {}
    Seeded = {t1, t2, t3}
    MaxExecutions = 0
    Threshold = 0
    IdlePollLimit = 2
    StopWhenEmpty = FALSE
    MaxStarts = 2
    MaxOps = 1
PROPERTIES
    TimeLimitStops
    SelectableSettles
    SessionCloses
CHECK_DEADLOCK FALSE
