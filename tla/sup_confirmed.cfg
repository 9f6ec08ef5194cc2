SPECIFICATION Spec
CONSTANTS
    t1 = t1
    t2 = t2
    t3 = t3
    Task = {t1, t3}
    Session = {s1}
    NoSession = NoSession
    NoTask = NoTask
    Deps <- GatedDeps
    Gate <- OneGated
    BadContract = {}
    MaxRetries = 1
    Submitter = {u1}
    Approver = {}
    Console = {}
    Plans <- EachTask
    Seeded = {t1}
    MaxExecutions = 0
    Threshold = 0
    IdlePollLimit = 0
    StopWhenEmpty = TRUE
    MaxStarts = 1
    MaxOps = 1
PROPERTIES
    ConfirmedStays
CHECK_DEADLOCK FALSE
