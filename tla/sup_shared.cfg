SPECIFICATION Spec
VIEW WithoutTallies
CONSTANTS
    t1 = t1
    t2 = t2
    t3 = t3
    Task = {t1, t3}
    Session = {s1}
    NoSession = NoSession
    NoTask = NoTask
    Deps <- GatedDeps
    Gate <- OneGated
    BadContract = {}
    MaxRetries = 1
    Submitter = {u1}
    Approver = {a1}
    Console = {}
    Plans <- EachTask
    Seeded = {t3}
    MaxExecutions = 0
    Threshold = 0
    IdlePollLimit = 0
    StopWhenEmpty = TRUE
    MaxStarts = 2
    MaxOps = 3
INVARIANTS
    OnlyAdmittedRun
    DependenciesFinished
    NoInventedSuccess
CHECK_DEADLOCK FALSE
