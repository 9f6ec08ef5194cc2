SPECIFICATION FairSpec
CONSTANTS
  Process = {p1, p2, p3}
  Caller = {c1, c2}
  MaxCalls = 5
  NoProcess = NoProcess
INVARIANTS RunningHasProcess NothingLeftBehind
PROPERTIES StopTakesEffect
CHECK_DEADLOCK FALSE
