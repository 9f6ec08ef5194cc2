SPECIFICATION FairSpec
CONSTANTS
  Workflow = {w1, w2}
  Confirmation = {c1}
  h1 = h1
  h2 = h2
  timer = timer
  Chat = {h1, h2}
  Timer = {timer}
  Limits <- SomeLimits
  Steps = 2
  MaxKept = 1
  None = None
INVARIANTS NoStepTwice PausedMatches
PROPERTIES WorkflowEnds ImplementsRelay
VIEW WithoutLeftovers
CHECK_DEADLOCK FALSE
