SPECIFICATION FairSpec
CONSTANTS
  MaxUpdate = 3
  Other = {1}
  Poison = {3}
  PageSize = 3
  Loop = {l1, l2}
  Caller = {u1}
  MaxCrashes = 1
  None = None
INVARIANTS NoUpdateLost OnlyOnce LoopReachable
 
VIEW WithoutLeftovers
CHECK_DEADLOCK FALSE
