CONSTANTS
  Awaits = TRUE
  MaxListens = 2
  MaxConns = 3
  MaxRequests = 1
SPECIFICATION FairSpec
INVARIANTS OpenIsActive Reachable StopLeavesNothing
PROPERTIES StopResolves
CHECK_DEADLOCK FALSE
