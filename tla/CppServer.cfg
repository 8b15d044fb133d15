CONSTANTS
  u1 = u1
  Users = {u1}
  MaxConnections = 1
  MaxFds = 3
  CloseWakes = TRUE
  MaxConns = 2
  MaxStarts = 2
  MaxRequests = 2
SPECIFICATION FairSpec
INVARIANTS TypeOK WithinLimit StopLeavesNothing ClientIsTold
PROPERTIES StopReturns SlotReclaimed NoneWaitsForever
CHECK_DEADLOCK FALSE
