CONSTANTS
  u1 = u1
  Users = {u1}
  MaxConnections = 1
  MaxFds = 4
  CloseWakes = FALSE
  MaxConns = 2
  MaxStarts = 1
  MaxRequests = 1
SPECIFICATION FairSpec
PROPERTIES StopReturns
CHECK_DEADLOCK FALSE
