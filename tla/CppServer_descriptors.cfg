CONSTANTS
  u1 = u1
  Users = {u1}
  MaxConnections = 1
  MaxFds = 3
  CloseWakes = TRUE
  MaxConns = 2
  MaxStarts = 1
  MaxRequests = 1
SPECIFICATION Spec
INVARIANTS AcceptsAfterDisconnects
CHECK_DEADLOCK FALSE
