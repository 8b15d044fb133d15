CONSTANTS
  a = a
  b = b
  Callers = {a, b}
  Configs <- MCAll
  Disciplined = FALSE
  MaxCalls = 2
  MaxConns = 2
  MaxTimeouts = 0
  MaxDisconnects = 0
  MaxFaults = 1
SPECIFICATION Spec
INVARIANTS IsConnectedAccurate
