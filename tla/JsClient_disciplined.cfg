CONSTANTS
  a = a
  b = b
  Callers = {a, b}
  Configs <- MCAll
  Disciplined = TRUE
  MaxCalls = 3
  MaxConns = 3
  MaxTimeouts = 0
  MaxDisconnects = 0
  MaxFaults = 2
SPECIFICATION Spec
INVARIANTS OneOutstanding IsConnectedAccurate
