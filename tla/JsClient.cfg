CONSTANTS
  a = a
  b = b
  Callers = {a, b}
  Configs <- MCAll
  Disciplined = FALSE
  MaxCalls = 2
  MaxConns = 2
  MaxTimeouts = 2
  MaxDisconnects = 1
  MaxFaults = 1
SPECIFICATION FairSpec
INVARIANTS TypeOK ReaderCanWake CodecIsOpen RequestsNeverMix KeepsReconnecting
PROPERTIES ContractSpec EveryWaitEnds
