CONSTANTS
  t1 = t1
  t2 = t2
  None = None
  Threads = {t1, t2}
  Configs <- MCBounded
  MaxCalls = 3
  MaxConns = 3
  MaxFaults = 2
SPECIFICATION FairSpec
INVARIANTS TypeOK CodecNotNull AtMostOnce Correlated OneOutstanding NotifiedOnce
PROPERTIES EveryCallReturns RequestIdsIncrease ContractSpec
