CONSTANTS
  t1 = t1
  t2 = t2
  None = None
  Threads = {t1, t2}
  Configs <- MCUnlimited
  MaxCalls = 2
  MaxConns = 3
  MaxFaults = 1
SPECIFICATION FairSpec
PROPERTIES CallsReturnOnceServerIsUp
