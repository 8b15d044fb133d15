CONSTANTS
  CppServers = {c1}
  TsServers = {t1, t2}
  Clients = {a, b}
  MaxStarts = 2
SPECIFICATION Spec
INVARIANT OwnsPath
PROPERTY ClientsComeBack
CHECK_DEADLOCK FALSE
