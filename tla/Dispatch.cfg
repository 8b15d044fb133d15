CONSTANTS
  Ping = Ping
  PingMethod = PingMethod
  Services = {Ping, Echo}
  Methods = {PingMethod, Other}
  Calls = {k1}
  MaxRegistrations = 3
SPECIFICATION Spec
INVARIANTS CallerIsTold
PROPERTIES HandlersStay
CHECK_DEADLOCK FALSE
