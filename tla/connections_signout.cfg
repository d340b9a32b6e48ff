CONSTANTS
  Socket = {s1, s2}
  User = {u1}
  Device = {d1, d2}
  Address = {a1}
  None = None
  Registered = {}
  MaxPerIp = 2
  MaxPerUser = 2
  MaxSessions = 1
  InactiveTtl = 0
  MaxClock = 0
  MaxCalls = 2
SPECIFICATION Spec
PROPERTIES SignedOutMayReturn
CHECK_DEADLOCK FALSE
