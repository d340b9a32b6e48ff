CONSTANTS
  Socket = {s1, s2}
  User = {u1, u2}
  Device = {d1, d2}
  Address = {a1}
  None = None
  Registered = {u1}
  MaxPerIp = 1
  MaxPerUser = 2
  MaxSessions = 1
  InactiveTtl = 0
  MaxClock = 1
  MaxCalls = 1
SPECIFICATION FairSpec
INVARIANTS FiledIsWelcome NobodyGoesDeaf OfflineIsShown SessionCap
PROPERTIES DeadEntriesSwept
CHECK_DEADLOCK FALSE
