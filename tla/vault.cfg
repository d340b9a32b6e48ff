SPECIFICATION Spec
CONSTANTS
  old = old
  new = new
  m1 = m1
  m2 = m2
  m3 = m3
  c1 = c1
  c2 = c2
  c3 = c3
  Password = {old, new}
  Registered = old
  Messages = {m1, m2, m3}
  Channels = {c1, c2, c3}
  MaxEntries = 2
  MaxTries = 1
  PreKeyBlobs = 2
  None = None
  Scenario <- Scenarios
INVARIANTS
  SignOutIsTheLastWord
  DraftsAreKept
  StoresOpen
CHECK_DEADLOCK FALSE
