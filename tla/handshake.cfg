SPECIFICATION Spec
CONSTANTS
  alice = alice
  bob = bob
  a1 = a1
  a2 = a2
  b1 = b1
  b2 = b2
  Account = {alice, bob}
  Device = {a1, a2, b1, b2}
  MayUse <- Users
  None = None
  MinOpks = 2
  MaxOpks = 2
  RotateAge = 0
  HistoryAge = 2
  HistoryMax = 1
  BundleAge = 1
  Scenario <- Scenarios
INVARIANTS
  IdsNameOneKey
  RightAnswer
  OpenedIsSpent
PROPERTIES
  OnlyOpenedSpends
CHECK_DEADLOCK FALSE
