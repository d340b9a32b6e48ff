SPECIFICATION FairSpec
CONSTANTS
  None = none
  Bodies = {b1}
  MaxSends = 2
  MaxSessions = 2
  MaxQueue = 1
  Scenario <- Scenarios
INVARIANTS
  HandedOutOnce
  SavedWhenQuiet
  DiscardedStaysGone
PROPERTIES
  DiskNeverGoesBack
  CallsReturn
CHECK_DEADLOCK FALSE
