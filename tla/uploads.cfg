SPECIFICATION Spec
CONSTANTS
  ann = ann
  bob = bob
  User = {ann, bob}
  Size = {3, 6}
  Chunk = 2
  MaxUpload = 8
  MaxConcurrent = 2
  RateLimit = 2
  DailyBytes = 10
  MaxTokens = 1
  None = None
  Scenario <- Scenarios
INVARIANTS
  SlotsAreCounted
  WholeOrNotAtAll
PROPERTY
  RequestsEnd
CHECK_DEADLOCK FALSE
