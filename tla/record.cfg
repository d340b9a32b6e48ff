SPECIFICATION Spec
CONSTANTS
  t1 = t1
  t2 = t2
  c1 = c1
  c2 = c2
  s1 = s1
  s2 = s2
  Tab = {t1, t2}
  Call = {c1, c2}
  Secret = {s1, s2}
  Old = Old
  None = None
  Scenario <- Scenarios
INVARIANTS
  RecordOpens
  ReadsTell
PROPERTY
  FallbackIsForTheUnable
SYMMETRY Symmetry
CHECK_DEADLOCK FALSE
