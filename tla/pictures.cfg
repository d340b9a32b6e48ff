SPECIFICATION PicSpec
CONSTANTS
  m1 = m1
  m2 = m2
  b1 = b1
  b2 = b2
  Message = {m1, m2}
  Bubble = {b1, b2}
  SizeOf <- Sizes
  EntryLimit = 1
  ByteBudget = 2
  Null = Null
  PicScenario <- Scenarios
INVARIANTS
  NothingIsForgotten
  OverOnlyForTheClaimed
  DrawnIsAlive
CHECK_DEADLOCK FALSE
