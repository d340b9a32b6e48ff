SPECIFICATION Spec
CONSTANTS
  alice = alice
  bob = bob
  a1 = a1
  a2 = a2
  b1 = b1
  thumb = thumb
  heart = heart
  Users = {alice, bob}
  Devices = {a1, a2, b1}
  OwnerOf <- Owners
  None = None
  Emoji = {thumb}
  PageSize = 2
  FirstPage = 2
  MaxReactions = 1
  Skew = 1
  Batch = 1
  Cap = 2
  CapHistory = 3
  Scenario <- Scenarios
INVARIANTS
  RowsApart
  DeletedIsLast
  QuietListsAgree
CHECK_DEADLOCK FALSE
