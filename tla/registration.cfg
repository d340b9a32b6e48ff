CONSTANTS
  Attempt = {a1, a2, a3}
  ana = ana
  Ana = Ana
  bo = bo
  Nickname <- Names
  Lower <- InSmallLetters
  Device = {d1, d2}
  Address = {i1, i2}
  None = None
  MaxPerDevice = 1
  MaxPerAddress = 1
  Window = 1
  Retention = 1
  ChallengeTtl = 0
  MaxChallenges = 1
  MaxIssued = 3
  MaxClock = 1
SPECIFICATION RegFairSpec
INVARIANTS CeilingsHold ProofsBuyOneAccount NamesAreUnique
PROPERTIES AttemptsSettle
CHECK_DEADLOCK FALSE
