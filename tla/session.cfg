SPECIFICATION FairSpec
CONSTANTS
  Initiator = alice
  Responder = bob
  None = none
  MaxSkip = 2
  MaxSkippedKeys = 2
  MaxSentKeys = 1
  MaxPreviousReceivingKeys = 1
  MaxBodies = 5
  Scenario <- Scenarios
INVARIANTS
  NoMessageKeySealedTwice
  SpentKeysForgotten
  HeaderNamesChain
  InFlightBodiesOpen
  OldestGiveWayFirst
PROPERTIES
  ImplementsChannel
  OpensSettle
CHECK_DEADLOCK FALSE
