SPECIFICATION FairSpec
CONSTANTS
  HeaderBytes = 4
  Capacity = 4
  N = 4
  Body <- MCBody
  Begin <- MCBegin
INVARIANT TypeOK
INVARIANT DeliversBodies
INVARIANT AsksForRest
PROPERTY EveryPacketArrives
CHECK_DEADLOCK FALSE
