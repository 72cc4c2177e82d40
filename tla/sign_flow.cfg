SPECIFICATION FairSpec
CONSTANTS
  Sessions = {s1, s2}
  Workers = {w1, w2}
  IDs = {"ann"}
  Characters = {"knight", "erased"}
  Stored = {"knight"}
  MaxAsk = 2
  NoWorker = NoWorker
INVARIANT TypeOK
INVARIANT HandledInState
PROPERTY Answered
CHECK_DEADLOCK FALSE
