SPECIFICATION Spec
CONSTANTS
  Sessions = {s1, s2}
  Workers = {w1, w2}
  IDs = {"ann"}
  Characters = {"knight"}
  Stored = {"knight"}
  MaxAsk = 1
  NoWorker = NoWorker
INVARIANT UniqueIDs
CHECK_DEADLOCK FALSE
