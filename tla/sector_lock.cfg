SPECIFICATION FairSpec
CONSTANTS
  Workers = {w1, w2}
  Players = {p1, p2}
  Width = 2
  Height = 1
  EntryX = 0
  EntryY = 0
  Batch = 10
  Again = {p2}
  Drops = {p1}
  NoSector = NoSector
  NoWorker = NoWorker
INVARIANT SectorKnown
PROPERTY RequestsEnd
CHECK_DEADLOCK FALSE
