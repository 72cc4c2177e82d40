SPECIFICATION Spec
CONSTANTS
  Workers = {w1}
  Players = {p1, p2}
  Width = 4
  Height = 3
  EntryX = 0
  EntryY = 1
  Batch = 1
  Again = {}
  Drops = {p1, p2}
  NoSector = NoSector
  NoWorker = NoWorker
SYMMETRY Symmetry
INVARIANT TypeOK
INVARIANT ViewExact
INVARIANT NoRepeat
CHECK_DEADLOCK FALSE
