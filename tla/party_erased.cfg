SPECIFICATION Spec
CONSTANTS
  Players = {p1, p2, p3}
  NoPlayer = NoPlayer
  MaxSeats = 4
  Capacities = {1, 2}
  MaxParty = 2
  MaxWorkers = 2
SYMMETRY Symmetry
INVARIANT ErasedEmpty
CHECK_DEADLOCK FALSE
