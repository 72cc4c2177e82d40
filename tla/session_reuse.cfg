SPECIFICATION Spec
CONSTANTS
  Threads = {w1, w2}
  PoolSize = 2
  PacketBytes = 1
  MaxSend = 3
  MaxRecv = 0
  Duplicates = FALSE
  NoThread = NoThread
  NoCompletion = NoCompletion
SYMMETRY Symmetry
INVARIANT OwnBytes
CHECK_DEADLOCK FALSE
