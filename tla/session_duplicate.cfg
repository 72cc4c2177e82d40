SPECIFICATION Spec
CONSTANTS
  Threads = {w1, w2}
  PoolSize = 2
  PacketBytes = 1
  MaxSend = 1
  MaxRecv = 2
  Duplicates = TRUE
  NoThread = NoThread
  NoCompletion = NoCompletion
INVARIANT Listening
CHECK_DEADLOCK FALSE
