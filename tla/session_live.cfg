SPECIFICATION FairSpec
CONSTANTS
  Threads = {w1, w2}
  PoolSize = 3
  PacketBytes = 1
  MaxSend = 2
  MaxRecv = 1
  Duplicates = FALSE
  NoThread = NoThread
  NoCompletion = NoCompletion
INVARIANT PoolDisjoint
INVARIANT Listening
PROPERTY QueueDrains
PROPERTY WorkersReturn
PROPERTY Reaped
CHECK_DEADLOCK FALSE
