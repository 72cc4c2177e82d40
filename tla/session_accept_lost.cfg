SPECIFICATION FairSpec
CONSTANTS
  Threads = {w1, w2}
  PoolSize = 2
  PacketBytes = 1
  MaxSend = 1
  MaxRecv = 1
  Duplicates = FALSE
  NoThread = NoThread
  NoCompletion = NoCompletion
PROPERTY LostIsReaped
CHECK_DEADLOCK FALSE
