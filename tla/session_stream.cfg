SPECIFICATION Spec
CONSTANTS
  Threads = {w1, w2}
  PoolSize = 3
  PacketBytes = 2
  MaxSend = 2
  MaxRecv = 3
  Duplicates = TRUE
  NoThread = NoThread
  NoCompletion = NoCompletion
SYMMETRY Symmetry
INVARIANT TypeOK
INVARIANT OneSend
INVARIANT SendsFront
INVARIANT QueueServed
INVARIANT OneRecv
INVARIANT HandledInOrder
PROPERTY ImplementsStream
PROPERTY PopsWhenSent
CHECK_DEADLOCK FALSE
