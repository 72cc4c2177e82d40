SPECIFICATION Spec
CONSTANTS
  Sessions = {s1, s2}
  Workers = {w1, w2}
  SendPackets = {1, 2, 3}
  RecvPackets = 3
  NoSession = NoSession
  NoPacket = NoPacket
  NoWorker = NoWorker
SYMMETRY Symmetry
INVARIANT OneUser
CHECK_DEADLOCK FALSE
