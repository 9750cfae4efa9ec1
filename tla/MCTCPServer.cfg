CONSTANTS
  Conns = {c1}
  PeerFrames <- McFrames
  MAX_FRAME_SIZE = 3
  ACK_LEN = 2
  HANDSHAKE_TIMEOUT = 2
  MaxUint64 = 3
  MaxFrames = 3
SPECIFICATION FairSpec
INVARIANTS TypeOK HandshakeWithinBudget CleanEndLosesNothing WatermarkIsLastTicket
PROPERTIES OnlyLivePeersHoldTasks
CHECK_DEADLOCK FALSE
