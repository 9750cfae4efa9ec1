CONSTANTS
  Conns = {c1, c2}
  PeerFrames <- McHandshakeFrames
  MAX_FRAME_SIZE = 3
  ACK_LEN = 2
  HANDSHAKE_TIMEOUT = 2
  MaxUint64 = 3
  MaxFrames = 1
SPECIFICATION FairSpec
PROPERTY EveryPeerIsAccepted
CHECK_DEADLOCK FALSE
