SPECIFICATION Spec
CONSTANTS
  alice = alice
  bob = bob
  carol = carol
  seed1 = seed1
  seed2 = seed2
  seed3 = seed3
  NoAddress = zero
  MaxUint256 = 15
  MaxUint32 = 3
  MaxUint64 = 2
  Accounts <- MCAccounts
  Pairs <- MCPairs
  Nonces = {0, 1, 2}
  Seeds = {seed1, seed2, seed3}
  TicketSet <- MCTickets
  CombinedHash <- MCCombinedHash
  SECP256K1_N = 11
  SECP256K1_HALF_ORDER = 6
  Clients <- MCClients
  Provider = carol
  FrameSet <- MCFrames
  MaxSessions = 2
  MaxTime = 2
CHECK_DEADLOCK FALSE
INVARIANTS
  TypeOK
  SessionIsContiguous
  ClaimsArePayable
PROPERTIES
  SpentSeedServesNothing
  ImplementsSessions
