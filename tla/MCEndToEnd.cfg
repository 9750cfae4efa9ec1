SPECIFICATION SystemSpec
CONSTANTS
  alice = alice
  carol = carol
  seed1 = seed1
  seed2 = seed2
  seed3 = seed3
  NoAddress = zero
  MaxUint256 = 15
  MaxUint32 = 3
  MaxUint64 = 2
  Accounts <- MCAccounts
  Escrow = escrow
  Deployer = alice
  InitialSupply = 3
  SupplyBound = 3
  Amounts = {1, 2}
  Approvals = {15}
  Pairs <- MCPairs
  Nonces = {1, 2}
  Seeds = {seed1, seed2, seed3}
  TicketSet <- MCTickets
  CombinedHash <- MCCombinedHash
  SECP256K1_N = 11
  SECP256K1_HALF_ORDER = 6
  ClaimSet <- MCClaims
  WITHDRAWAL_DELAY = 1
  MaxTime = 3
  Provider = carol
  QueueCapacity = 2
  MaxRestarts = 1
  RpcUrlParses = {TRUE}
  Clients <- MCClients
  FrameSet <- MCFrames
  MaxSessions = 2
CHECK_DEADLOCK FALSE
INVARIANTS
  ChargedOncePerNonce
  RegularClaimsNeedOnlyFunds
PROPERTIES
  RevealedSeedServesNothing
  OnlyRestartsLoseWins
