SPECIFICATION FairSpec
CONSTANTS
  alice = alice
  bob = bob
  carol = carol
  escrow = escrow
  seed1 = seed1
  seed2 = seed2
  NoAddress = zero
  MaxUint256 = 15
  MaxUint32 = 3
  Accounts <- MCAccounts
  Escrow <- escrow
  Deployer <- alice
  InitialSupply = 2
  SupplyBound = 2
  Amounts = {0, 1, 2}
  Approvals = {1}
  Pairs <- MCPairs
  Nonces = {1, 2, 3}
  Seeds = {seed1, seed2}
  TicketSet <- MCTickets
  CombinedHash <- MCCombinedHash
  SECP256K1_N = 11
  SECP256K1_HALF_ORDER = 6
  ClaimSet <- MCClaims
  WITHDRAWAL_DELAY = 2
  MaxTime = 4
INVARIANTS
  TypeOK
  ChannelsAreWhole
  Solvent
PROPERTIES
  ClaimsSurvive
  ImplementsLedger
  CloseLeadsToRefund
