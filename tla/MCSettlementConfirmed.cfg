SPECIFICATION WorkerSpec
CONSTANTS
  alice = alice
  carol = carol
  seed1 = seed1
  NoAddress = zero
  MaxUint256 = 15
  MaxUint32 = 3
  Accounts <- MCAccounts
  Escrow = escrow
  Deployer = alice
  InitialSupply = 2
  SupplyBound = 2
  Amounts = {2}
  Approvals = {15}
  Pairs <- MCPairs
  Nonces = {1, 2, 3}
  Seeds = {seed1}
  TicketSet <- MCTickets
  CombinedHash <- MCCombinedHash
  SECP256K1_N = 11
  SECP256K1_HALF_ORDER = 6
  ClaimSet <- MCClaims
  WITHDRAWAL_DELAY = 1
  MaxTime = 2
  Provider = carol
  QueueCapacity = 2
  MaxRestarts = 0
  RpcUrlParses = {TRUE, FALSE}
INVARIANT
  ConfirmedMeansPaid
