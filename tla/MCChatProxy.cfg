CONSTANTS
  Requests = {r1, r2}
  Capacity = 2
  MaxTokens = 4
SPECIFICATION FairSpec
INVARIANTS DoneAfterEveryToken
PROPERTY OnlyThePeerBlocks
CHECK_DEADLOCK FALSE
