CONSTANTS
  Tasks = {t1, t2}
  NoTask = NoTask
  MaxNonce = 3
  MaxConns = 2
  MaxSeeds = 2
  MaxLives = 2
SPECIFICATION FairSpec
INVARIANTS TypeOK NoncesAreUnique NonceServedOnce HaltIsExplained AnswersAreOwnOrLate
PROPERTY OnlySilenceBlocks
CHECK_DEADLOCK FALSE
