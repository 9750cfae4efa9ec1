SPECIFICATION AlgSpec
CONSTANTS
  MaxUint256 = 255
  MaxUint32 = 7
  Accounts = {a1}
  NoAddress = zero
  SPMP_MAGIC = 6
  MAX_FRAME_SIZE = 8
  U32 = 16
  MaxUint128 = 1
  Leads = {8}
  Conts = {9}
  REPLACEMENT = 7
  WindowSize = 4
  MaxTickets = 11
  MaxUint64 = 3
  NonceTamper = 2
  MaxIterations = 3
INVARIANTS
  LotteryIsFair
  TicketCodecsAreInverse
  ResponseDecodersAgree
  AnswersArriveWhole
  AuditFiguresAreRight
  ReportIsVerdict
CHECK_DEADLOCK FALSE
