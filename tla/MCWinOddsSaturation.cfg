SPECIFICATION OddsSpec
CONSTANTS
  MaxUint256 = 255
  MaxUint32 = 7
  Accounts = {a1}
  NoAddress = zero
INVARIANT
  WinIsClaimable
