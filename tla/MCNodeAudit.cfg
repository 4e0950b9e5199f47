SPECIFICATION Spec
CONSTANTS
  MaxHeight = 3
  Chains <- MCChains
  Skew = 3
  Buffer = 4
  Wrap = 16
  Now = 17
  Day = 4
  Granularities <- MCGranularities
  HourIdx = 2
  DayIdx = 3
  CandleCap = 2
  GeckoDays = 2
  MaxRetries = 3
  Unset = Unset
  Own = "own"
  None = None
  Worlds <- MCWorlds
  Page = 1
  MaxMoves = 2
INVARIANTS TypeOK RangeCovers PricesFresh ChannelTxsRecognised BalanceKept SelfPaymentsRecognised
