CONSTANTS
  c1 = c1
  c2 = c2
  NoBalance = NoBalance
  ResidualLimit = 3
  Pubkeys = {p1}
  ChanPoints = {c1, c2}
  Scids <- MCScids
  HalfScid = 4
  Balances = {b1}
  Sqlite = TRUE
  MaxEventsArgs <- MCMaxEventsArgs
  RetentionArgs <- MCRetentionArgs
  MaxInt32 = 3
  MaxRowId = 3
  MaxTime = 2
  Requests <- MCRequests
  MaxEventsLimit = 2
SPECIFICATION RPCSpec
INVARIANT NothingSkipped
