CONSTANTS
  c1 = c1
  c2 = c2
  p1 = p1
  NoBalance = NoBalance
  ResidualLimit = 20
  Pubkeys = {p1}
  ChanPoints = {c1}
  Scids <- MCScids
  HalfScid = 4
  Balances = {b1}
  Sqlite = TRUE
  PeerOf <- MCPeerOf
  ScidOf <- MCScidOf
  MaxEvents = 2
  Retention = 1
  MaxInt32 = 7
  MaxRowId = 20
  MaxTime = 2
  MaxChanges = 1
  MaxFaults = 1
SPECIFICATION FairSpec
PROPERTIES ImplementsStore CatchesUp StopTerminates
CHECK_DEADLOCK FALSE
