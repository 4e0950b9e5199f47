CONSTANTS
  c1 = c1
  c2 = c2
  p1 = p1
  NoBalance = NoBalance
  ResidualLimit = 20
  Pubkeys = {p1}
  ChanPoints = {c1}
  Scids <- MCScids
  HalfScid = 4
  Balances = {b1, b2}
  Sqlite = TRUE
  PeerOf <- MCPeerOf
  ScidOf <- MCScidOf
  MaxEvents = 0
  Retention = 0
  MaxInt32 = 7
  MaxRowId = 20
  MaxTime = 0
  MaxChanges = 0
  MaxFaults = 0
SPECIFICATION Spec
INVARIANT BaselineCaptured
CHECK_DEADLOCK FALSE
