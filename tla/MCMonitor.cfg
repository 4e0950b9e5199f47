CONSTANTS
  c1 = c1
  c2 = c2
  p1 = p1
  NoBalance = NoBalance
  ResidualLimit = 20
  Pubkeys = {p1}
  ChanPoints = {c1, c2}
  Scids <- MCScids
  HalfScid = 4
  Balances = {b1, b2}
  Sqlite = TRUE
  PeerOf <- MCPeerOf
  ScidOf <- MCScidOf
  MaxEvents = 3
  Retention = 0
  MaxInt32 = 7
  MaxRowId = 20
  MaxTime = 0
  MaxChanges = 2
  MaxFaults = 1
SYMMETRY MCSymmetry
SPECIFICATION Spec
INVARIANTS TypeOK StatusTracksLnd BalanceTracksLnd
CHECK_DEADLOCK FALSE
