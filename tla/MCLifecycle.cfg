CONSTANTS
  Callers = {p1}
  ChainConn = TRUE
  MaxCalls = 4
SPECIFICATION Spec
INVARIANTS TypeOK UsersBeforeStores ReleasedWhenOver
PROPERTY CallsReturn
CHECK_DEADLOCK FALSE
