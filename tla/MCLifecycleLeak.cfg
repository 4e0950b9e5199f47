CONSTANTS
  Callers = {p1}
  ChainConn = TRUE
  MaxCalls = 1
SPECIFICATION Spec
INVARIANT NothingStarted
CHECK_DEADLOCK FALSE
