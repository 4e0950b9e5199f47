CONSTANTS
  c1 = c1
  c2 = c2
  StartTime = 0
  EndTime = 3
  Chans = {c1, c2}
  Pairs <- MCPairs
  Floors <- MCFloors
  InitialStates <- MCInitialStates
  Snapshots <- MCSnapshots
  MaxLog = 3
SPECIFICATION Spec
INVARIANTS TypeOK UptimeExact
CHECK_DEADLOCK FALSE
