SPECIFICATION Spec
CONSTANTS
  Keys = {"aa", "AA", "bb", "cc", "dd", "xx"}
  RawOf <- MCRaw
  NotHex <- MCNotHex
  IdxValues = 4
  ByteBits = 8
  MaxInt64 = 5
  Scale = 10
  Chans = {"c1", "c3"}
  PeerOf <- MCPeerOf
  Times = {0, 2, 6}
  Thresholds <- MCThresholds
  NaN = NaN
  DefaultThreshold = 9
  Ticks = 2
  NowTicks = 5
  Uptimes = {0, 3}
  Msat = {1, 3}
  MsatPerSat = 2
  PageSize = 1
  LibraryAbilities <- MCAbilities
  MaxForwards = 2
  MaxChanges = 1
INVARIANTS TypeOK ForwardsFetchedOnce NoChannelMissed RoundTrip VolumeReachesClient SomeSignal
