SPECIFICATION Spec
CONSTANTS
  chA = chA
  chB = chB
  chC = chC
  chD = chD
  chE = chE
  callerA = callerA
  callerB = callerB
  Channels <- MCChannels
  Callers = {callerA, callerB}
  Nobody = Nobody
  NaN = NaN
  Unit = 720
  Float32s <- MCFloat32s
  Now = 5
  Page = 2
  Wrap = 16
  Worlds <- MCWorlds
  MaxMoves = 2
INVARIANTS TypeOK ForwardsCounted FeesEarnedOnce RecommendationsSound
