SPECIFICATION Spec
CONSTANTS
  Cap = 4
  Tags = {1, 2}
  MaxHead = 7
  MaxIds = 3
  MaxTime = 2
  MaxPins = 2
  MaxStreams = 2
  MaxData = 2
  MaxOut = 3
  Window = 4
  Heads = {1, 3}
  MaxBody = 3
  HeaderCap = 5
  MaxFrames = 3
  MaxMessage = 2
  MaxControl = 2
  Arenas = {1, 2, 3}
  BlockSize = 2
  Sizes = {1, 2}
  MaxBlocks = 2
  MaxDepth = 3
  MaxLive = 2
  PoolMax = 1
  JarMax = 2
  MaxClock = 2
  Origins = {"o1", "o2"}
  CacheCap = 1
  Lifetimes = {2}
  MaxTickets = 3
  MaxMono = 1
  MaxCrashes = 1
  MaxChanges = 2
  LastYear = 2100
CHECK_DEADLOCK FALSE
INVARIANTS  ParsersExact ArenaSafe
PROPERTIES RingIsFifo SessionsKept  StateSurvives
