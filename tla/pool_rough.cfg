SPECIFICATION Spec
CONSTANTS
  r1 = r1  r2 = r2  r3 = r3
  c1 = c1  c2 = c2
  None = None  Freed = Freed
  Reqs = {r1, r2, r3}
  Conns = {c1}
  Origins = {"o1", "o2"}
  Key <- KeyTwoProtos
  Deadline = {r1}
  MaxRetries = 1
  MaxPerOrigin = 1
  H2Max = 1
  H3Max = 1
  AppOps = {"evict", "drain"}
  SyncFail = TRUE
  Interim = TRUE
SYMMETRY SymmetricSlots
CHECK_DEADLOCK FALSE
INVARIANTS CapacityRespected
PROPERTIES BrokenTakesNoMore
