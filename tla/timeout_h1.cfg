SPECIFICATION Spec
CONSTANTS
  r1 = r1  r2 = r2  r3 = r3
  c1 = c1  c2 = c2
  None = None  Freed = Freed
  Reqs = {r1, r2}
  Conns = {c1, c2}
  Origins = {"o1", "o2"}
  Key <- KeyH1
  Deadline = {r1}
  MaxRetries = 1
  MaxPerOrigin = 1
  H2Max = 1
  H3Max = 1
  AppOps = {}
  SyncFail = FALSE
  Interim = FALSE
CHECK_DEADLOCK FALSE
INVARIANTS H1OneOutstanding
