SPECIFICATION Spec
CONSTANTS
  r1 = r1  r2 = r2
  Reqs = {r1}
  Proxies = {"None"}
  EarlyLimit = 1
  WriteFaults = {FALSE}
  SlowDns = TRUE
CHECK_DEADLOCK FALSE
INVARIANTS FreedForGood
