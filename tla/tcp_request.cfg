SPECIFICATION FairSpec
CONSTANTS
  r1 = r1  r2 = r2
  Reqs = {r1}
  Proxies = {"None", "Http", "Https", "Socks5"}
  EarlyLimit = 1
  WriteFaults = {TRUE, FALSE}
  SlowDns = FALSE
CHECK_DEADLOCK FALSE
INVARIANTS ServedWholeOnce Teardown
PROPERTIES ImplementsExchange DeadlineReleases
