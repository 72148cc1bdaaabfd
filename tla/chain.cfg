SPECIFICATION FairSpec
CONSTANTS
  Ops = {1, 2}
  Hosts <- MCHosts
  SiteOf <- MCSiteOf
  Doh = "doh"
  Clients <- MCClients
CHECK_DEADLOCK FALSE
INVARIANTS ChainAnswered  CookieOnNextHop
PROPERTIES RouteKept SyncReturns
