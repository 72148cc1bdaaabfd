SPECIFICATION FairSpec
CONSTANTS
  MaxReqs = 2
  DrainMax = 1
  Watchable = {TRUE, FALSE}
  Callers = {1, 2}
CHECK_DEADLOCK FALSE
INVARIANTS NothingLost 
PROPERTIES ResponsesKept CallsEnd
