SPECIFICATION OneFairSpec
CONSTANTS
  Reqs = {r1}
  WriteFaults = {TRUE, FALSE}
  SlowDns = FALSE
  MaxMsgs = 2
  Shared = TRUE
  MaxBytes = 2
CHECK_DEADLOCK FALSE
INVARIANTS QuicServedOnce FreedClosed NoLostWakeup
PROPERTIES QuicImplementsExchange MessagesInOrder DeadlinesReturn
