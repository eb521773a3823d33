SPECIFICATION LSFairSpec
CONSTANTS
  Clients = {c1, c2}
  Timeout = 1
  Grace = 3
  MaxDelay = 2
  AdapterDelays = {2}
  Nil = Nil
  MaxFaults = 3
  MaxNotices = 1

INVARIANT OneClient
INVARIANT OneRecovery
INVARIANT ClosedStaysClosed
PROPERTY FeedRestored
PROPERTY MetalsRestored
