SPECIFICATION StreamFairSpec
CONSTANTS
  A = A
  a1 = a1
  None = None
  Symbols = {A}
  Deals = {a1}
  DealSym <- DealSymA1
  CandleTasks = {c1}
  RerankTasks = {r}
  MarginTasks = {m}
  MaxOpen = 1
  QueueMax = 1

INVARIANT EntryGuard
PROPERTY GhostPurged
CHECK_DEADLOCK FALSE
