SPECIFICATION FairSpec
CONSTANTS
  A = A
  B = B
  a1 = a1
  a2 = a2
  b1 = b1
  None = None
  Symbols = {A}
  Deals = {a1, a2}
  DealSym <- DealSymA
  CandleTasks = {c1}
  RerankTasks = {r}
  MarginTasks = {}
  MaxOpen = 1

PROPERTY OrphanSurfaces
PROPERTY GhostPurged
PROPERTY EntryLockReleased
CHECK_DEADLOCK FALSE
