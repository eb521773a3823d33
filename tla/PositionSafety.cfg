SPECIFICATION Spec
CONSTANTS
  A = A
  B = B
  a1 = a1
  a2 = a2
  b1 = b1
  None = None
  Symbols = {A, B}
  Deals = {a1, a2, b1}
  DealSym <- DealSymAB
  CandleTasks = {c1, c2}
  RerankTasks = {}
  MarginTasks = {}
  MaxOpen = 2
SYMMETRY CandleSymmetry
INVARIANT TypeOK
INVARIANT EntryGuard
PROPERTY ImplementsSerialEntry
CHECK_DEADLOCK FALSE
