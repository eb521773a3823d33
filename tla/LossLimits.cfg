SPECIFICATION LimitsSpec
CONSTANTS
  Symbols = {s1, s2}
  Nil = Nil
  Pnls <- MCPnls
  Windows <- MCWindows
  Hour = 1
  Month = 3
  MaxOrders = 2
  Pause = 2
  MaxOpen = 2
  MaxResults = 3

PROPERTY ApprovedWithinLimits
PROPERTY LimitsLift
