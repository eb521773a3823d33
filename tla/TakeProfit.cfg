SPECIFICATION Spec
CONSTANTS
  None = None
  Prices = {0, 2, 3, 4, 6, 7}
  Entries = {2}
  Stop = 2
  ScanStops = {2, 3}
  Captures = {1, 6}
  PeakBars = {0}
  Grace = 1
  PredLen = 2
  MaxRestarts = 2

INVARIANT ProfitLocked
PROPERTY Outlived
