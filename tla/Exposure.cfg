SPECIFICATION Spec
CONSTANTS
  eurusd = eurusd
  gbpusd = gbpusd
  gold = gold
  None = None
  Symbols <- MCSymbols
  Sector <- MCSector
  Equities = {9, 12}
  Distances = {1, 2}
  Slip = 0
  RiskPct = 25
  TotalPct = 60
  SectorPct = 40
  SizingCap = 11
  MarginPct = 50
  HaltPct = 80
  DefensivePct = 65
  EmergencyPct = 55
  FloorPct = 50
  Rates = {1, 4}
  MarginRate = 1
  Grid = 2
  MinDeal = 1
  MaxOpen = 3

INVARIANT BooksCoverDeals
PROPERTY ExposureCapped
CHECK_DEADLOCK FALSE
