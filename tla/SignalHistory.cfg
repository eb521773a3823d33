SPECIFICATION Spec
CONSTANTS
  gold = gold
  aapl = aapl
  None = None
  Assets <- MCAssets
  Market = {gold}
  Queried = {gold}
  Agents = {"fear_greed", "gdelt"}
  Tones = {1}
  LLMConfidence = {3}
  LowConfidence = 7
  MaxPerHour = 1
  Parts = 2
  Trading <- MCTrading
  Pairs = {p}
  Horizon = 2
  Late = {}
  MaxHour = 3
  RerankHours = {0}
  MaxFaults = 1
INVARIANT AckedCandlesStay
INVARIANT EscalationsCapped
PROPERTY RowsResolved
CHECK_DEADLOCK FALSE
