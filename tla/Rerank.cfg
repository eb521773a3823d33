SPECIFICATION Spec
CONSTANTS
  eurusd = eurusd
  gbpusd = gbpusd
  aapl = aapl
  None = None
  Symbols <- MCSymbols
  Fillable = {aapl}
  Monitored = {}
  Outcomes <- MCOutcomes
  Sessions <- MCSessions
  Matrices <- MCMatrices
  Volume = {aapl}
  K = 2
  MinReturn = 1
  MinConfidence = 60
  MaxUncertainty = 5
  DecayConfidence = 55
  DecayUncertainty = 3
  MaxStrikes = 2
  MaxMisses = 3
  OldRecords <- MCOldRecords
  MaxRestarts = 1

INVARIANT SelectionGreedy
PROPERTY EntryOnSignal
PROPERTY DecayDeserved
PROPERTY EvictedLeaves
CHECK_DEADLOCK FALSE
