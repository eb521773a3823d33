SPECIFICATION FairSpec
CONSTANTS
  Slots = 2
  Buffer = 2
  Open <- OpenInstants
  Prints <- TradedInstants
  None = None
  Feeds = {"eodhd", "twelvedata", "metals"}
  Context = 2
  RepairSlot = 1
  PollSlot = 1
  PollSize = 2
  MaxAge = 3
  Lookback = 2
  History = {0}
  Watched = {4}
  MaxNow = 11
  MaxCrashes = 1
  MaxDbFails = 1

INVARIANT OneVersion
PROPERTY TicksCloseHours
PROPERTY ReloadKeepsBars
PROPERTY QueuedHourLands
