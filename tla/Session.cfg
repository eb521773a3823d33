SPECIFICATION FairSpec
CONSTANTS
  Traders = {t}
  Pollers = {p}
  Main = Main
  Refresh = Refresh
  None = None
  MaxRetries = 1
  SwitchTries = 2
  DefaultAccount = "CFD"
  MaxLogins = 3

INVARIANT RefreshedOnSpreadbet
INVARIANT RetriedWithNewToken
PROPERTY PlacedOnce
PROPERTY RequestReturns
