SPECIFICATION FairSpec
CONSTANTS
  Holidays = {}
  Marks = {200, 188, 171, 168, 210}
  Instants = {4185, 4230}
  Yellow = 5
  Orange = 10
  Red = 15
  Band = 1
  RedConfirm = 2
  WarnAt = 205
  WarnRearm = 4
  MaxRestarts = 1
  None = None

INVARIANT TierWithinBand
INVARIANT HaltMatchesTier
INVARIANT SavedHaltHolds
PROPERTY StakeFitsDrawdown
PROPERTY RedHalts
PROPERTY RecoveryResumes
