SPECIFICATION LiveWatchSpec
CONSTANTS
  None = None
  SilentLossMisses = 2
  MaxLosses = 3
  MaxSockets = 7
CHECK_DEADLOCK FALSE
INVARIANTS
  OneSocket
  UpIsEvidence
PROPERTY EventuallyUp
