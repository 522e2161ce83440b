SPECIFICATION ClientSpec
CONSTANTS
  None = None
  Slots = {s1, s2}
  BoilTimes = {1}
  Orders = {1}
  Answers = {"other"}
  MaxTime = 2
  MaxTimers = 2
  MaxDowns = 1
  MaxReloads = 1
  MaxInFlight = 1
CHECK_DEADLOCK FALSE
SYMMETRY SlotSymmetry
INVARIANTS
  ShowsTheStore
  OnlyRunningContested
  RingsOnce
  ResyncedIsHeard
PROPERTIES
  LocalBoilStays
