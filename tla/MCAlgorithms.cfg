CONSTANTS
  None = None
  MaxTimers = 3
  StartTimes = {0, 1, 4}
  Durations = {4, 6, 8}
  Configs <- MCConfigs
  MillisPerSecond = 2
  HelperArms = 2
  NoFit = NoFit
  Instants <- Instants6
  Spans <- Spans2
  Params <- SomeParams
  MaxLifts = 4
  Fields = {"arms", "menuItems"}
  Default <- MCDefault
  ArrivalWindow = 2
  HeldLimit = 2
  Ids = {1, 2, 3}
  Priorities = {1, 2}
  Targets = {"storeOverride", "policyFields"}
SPECIFICATION Spec
INVARIANTS
  GapIsLargest
  PlacementIsNearest
  FirstFitIsLeast
  UnambiguousIgnoresNames
  AcceptsWhatIsKept
CHECK_DEADLOCK FALSE
