CONSTANTS
  None = None
  Fields = {"arms"}
  Default <- MCDefault
  ArrivalWindow = 1
  HeldLimit = 2
  Stores = {1, 2}
  Codes = {a, b}
  Chains = {1}
  Rosters <- Users
  Policies <- OnePolicy
  NewBodies <- Nobody
  Bodies <- AssignAndClaim
  Batches <- BothStores
  Requests = {p1, p2}
  AlarmHandler = alarm
  MaxPushes = 1
  RearmThreshold = 0
  MaxRetries = 1
  MaxRevision = 3
  MaxFaults = 1
  MaxCrashes = 0
  MaxTime = 0
SPECIFICATION FairSpec
INVARIANTS
  ProjectionsAreRecomposed
  LedgerIsHonest
  LaggingIsLeft
PROPERTIES
  KnownStoresConverge
  CodesStayPut
CHECK_DEADLOCK FALSE
