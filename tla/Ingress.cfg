CONSTANTS
  None = None
  Fields = {"arms"}
  Default <- MCDefault
  ArrivalWindow = 0
  HeldLimit = 2
  Stores = {1}
  Codes = {a}
  Chains = {1}
  Rosters <- Nobody
  Policies <- NoPolicy
  NewBodies <- CodedBodies
  Bodies <- Nobody
  Batches <- Nobody
  Requests = {p1}
  AlarmHandler = alarm
  MaxPushes = 2
  RearmThreshold = 1
  MaxRetries = 2
  MaxRevision = 1
  MaxFaults = 1
  MaxCrashes = 1
  MaxTime = 1
  Workers = {w1, w2}
  MaxRecords = 3
  BatchSize = 2
  Arrival <- OneByOne
SPECIFICATION SpecIngress
INVARIANTS
  AcknowledgedIsKept
  NothingOvertakesHeld
SYMMETRY Isolates
CHECK_DEADLOCK FALSE
