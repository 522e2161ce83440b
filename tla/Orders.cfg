CONSTANTS
  None = None
  OrderLifetime = 1
  OrderItemLimit = 4
  Terminals = {"x"}
  BoilTime <- Boil1
  DefaultFirmness = "soft"
  MaxBoilTime = 1
  Capacity = 1
  Epsilon = 0
  SlotSets <- Slots1
  Durations = {1}
  Keys <- FirstLines
  Tables = {"c"}
  Posts <- FewPosts
  Batches <- RecordBatches
  Projections <- Provisioned
  DefaultCfg <- Plain
  CrashPoints = {"idle", "effects"}
  AlarmSkew = 0
  AlarmMaxRetries = 2
  AlarmRearmThreshold = 1
  AlarmBackoff = 1
  AlarmRearmDelay = 2
  MaxTime = 1
  LastStart = 1
  MaxFaults = 1
  MaxStarts = 1
SPECIFICATION Spec
PROPERTIES
  ImplementsAtomicStore
  KitchenFactsKept
INVARIANTS
  AssignedTableShared
  NewestRecordShows
