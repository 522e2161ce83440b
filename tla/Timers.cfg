CONSTANTS
  None = None
  OrderLifetime = 5
  OrderItemLimit = 2
  Terminals = {}
  BoilTime <- Boil24
  DefaultFirmness = "soft"
  MaxBoilTime = 4
  Capacity = 2
  Epsilon = 1
  SlotSets <- Slots12
  Durations = {4}
  Keys = {}
  Tables = {}
  Posts = {}
  Batches = {}
  Projections <- Reconfigured
  DefaultCfg <- Plain
  CrashPoints = {"idle"}
  AlarmSkew = 1
  AlarmMaxRetries = 2
  AlarmRearmThreshold = 1
  AlarmBackoff = 1
  AlarmRearmDelay = 2
  MaxTime = 5
  LastStart = 1
  MaxFaults = 1
  MaxStarts = 2
SPECIFICATION Spec
INVARIANTS
  TypeOK
  MemoryIsDurable
  OneTimerPerSlot
  AlarmArmed
  ViewMatches
PROPERTIES
  DrainsDueTimers
  BoilsInWindow
