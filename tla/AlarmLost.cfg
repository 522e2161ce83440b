CONSTANTS
  None = None
  OrderLifetime = 5
  OrderItemLimit = 2
  Terminals = {}
  BoilTime <- Boil24
  DefaultFirmness = "soft"
  MaxBoilTime = 4
  Capacity = 2
  Epsilon = 1
  SlotSets <- Slots1
  Durations = {4}
  Keys = {}
  Tables = {}
  Posts = {}
  Batches = {}
  Projections <- Provisioned
  DefaultCfg <- Plain
  CrashPoints = {"effects"}
  AlarmSkew = 1
  AlarmMaxRetries = 2
  AlarmRearmThreshold = 1
  AlarmBackoff = 1
  AlarmRearmDelay = 2
  MaxTime = 5
  LastStart = 1
  MaxFaults = 0
  MaxStarts = 2
SPECIFICATION Spec
INVARIANTS
  AlarmRecovered
