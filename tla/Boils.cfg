CONSTANTS
  None = None
  OrderLifetime = 5
  OrderItemLimit = 1
  Terminals = {}
  BoilTime <- Boil1
  DefaultFirmness = "soft"
  MaxBoilTime = 1
  Capacity = 2
  Epsilon = 0
  SlotSets <- Slots2
  Durations = {}
  Keys <- FirstLine
  Tables = {}
  Posts <- CrowdedPosts
  Batches = {}
  Projections <- Provisioned
  DefaultCfg <- Plain
  CrashPoints = {"idle"}
  AlarmSkew = 0
  AlarmMaxRetries = 1
  AlarmRearmThreshold = 1
  AlarmBackoff = 1
  AlarmRearmDelay = 1
  MaxTime = 3
  LastStart = 1
  MaxFaults = 2
  MaxStarts = 2
SPECIFICATION FairSpec
PROPERTIES
  EventuallyBoils
INVARIANTS
  OneTimerPerItem
