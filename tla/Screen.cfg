SPECIFICATION Spec
CONSTANTS
  None = None
  OrderLifetime = 100
  OrderItemLimit = 10
  PrepLead = 1
  UnitCount = 2
  SlotsPerUnit = 1
  GuardThreshold = 2
  ArmedWindow = 2
  ArmedBounce = 1
  PreAlertThreshold = 1
  Arms = 1
  MaxTimers = 2
  MaxNow = 2
  MaxUpsets = 1
  Beat = 1
  Slots <- MCSlots
  Boil <- MCBoil
  Plans <- MCPlans
  StoreItems <- MCItems
CHECK_DEADLOCK FALSE
INVARIANTS
  CancelMeant
  PreAlertOnce
PROPERTY AckedStays
