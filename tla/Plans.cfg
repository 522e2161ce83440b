CONSTANTS
  None = None
  OwnPlan <- BaselineSchedule
  OrderLifetime = 3
  OrderItemLimit = 10
  Terminals = {}
  BoilTime <- BoilFar
  DefaultFirmness = "soft"
  MaxBoilTime = 9
  Capacity = 3
  Epsilon = 0
  PrepLead = 1
  MillisPerSecond = 1
  HelperArms = 1
  NoFit = NoFit
  SlotSpan <- Span2
  Infinite = 1000
  PlanTargetLimit = 3
  MaxRetime = 3
  Settings <- PlansAhead
  Orders <- LongThenShort
  Cancellable = {1}
  Assignments <- Moves
  AdHoc <- AdHocBoth
  DeliveryLead = 1
  SolverSpread <- SpreadAhead
  MaxTime <- TimeAhead
  MaxEvents <- EventsAhead
  MaxRequests = 1
  MaxPlans = 1
SPECIFICATION Spec
CHECK_DEADLOCK FALSE
INVARIANTS
  TimeTakesNothing
  EachBowlOnce
  OwnPlanIsLegal
  AskedAboutThis
