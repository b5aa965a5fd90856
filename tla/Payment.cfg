CONSTANTS
  Attempts = {a1}
  Requests = {r1, r2}
  PlanOf <- OnePlan
  RedemptionCap = 1
  OverlappingFailures = FALSE
  CaptureAfterFailure = FALSE
  MaxMishaps = 2
  NoAttempt = NoAttempt
  Orders = {o1, o2}
  MaxBaskets = 2
  MaxLogouts = 2
  Wonders = {"none", "slow", "outlives", "instant", "lost", "again", "switch", "links", "late"}
  NoOrder = NoOrder
CHECK_DEADLOCK FALSE
SPECIFICATION MCSpec
INVARIANTS AppTypes PaidOnce ToldOnce
PROPERTIES PaidPlanSettles PaidIsTold
