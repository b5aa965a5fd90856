CONSTANTS
  Attempts = {a1}
  Requests = {r1, r2}
  PlanOf <- OnePlan
  RedemptionCap = 1
  OverlappingFailures = FALSE
  CaptureAfterFailure = FALSE
  MaxMishaps = 1
  NoAttempt = NoAttempt
CHECK_DEADLOCK FALSE
SPECIFICATION FairSpec
PROPERTIES PaidPlanHeals
