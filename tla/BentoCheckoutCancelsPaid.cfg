CONSTANTS
  Attempts = {a1, a2}
  Requests = {r1, r2}
  PlanOf <- OnePlan
  RedemptionCap = 1
  OverlappingFailures = FALSE
  CaptureAfterFailure = FALSE
  MaxMishaps = 0
  NoAttempt = NoAttempt
CHECK_DEADLOCK FALSE
SPECIFICATION Spec
PROPERTIES NeverCancelsPaid
