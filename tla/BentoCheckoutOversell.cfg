CONSTANTS
  Attempts = {a1, a2, a3}
  Requests = {r1, r2}
  PlanOf <- OnePlan
  RedemptionCap = 1
  OverlappingFailures = TRUE
  CaptureAfterFailure = FALSE
  MaxMishaps = 0
  NoAttempt = NoAttempt
CHECK_DEADLOCK FALSE
SPECIFICATION Spec
INVARIANTS NeverOversold
SYMMETRY Symmetry
