CONSTANTS
  Attempts = {a1, a2}
  Requests = {r1, r2}
  PlanOf <- OnePlan
  RedemptionCap = 1
  OverlappingFailures = FALSE
  CaptureAfterFailure = FALSE
  MaxMishaps = 2
  NoAttempt = NoAttempt
CHECK_DEADLOCK FALSE
SPECIFICATION MCSpec
SYMMETRY Symmetry
INVARIANTS TypeOK SingleFinalizer PlanMatchesPayment SlotsBacked ConfirmedOnlyIfPaid
PROPERTIES FinalStays SlotsImplemented
