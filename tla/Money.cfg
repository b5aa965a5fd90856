CONSTANTS
  Orders = {o1, o2}
  Requests = {r1, r2}
  StartPoints = 2
  PointsCost = 2
  PointsEarned = 1
  MaxMishaps = 1
  Surprises = {"lapse", "instant", "recapture"}
  NoOrder = NoOrder
  Handlers = {r1, r2}
  TopUps = {t1}
  Approvals = {p1}
  References = {ref1}
  Amounts <- CreditAndDebit
  MaxEntries = 3
  MaxFaults = 1
  None = None
CHECK_DEADLOCK FALSE
SPECIFICATION MCSpec
SYMMETRY Symmetry
INVARIANTS TypeOK OneUse RewardedOnce SettledIsDone PointsSpentOnce
INVARIANTS BookTypes Chained CorrectedOnce FinishedIsBooked
PROPERTIES OrderNeverReopens
