CONSTANTS
  Orders = {o1}
  Requests = {r1, r2}
  StartPoints = 2
  PointsCost = 2
  PointsEarned = 1
  MaxMishaps = 0
  Surprises = {"instant"}
  NoOrder = NoOrder
CHECK_DEADLOCK FALSE
SPECIFICATION Spec
INVARIANTS UsedOnSuccess
