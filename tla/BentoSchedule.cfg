CONSTANTS
  Plans = {p1, p2}
  Requests = {r1, r2}
  MaxDay = 2
  Credits = 2
  Capacity = 2
  DailyPacks = 3
  LeadDays = 1
  DurationDays = 2
  ClosedDays = {}
  MaxHandOuts = 2
  MaxCalls = 4
  Surprises = {"none", "overlap", "admin", "closing", "settings"}
  NoPlan = NoPlan
  Sets = 2
  MaxMeals = 2
  MaxPool = 3
  MaxTaps = 1
  MaxSaves = 2
  MaxEvents = 1
  Parts = {"server", "calendar"}
CHECK_DEADLOCK FALSE
SYMMETRY Symmetry
SPECIFICATION MCSpec
INVARIANTS Types WithinLimits NothingPastTheEnd HandedOutOnce SavedIsDrafted
PROPERTIES DeliveredIsFinal PickupKept OfferedIsAccepted

