CONSTANTS
  Campaigns = {c1}
  Members = {m1, m2}
  Blanks = {{}, {m2}}
  Instances = {i1, i2}
  Requests = {a1, a2}
  Batch = 1
  MaxMails = 2
  MaxCalls = 2
  Receipts = {s1}
  Notes = {n1}
  Handlers = {h1}
  Lookback = 2
  End = 7
  Phones = {p1, p2}
  Birthdays = {p1}
  Calls = {w1, w2}
  Challenges = {k1}
  MaxTries = 2
  MaxMishaps = 1
  Ids = {b1}
  Admins = {d1, d2}
  MaxProducts = 2
  MaxChanges = 2
  NoId = NoId
  NoCampaign = NoCampaign
  NoMember = NoMember
  NoRecord = NoRecord
  NoPhone = NoPhone
  NoChallenge = NoChallenge
CHECK_DEADLOCK FALSE
SPECIFICATION Spec
INVARIANTS TypeOK OneMailOneGift FinishedIsComplete PointsExactlyOnce NothingMissed PickupCodeSettles EditsSurviveSync NothingDangles
PROPERTIES DueCampaignEnds
