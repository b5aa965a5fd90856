CONSTANTS
  Phones = {p1}
  Birthdays = {p1}
  Calls = {w1, w2}
  Challenges = {k1}
  MaxTries = 2
  MaxMishaps = 0
  NoPhone = NoPhone
  NoChallenge = NoChallenge
CHECK_DEADLOCK FALSE
SPECIFICATION SignUpSpec
INVARIANTS BirthdayGiftOnce
