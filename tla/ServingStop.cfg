SPECIFICATION ServingSpec
CONSTANTS
  d1 = d1  d2 = d2  s1 = s1  s2 = s2
  Nobody = Nobody
  Hosted = {d1}
  Creates = {c1}
  Starts = {s1}
  MaxAttempts = 2
  Suspends = TRUE
  HasSequence = TRUE
  CallsTakeTurns = TRUE
INVARIANT StopIsHonoured
