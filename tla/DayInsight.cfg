SPECIFICATION FairSpec
CONSTANTS
  NoCount = NoCount
  one = one
  two = two
  None = None
  r1 = r1
  r2 = r2
  x1 = x1
  s1 = s1
  m1 = m1
  w1 = w1
  Contents <- MCContents
  Digest <- MCDigest
  SentencesOf <- MCSentencesOf
  Refreshes = {r1, r2}
  Deletes = {x1}
  Selves = {s1}
  Managers = {m1}
  Rollups = {w1}
  Faults = {"provider", "crash", "timeout"}
  Casts <- MCCasts
CHECK_DEADLOCK FALSE
INVARIANTS SingleFlight ReadingMatchesHash ServedIsOfTheDayRead
PROPERTIES SelfViewsHeal PaysLikeOnePayer
