SPECIFICATION FairSpec
CONSTANTS
  None = None
  Contents = {p1, p2}
  Calls = {c1, c2}
  MaxEdits = 2
  Cap = 4
  Faults = {"provider", "crash", "timeout"}
INVARIANTS UnflaggedIsCurrent 
PROPERTIES PaysLikeOnePayer FailureKeepsTheAnswer EveryRequestEnds OutageHeals
