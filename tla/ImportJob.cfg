SPECIFICATION FairSpec
CONSTANTS
  None = None
  q1 = q1
  q2 = q2
  q3 = q3
  Requests <- MCRequests
  Casts <- MCCasts
  Mappings = {m1, m2}
  Blocked = {m2}
  k1 = k1
  k2 = k2
  k3 = k3
  Runs <- MCRuns
  Stale = 2
CHECK_DEADLOCK FALSE
INVARIANTS ClaimIsExclusive AtMostOneRun
PROPERTIES TerminalIsFinal RunsOnlyValidatedRows ProcessingEnds
