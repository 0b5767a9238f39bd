SPECIFICATION FairSpec
CONSTANTS
  None = None
  Instances = {i1, i2}
  Revokers = {q1}
  RunIds = {j1, j2, j3}
  LeaseTimeout = 2
  MaxFaults = 2
INVARIANT AtMostOneRunning
PROPERTIES LiveLeaseIsRespected LeaseEnds Converges
