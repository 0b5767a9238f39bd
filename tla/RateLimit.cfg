\* Two addresses and three accounts over a map of three, so that a login finds
\* the map full of live buckets, spent or not.
CONSTANTS
  Addresses = {i1, i2}
  Accounts = {e1, e2, e3}
  PerIp = 2
  PerEmail = 2
  WindowMs = 2
  MAX_TRACKED_KEYS = 3
  MaxTime = 3
  MaxLogins = 5
SPECIFICATION Spec
INVARIANTS MapIsBounded RefusedStaysRefused RefusedForTheirOwn
SYMMETRY Alike
CHECK_DEADLOCK FALSE
