SPECIFICATION Spec
CONSTANTS
  None = None
  Contents = {p1, p2}
  Calls = {c1, c2}
  MaxEdits = 1
  Cap = 4
  Faults = {"provider"}
PROPERTY RetriesStop
