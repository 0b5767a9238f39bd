SPECIFICATION Saving
CONSTANTS
  NoCount = NoCount
  Descriptions <- MCDescriptions
  Hours = {0, 13}
  Mins = {30}
  Counts = {2}
  MaxRows = 2
  MaxItems = 2
INVARIANT NoMinuteIsLost
PROPERTY OneFieldEditInvalidates
