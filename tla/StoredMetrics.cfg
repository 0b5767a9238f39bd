\* Day 2 is a day off; a window of one day before and one after today leaves a
\* date behind while the model runs; 435 minutes are less than a day, 500 more.
SPECIFICATION Spec
CONSTANTS
  Instructors = {i1, i2}
  LastDate = 3
  DaysPerWeek = 2
  WorkingDates = {0, 1, 3}
  Capacity = 480
  Minutes = {435, 500}
  WindowDays = 1
  ZoneShift <- AnyZone
  Rollups = {r1, r2}
  Beginnings <- OneAway
  MaxEdits = 1
  MaxRollups = 3
  None = None
INVARIANTS DaysAddUp UniversityIsItsInstructors WeekIsItsDays
SYMMETRY Same
CHECK_DEADLOCK FALSE
