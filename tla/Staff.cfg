\* Two managers and two instructors of one university and a manager of another,
\* in every state of good order, and two requests that overlap.
CONSTANTS
  m1 = m1
  m2 = m2
  m3 = m3
  i1 = i1
  i2 = i2
  here = here
  there = there
  None = None
  Managers = {m1, m2, m3}
  Instructors = {i1, i2}
  Universities = {here, there}
  Home <- MCHome
  Calls = {c1, c2}
SPECIFICATION Spec
INVARIANTS LeadersAreFromHere OneManagerAnswers ListsAgreeWithRecords
SYMMETRY Alike
PROPERTY HandoverIsComplete
CHECK_DEADLOCK FALSE
