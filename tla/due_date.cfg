SPECIFICATION Spec
CONSTANTS
  p1 = p1
  p2 = p2
  c1 = c1
  Null = Null
  Cases <- AllCases
  Minute = 4
  Day = 16
  Week = 2
  Offset = 0
  Lookahead = 4
  MaxIterations = 7
  NewHours <- Calendars
  MaxEdits = 1
CHECK_DEADLOCK FALSE
INVARIANTS
  DueDatesAreRight
  CountedIsOpenTime
PROPERTIES
  AttachmentEnds
