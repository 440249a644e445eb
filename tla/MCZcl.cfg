SPECIFICATION Spec
CONSTANTS
  REPORTS = 2
  Sensed = {0}
  Values = {0, 1}
  SIGN = 4
  SECOND = 2
  AGE_MAX = 2
  NEVER = 4
  MEASURE = 2
  LATE = 2
  MaxTime = 7
  MaxFrames = 2
  Defaults <- MCDefaults
  Requests <- MCRequests
CHECK_DEADLOCK FALSE
INVARIANTS
  ReportedIsRecorded
  AgeIsTrue
  TimersAreTrue
  PagesAreWhole
PROPERTY WholeOrNothing
