SPECIFICATION Spec
CONSTANTS
  MaxSize = 3
  CounterMode = 1
  AllowOverflow = TRUE
  SteadyClock = TRUE
  Ids = {0, 1, 2, 3}
  MaxTime = 3
INVARIANTS
  UniqueIds
  TimeOrdered
PROPERTIES
  LockedSurvives
  RemovalsNotified
  ResetReportCovers
