SPECIFICATION Spec
CONSTANTS
  MaxSize = 3
  CounterMode = 0
  AllowOverflow = TRUE
  SteadyClock = TRUE
  Ids = {0, 1, 2, 3}
  MaxTime = 3
INVARIANTS
  TypeOK
  WithinCapacity
  IdsIncrease
PROPERTIES
  OldestUnlockedFirst
  FailedPushKeeps
  DeleteIsExact
