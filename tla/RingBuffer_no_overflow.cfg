SPECIFICATION Spec
CONSTANTS
  MaxSize = 3
  CounterMode = 1
  AllowOverflow = FALSE
  SteadyClock = FALSE
  Ids = {0, 1, 2, 3}
  MaxTime = 3
PROPERTIES
  StoredUntilDeleted
