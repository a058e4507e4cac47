SPECIFICATION Spec
CONSTANTS
  MaxSize = 2
  CounterMode = 0
  AllowOverflow = TRUE
  Threads = {"p1", "p2"}
  Calls <- ResetRaceCalls
  NestedOps = {}
  UserRefs = {"r1", "r2"}
  FileNames = {}
  GeneratedRef <- GeneratedNames
  FilesMayFail = FALSE
  ResetInformationSize = 1
  DeletionInformationSize = 1
  Nobody = Nobody
  NoRef = NoRef
  Dangling = Dangling
INVARIANTS
  RefsResolve
