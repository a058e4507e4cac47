SPECIFICATION SpecAtomic
CONSTANTS
  MaxSize = 2
  CounterMode = 1
  AllowOverflow = TRUE
  Threads = {"p1", "p2", "c1", "c2"}
  Calls <- ConsumerCalls
  NestedOps = {}
  UserRefs = {"r1", "r2"}
  FileNames = {}
  GeneratedRef <- GeneratedNames
  FilesMayFail = FALSE
  ResetInformationSize = 1
  DeletionInformationSize = 1
  Nobody = Nobody
  NoRef = NoRef
  Dangling = Dangling
PROPERTIES
  IterationStable
  LockedStays
  DeletesWhatItRead
  CallsAreAtomic
