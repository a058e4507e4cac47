SPECIFICATION FairSpec
CONSTANTS
  MaxSize = 2
  CounterMode = 0
  AllowOverflow = TRUE
  Threads = {"p1", "c1"}
  Calls <- LockOrderCalls
  NestedOps = {"AcknowledgeReset", "GetSize"}
  UserRefs = {"r1", "r2"}
  FileNames = {}
  GeneratedRef <- GeneratedNames
  FilesMayFail = FALSE
  ResetInformationSize = 1
  DeletionInformationSize = 1
  Nobody = Nobody
  NoRef = NoRef
  Dangling = Dangling
PROPERTIES
  CallsReturn
CHECK_DEADLOCK FALSE
