SPECIFICATION Spec
CONSTANTS
  MaxSize = 2
  CounterMode = 0
  AllowOverflow = TRUE
  Threads = {"p1", "p2", "c1"}
  Calls <- RefCalls
  NestedOps = {"GetReference"}
  UserRefs = {"r1", "r2"}
  FileNames = {"f1"}
  GeneratedRef <- GeneratedNames
  FilesMayFail = TRUE
  ResetInformationSize = 1
  DeletionInformationSize = 1
  Nobody = Nobody
  NoRef = NoRef
  Dangling = Dangling
INVARIANTS
  TypeOK
  RefsResolve
  NoOrphanRefs
  NoSharedRefs
PROPERTIES
  ReferenceLastsInLoop
  ContentLeavesWithData
