SPECIFICATION FairSpec
CONSTANTS
  MaxSize = 2
  CounterMode = 1
  AllowOverflow = TRUE
  Threads = {"p1", "c1", "c2"}
  Calls <- MixedCalls
  NestedOps = {"GetReference", "AcknowledgeOverflow"}
  UserRefs = {"r1", "r2"}
  FileNames = {}
  GeneratedRef <- GeneratedNames
  FilesMayFail = FALSE
  ResetInformationSize = 1
  DeletionInformationSize = 1
  Nobody = Nobody
  NoRef = NoRef
  Dangling = Dangling
INVARIANTS
  NoOrphanRefs
  NothingLostSilently
  ResetNoticed
PROPERTIES
  CallsReturn
