SPECIFICATION SpecCopy
\* The parse ends.
CHECK_DEADLOCK FALSE
CONSTANTS
  Keys <- FewKeys
  Matches <- FewMatches
  Tokens <- FewTokens
  WordTexts <- Words
  TimeTexts <- Times
  Int32Max = 1
  Int64Max = 3
  FloatMax = 1
  MaxObjects = 3
  MaxScalars = 3
INVARIANTS
  AcceptedIsFaithful
  AcceptedIsComplete
  CopyIsOriginal
