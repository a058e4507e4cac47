SPECIFICATION SpecCopy
\* The parse ends.
CHECK_DEADLOCK FALSE
CONSTANTS
  Keys <- AllKeys
  Matches <- AllMatches
  Tokens <- AllTokens
  WordTexts <- Words
  TimeTexts <- Times
  Int32Max = 1
  Int64Max = 3
  FloatMax = 1
  MaxObjects = 1
  MaxScalars = 4
INVARIANT
  AcceptedIsInFormat
