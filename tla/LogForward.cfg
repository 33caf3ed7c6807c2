SPECIFICATION LogSpec
CONSTANTS
  Radix = 3
  LenDigits = 2
  NL = 2
  BufSize = 40
  Levels <- MCLevels
  Callsites <- MCCallsites
  Values <- MCValues
  None = None
  MaxDepth = 1
  MaxFields = 4
  MaxUnderWay = 1
INVARIANT ShowsWholeFields
PROPERTY KeepsServing
