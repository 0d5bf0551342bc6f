\* The documentation of strix_find against what the search returns.
SPECIFICATION StrixSpec
CONSTANTS
  WordSets <- MCWordSets
  White <- MCWhite
  NotAscii <- MCNotAscii
  NoStr = NoStr
  OutOfBounds = OutOfBounds
  MaxLen = 4
  MaxSubstrix = 2
  MaxPositions = 4
  IntMax = 77
  UintMax = 87
INVARIANTS FindsFirst
CHECK_DEADLOCK FALSE
