\* Strings of up to six characters.
SPECIFICATION StrixSpec
CONSTANTS
  WordSets <- MCWordSets
  White <- MCWhite
  NotAscii <- MCNotAscii
  NoStr = NoStr
  OutOfBounds = OutOfBounds
  MaxLen = 6
  MaxSubstrix = 2
  MaxPositions = 4
  IntMax = 77
  UintMax = 87
INVARIANTS SearchExact CutsExact NumbersExact EditsExact ConfigExact
\* The strix may have been freed.
CHECK_DEADLOCK FALSE
