\* Two vectors of up to four slots.
SPECIFICATION VecSpec
CONSTANTS
  Vectors = {v, w}
  Elements = {a, b}
  Junk = Junk
  Sizes <- MCSizes
  MaxCapacity = 4
INVARIANTS VecTypeOK Fits
PROPERTIES SelfExtendNeverReturns KeepsSequences
\* The program ends when it is out of memory.
CHECK_DEADLOCK FALSE
