\* What becomes of a command after an append has failed (neobuild.h:144).
SPECIFICATION CmdSpec
CONSTANTS
  s1 = s1
  s2 = s2
  s3 = s3
  s4 = s4
  Items = {s1, s2, s3, s4}
  Junk = Junk
  NoNode = NoNode
  Ranks <- MCRanks
  NodeSize = 2
  MaxIndex = 3
  AllocFails = FALSE
  Texts = {x, y}
  Empty = Empty
  ArgLists <- MCArgLists
  MinArgs = 1
INVARIANTS AppendedCanBeDeleted
\* An undefined command is followed no further.
CHECK_DEADLOCK FALSE
