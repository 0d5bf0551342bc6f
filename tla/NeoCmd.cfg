\* A command of up to four arguments while memory may run out at any time, and its array
\* under sort, max and min.
SPECIFICATION CmdSpec
CONSTANTS
  s1 = s1
  s2 = s2
  s3 = s3
  s4 = s4
  Items = {s1, s2, s3, s4}
  Junk = Junk
  NoNode = NoNode
  Ranks <- MCRanks
  NodeSize = 2
  MaxIndex = 3
  AllocFails = TRUE
  Texts = {x, y}
  Empty = Empty
  ArgLists <- MCArgLists
  MinArgs = 1
INVARIANTS CmdTypeOK TableCovers NoLeak RenderFaithful SoundIsDefined OrderExact
\* An undefined command is followed no further.
CHECK_DEADLOCK FALSE
