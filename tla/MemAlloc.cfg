\* Four users of a heap of 32 bytes, with either allocator.
SPECIFICATION MemSpec
CONSTANTS
  Owner = {o1, o2, o3, o4}
  NoBlock = NoBlock
  Callers <- MCCallers
  HeapCapacity = 32
  MaxAlignment = 4
  DefaultAlignment = 2
  Alignments <- MCAlignments
  LastAddress = 40
  Junk = Junk
  Header = Header
  SplitThreshold = 2
  Bins <- MCBins
  FreeCapacity = 5
  AllocCapacity = 3
  SplitCutoff = 2
SYMMETRY OwnerSymmetry
INVARIANTS BytesKept ChunksTile BlocksApart FitFound
PROPERTIES MemoryAddsUp
\* Every call may be refused for ever.
CHECK_DEADLOCK FALSE
