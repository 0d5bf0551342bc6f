------------------------------- MODULE MemAlloc -------------------------------
(***************************************************************************)
(* mem_alloc.h: one of the two allocators, chosen when the caller's program   *)
(* is built.                                                                *)
(***************************************************************************)
EXTENDS InlineAllocator, SegmentedAllocator

memVars == <<chunk, free, alloc, held, byte, caller>>

MemInit == \/ /\ InlineInit /\ caller.build = "inline"
              /\ free = <<>> /\ alloc = <<>>
           \/ /\ SegInit /\ caller.build = "segmented"
              /\ chunk = <<>>

MemNext == \/ caller.build = "inline" /\ InlineNext /\ UNCHANGED <<free, alloc>>
           \/ caller.build = "segmented" /\ SegNext /\ UNCHANGED chunk

MemSpec == MemInit /\ [][MemNext]_memVars

-----------------------------------------------------------------------------
\* Whatever its owner and others allocate, resize and free, a block holds the bytes its
\* owner stored in it; in the segmented allocator if the heap is used regularly.
BytesKept == caller.build = "inline" \/ Regular(caller) => Kept

\* The chunks of the inline allocator tile its heap, each used one under one block, also
\* after a heap_realloc that absorbed a chunk and then moved or failed.
ChunksTile == caller.build = "inline" => Tiled

\* What the tables of the segmented allocator call free is nobody's, and no two of their
\* chunks overlap, whatever defragment_heap has merged; if the heap is used regularly.
BlocksApart == caller.build = "segmented" /\ Regular(caller) => Apart

\* With blocks of any sizes, as long as no padding is split off or as large as its block:
\* the tables lose track of memory only when one of them is full.
MemoryAddsUp ==
  [][caller.build = "segmented" /\ Unsplit(caller) => AddsUp]_memVars

\* With blocks of any sizes as above, or of one size: the binary search by size, in a table
\* sorted by address, misses a chunk only when a smaller one lies behind it.
FitFound ==
  caller.build = "segmented" /\ (Unsplit(caller) \/ Regular(caller)) => FindsFit
=============================================================================
