------------------------- MODULE SegmentedAllocator -------------------------
(***************************************************************************)
(* segmented_allocator.h: a heap and bins of slots of one size, each with a    *)
(* table of its free chunks and one of its allocated chunks, sorted by         *)
(* data_ptr.  Arena 0 is the heap, arena k the k-th bin.                        *)
(*                                                                         *)
(* alloc_type and mark are read by the garbage collector only, and are left out. *)
(***************************************************************************)
EXTENDS HeapBlocks, SequencesExt

CONSTANTS Bins,            \* the size of a slot and their number, from small to large
          FreeCapacity, AllocCapacity,     \* of the tables of the heap
          SplitCutoff

ASSUME BinsAssumption == /\ Bins \in Seq([size : Nat \ {0}, count : Nat])
                         /\ FreeCapacity \in Nat \ {0} /\ AllocCapacity \in Nat
                         /\ SplitCutoff \in Nat \ {0}

VARIABLES free, alloc      \* the tables of each arena

segVars == <<free, alloc, held, byte, caller>>

Arena == 0..Len(Bins)

\* Where the arenas lie: one after another, each aligned.
BinStart[k \in 1..Len(Bins)] ==
  AlignUp(IF k = 1 THEN HeapEnd ELSE BinStart[k - 1] + Bins[k - 1].size * Bins[k - 1].count,
          MaxAlignment)
BinEnd(k) == BinStart[k] + Bins[k].size * Bins[k].count

ASSUME MemoryAssumption == \A k \in 1..Len(Bins) : BinEnd(k) - 1 <= LastAddress

ArenaFor(size) ==
  LET fit == {k \in DOMAIN Bins : size <= Bins[k].size}
  IN  IF fit = {} THEN 0 ELSE CHOOSE k \in fit : \A j \in fit : k <= j
ArenaAt(ptr) ==
  IF \E k \in DOMAIN Bins : ptr \in BinStart[k]..(BinEnd(k) - 1)
  THEN CHOOSE k \in DOMAIN Bins : ptr \in BinStart[k]..(BinEnd(k) - 1) ELSE 0

Capacity(arena) == IF arena = 0 THEN [free |-> FreeCapacity, alloc |-> AllocCapacity]
                   ELSE [free |-> Bins[arena].count, alloc |-> Bins[arena].count]

Entry(chunk, data, prev, size, usable, align) ==
  [chunk |-> chunk, data |-> data, prev |-> prev, size |-> size, usable |-> usable, align |-> align]

FreeEntry(ptr, prev, size, align) == Entry(ptr, ptr, prev, size, size, align)

\* calculate_alignment
PointerAlignment(ptr) ==
  LET fits == {a \in Alignments \cup {1} : ptr % a = 0}
  IN  CHOOSE a \in fits : \A b \in fits : b <= a

\* (alignment - chunk_ptr) & (alignment - 1)
PaddingAt(ptr, align) == AlignUp(ptr, align) - ptr

-----------------------------------------------------------------------------
(* The tables                                                               *)

\* A binary search, with what it has found so far, 0 for nothing.  Each turn of its loop
\* makes what is left smaller.
Search(left, right, found) == [left |-> left, right |-> right, found |-> found]
Middle(s) == (s.left + s.right) \div 2

PtrTurn(s, table, ptr) ==
  LET mid == Middle(s)
  IN  IF s.left >= s.right THEN s
      ELSE IF table[mid + 1].data = ptr THEN Search(s.right, s.right, mid + 1)
      ELSE IF table[mid + 1].data < ptr THEN Search(mid + 1, s.right, 0)
      ELSE Search(s.left, mid, 0)

\* search_by_ptr; 0 when there is no entry for ptr.
SearchByPtr(table, ptr) ==
  LET after[n \in 0..Len(table)] ==
        IF n = 0 THEN Search(0, Len(table), 0) ELSE PtrTurn(after[n - 1], table, ptr)
  IN  after[Len(table)].found

Suffices(entry, size, align) == entry.size >= size + PaddingAt(entry.chunk, align)

SizeTurn(s, table, size, align) ==
  LET mid == Middle(s)
      better == s.found = 0 \/ table[mid + 1].size < table[s.found].size
  IN  IF s.left >= s.right THEN s
      ELSE IF Suffices(table[mid + 1], size, align)
           THEN Search(s.left, mid, IF better THEN mid + 1 ELSE s.found)
      ELSE Search(mid + 1, s.right, s.found)

\* Mutant: the last entry is not searched.
MutSearchBySize(table, size, align) ==
  LET after[n \in 0..Len(table)] ==
        IF n = 0 THEN Search(0, Len(table) - 1, 0) ELSE SizeTurn(after[n - 1], table, size, align)
  IN  after[Len(table)].found

\* search_by_size_in_free_array: a binary search by size in a table that is not sorted
\* by size; 0 when it meets no chunk that suffices.
SearchBySize(table, size, align) ==
  LET after[n \in 0..Len(table)] ==
        IF n = 0 THEN Search(0, Len(table), 0) ELSE SizeTurn(after[n - 1], table, size, align)
  IN  after[Len(table)].found

\* Mutant: the last place of a table is not used.
MutAdded(table, entry, capacity) ==
  IF Len(table) + 1 >= capacity THEN table
  ELSE InsertAt(table, Cardinality({i \in DOMAIN table : table[i].data <= entry.data}) + 1, entry)

\* find_insertion_position and add_into_array: after the entries that are not above.
\* A full table stays as it is.
Added(table, entry, capacity) ==
  IF Len(table) >= capacity THEN table
  ELSE InsertAt(table, Cardinality({i \in DOMAIN table : table[i].data <= entry.data}) + 1, entry)

\* One turn of a loop over i in defragment_heap.  current points to the slot i, whatever
\* the removal of j has put there; behind the last entry it still holds what it held.
Sweep(table, i, merged) == [table |-> table, i |-> i, merged |-> merged]

SweepTurn(s) ==
  LET t == s.table
      next == {j \in DOMAIN t \ {s.i} : t[j].chunk = t[s.i].chunk + t[s.i].size}
      j == CHOOSE k \in next : \A h \in next : k <= h
      grown == [t EXCEPT ![s.i].size = @ + t[j].size]
      joined == IF next = {} THEN t ELSE RemoveAt(grown, j)
      current == IF s.i \in DOMAIN joined THEN joined[s.i] ELSE grown[s.i]
      prev == SearchByPtr(joined, current.prev)
      above == [joined EXCEPT ![prev].size = @ + current.size]
  IN  IF s.i > Len(t) THEN Sweep(t, 1, FALSE)
      ELSE IF prev = 0 THEN Sweep(joined, s.i + 1, s.merged \/ next # {})
      ELSE Sweep(IF s.i \in DOMAIN above THEN RemoveAt(above, s.i) ELSE above, 1, FALSE)

\* Until a loop over the whole table merges nothing; each of the others takes an entry
\* away (bound on the turns).
Defragmented(table) ==
  LET after[n \in 0..((Len(table) + 1) * (Len(table) + 1))] ==
        IF n = 0 THEN Sweep(table, 1, FALSE)
        ELSE LET s == after[n - 1]
             IN  IF s.i > Len(s.table) /\ ~ s.merged THEN s ELSE SweepTurn(s)
  IN  after[(Len(table) + 1) * (Len(table) + 1)].table

-----------------------------------------------------------------------------
(* What the calls return, and the tables they leave                          *)

Tables(ptr, f, a) == [ptr |-> ptr, free |-> f, alloc |-> a]

\* The part in front of an aligned block, when it is worth a chunk of its own.  chunk
\* is the slot i, also when the new entry has moved the chosen one away from it.
LeadSplit(table, i, padding) ==
  LET c == table[i]
      t == Added(table, FreeEntry(c.chunk, c.prev, padding, PointerAlignment(c.chunk)), FreeCapacity)
  IN  IF padding < SplitCutoff THEN table
      ELSE [t EXCEPT ![i].chunk = @ + padding, ![i].size = @ - padding, ![i].prev = t[i].chunk]

\* Mutant: the chunk keeps its size although the rest was split off.
MutRestSplit(table, i, size) ==
  LET c == table[i]
      rest == FreeEntry(c.chunk + size, c.chunk, c.size - size, PointerAlignment(c.chunk + size))
  IN  IF c.size - size < SplitCutoff THEN table
      ELSE Added(table, rest, FreeCapacity)

\* The part behind a block of size bytes.  The padding that stays in the chunk is not
\* part of size.
RestSplit(table, i, size) ==
  LET c == table[i]
      rest == FreeEntry(c.chunk + size, c.chunk, c.size - size, PointerAlignment(c.chunk + size))
  IN  IF c.size - size < SplitCutoff THEN table
      ELSE [Added(table, rest, FreeCapacity) EXCEPT ![i].size = size]

AllocHeap(f, a, size, align) ==
  LET i == SearchBySize(f[0], size, align)
      padding == PaddingAt(f[0][i].chunk, align)
      data == f[0][i].chunk + padding
      t == RestSplit(LeadSplit(f[0], i, padding), i, size)
      block == Entry(t[i].chunk, data, t[i].prev, t[i].size, t[i].size - padding, align)
  IN  IF i = 0 THEN Tables(Null, f, a)
      ELSE Tables(data, [f EXCEPT ![0] = RemoveAt(t, i)],
                  [a EXCEPT ![0] = Added(a[0], block, AllocCapacity)])

AllocBin(f, a, k, align) ==
  LET c == f[k][1]
      padding == PaddingAt(c.chunk, align)
      block == Entry(c.chunk, c.chunk + padding, c.prev, Bins[k].size, Bins[k].size - padding, align)
  IN  IF \/ f[k] = <<>> \/ block.data + block.size > BinEnd(k)
         \/ Len(a[k]) >= Capacity(k).alloc
      THEN Tables(Null, f, a)
      ELSE Tables(block.data, [f EXCEPT ![k] = Tail(f[k])],
                  [a EXCEPT ![k] = Added(a[k], block, Capacity(k).alloc)])

HeapAlloc(f, a, size, asked) ==
  LET k == ArenaFor(size)
  IN  IF k = 0 THEN AllocHeap(f, a, size, Usable(asked)) ELSE AllocBin(f, a, k, Usable(asked))

\* A chunk the full table of the heap has no room for is lost; a slot of a bin is not.
HeapFree(f, a, ptr) ==
  LET k == ArenaAt(ptr)
      i == SearchByPtr(a[k], ptr)
      t == Added(f[k], a[k][i], Capacity(k).free)
  IN  IF i = 0 \/ (k # 0 /\ Len(f[k]) >= Capacity(k).free) THEN Tables(Null, f, a)
      ELSE Tables(Null, [f EXCEPT ![k] = IF k = 0 THEN Defragmented(t) ELSE t],
                  [a EXCEPT ![k] = RemoveAt(a[k], i)])

-----------------------------------------------------------------------------
\* init_bins: the slots of bin k.
Slots(k) == [n \in 1..Bins[k].count |->
               FreeEntry(BinStart[k] + (n - 1) * Bins[k].size,
                         IF n = 1 THEN Null ELSE BinStart[k] + (n - 2) * Bins[k].size,
                         Bins[k].size, MaxAlignment)]

SegInit ==
  /\ BlocksInit
  /\ free = [k \in Arena |->
               IF k = 0 THEN <<FreeEntry(HeapStart, Null, HeapCapacity, MaxAlignment)>> ELSE Slots(k)]
  /\ alloc = [k \in Arena |-> <<>>]
  /\ byte = [a \in HeapStart..LastAddress |-> Junk]

Becomes(result) == free' = result.free /\ alloc' = result.alloc

SegAlloc(o, size, align) ==
  LET result == HeapAlloc(free, alloc, size, align)
  IN  /\ held[o] = NoBlock /\ MayHoldMore /\ result.ptr # Null
      /\ Becomes(result)
      /\ byte' = Fill(byte, o, result.ptr, 0, size)
      /\ held' = [held EXCEPT ![o] = Block(result.ptr, size)]
      /\ UNCHANGED caller

SegFree(o) ==
  /\ held[o] # NoBlock
  /\ Becomes(HeapFree(free, alloc, held[o].ptr))
  /\ byte' = Forgotten(byte, o, NoBlock)
  /\ held' = [held EXCEPT ![o] = NoBlock]
  /\ UNCHANGED caller

ShrinksInPlace(o, i, size) ==
  LET c == alloc[0][i]
      rest == FreeEntry(c.chunk + size, c.chunk, c.size - size, PointerAlignment(c.chunk + size))
      splits == c.size - size >= SplitCutoff
  IN  /\ free' = IF splits THEN [free EXCEPT ![0] = Added(free[0], rest, FreeCapacity)] ELSE free
      /\ alloc' = IF splits THEN [alloc EXCEPT ![0][i].size = size] ELSE alloc
      /\ byte' = Resized(byte, o, held[o], held[o].ptr, size)
      /\ held' = [held EXCEPT ![o].len = size]

\* The size to copy is read from the slot i of alloc_array, where another entry may be
\* after the new one was added.
MovesBlock(o, i, size, align) ==
  LET new == HeapAlloc(free, alloc, size, align)
      usable == new.alloc[0][i].usable
      copied == Copied(byte, new.ptr, held[o].ptr,
                       IF size <= alloc[0][i].size THEN Least(size, usable) ELSE usable)
  IN  /\ new.ptr # Null
      /\ Becomes(HeapFree(new.free, new.alloc, held[o].ptr))
      /\ byte' = Resized(copied, o, held[o], new.ptr, size)
      /\ held' = [held EXCEPT ![o] = Block(new.ptr, size)]

\* heap_realloc of a block of the heap; one of a bin it does not find.
SegRealloc(o, size, asked) ==
  LET align == Usable(asked)
      i == SearchByPtr(alloc[0], held[o].ptr)
  IN  /\ held[o] # NoBlock /\ i # 0
      /\ \/ /\ size <= alloc[0][i].size /\ align = alloc[0][i].align
            /\ ShrinksInPlace(o, i, size)
         \/ /\ ~ (size <= alloc[0][i].size /\ align = alloc[0][i].align)
            /\ MovesBlock(o, i, size, align)
      /\ UNCHANGED caller

SegNext ==
  \E o \in Owner :
    \/ \E size \in caller.sizes, align \in caller.alignments : SegAlloc(o, size, align)
    \/ \E size \in caller.resizes, align \in caller.alignments : SegRealloc(o, size, align)
    \/ SegFree(o)

-----------------------------------------------------------------------------
\* Uses of the heap in which its blocks have one size.  strix is not limited to them;
\* README.md says what happens outside.
HeapSizes(c) == {s \in c.sizes \cup c.resizes : ArenaFor(s) = 0}

\* All blocks have the alignment a, and no padding arises.
Unpadded(c, a) == \A s \in HeapSizes(c), b \in c.alignments : Usable(b) = a /\ s % a = 0
Uniform(c) == \E a \in Alignments : Unpadded(c, a)

\* A padding arises, but none below the cutoff, and none as large as a block, which would be
\* handed out itself; the tables have room for every chunk; and no block is resized, because
\* usable_size takes off also a padding that was split off.
Padded(c) ==
  /\ \A s \in HeapSizes(c), b \in c.alignments :
       Usable(b) % SplitCutoff = 0 /\ s % SplitCutoff = 0 /\ Usable(b) <= s
  /\ c.blocks + 2 <= FreeCapacity /\ c.blocks <= AllocCapacity
  /\ c.resizes = {}

Regular(c) ==
  /\ \A s, n \in HeapSizes(c) : s = n
  /\ c.resizes \subseteq HeapSizes(c)
  /\ \A k \in DOMAIN Bins, a \in c.alignments :
       (\E s \in c.sizes : ArenaFor(s) = k) => Bins[k].size % Usable(a) = 0
  /\ Uniform(c) \/ Padded(c)

\* A use of the heap with blocks of any sizes, in which no padding is split off, and none is
\* as large as its block, also after a block has shrunk.
Unsplit(c) ==
  \A a \in c.alignments :
    /\ Usable(a) <= SplitCutoff
    /\ \A s \in HeapSizes(c) \cup c.resizes : Usable(a) <= s

Area(first, size) == first..(first + size - 1)
HeldArea(o) == Area(held[o].ptr, held[o].len)

\* No memory is handed out twice: the chunks of both tables of an arena lie apart from
\* one another, and no chunk that is free, or in use by another, meets a block.
Apart ==
  /\ \A k \in Arena :
       /\ \A i, j \in DOMAIN free[k] : i < j => free[k][i].chunk + free[k][i].size <= free[k][j].chunk
       /\ \A e \in Range(free[k]), d \in Range(alloc[k]) :
            Area(e.chunk, e.size) \cap Area(d.chunk, d.size) = {}
       /\ \A i, j \in DOMAIN alloc[k] : i < j => alloc[k][i].chunk + alloc[k][i].size <= alloc[k][j].chunk
  /\ \A o \in Holders, k \in Arena : \A e \in Range(free[k]) : HeldArea(o) \cap Area(e.chunk, e.size) = {}
  /\ \A o, q \in Holders : o # q => HeldArea(o) \cap HeldArea(q) = {}

\* The bytes of the heap that a table knows of.
Known(table) ==
  LET sum[n \in 0..Len(table)] == IF n = 0 THEN 0 ELSE sum[n - 1] + table[n].size
  IN  sum[Len(table)]
KnownOf(k) == Known(free[k]) + Known(alloc[k])

\* A call loses track of memory only when a table of the heap is full.
AddsUp == \A k \in Arena : KnownOf(k)' # KnownOf(k) =>
            k = 0 /\ (Len(free[0]) = FreeCapacity \/ Len(alloc[0]) = AllocCapacity)

\* No chunk of t that is too small lies behind one that is large enough.
SmallerFirst(t, size, align) ==
  \A i, j \in DOMAIN t : i < j /\ Suffices(t[i], size, align) => Suffices(t[j], size, align)
BySize(t) == \A i, j \in DOMAIN t : i < j => t[i].size <= t[j].size

\* Whatever the search by size finds is large enough.  It misses what fits only when a
\* chunk too small lies behind one that fits, and then finds the smallest that fits,
\* unless a smaller chunk lies behind a larger one.
FindsFit ==
  \A size \in HeapSizes(caller), asked \in caller.alignments :
    LET t == free[0]
        align == Usable(asked)
        fits == {k \in DOMAIN t : Suffices(t[k], size, align)}
        i == SearchBySize(t, size, align)
    IN  /\ i # 0 => i \in fits
        /\ SmallerFirst(t, size, align) =>
             /\ i = 0 => fits = {}
             /\ BySize(t) => \A k \in fits : t[i].size <= t[k].size
=============================================================================
