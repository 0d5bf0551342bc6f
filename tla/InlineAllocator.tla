--------------------------- MODULE InlineAllocator ---------------------------
(***************************************************************************)
(* inline_allocator.h: chunks one after another, each with its header in      *)
(* front of its data, found first fit from the start of the heap.             *)
(*                                                                         *)
(* chunk holds the headers NEXT_CHUNK reaches.  A header that was absorbed      *)
(* stays in memory until a user overwrites it, but it says "free", and          *)
(* find_chunk_for_pointer wants one that is allocated.  The checksum tells       *)
(* whether a header is what was last written there; prev_chunk is never read.   *)
(***************************************************************************)
EXTENDS HeapBlocks

CONSTANT SplitThreshold

HeaderSize == MaxAlignment     \* _Static_assert of metadata_t

\* The heap has room for its first header.
ASSUME InlineAssumption == /\ SplitThreshold \in Nat
                           /\ HeaderSize <= HeapCapacity /\ HeapEnd - 1 <= LastAddress

VARIABLE chunk                 \* size, used and align of the chunk at each address

inlineVars == <<chunk, held, byte, caller>>

Data(h) == h + HeaderSize
HeaderBytes(h) == h..(Data(h) - 1)
NextChunk(c, h) == Data(h) + c[h].size

Chunk(size, used, align) == [size |-> size, used |-> used, align |-> align]

\* The largest of alignment_t, or none.
ChunkAlignment(h) ==
  LET fits == {a \in Alignments : Data(h) % a = 0}
  IN  IF fits = {} THEN 0 ELSE CHOOSE a \in fits : \A b \in fits : b <= a

Valid(b, h) == \A a \in HeaderBytes(h) : b[a] = Header

\* Mutant: a chunk that is in use is absorbed too.
MutCanAbsorb(b, c, h) == NextChunk(c, h) \in DOMAIN c

CanAbsorb(b, c, h) ==
  LET next == NextChunk(c, h)
  IN  next \in DOMAIN c /\ Valid(b, next) /\ ~ c[next].used

\* try_coalesce_with_next
Coalesced(b, c, h) ==
  LET next == NextChunk(c, h)
  IN  IF CanAbsorb(b, c, h)
      THEN [k \in DOMAIN c \ {next} |->
              IF k = h THEN [c[h] EXCEPT !.size = @ + HeaderSize + c[next].size] ELSE c[k]]
      ELSE c

\* Mutant: the header of the chunk split off is not counted.
MutSplit(c, h, required) ==
  LET remaining == c[h].size - required
      new == Data(h) + required
  IN  IF remaining < HeaderSize + SplitThreshold THEN c
      ELSE [k \in DOMAIN c \cup {new} |->
              CASE k = new -> Chunk(remaining, FALSE, ChunkAlignment(new))
                [] k = h -> [c[h] EXCEPT !.size = required]
                [] OTHER -> c[k]]

\* split_chunk_if_possible
Split(c, h, required) ==
  LET remaining == c[h].size - required
      new == Data(h) + required
  IN  IF remaining < HeaderSize + SplitThreshold THEN c
      ELSE [k \in DOMAIN c \cup {new} |->
              CASE k = new -> Chunk(remaining - HeaderSize, FALSE, ChunkAlignment(new))
                [] k = h -> [c[h] EXCEPT !.size = required]
                [] OTHER -> c[k]]

\* The new and the changed headers of c are written, and the absorbed ones forgotten.
Written(b, c, old) ==
  LET new == UNION {HeaderBytes(h) : h \in {k \in DOMAIN c : k \notin DOMAIN old \/ c[k] # old[k]}}
      gone == UNION {HeaderBytes(h) : h \in DOMAIN old \ DOMAIN c}
  IN  [a \in DOMAIN b |-> IF a \in new THEN Header
                          ELSE IF a \in gone /\ b[a] = Header THEN Junk ELSE b[a]]

\* The padding is reserved, but the pointer returned is in front of it.
Padding(c, h, align) ==
  IF c[h].align >= align THEN 0 ELSE AlignUp(Data(h), align) - Data(h)

Fits(b, c, h, size, align) ==
  /\ ~ c[h].used /\ c[h].size >= size + Padding(c, h, align)
  /\ \A k \in DOMAIN c : k <= h => Valid(b, k)

\* What heap_alloc returns, and the chunks and bytes it leaves.
Result(ptr, c, b) == [ptr |-> ptr, chunk |-> c, byte |-> b]

InlineHeapAlloc(b, c, size, asked) ==
  LET align == Usable(asked)
      fit == {h \in DOMAIN c : Fits(b, c, h, size, align)}
      first == CHOOSE h \in fit : \A k \in fit : h <= k
      taken == [c EXCEPT ![first].used = TRUE, ![first].align = align]
      new == Split(taken, first, size + Padding(c, first, align))
  IN  IF size = 0 \/ size > HeapCapacity \/ fit = {} THEN Result(Null, c, b)
      ELSE Result(Data(first), new, Written(b, new, c))

\* find_chunk_for_pointer; there is at most one.
ChunksFor(b, c, ptr) == {h \in DOMAIN c : Valid(b, h) /\ c[h].used /\ Data(h) = ptr}

InlineHeapFree(b, c, ptr) ==
  LET h == CHOOSE k \in ChunksFor(b, c, ptr) : TRUE
      freed == [c EXCEPT ![h].used = FALSE, ![h].align = ChunkAlignment(h)]
      new == Coalesced(b, freed, h)
  IN  IF ChunksFor(b, c, ptr) = {} THEN Result(Null, c, b)
      ELSE Result(Null, new, Written(b, new, c))

-----------------------------------------------------------------------------
InlineInit == /\ BlocksInit
              /\ chunk = [h \in {HeapStart} |-> Chunk(HeapCapacity - HeaderSize, FALSE, MaxAlignment)]
              /\ byte = [a \in HeapStart..LastAddress |->
                           IF a \in HeaderBytes(HeapStart) THEN Header ELSE Junk]

InlineAlloc(o, size, align) ==
  LET result == InlineHeapAlloc(byte, chunk, size, align)
  IN  /\ held[o] = NoBlock /\ MayHoldMore /\ result.ptr # Null
      /\ chunk' = result.chunk
      /\ byte' = Fill(result.byte, o, result.ptr, 0, size)
      /\ held' = [held EXCEPT ![o] = Block(result.ptr, size)]
      /\ UNCHANGED caller

InlineFree(o) ==
  LET result == InlineHeapFree(byte, chunk, held[o].ptr)
  IN  /\ held[o] # NoBlock
      /\ chunk' = result.chunk
      /\ byte' = Forgotten(result.byte, o, NoBlock)
      /\ held' = [held EXCEPT ![o] = NoBlock]
      /\ UNCHANGED caller

\* The block stays where it is, after c has become new.
StaysAt(o, size, new) ==
  /\ chunk' = new
  /\ byte' = Resized(Written(byte, new, chunk), o, held[o], held[o].ptr, size)
  /\ held' = [held EXCEPT ![o].len = size]

Moves(o, h, size, align, grown) ==
  LET old == held[o].ptr
      new == InlineHeapAlloc(Written(byte, grown, chunk), grown, size, align)
      copied == Copied(new.byte, new.ptr, old, Least(grown[h].size, size))
      freed == InlineHeapFree(copied, new.chunk, old)
  IN  \/ /\ new.ptr = Null
         /\ chunk' = grown /\ byte' = new.byte /\ UNCHANGED held
      \/ /\ new.ptr # Null
         /\ chunk' = freed.chunk
         /\ byte' = Resized(freed.byte, o, held[o], new.ptr, size)
         /\ held' = [held EXCEPT ![o] = Block(new.ptr, size)]

\* heap_realloc of a block (of NULL it is heap_alloc, to 0 bytes heap_free).  What the
\* next chunk adds stays in the chunk, also when it is not enough.
InlineRealloc(o, size, asked) ==
  LET align == Usable(asked)
      old == ChunksFor(byte, chunk, held[o].ptr)
  IN  /\ held[o] # NoBlock
      /\ \E h \in old :
           LET grown == Coalesced(byte, chunk, h)
           IN  \/ /\ size <= chunk[h].size /\ align <= chunk[h].align
                  /\ StaysAt(o, size, Split(chunk, h, size))
               \/ /\ ~ (size <= chunk[h].size /\ align <= chunk[h].align)
                  /\ CanAbsorb(byte, chunk, h) /\ grown[h].size >= size
                  /\ StaysAt(o, size, Split(grown, h, size))
               \/ /\ ~ (size <= chunk[h].size /\ align <= chunk[h].align)
                  /\ ~ (CanAbsorb(byte, chunk, h) /\ grown[h].size >= size)
                  /\ Moves(o, h, size, asked, grown)
      /\ UNCHANGED caller

InlineNext ==
  \E o \in Owner :
    \/ \E size \in caller.sizes, align \in caller.alignments : InlineAlloc(o, size, align)
    \/ \E size \in caller.resizes, align \in caller.alignments : InlineRealloc(o, size, align)
    \/ InlineFree(o)

-----------------------------------------------------------------------------
\* The chunks tile the heap: the walk over them, which every call makes, goes from
\* header to intact header and ends exactly at the end of the heap, so that no memory
\* is lost; and every block is in a chunk of its own that is in use.
Tiled ==
  /\ HeapStart \in DOMAIN chunk
  /\ \A h \in DOMAIN chunk : /\ NextChunk(chunk, h) \in DOMAIN chunk \cup {HeapEnd}
                             /\ chunk[h].size >= 0 /\ Valid(byte, h)
                             /\ \A k \in DOMAIN chunk : ~ (h < k /\ k < NextChunk(chunk, h))
  /\ \A o \in Holders : \E h \in DOMAIN chunk :
       /\ chunk[h].used /\ Data(h) = held[o].ptr /\ held[o].len <= chunk[h].size
       /\ \A q \in Holders \ {o} : held[q].ptr # held[o].ptr
  /\ Cardinality(Holders) = Cardinality({h \in DOMAIN chunk : chunk[h].used})
=============================================================================
