----------------------- MODULE InlineAllocator_proofs -----------------------
(***************************************************************************)
(* Proofs about the inline allocator, for a heap, blocks and alignments of   *)
(* any size and any number of users: its chunks always tile the heap, and    *)
(* every block keeps the bytes its user stored in it.                       *)
(***************************************************************************)
EXTENDS MemAlloc, FiniteSetTheorems, WellFoundedInduction, TLAPS

-----------------------------------------------------------------------------
(* The invariant, of any chunks c, bytes b and blocks H                     *)

IsChunk(r) == /\ r = Chunk(r.size, r.used, r.align)
              /\ r.size \in Nat /\ r.used \in BOOLEAN

Tiles(c) ==
  /\ HeapStart \in DOMAIN c
  /\ \A h \in DOMAIN c : /\ h \in HeapStart..(HeapEnd - HeaderSize)
                         /\ IsChunk(c[h])
                         /\ NextChunk(c, h) \in DOMAIN c \cup {HeapEnd}
  /\ \A h, k \in DOMAIN c : h < k => NextChunk(c, h) <= k

UsedChunks(c) == {h \in DOMAIN c : c[h].used}

Headed(b, c) == /\ DOMAIN b = HeapStart..LastAddress
                /\ \A h \in DOMAIN c : Valid(b, h)

\* The chunk of a block.
ChunkOf(block) == block.ptr - HeaderSize

IsBlock(block) == /\ block = Block(block.ptr, block.len)
                  /\ block.ptr \in Int /\ block.len \in Nat

\* Each block is in a used chunk.
Placed(c, H) ==
  \A o \in Owner : H[o] # NoBlock =>
    /\ IsBlock(H[o]) /\ ChunkOf(H[o]) \in UsedChunks(c)
    /\ H[o].len <= c[ChunkOf(H[o])].size

\* It has the chunk to itself, and there are no other used chunks.
Owned(c, H) ==
  /\ \A h \in UsedChunks(c) : \E o \in Owner : H[o] # NoBlock /\ ChunkOf(H[o]) = h
  /\ \A o, q \in Owner :
       H[o] # NoBlock /\ H[q] # NoBlock /\ ChunkOf(H[o]) = ChunkOf(H[q]) => o = q

\* The first len bytes at ptr are those o stored.
Holds(b, o, ptr, len) == \A i \in 0..(len - 1) : b[ptr + i] = Stored(o, i)

AllHold(b, H) == \A o \in Owner : H[o] # NoBlock => Holds(b, o, H[o].ptr, H[o].len)

InlineInv == /\ Tiles(chunk) /\ Headed(byte, chunk)
             /\ DOMAIN held = Owner /\ Placed(chunk, held) /\ Owned(chunk, held)
             /\ AllHold(byte, held)

MemInv == caller.build = "inline" => InlineInv /\ caller \in Callers

-----------------------------------------------------------------------------
(* Numbers                                                                  *)

LEMMA Sizes ==
  /\ HeaderSize \in Nat \ {0} /\ HeapStart \in Nat \ {0} /\ HeapEnd \in Nat
  /\ HeapStart <= HeapEnd - HeaderSize
  /\ HeapEnd - 1 <= LastAddress /\ LastAddress \in Nat
  /\ SplitThreshold \in Nat
BY HeapAssumption, InlineAssumption DEF HeaderSize, HeapStart, HeapEnd

\* What division leaves.
LEMMA DivMod ==
  ASSUME NEW m \in Nat, NEW a \in Nat \ {0}
  PROVE  /\ m = a * (m \div a) + (m % a)
         /\ m % a \in 0..(a - 1) /\ m \div a \in Int
<1>1. m % a \in 0..(a - 1)
  OBVIOUS
<1>2. m \div a \in Int
  OBVIOUS
<1>3. m = a * (m \div a) + (m % a)
  OBVIOUS
<1> QED
  BY <1>1, <1>2, <1>3

\* Aligning an address never goes back.
LEMMA AlignedUp ==
  ASSUME NEW n \in Nat, NEW a \in Nat \ {0}
  PROVE  AlignUp(n, a) \in Int /\ AlignUp(n, a) >= n
<1> DEFINE m == n + a - 1
<1>1. m \in Nat
  OBVIOUS
<1> HIDE DEF m
<1>2. m = a * (m \div a) + (m % a) /\ m % a \in 0..(a - 1) /\ m \div a \in Int
  BY <1>1, DivMod
<1>3. a * (m \div a) \in Int /\ a * (m \div a) = (m \div a) * a
  BY <1>2
<1>4. (m \div a) * a \in Int /\ (m \div a) * a >= n
  BY <1>2, <1>3 DEF m
<1> QED
  BY <1>4 DEF m, AlignUp

\* Of some addresses, one is the first.
LEMMA FirstOf ==
  ASSUME NEW S \in SUBSET Nat, S # {}
  PROVE  \E h \in S : \A k \in S : h <= k
<1>1. IsWellFoundedOn(OpToRel(<, Nat), Nat)
  BY NatLessThanWellFounded
<1>2. PICK h \in S : \A k \in S : ~ (<<k, h>> \in OpToRel(<, Nat))
  BY <1>1, WFMin
<1>3. \A k \in S : ~ (k < h)
  BY <1>2 DEF OpToRel
<1> QED
  BY <1>3

\* What the call takes for the alignment is one, and the padding is not negative.
LEMMA PaddingIsNat ==
  ASSUME NEW c, NEW h \in Nat, NEW asked
  PROVE  Padding(c, h, Usable(asked)) \in Nat
<1> DEFINE align == Usable(asked)
<1>1. align \in Nat \ {0}
  BY HeapAssumption DEF Usable
<1> HIDE DEF align
<1>2. Data(h) \in Nat
  BY Sizes DEF Data
<1>3. AlignUp(Data(h), align) \in Int /\ AlignUp(Data(h), align) >= Data(h)
  BY <1>1, <1>2, AlignedUp
<1>4. AlignUp(Data(h), align) - Data(h) \in Nat
  BY <1>2, <1>3
<1>5. Padding(c, h, align) \in Nat
  BY <1>4 DEF Padding
<1> QED
  BY <1>5 DEF align

-----------------------------------------------------------------------------
(* The chunks                                                               *)

\* What a chunk of tiled chunks is, and where it ends.
LEMMA InHeap ==
  ASSUME NEW c, Tiles(c), NEW h \in DOMAIN c
  PROVE  /\ h \in Nat \ {0} /\ HeapStart <= h
         /\ c[h].size \in Nat /\ c[h].used \in BOOLEAN
         /\ Data(h) \in Nat /\ Data(h) = h + HeaderSize
         /\ NextChunk(c, h) = h + HeaderSize + c[h].size
         /\ NextChunk(c, h) \in Nat /\ NextChunk(c, h) <= HeapEnd
<1>1. h \in Nat \ {0} /\ HeapStart <= h
  BY Sizes DEF Tiles
<1>2. c[h].size \in Nat /\ c[h].used \in BOOLEAN
  BY DEF Tiles, IsChunk
<1>3. NextChunk(c, h) = h + HeaderSize + c[h].size /\ Data(h) = h + HeaderSize
  BY DEF NextChunk, Data
<1>4. \A k \in DOMAIN c : k <= HeapEnd
  BY Sizes DEF Tiles
<1>5. NextChunk(c, h) <= HeapEnd
  BY <1>4, Sizes DEF Tiles
<1> QED
  BY <1>1, <1>2, <1>3, <1>5, Sizes

\* Two chunks are apart: no byte of the one, header or data, is one of the other's.
LEMMA ChunksApart ==
  ASSUME NEW c, Tiles(c), NEW h \in DOMAIN c, NEW k \in DOMAIN c, h # k,
         NEW a \in h..(NextChunk(c, h) - 1)
  PROVE  a \notin k..(NextChunk(c, k) - 1)
<1>1. h < k \/ k < h
  BY InHeap
<1>2. (h < k => NextChunk(c, h) <= k) /\ (k < h => NextChunk(c, k) <= h)
  BY DEF Tiles
<1> QED
  BY <1>1, <1>2, InHeap

\* Header and data of a chunk.
LEMMA InChunk ==
  ASSUME NEW c, Tiles(c), NEW h \in DOMAIN c
  PROVE  /\ \A a \in HeaderBytes(h) : a \in h..(NextChunk(c, h) - 1)
         /\ \A a \in Data(h)..(NextChunk(c, h) - 1) :
              a \in h..(NextChunk(c, h) - 1) /\ a \notin HeaderBytes(h)
         /\ h..(NextChunk(c, h) - 1) \subseteq HeapStart..LastAddress
<1>1. /\ h \in Nat /\ HeapStart <= h /\ HeaderSize \in Nat /\ c[h].size \in Nat
      /\ Data(h) = h + HeaderSize /\ NextChunk(c, h) = Data(h) + c[h].size
      /\ NextChunk(c, h) <= HeapEnd
  BY InHeap, Sizes
<1>2. HeaderBytes(h) = h..(Data(h) - 1)
  BY DEF HeaderBytes
<1> QED
  BY <1>1, <1>2, Sizes

MarkedAs(c, h, u, al) == [c EXCEPT ![h].used = u, ![h].align = al]

\* Marking a chunk used or free moves no chunk.
LEMMA Marked ==
  ASSUME NEW c, Tiles(c), NEW h \in DOMAIN c, NEW u \in BOOLEAN, NEW al,
         NEW d, d = MarkedAs(c, h, u, al)
  PROVE  /\ Tiles(d) /\ DOMAIN d = DOMAIN c
         /\ d[h].used = u
         /\ \A k \in DOMAIN c : d[k].size = c[k].size /\ (k # h => d[k] = c[k])
<1>1. DOMAIN d = DOMAIN c
  BY DEF MarkedAs
<1>2. c[h] = Chunk(c[h].size, c[h].used, c[h].align)
  BY DEF Tiles, IsChunk
<1>3. d[h] = [[c[h] EXCEPT !.used = u] EXCEPT !.align = al]
  BY DEF MarkedAs
<1>4. d[h] = Chunk(c[h].size, u, al)
  BY <1>2, <1>3 DEF Chunk
<1>5. \A k \in DOMAIN c : k # h => d[k] = c[k]
  BY DEF MarkedAs
<1>6. d[h].size = c[h].size /\ d[h].used = u /\ d[h].align = al
  BY <1>4 DEF Chunk
<1>7. \A k \in DOMAIN c : d[k].size = c[k].size /\ IsChunk(d[k])
  <2> SUFFICES ASSUME NEW k \in DOMAIN c
               PROVE  d[k].size = c[k].size /\ IsChunk(d[k])
    OBVIOUS
  <2>1. CASE k = h
    BY <1>4, <1>6, <2>1 DEF Tiles, IsChunk
  <2>2. CASE k # h
    BY <1>5, <2>2 DEF Tiles
  <2> QED
    BY <2>1, <2>2
<1>8. \A k \in DOMAIN c : NextChunk(d, k) = NextChunk(c, k)
  BY <1>7 DEF NextChunk
<1>9. Tiles(d)
  BY <1>1, <1>7, <1>8 DEF Tiles
<1> QED
  BY <1>1, <1>5, <1>6, <1>7, <1>9

\* split_chunk_if_possible cuts a free chunk off the end, or does nothing.
LEMMA SplitTiles ==
  ASSUME NEW c, Tiles(c), NEW h \in DOMAIN c,
         NEW required \in Nat, required <= c[h].size,
         NEW d, d = Split(c, h, required)
  PROVE  /\ Tiles(d) /\ DOMAIN c \subseteq DOMAIN d
         /\ \A k \in DOMAIN c : k # h => d[k] = c[k]
         /\ d[h].used = c[h].used /\ d[h].size >= required
         /\ UsedChunks(d) = UsedChunks(c)
<1> DEFINE remaining == c[h].size - required
           new == Data(h) + required
<1>1. CASE remaining < HeaderSize + SplitThreshold
  <2>1. d = c
    BY <1>1 DEF Split
  <2> QED
    BY <2>1, InHeap
<1>2. CASE ~ (remaining < HeaderSize + SplitThreshold)
  <2>1. d = [k \in DOMAIN c \cup {new} |->
              CASE k = new -> Chunk(remaining - HeaderSize, FALSE, ChunkAlignment(new))
                [] k = h -> [c[h] EXCEPT !.size = required]
                [] OTHER -> c[k]]
    BY <1>2 DEF Split
  <2>2. /\ h \in Nat /\ HeapStart <= h /\ HeaderSize \in Nat \ {0} /\ c[h].size \in Nat
        /\ Data(h) = h + HeaderSize /\ NextChunk(c, h) = h + HeaderSize + c[h].size
        /\ NextChunk(c, h) <= HeapEnd /\ HeapEnd \in Nat /\ HeapStart \in Nat
        /\ SplitThreshold \in Nat
    BY InHeap, Sizes
  <2>3. /\ new = h + HeaderSize + required /\ new \in Nat /\ h < new
        /\ new + HeaderSize <= NextChunk(c, h)
        /\ remaining - HeaderSize \in Nat
        /\ new + HeaderSize + (remaining - HeaderSize) = NextChunk(c, h)
    BY <2>2, <1>2
  <2> HIDE DEF new, remaining
  <2>4. \A k \in DOMAIN c : k # new
    <3> SUFFICES ASSUME NEW k \in DOMAIN c
                 PROVE  k # new
      OBVIOUS
    <3>1. k <= h \/ NextChunk(c, h) <= k
      BY InHeap DEF Tiles
    <3> QED
      BY <3>1, <2>2, <2>3, InHeap
  <2>5. DOMAIN d = DOMAIN c \cup {new} /\ new # h
    BY <2>1, <2>4
  <2>6. d[new] = Chunk(remaining - HeaderSize, FALSE, ChunkAlignment(new))
    <3>1. new \in DOMAIN c \cup {new}
      OBVIOUS
    <3> QED
      BY <2>1, <2>5, <3>1, Zenon
  <2>7. d[h] = [c[h] EXCEPT !.size = required]
    BY <2>1, <2>5
  <2>8. \A k \in DOMAIN c : k # h => d[k] = c[k]
    BY <2>1, <2>4
  <2>9. c[h] = Chunk(c[h].size, c[h].used, c[h].align) /\ c[h].used \in BOOLEAN
    BY DEF Tiles, IsChunk
  <2>10. d[h] = Chunk(required, c[h].used, c[h].align)
    BY <2>7, <2>9 DEF Chunk
  <2>11. /\ d[h].size = required /\ d[h].used = c[h].used /\ d[h].align = c[h].align
         /\ d[new].size = remaining - HeaderSize /\ d[new].used = FALSE
         /\ d[new].align = ChunkAlignment(new)
    BY <2>6, <2>10 DEF Chunk
  <2>12. IsChunk(d[h]) /\ IsChunk(d[new])
    BY <2>3, <2>6, <2>9, <2>10, <2>11 DEF IsChunk
  <2>13. NextChunk(d, h) = new
    BY <2>2, <2>3, <2>11 DEF NextChunk
  <2>14. NextChunk(d, new) = NextChunk(c, h)
    BY <2>2, <2>3, <2>11 DEF NextChunk, Data
  <2>15. \A k \in DOMAIN c : k # h => NextChunk(d, k) = NextChunk(c, k)
    BY <2>8 DEF NextChunk
  <2>16. new \in HeapStart..(HeapEnd - HeaderSize)
    BY <2>2, <2>3
  <2>17. \A k \in DOMAIN d : /\ k \in HeapStart..(HeapEnd - HeaderSize)
                             /\ IsChunk(d[k])
                             /\ NextChunk(d, k) \in DOMAIN d \cup {HeapEnd}
    BY <2>5, <2>8, <2>12, <2>13, <2>14, <2>15, <2>16 DEF Tiles
  <2>18. \A j, k \in DOMAIN d : j < k => NextChunk(d, j) <= k
    <3> SUFFICES ASSUME NEW j \in DOMAIN d, NEW k \in DOMAIN d, j < k
                 PROVE  NextChunk(d, j) <= k
      OBVIOUS
    <3>1. \A i \in DOMAIN c : i \in Nat /\ NextChunk(c, i) \in Nat
      BY InHeap
    <3>2. \A m, n \in DOMAIN c : m < n => NextChunk(c, m) <= n
      BY DEF Tiles
    <3>3. CASE j = new
      <4>1. k \in DOMAIN c /\ h < k
        BY <2>3, <2>5, <3>1, <3>3
      <4> QED
        BY <4>1, <2>14, <3>2, <3>3
    <3>4. CASE j = h
      <4>1. CASE k = new
        BY <4>1, <3>4, <2>3, <2>13
      <4>2. CASE k # new
        <5>1. k \in DOMAIN c /\ NextChunk(c, h) <= k
          BY <4>2, <3>4, <3>2, <2>5
        <5> QED
          BY <5>1, <3>1, <3>4, <2>2, <2>3, <2>13
      <4> QED
        BY <4>1, <4>2
    <3>5. CASE j # new /\ j # h
      <4>1. j \in DOMAIN c /\ NextChunk(d, j) = NextChunk(c, j)
        BY <3>5, <2>5, <2>15
      <4>2. CASE k = new
        <5>1. j < h
          <6>1. ~ (h < j)
            BY <4>1, <4>2, <3>1, <3>2, <2>2, <2>3
          <6> QED
            BY <6>1, <4>1, <3>1, <3>5, <2>2
        <5> QED
          BY <5>1, <4>1, <4>2, <3>1, <3>2, <2>2, <2>3
      <4>3. CASE k # new
        BY <4>1, <4>3, <3>2, <2>5
      <4> QED
        BY <4>2, <4>3
    <3> QED
      BY <3>3, <3>4, <3>5
  <2>19. Tiles(d)
    BY <2>5, <2>17, <2>18 DEF Tiles
  <2>20. UsedChunks(d) = UsedChunks(c)
    BY <2>5, <2>8, <2>11 DEF UsedChunks
  <2> QED
    BY <2>5, <2>8, <2>11, <2>19, <2>20
<1> QED
  BY <1>1, <1>2

\* try_coalesce_with_next gives a chunk the free chunk after it, or does nothing.
LEMMA CoalescedTiles ==
  ASSUME NEW b, NEW c, Tiles(c), NEW h \in DOMAIN c,
         NEW d, d = Coalesced(b, c, h)
  PROVE  /\ Tiles(d) /\ h \in DOMAIN d /\ DOMAIN d \subseteq DOMAIN c
         /\ \A k \in DOMAIN d : k # h => d[k] = c[k]
         /\ d[h].used = c[h].used /\ d[h].size >= c[h].size
         /\ UsedChunks(d) = UsedChunks(c)
<1> DEFINE next == NextChunk(c, h)
           size == c[h].size + HeaderSize + c[next].size
<1>1. CASE ~ CanAbsorb(b, c, h)
  <2>1. d = c
    BY <1>1 DEF Coalesced
  <2> QED
    BY <2>1, InHeap
<1>2. CASE CanAbsorb(b, c, h)
  <2>1. d = [k \in DOMAIN c \ {next} |->
              IF k = h THEN [c[h] EXCEPT !.size = @ + HeaderSize + c[next].size] ELSE c[k]]
    BY <1>2 DEF Coalesced
  <2>2. next \in DOMAIN c /\ ~ c[next].used
    BY <1>2 DEF CanAbsorb
  <2>3. /\ h \in Nat /\ HeapStart <= h /\ HeaderSize \in Nat \ {0} /\ c[h].size \in Nat
        /\ Data(h) = h + HeaderSize /\ next = h + HeaderSize + c[h].size
        /\ next <= HeapEnd /\ next \in Nat
    BY InHeap, Sizes
  <2>4. /\ c[next].size \in Nat /\ NextChunk(c, next) = next + HeaderSize + c[next].size
        /\ NextChunk(c, next) \in Nat
    BY <2>2, InHeap
  <2>5. size \in Nat /\ h + HeaderSize + size = NextChunk(c, next) /\ h < next /\ size >= c[h].size
    BY <2>3, <2>4
  <2>6. c[h] = Chunk(c[h].size, c[h].used, c[h].align) /\ c[h].used \in BOOLEAN
    BY DEF Tiles, IsChunk
  <2>7. DOMAIN d = DOMAIN c \ {next} /\ h # next
    BY <2>1, <2>3, <2>5
  <2>8. d[h] = [c[h] EXCEPT !.size = c[h].size + HeaderSize + c[next].size]
    BY <2>1, <2>7
  <2>9. \A k \in DOMAIN d : k # h => d[k] = c[k]
    BY <2>1
  <2> HIDE DEF next
  <2>10. d[h] = Chunk(size, c[h].used, c[h].align)
    BY <2>6, <2>8 DEF Chunk
  <2> HIDE DEF size
  <2>11. d[h].size = size /\ d[h].used = c[h].used /\ d[h].align = c[h].align
    BY <2>10 DEF Chunk
  <2>12. IsChunk(d[h])
    BY <2>5, <2>6, <2>10, <2>11 DEF IsChunk
  <2>13. NextChunk(d, h) = NextChunk(c, next)
    BY <2>3, <2>5, <2>11 DEF NextChunk
  <2>14. \A k \in DOMAIN d : k # h => NextChunk(d, k) = NextChunk(c, k)
    BY <2>9 DEF NextChunk
  <2>15. \A i \in DOMAIN c : i \in Nat /\ NextChunk(c, i) \in Nat /\ i < NextChunk(c, i)
    BY InHeap, Sizes
  <2>16. \A m, n \in DOMAIN c : m < n => NextChunk(c, m) <= n
    BY DEF Tiles
  <2>17. NextChunk(c, next) \in DOMAIN c \cup {HeapEnd} /\ NextChunk(c, next) # next
    BY <2>2, <2>15 DEF Tiles
  <2>18. \A k \in DOMAIN d : k # h => NextChunk(c, k) # next
    <3> SUFFICES ASSUME NEW k \in DOMAIN d, k # h, NextChunk(c, k) = next
                 PROVE  FALSE
      OBVIOUS
    <3>1. k \in DOMAIN c /\ k # next
      BY <2>7
    <3>2. NextChunk(c, h) = next
      BY DEF next
    <3> QED
      BY <3>1, <3>2, <2>3, <2>5, <2>15, <2>16
  <2>19. HeapStart \in DOMAIN d
    BY <2>3, <2>5, <2>7, Sizes DEF Tiles
  <2>20. HeapEnd # next
    BY <2>2, Sizes DEF Tiles
  <2>21. \A k \in DOMAIN d : /\ k \in HeapStart..(HeapEnd - HeaderSize)
                             /\ IsChunk(d[k])
                             /\ NextChunk(d, k) \in DOMAIN d \cup {HeapEnd}
    BY <2>7, <2>9, <2>12, <2>13, <2>14, <2>17, <2>18 DEF Tiles
  <2>22. \A j, k \in DOMAIN d : j < k => NextChunk(d, j) <= k
    <3> SUFFICES ASSUME NEW j \in DOMAIN d, NEW k \in DOMAIN d, j < k
                 PROVE  NextChunk(d, j) <= k
      OBVIOUS
    <3>1. j \in DOMAIN c /\ k \in DOMAIN c /\ k # next
      BY <2>7
    <3>2. CASE j = h
      <4>1. next <= k
        BY <3>1, <3>2, <2>16 DEF next
      <4>2. next < k
        BY <4>1, <3>1, <2>3, <2>15
      <4> QED
        BY <4>2, <3>1, <3>2, <2>2, <2>13, <2>16
    <3>3. CASE j # h
      BY <3>1, <3>3, <2>14, <2>16
    <3> QED
      BY <3>2, <3>3
  <2>23. Tiles(d)
    BY <2>19, <2>21, <2>22 DEF Tiles
  <2>24. UsedChunks(d) = UsedChunks(c)
    BY <2>2, <2>7, <2>9, <2>11 DEF UsedChunks
  <2> QED
    BY <2>5, <2>7, <2>9, <2>11, <2>23, <2>24
<1> QED
  BY <1>1, <1>2

-----------------------------------------------------------------------------
(* The bytes                                                                *)

\* In the data of the chunks d nothing has changed from b to w but headers.
Beside(w, b, d) ==
  \A h \in DOMAIN d : \A a \in Data(h)..(NextChunk(d, h) - 1) : b[a] # Header => w[a] = b[a]

\* Writing the headers of chunks that changed from c to d makes those of d intact, and
\* touches no data.
LEMMA WrittenHeads ==
  ASSUME NEW b, NEW c, NEW d, Tiles(c), Tiles(d), Headed(b, c),
         NEW w, w = Written(b, d, c)
  PROVE  Headed(w, d) /\ Beside(w, b, d)
<1> DEFINE changed == {k \in DOMAIN d : k \notin DOMAIN c \/ d[k] # c[k]}
           new == UNION {HeaderBytes(h) : h \in changed}
           gone == UNION {HeaderBytes(h) : h \in DOMAIN c \ DOMAIN d}
<1>1. w = [a \in DOMAIN b |-> IF a \in new THEN Header
                              ELSE IF a \in gone /\ b[a] = Header THEN Junk ELSE b[a]]
  BY DEF Written
<1>2. \A a : a \in new <=> \E h \in changed : a \in HeaderBytes(h)
  OBVIOUS
<1>3. \A a : a \in gone <=> \E h \in DOMAIN c \ DOMAIN d : a \in HeaderBytes(h)
  OBVIOUS
<1> HIDE DEF new, gone
<1>4. DOMAIN w = HeapStart..LastAddress /\ DOMAIN b = HeapStart..LastAddress
  BY <1>1 DEF Headed
<1>5. ASSUME NEW k \in DOMAIN d, NEW a \in HeaderBytes(k)
      PROVE  w[a] = Header
  <2>1. a \in DOMAIN b
    BY <1>4, <1>5, InChunk
  <2>2. CASE k \in changed
    BY <1>1, <1>2, <2>1, <2>2
  <2>3. CASE k \notin changed
    <3>1. k \in DOMAIN c /\ b[a] = Header
      BY <2>3 DEF Headed, Valid
    <3>2. a \notin gone
      <4> SUFFICES ASSUME NEW g \in DOMAIN c \ DOMAIN d, a \in HeaderBytes(g)
                   PROVE  FALSE
        BY <1>3
      <4>1. g \in DOMAIN c /\ g # k
        OBVIOUS
      <4> QED
        BY <4>1, <3>1, InChunk, ChunksApart
    <3> QED
      BY <1>1, <2>1, <3>1, <3>2
  <2> QED
    BY <2>2, <2>3
<1>6. Headed(w, d)
  BY <1>4, <1>5 DEF Headed, Valid
<1>7. ASSUME NEW h \in DOMAIN d, NEW a \in Data(h)..(NextChunk(d, h) - 1), b[a] # Header
      PROVE  w[a] = b[a]
  <2>1. a \in h..(NextChunk(d, h) - 1) /\ a \notin HeaderBytes(h) /\ a \in DOMAIN b
    BY <1>4, <1>7, InChunk
  <2>2. a \notin new
    <3> SUFFICES ASSUME NEW k \in DOMAIN d, a \in HeaderBytes(k)
                 PROVE  FALSE
      BY <1>2
    <3>1. CASE k = h
      BY <3>1, <2>1
    <3>2. CASE k # h
      BY <3>2, <2>1, InChunk, ChunksApart
    <3> QED
      BY <3>1, <3>2
  <2> QED
    BY <1>1, <1>7, <2>1, <2>2
<1> QED
  BY <1>6, <1>7 DEF Beside

\* No user's byte is a header.
LEMMA StoredIsOwn ==
  ASSUME NEW o \in Owner, NEW i \in Nat
  PROVE  /\ Stored(o, i) # Header /\ Stored(o, i) # Junk
         /\ \A q, j : Stored(q, j) = Stored(o, i) => q = o /\ j = i
<1>1. <<o, i>> \in Owner \X Nat
  OBVIOUS
<1>2. <<o, i>> # Header /\ <<o, i>> # Junk
  BY <1>1, BytesAssumption
<1> QED
  BY <1>2 DEF Stored

\* A block in the data of a chunk keeps its bytes when only headers change there.
LEMMA HeldStays ==
  ASSUME NEW b, NEW w, NEW d, Tiles(d), Beside(w, b, d),
         NEW o \in Owner, NEW h \in DOMAIN d, NEW len \in Nat, len <= d[h].size,
         Holds(b, o, Data(h), len)
  PROVE  Holds(w, o, Data(h), len)
<1> SUFFICES ASSUME NEW i \in 0..(len - 1)
             PROVE  w[Data(h) + i] = Stored(o, i)
  BY DEF Holds
<1>1. b[Data(h) + i] = Stored(o, i)
  BY DEF Holds
<1>2. b[Data(h) + i] # Header
  BY <1>1, StoredIsOwn
<1>3. Data(h) + i \in Data(h)..(NextChunk(d, h) - 1)
  BY InHeap
<1> QED
  BY <1>1, <1>2, <1>3 DEF Beside

\* The address of a block, from its chunk.
LEMMA BlockAt ==
  ASSUME NEW block, IsBlock(block)
  PROVE  block.ptr = Data(ChunkOf(block)) /\ block.ptr \in Int /\ block.len \in Nat
BY Sizes DEF IsBlock, ChunkOf, Data

\* So do all blocks, whatever is written beside them.
LEMMA AllStay ==
  ASSUME NEW b, NEW w, NEW d, Tiles(d), Beside(w, b, d),
         NEW H, Placed(d, H), AllHold(b, H)
  PROVE  AllHold(w, H)
<1> SUFFICES ASSUME NEW o \in Owner, H[o] # NoBlock
             PROVE  Holds(w, o, H[o].ptr, H[o].len)
  BY DEF AllHold
<1>1. /\ IsBlock(H[o]) /\ ChunkOf(H[o]) \in DOMAIN d
      /\ H[o].len <= d[ChunkOf(H[o])].size
  BY DEF Placed, UsedChunks
<1>2. H[o].ptr = Data(ChunkOf(H[o])) /\ H[o].len \in Nat
  BY <1>1, BlockAt
<1>3. Holds(b, o, H[o].ptr, H[o].len)
  BY DEF AllHold
<1> QED
  BY <1>1, <1>2, <1>3, HeldStays

-----------------------------------------------------------------------------
(* heap_alloc and heap_free                                                 *)

\* heap_alloc returns NULL and changes nothing, or makes a used chunk of a free one,
\* large enough, and touches nobody's data.
LEMMA Allocates ==
  ASSUME NEW b, NEW c, Tiles(c), Headed(b, c), NEW size \in Nat, NEW asked,
         NEW r, r = InlineHeapAlloc(b, c, size, asked)
  PROVE  \/ r.ptr = Null /\ r.chunk = c /\ r.byte = b
         \/ \E first \in DOMAIN c :
              /\ ~ c[first].used /\ r.ptr = Data(first)
              /\ Tiles(r.chunk) /\ Headed(r.byte, r.chunk) /\ Beside(r.byte, b, r.chunk)
              /\ UsedChunks(r.chunk) = UsedChunks(c) \cup {first}
              /\ r.chunk[first].size >= size
              /\ \A k \in UsedChunks(c) : r.chunk[k].size = c[k].size
<1> DEFINE align == Usable(asked)
           fit == {h \in DOMAIN c : Fits(b, c, h, size, align)}
           first == CHOOSE h \in fit : \A k \in fit : h <= k
           taken == [c EXCEPT ![first].used = TRUE, ![first].align = align]
           required == size + Padding(c, first, align)
           new == Split(taken, first, required)
           w == Written(b, new, c)
<1>1. CASE size = 0 \/ size > HeapCapacity \/ fit = {}
  <2>1. r = Result(Null, c, b)
    BY <1>1 DEF InlineHeapAlloc
  <2> QED
    BY <2>1 DEF Result
<1>2. CASE ~ (size = 0 \/ size > HeapCapacity \/ fit = {})
  <2>1. r = Result(Data(first), new, w)
    BY <1>2 DEF InlineHeapAlloc
  <2>2. r.ptr = Data(first) /\ r.chunk = new /\ r.byte = w
    BY <2>1 DEF Result
  <2>3. fit \in SUBSET Nat /\ fit # {}
    BY <1>2, InHeap
  <2>4. \E h \in fit : \A k \in fit : h <= k
    <3> HIDE DEF fit
    <3> QED
      BY <2>3, FirstOf
  <2>5. first \in fit
    <3> HIDE DEF fit
    <3> QED
      BY <2>4
  <2> HIDE DEF first
  <2>6. first \in DOMAIN c /\ Fits(b, c, first, size, align)
    BY <2>5
  <2> HIDE DEF fit
  <2>7. ~ c[first].used /\ c[first].size >= required
    BY <2>6 DEF Fits
  <2>8. Padding(c, first, align) \in Nat
    BY <2>6, InHeap, PaddingIsNat
  <2>9. required \in Nat /\ required >= size
    BY <2>8
  <2> HIDE DEF required, align
  <2>10. /\ Tiles(taken) /\ DOMAIN taken = DOMAIN c /\ taken[first].used = TRUE
         /\ \A k \in DOMAIN c : taken[k].size = c[k].size /\ (k # first => taken[k] = c[k])
    <3>1. PICK yes \in BOOLEAN : yes = TRUE
      OBVIOUS
    <3>2. taken = MarkedAs(c, first, yes, align)
      BY <3>1 DEF MarkedAs
    <3> HIDE DEF taken
    <3>3. /\ Tiles(taken) /\ DOMAIN taken = DOMAIN c /\ taken[first].used = yes
          /\ \A k \in DOMAIN c : taken[k].size = c[k].size /\ (k # first => taken[k] = c[k])
      BY <2>6, <3>2, Marked
    <3> QED
      BY <3>1, <3>3
  <2> HIDE DEF taken
  <2>11. required <= taken[first].size
    BY <2>6, <2>7, <2>9, <2>10, InHeap
  <2>12. /\ Tiles(new) /\ DOMAIN taken \subseteq DOMAIN new
         /\ \A k \in DOMAIN taken : k # first => new[k] = taken[k]
         /\ new[first].used = taken[first].used /\ new[first].size >= required
         /\ UsedChunks(new) = UsedChunks(taken)
    BY <2>6, <2>9, <2>10, <2>11, SplitTiles
  <2> HIDE DEF new
  <2>13. Headed(w, new) /\ Beside(w, b, new)
    BY <2>12, WrittenHeads
  <2> HIDE DEF w
  <2>14. UsedChunks(new) = UsedChunks(c) \cup {first}
    <3>1. \A k \in DOMAIN c : taken[k].used <=> c[k].used \/ k = first
      BY <2>10
    <3>2. UsedChunks(taken) = UsedChunks(c) \cup {first}
      BY <3>1, <2>6, <2>10 DEF UsedChunks
    <3> QED
      BY <3>2, <2>12
  <2>15. new[first].size >= size
    <3>1. first \in DOMAIN new
      BY <2>6, <2>10, <2>12
    <3>2. new[first].size \in Nat
      BY <3>1, <2>12, InHeap
    <3> QED
      BY <3>2, <2>9, <2>12
  <2>16. \A k \in UsedChunks(c) : new[k].size = c[k].size
    BY <2>7, <2>10, <2>12 DEF UsedChunks
  <2> QED
    BY <2>2, <2>6, <2>7, <2>12, <2>13, <2>14, <2>15, <2>16
<1> QED
  BY <1>1, <1>2

\* Of a pointer that was allocated, heap_free and heap_realloc find the chunk.
LEMMA ChunkFound ==
  ASSUME NEW b, NEW c, Tiles(c), Headed(b, c), NEW h \in UsedChunks(c)
  PROVE  ChunksFor(b, c, Data(h)) = {h}
<1>1. h \in DOMAIN c /\ c[h].used
  BY DEF UsedChunks
<1>2. \A k \in DOMAIN c : Data(k) = Data(h) => k = h
  BY <1>1, InHeap, Sizes
<1>3. \A k \in DOMAIN c : Valid(b, k)
  BY DEF Headed
<1> QED
  BY <1>1, <1>2, <1>3 DEF ChunksFor

\* heap_free makes the chunk of a block free, and touches nobody's data.
LEMMA Frees ==
  ASSUME NEW b, NEW c, Tiles(c), Headed(b, c), NEW h \in UsedChunks(c),
         NEW r, r = InlineHeapFree(b, c, Data(h))
  PROVE  /\ Tiles(r.chunk) /\ Headed(r.byte, r.chunk) /\ Beside(r.byte, b, r.chunk)
         /\ UsedChunks(r.chunk) = UsedChunks(c) \ {h}
         /\ \A k \in UsedChunks(c) : k # h => r.chunk[k].size = c[k].size
<1> DEFINE al == ChunkAlignment(h)
           freed == [c EXCEPT ![h].used = FALSE, ![h].align = al]
           new == Coalesced(b, freed, h)
           w == Written(b, new, c)
<1>1. ChunksFor(b, c, Data(h)) = {h} /\ h \in DOMAIN c
  BY ChunkFound DEF UsedChunks
<1>2. (CHOOSE k \in {h} : TRUE) = h
  OBVIOUS
<1>3. r = Result(Null, new, w)
  BY <1>1, <1>2 DEF InlineHeapFree
<1>4. r.chunk = new /\ r.byte = w
  BY <1>3 DEF Result
<1> HIDE DEF al
<1>5. /\ Tiles(freed) /\ DOMAIN freed = DOMAIN c /\ freed[h].used = FALSE
      /\ \A k \in DOMAIN c : freed[k].size = c[k].size /\ (k # h => freed[k] = c[k])
  <2>1. PICK no \in BOOLEAN : no = FALSE
    OBVIOUS
  <2>2. freed = MarkedAs(c, h, no, al)
    BY <2>1 DEF MarkedAs
  <2> HIDE DEF freed
  <2>3. /\ Tiles(freed) /\ DOMAIN freed = DOMAIN c /\ freed[h].used = no
        /\ \A k \in DOMAIN c : freed[k].size = c[k].size /\ (k # h => freed[k] = c[k])
    BY <1>1, <2>2, Marked
  <2> QED
    BY <2>1, <2>3
<1> HIDE DEF freed
<1>6. /\ Tiles(new) /\ h \in DOMAIN new /\ DOMAIN new \subseteq DOMAIN freed
      /\ \A k \in DOMAIN new : k # h => new[k] = freed[k]
      /\ new[h].used = freed[h].used
      /\ UsedChunks(new) = UsedChunks(freed)
  BY <1>1, <1>5, CoalescedTiles
<1> HIDE DEF new
<1>7. Headed(w, new) /\ Beside(w, b, new)
  BY <1>6, WrittenHeads
<1> HIDE DEF w
<1>8. UsedChunks(new) = UsedChunks(c) \ {h}
  <2>1. \A k \in DOMAIN c : freed[k].used <=> c[k].used /\ k # h
    BY <1>5
  <2>2. UsedChunks(freed) = UsedChunks(c) \ {h}
    BY <2>1, <1>5 DEF UsedChunks
  <2> QED
    BY <2>2, <1>6
<1>9. \A k \in UsedChunks(c) : k # h => new[k].size = c[k].size
  <2> SUFFICES ASSUME NEW k \in UsedChunks(c), k # h
               PROVE  new[k].size = c[k].size
    OBVIOUS
  <2>1. k \in UsedChunks(new)
    BY <1>8
  <2>2. k \in DOMAIN new /\ k \in DOMAIN c
    BY <2>1 DEF UsedChunks
  <2> QED
    BY <2>2, <1>5, <1>6
<1> QED
  BY <1>4, <1>6, <1>7, <1>8, <1>9

\* Where the used chunks stay and shrink no further than their blocks, blocks stay placed.
LEMMA PlacedIn ==
  ASSUME NEW c, NEW d, NEW H, Placed(c, H),
         \A o \in Owner : H[o] # NoBlock =>
           /\ ChunkOf(H[o]) \in UsedChunks(d)
           /\ H[o].len <= d[ChunkOf(H[o])].size
  PROVE  Placed(d, H)
BY DEF Placed

-----------------------------------------------------------------------------
(* What users store                                                         *)

\* From b to w only data of the chunk h has changed.
OnlyIn(h, w, b, d) ==
  /\ DOMAIN w = DOMAIN b
  /\ \A a \in DOMAIN b : a \notin Data(h)..(NextChunk(d, h) - 1) => w[a] = b[a]

\* Then the headers, and what is held in other chunks, are as before.
LEMMA OthersStay ==
  ASSUME NEW b, NEW w, NEW d, Tiles(d), Headed(b, d),
         NEW h \in DOMAIN d, OnlyIn(h, w, b, d)
  PROVE  /\ Headed(w, d)
         /\ \A q \in Owner, k \in DOMAIN d : \A n \in Nat :
              k # h /\ n <= d[k].size /\ Holds(b, q, Data(k), n) => Holds(w, q, Data(k), n)
<1>1. DOMAIN b = HeapStart..LastAddress /\ DOMAIN w = DOMAIN b
  BY DEF Headed, OnlyIn
<1>2. ASSUME NEW k \in DOMAIN d, NEW a \in HeaderBytes(k)
      PROVE  w[a] = Header
  <2>1. a \in DOMAIN b /\ b[a] = Header
    BY <1>1, <1>2, InChunk DEF Headed, Valid
  <2>2. a \notin Data(h)..(NextChunk(d, h) - 1)
    <3>1. CASE k = h
      BY <3>1, InChunk
    <3>2. CASE k # h
      BY <3>2, InChunk, ChunksApart
    <3> QED
      BY <3>1, <3>2
  <2> QED
    BY <2>1, <2>2 DEF OnlyIn
<1>3. ASSUME NEW q \in Owner, NEW k \in DOMAIN d, NEW n \in Nat,
             k # h, n <= d[k].size, Holds(b, q, Data(k), n), NEW i \in 0..(n - 1)
      PROVE  w[Data(k) + i] = Stored(q, i)
  <2>1. Data(k) + i \in Data(k)..(NextChunk(d, k) - 1)
    BY <1>3, InHeap
  <2>2. Data(k) + i \in k..(NextChunk(d, k) - 1)
    BY <2>1, InChunk
  <2>3. Data(k) + i \in DOMAIN b
    BY <1>1, <2>2, InChunk
  <2>4. Data(k) + i \notin h..(NextChunk(d, h) - 1)
    BY <1>3, <2>2, ChunksApart
  <2>5. Data(k) + i \notin Data(h)..(NextChunk(d, h) - 1)
    BY <2>4, InChunk
  <2>6. b[Data(k) + i] = Stored(q, i)
    BY <1>3 DEF Holds
  <2> QED
    BY <2>3, <2>5, <2>6 DEF OnlyIn
<1> QED
  BY <1>1, <1>2, <1>3 DEF Headed, Valid, Holds

\* A user stores len bytes from the first on, in a chunk that has room for them.
LEMMA Filled ==
  ASSUME NEW b, NEW d, Tiles(d), Headed(b, d), NEW h \in DOMAIN d, NEW o \in Owner,
         NEW first \in Nat, NEW len \in Nat, len <= d[h].size,
         \A i \in 0..(first - 1) : i < len => b[Data(h) + i] = Stored(o, i),
         NEW w, w = Fill(b, o, Data(h), first, len)
  PROVE  OnlyIn(h, w, b, d) /\ Holds(w, o, Data(h), len)
<1>1. /\ Data(h) \in Nat /\ NextChunk(d, h) = Data(h) + d[h].size /\ d[h].size \in Nat
      /\ DOMAIN b = HeapStart..LastAddress
  BY InHeap DEF Headed
<1>2. Data(h)..(NextChunk(d, h) - 1) \subseteq DOMAIN b
  BY <1>1, InChunk
<1>3. w = [a \in DOMAIN b |-> IF a \in (Data(h) + first)..(Data(h) + len - 1)
                              THEN Stored(o, a - Data(h)) ELSE b[a]]
  BY DEF Fill
<1>4. OnlyIn(h, w, b, d)
  <2>1. DOMAIN w = DOMAIN b
    BY <1>3
  <2>2. \A a : a \notin Data(h)..(NextChunk(d, h) - 1)
               => a \notin (Data(h) + first)..(Data(h) + len - 1)
    BY <1>1
  <2> QED
    BY <1>3, <2>1, <2>2 DEF OnlyIn
<1>5. ASSUME NEW i \in 0..(len - 1)
      PROVE  w[Data(h) + i] = Stored(o, i)
  <2>1. Data(h) + i \in DOMAIN b
    BY <1>1, <1>2
  <2>2. Data(h) + i - Data(h) = i
    BY <1>1
  <2>3. CASE i < first
    <3>1. b[Data(h) + i] = Stored(o, i) /\ Data(h) + i \notin (Data(h) + first)..(Data(h) + len - 1)
      BY <1>1, <2>3
    <3> QED
      BY <1>3, <2>1, <3>1
  <2>4. CASE ~ (i < first)
    <3>1. Data(h) + i \in (Data(h) + first)..(Data(h) + len - 1)
      BY <1>1, <2>4
    <3>2. w[Data(h) + i] = Stored(o, Data(h) + i - Data(h))
      BY <1>1, <1>3, <2>1, <3>1
    <3> QED
      BY <2>2, <3>2
  <2> QED
    BY <2>3, <2>4
<1> QED
  BY <1>4, <1>5 DEF Holds

\* memcpy brings what was held at from, into a chunk that has room for n bytes.
LEMMA CopiedIn ==
  ASSUME NEW b, NEW d, Tiles(d), Headed(b, d), NEW h \in DOMAIN d, NEW o \in Owner,
         NEW from \in Int, NEW n \in Nat, n <= d[h].size,
         NEW m \in Nat, m <= n, Holds(b, o, from, m),
         NEW w, w = Copied(b, Data(h), from, n)
  PROVE  OnlyIn(h, w, b, d) /\ Holds(w, o, Data(h), m)
<1>1. /\ Data(h) \in Nat /\ NextChunk(d, h) = Data(h) + d[h].size /\ d[h].size \in Nat
      /\ DOMAIN b = HeapStart..LastAddress
  BY InHeap DEF Headed
<1>2. Data(h)..(NextChunk(d, h) - 1) \subseteq DOMAIN b
  BY <1>1, InChunk
<1>3. w = [a \in DOMAIN b |-> IF a \in Data(h)..(Data(h) + n - 1)
                              THEN b[from + (a - Data(h))] ELSE b[a]]
  BY DEF Copied
<1>4. OnlyIn(h, w, b, d)
  <2>1. DOMAIN w = DOMAIN b
    BY <1>3
  <2>2. \A a : a \notin Data(h)..(NextChunk(d, h) - 1) => a \notin Data(h)..(Data(h) + n - 1)
    BY <1>1
  <2> QED
    BY <1>3, <2>1, <2>2 DEF OnlyIn
<1>5. ASSUME NEW i \in 0..(m - 1)
      PROVE  w[Data(h) + i] = Stored(o, i)
  <2>1. Data(h) + i \in DOMAIN b /\ Data(h) + i \in Data(h)..(Data(h) + n - 1)
    BY <1>1, <1>2
  <2>2. from + (Data(h) + i - Data(h)) = from + i
    BY <1>1
  <2>3. b[from + i] = Stored(o, i)
    BY DEF Holds
  <2>4. w[Data(h) + i] = b[from + (Data(h) + i - Data(h))]
    BY <1>1, <1>3, <2>1
  <2> QED
    BY <2>2, <2>3, <2>4
<1> QED
  BY <1>4, <1>5 DEF Holds

\* What is forgotten is one user's, and not in the block it has now.
LEMMA OthersRemember ==
  ASSUME NEW b, NEW d, Tiles(d), Headed(b, d), NEW o \in Owner, NEW block,
         NEW w, w = Forgotten(b, o, block)
  PROVE  /\ Headed(w, d)
         /\ \A q \in Owner, k \in DOMAIN d : \A n \in Nat :
              q # o /\ n <= d[k].size /\ Holds(b, q, Data(k), n) => Holds(w, q, Data(k), n)
         /\ \A k \in DOMAIN d : \A n \in Nat :
              block = Block(Data(k), n) /\ n <= d[k].size /\ Holds(b, o, Data(k), n)
                => Holds(w, o, Data(k), n)
<1>1. DOMAIN b = HeapStart..LastAddress
  BY DEF Headed
<1> DEFINE lost(a) == /\ \E i \in 0..HeapCapacity : b[a] = Stored(o, i)
                      /\ block = NoBlock \/ a \notin block.ptr..(block.ptr + block.len - 1)
<1>2. DOMAIN w = DOMAIN b /\ \A a \in DOMAIN b : w[a] = IF lost(a) THEN Junk ELSE b[a]
  BY DEF Forgotten
<1>3. \A a : lost(a) => \E i \in Nat : b[a] = Stored(o, i)
  OBVIOUS
<1>4. \A a : lost(a) => b[a] # Header
  BY <1>3, StoredIsOwn
<1>5. \A q \in Owner, i \in Nat : \A a : q # o /\ b[a] = Stored(q, i) => ~ lost(a)
  BY <1>3, StoredIsOwn
<1>6. \A a : lost(a) => block = NoBlock \/ a \notin block.ptr..(block.ptr + block.len - 1)
  OBVIOUS
<1> HIDE DEF lost
<1>7. ASSUME NEW k \in DOMAIN d, NEW a \in HeaderBytes(k)
      PROVE  w[a] = Header
  <2>1. a \in DOMAIN b /\ b[a] = Header
    BY <1>1, <1>7, InChunk DEF Headed, Valid
  <2> QED
    BY <1>2, <1>4, <2>1
<1>8. \A k \in DOMAIN d : \A n \in Nat : \A i \in 0..(n - 1) :
        n <= d[k].size => Data(k) + i \in DOMAIN b /\ Data(k) + i \in Data(k)..(Data(k) + n - 1)
  <2> SUFFICES ASSUME NEW k \in DOMAIN d, NEW n \in Nat, NEW i \in 0..(n - 1), n <= d[k].size
               PROVE  Data(k) + i \in DOMAIN b /\ Data(k) + i \in Data(k)..(Data(k) + n - 1)
    OBVIOUS
  <2>1. Data(k) + i \in Data(k)..(NextChunk(d, k) - 1)
    BY InHeap
  <2>2. Data(k) + i \in DOMAIN b
    BY <1>1, <2>1, InChunk
  <2> QED
    BY <2>2, InHeap
<1>9. ASSUME NEW q \in Owner, NEW k \in DOMAIN d, NEW n \in Nat,
             q # o, n <= d[k].size, Holds(b, q, Data(k), n), NEW i \in 0..(n - 1)
      PROVE  w[Data(k) + i] = Stored(q, i)
  <2>1. b[Data(k) + i] = Stored(q, i)
    BY <1>9 DEF Holds
  <2> QED
    BY <1>2, <1>5, <1>8, <1>9, <2>1
<1>10. ASSUME NEW k \in DOMAIN d, NEW n \in Nat,
              block = Block(Data(k), n), n <= d[k].size, Holds(b, o, Data(k), n),
              NEW i \in 0..(n - 1)
       PROVE  w[Data(k) + i] = Stored(o, i)
  <2>1. block.ptr = Data(k) /\ block.len = n
    BY <1>10 DEF Block
  <2>2. block # NoBlock
    <3>1. Data(k) \in Int
      BY InHeap
    <3>2. block \in [ptr : Int, len : Int]
      BY <1>10, <3>1 DEF Block
    <3> QED
      BY <3>2, BytesAssumption
  <2>3. Data(k) + i \in DOMAIN b /\ Data(k) + i \in block.ptr..(block.ptr + block.len - 1)
    BY <1>8, <1>10, <2>1
  <2>4. ~ lost(Data(k) + i)
    BY <1>6, <2>2, <2>3
  <2>5. b[Data(k) + i] = Stored(o, i)
    BY <1>10 DEF Holds
  <2> QED
    BY <1>2, <2>3, <2>4, <2>5
<1> QED
  BY <1>1, <1>2, <1>7, <1>9, <1>10 DEF Headed, Valid, Holds

\* After a realloc the user has stored what is new, and what it had is forgotten.
LEMMA ResizedHolds ==
  ASSUME NEW b, NEW d, Tiles(d), Headed(b, d), NEW h \in DOMAIN d, NEW o \in Owner,
         NEW old, old.len \in Nat, NEW len \in Nat, len <= d[h].size,
         Holds(b, o, Data(h), Least(old.len, len)),
         NEW w, w = Resized(b, o, old, Data(h), len)
  PROVE  /\ Headed(w, d) /\ Holds(w, o, Data(h), len)
         /\ \A q \in Owner, k \in DOMAIN d : \A n \in Nat :
              q # o /\ k # h /\ n <= d[k].size /\ Holds(b, q, Data(k), n)
                => Holds(w, q, Data(k), n)
<1> DEFINE least == Least(old.len, len)
           f == Fill(b, o, Data(h), least, len)
           block == Block(Data(h), len)
<1>1. w = Forgotten(f, o, block)
  BY DEF Resized
<1>2. least \in Nat
  BY DEF Least
<1>3. \A i \in 0..(least - 1) : b[Data(h) + i] = Stored(o, i)
  BY DEF Holds
<1> HIDE DEF least
<1>4. OnlyIn(h, f, b, d) /\ Holds(f, o, Data(h), len)
  BY <1>2, <1>3, Filled
<1> HIDE DEF f
<1>5. /\ Headed(f, d)
      /\ \A q \in Owner, k \in DOMAIN d : \A n \in Nat :
           k # h /\ n <= d[k].size /\ Holds(b, q, Data(k), n) => Holds(f, q, Data(k), n)
  BY <1>4, OthersStay
<1>6. block = Block(Data(h), len)
  OBVIOUS
<1> HIDE DEF block
<1>7. /\ Headed(w, d)
      /\ \A q \in Owner, k \in DOMAIN d : \A n \in Nat :
           q # o /\ n <= d[k].size /\ Holds(f, q, Data(k), n) => Holds(w, q, Data(k), n)
      /\ \A k \in DOMAIN d : \A n \in Nat :
           block = Block(Data(k), n) /\ n <= d[k].size /\ Holds(f, o, Data(k), n)
             => Holds(w, o, Data(k), n)
  BY <1>1, <1>5, OthersRemember
<1> QED
  BY <1>4, <1>5, <1>6, <1>7

-----------------------------------------------------------------------------
(* The calls                                                                *)

\* One user gets a block in the chunk h, and leaves the one it had, if any.
LEMMA BlockPlaced ==
  ASSUME NEW c, NEW d, NEW w, NEW H, NEW G, NEW o \in Owner,
         DOMAIN H = Owner, Placed(c, H), Owned(c, H),
         NEW h \in UsedChunks(d), h \in Nat, NEW len \in Nat, len <= d[h].size,
         DOMAIN G = Owner, G[o] = Block(Data(h), len),
         \A q \in Owner : q # o => G[q] = H[q],
         Holds(w, o, Data(h), len),
         \A q \in Owner : q # o /\ H[q] # NoBlock =>
           /\ ChunkOf(H[q]) \in UsedChunks(d) /\ ChunkOf(H[q]) # h
           /\ H[q].len <= d[ChunkOf(H[q])].size
           /\ Holds(w, q, H[q].ptr, H[q].len),
         \A k \in UsedChunks(d) : k # h =>
           k \in UsedChunks(c) /\ (H[o] # NoBlock => ChunkOf(H[o]) # k)
  PROVE  Placed(d, G) /\ Owned(d, G) /\ AllHold(w, G)
<1>1. Data(h) \in Nat /\ Data(h) - HeaderSize = h
  BY Sizes DEF Data
<1>2. G[o].ptr = Data(h) /\ G[o].len = len
  BY DEF Block
<1>3. IsBlock(G[o]) /\ ChunkOf(G[o]) = h
  BY <1>1, <1>2 DEF IsBlock, ChunkOf
<1>4. Placed(d, G)
  <2> SUFFICES ASSUME NEW q \in Owner, G[q] # NoBlock
               PROVE  /\ IsBlock(G[q]) /\ ChunkOf(G[q]) \in UsedChunks(d)
                      /\ G[q].len <= d[ChunkOf(G[q])].size
    BY DEF Placed
  <2>1. CASE q = o
    BY <1>2, <1>3, <2>1
  <2>2. CASE q # o
    <3>1. G[q] = H[q] /\ IsBlock(H[q])
      BY <2>2 DEF Placed
    <3> QED
      BY <2>2, <3>1
  <2> QED
    BY <2>1, <2>2
<1>5. \A k \in UsedChunks(d) : \E q \in Owner : G[q] # NoBlock /\ ChunkOf(G[q]) = k
  <2> SUFFICES ASSUME NEW k \in UsedChunks(d)
               PROVE  \E q \in Owner : G[q] # NoBlock /\ ChunkOf(G[q]) = k
    OBVIOUS
  <2>1. CASE k = h
    <3>1. G[o] \in [ptr : Int, len : Int]
      BY <1>1 DEF Block
    <3>2. G[o] # NoBlock
      BY <3>1, BytesAssumption
    <3> QED
      BY <1>3, <2>1, <3>2
  <2>2. CASE k # h
    <3>1. k \in UsedChunks(c) /\ (H[o] # NoBlock => ChunkOf(H[o]) # k)
      BY <2>2
    <3>2. PICK q \in Owner : H[q] # NoBlock /\ ChunkOf(H[q]) = k
      BY <3>1 DEF Owned
    <3>3. q # o
      BY <3>1, <3>2
    <3> QED
      BY <3>2, <3>3
  <2> QED
    BY <2>1, <2>2
<1>6. \A p, q \in Owner :
        G[p] # NoBlock /\ G[q] # NoBlock /\ ChunkOf(G[p]) = ChunkOf(G[q]) => p = q
  <2>1. \A q \in Owner : q # o /\ G[q] # NoBlock => ChunkOf(G[q]) # h
    OBVIOUS
  <2>2. \A p, q \in Owner :
          H[p] # NoBlock /\ H[q] # NoBlock /\ ChunkOf(H[p]) = ChunkOf(H[q]) => p = q
    BY DEF Owned
  <2> QED
    BY <1>3, <2>1, <2>2
<1>7. AllHold(w, G)
  BY <1>2 DEF AllHold
<1> QED
  BY <1>4, <1>5, <1>6, <1>7 DEF Owned

\* What the invariant says of a user's block.
LEMMA BlockOf ==
  ASSUME NEW c, NEW H, Tiles(c), Placed(c, H), NEW o \in Owner, H[o] # NoBlock
  PROVE  /\ ChunkOf(H[o]) \in UsedChunks(c) /\ ChunkOf(H[o]) \in DOMAIN c /\ ChunkOf(H[o]) \in Nat
         /\ H[o] = Block(H[o].ptr, H[o].len) /\ H[o].ptr = Data(ChunkOf(H[o]))
         /\ H[o].ptr \in Int /\ H[o].len \in Nat /\ H[o].len <= c[ChunkOf(H[o])].size
<1>1. /\ IsBlock(H[o]) /\ ChunkOf(H[o]) \in UsedChunks(c)
      /\ H[o].len <= c[ChunkOf(H[o])].size
  BY DEF Placed
<1>2. ChunkOf(H[o]) \in DOMAIN c
  BY <1>1 DEF UsedChunks
<1> QED
  BY <1>1, <1>2, BlockAt, InHeap DEF IsBlock

\* heap_alloc keeps the invariant.
LEMMA AllocStep ==
  ASSUME InlineInv, caller \in Callers,
         NEW o \in Owner, NEW size \in caller.sizes, NEW asked, InlineAlloc(o, size, asked)
  PROVE  InlineInv'
<1> DEFINE r == InlineHeapAlloc(byte, chunk, size, asked)
<1>1. size \in Nat
  BY HeapAssumption
<1>2. /\ held[o] = NoBlock /\ r.ptr # Null
      /\ chunk' = r.chunk
      /\ byte' = Fill(r.byte, o, r.ptr, 0, size)
      /\ held' = [held EXCEPT ![o] = Block(r.ptr, size)]
  BY DEF InlineAlloc
<1>3. /\ Tiles(chunk) /\ Headed(byte, chunk) /\ DOMAIN held = Owner
      /\ Placed(chunk, held) /\ Owned(chunk, held) /\ AllHold(byte, held)
  BY DEF InlineInv
<1>4. r = InlineHeapAlloc(byte, chunk, size, asked)
  OBVIOUS
<1> HIDE DEF r
<1>5. PICK first \in DOMAIN chunk :
        /\ ~ chunk[first].used /\ r.ptr = Data(first)
        /\ Tiles(r.chunk) /\ Headed(r.byte, r.chunk) /\ Beside(r.byte, byte, r.chunk)
        /\ UsedChunks(r.chunk) = UsedChunks(chunk) \cup {first}
        /\ r.chunk[first].size >= size
        /\ \A k \in UsedChunks(chunk) : r.chunk[k].size = chunk[k].size
  BY <1>1, <1>2, <1>3, <1>4, Allocates
<1> DEFINE d == r.chunk
           b == r.byte
           w == Fill(b, o, Data(first), 0, size)
<1>6. first \in UsedChunks(d) /\ first \in DOMAIN d /\ first \in Nat
  BY <1>3, <1>5, InHeap DEF UsedChunks
<1>7. size <= d[first].size
  BY <1>1, <1>5, <1>6, InHeap
<1> HIDE DEF d, b
<1>8. \A i \in 0..(0 - 1) : i < size => b[Data(first) + i] = Stored(o, i)
  OBVIOUS
<1>9. Tiles(d) /\ Headed(b, d) /\ Beside(b, byte, d)
  BY <1>5 DEF d, b
<1>10. OnlyIn(first, w, b, d) /\ Holds(w, o, Data(first), size)
  BY <1>1, <1>6, <1>7, <1>8, <1>9, Filled
<1> HIDE DEF w
<1>11. /\ Headed(w, d)
       /\ \A q \in Owner, k \in DOMAIN d : \A n \in Nat :
            k # first /\ n <= d[k].size /\ Holds(b, q, Data(k), n) => Holds(w, q, Data(k), n)
  BY <1>6, <1>9, <1>10, OthersStay
<1>12. ASSUME NEW q \in Owner, q # o, held[q] # NoBlock
       PROVE  /\ ChunkOf(held[q]) \in UsedChunks(d) /\ ChunkOf(held[q]) # first
              /\ held[q].len <= d[ChunkOf(held[q])].size
              /\ Holds(w, q, held[q].ptr, held[q].len)
  <2> DEFINE k == ChunkOf(held[q])
  <2>1. /\ k \in UsedChunks(chunk) /\ held[q].ptr = Data(k)
        /\ held[q].len \in Nat /\ held[q].len <= chunk[k].size
    BY <1>3, <1>12, BlockOf
  <2> HIDE DEF k
  <2>2. k \in UsedChunks(d) /\ k # first /\ held[q].len <= d[k].size
    BY <1>5, <2>1 DEF UsedChunks, d
  <2>3. k \in DOMAIN d
    BY <2>2 DEF UsedChunks
  <2>4. Holds(byte, q, Data(k), held[q].len)
    BY <1>3, <1>12, <2>1 DEF AllHold
  <2>5. Holds(b, q, Data(k), held[q].len)
    BY <1>9, <2>1, <2>2, <2>3, <2>4, HeldStays
  <2>6. Holds(w, q, Data(k), held[q].len)
    BY <1>11, <2>1, <2>2, <2>3, <2>5
  <2> QED
    BY <2>1, <2>2, <2>6 DEF k
<1>13. \A k \in UsedChunks(d) : k # first =>
         k \in UsedChunks(chunk) /\ (held[o] # NoBlock => ChunkOf(held[o]) # k)
  BY <1>2, <1>5 DEF d
<1>14. /\ DOMAIN held' = Owner /\ held'[o] = Block(Data(first), size)
       /\ \A q \in Owner : q # o => held'[q] = held[q]
  BY <1>2, <1>3, <1>5
<1>15. Placed(d, held') /\ Owned(d, held') /\ AllHold(w, held')
  BY <1>1, <1>3, <1>6, <1>7, <1>10, <1>12, <1>13, <1>14, BlockPlaced
<1>16. chunk' = d /\ byte' = w
  BY <1>2, <1>5 DEF d, b, w
<1>17. Tiles(chunk') /\ Headed(byte', chunk') /\ Placed(chunk', held')
       /\ Owned(chunk', held') /\ AllHold(byte', held')
  BY <1>9, <1>11, <1>15, <1>16
<1> QED
  BY <1>14, <1>17 DEF InlineInv

\* heap_free keeps the invariant.
LEMMA FreeStep ==
  ASSUME InlineInv, NEW o \in Owner, InlineFree(o)
  PROVE  InlineInv'
<1> DEFINE h == ChunkOf(held[o])
           r == InlineHeapFree(byte, chunk, Data(h))
           d == r.chunk
           b == r.byte
           w == Forgotten(b, o, NoBlock)
<1>1. /\ Tiles(chunk) /\ Headed(byte, chunk) /\ DOMAIN held = Owner
      /\ Placed(chunk, held) /\ Owned(chunk, held) /\ AllHold(byte, held)
  BY DEF InlineInv
<1>2. held[o] # NoBlock
  BY DEF InlineFree
<1>3. h \in UsedChunks(chunk) /\ held[o].ptr = Data(h)
  BY <1>1, <1>2, BlockOf
<1>4. chunk' = d /\ byte' = w /\ held' = [held EXCEPT ![o] = NoBlock]
  BY <1>3 DEF InlineFree
<1>5. r = InlineHeapFree(byte, chunk, Data(h))
  OBVIOUS
<1> HIDE DEF r
<1>6. /\ Tiles(d) /\ Headed(b, d) /\ Beside(b, byte, d)
      /\ UsedChunks(d) = UsedChunks(chunk) \ {h}
      /\ \A k \in UsedChunks(chunk) : k # h => d[k].size = chunk[k].size
  BY <1>1, <1>3, <1>5, Frees
<1>7. w = Forgotten(b, o, NoBlock)
  OBVIOUS
<1> HIDE DEF d, b, w
<1>8. /\ Headed(w, d)
      /\ \A q \in Owner, k \in DOMAIN d : \A n \in Nat :
           q # o /\ n <= d[k].size /\ Holds(b, q, Data(k), n) => Holds(w, q, Data(k), n)
  BY <1>6, <1>7, OthersRemember
<1>9. ASSUME NEW q \in Owner, q # o, held[q] # NoBlock
      PROVE  /\ IsBlock(held[q])
             /\ ChunkOf(held[q]) \in UsedChunks(d)
             /\ held[q].len <= d[ChunkOf(held[q])].size
             /\ Holds(w, q, held[q].ptr, held[q].len)
  <2> DEFINE k == ChunkOf(held[q])
  <2>1. /\ k \in UsedChunks(chunk) /\ held[q].ptr = Data(k) /\ IsBlock(held[q])
        /\ held[q].len \in Nat /\ held[q].len <= chunk[k].size
    BY <1>1, <1>9, BlockOf DEF Placed
  <2>2. k # h
    BY <1>1, <1>2, <1>9 DEF Owned
  <2> HIDE DEF k, h
  <2>3. k \in UsedChunks(d) /\ held[q].len <= d[k].size
    BY <1>6, <2>1, <2>2
  <2>4. k \in DOMAIN d
    BY <2>3 DEF UsedChunks
  <2>5. Holds(byte, q, Data(k), held[q].len)
    BY <1>1, <1>9, <2>1 DEF AllHold
  <2>6. Holds(b, q, Data(k), held[q].len)
    BY <1>6, <2>1, <2>3, <2>4, <2>5, HeldStays
  <2>7. Holds(w, q, Data(k), held[q].len)
    BY <1>8, <1>9, <2>1, <2>3, <2>4, <2>6
  <2> QED
    BY <2>1, <2>3, <2>7 DEF k
<1>10. /\ DOMAIN held' = Owner /\ held'[o] = NoBlock
       /\ \A q \in Owner : q # o => held'[q] = held[q]
  BY <1>1, <1>4
<1>11. Placed(d, held') /\ AllHold(w, held')
  BY <1>9, <1>10 DEF Placed, AllHold
<1>12. Owned(d, held')
  <2>1. ASSUME NEW k \in UsedChunks(d)
        PROVE  \E q \in Owner : held'[q] # NoBlock /\ ChunkOf(held'[q]) = k
    <3>1. k \in UsedChunks(chunk) /\ k # h
      BY <1>6
    <3>2. PICK q \in Owner : held[q] # NoBlock /\ ChunkOf(held[q]) = k
      BY <1>1, <3>1 DEF Owned
    <3> QED
      BY <1>10, <3>1, <3>2
  <2>2. \A p, q \in Owner :
          held[p] # NoBlock /\ held[q] # NoBlock /\ ChunkOf(held[p]) = ChunkOf(held[q]) => p = q
    BY <1>1 DEF Owned
  <2> QED
    BY <1>10, <2>1, <2>2 DEF Owned
<1>13. /\ Tiles(chunk') /\ Headed(byte', chunk') /\ Placed(chunk', held')
       /\ Owned(chunk', held') /\ AllHold(byte', held')
  BY <1>4, <1>6, <1>8, <1>11, <1>12
<1> QED
  BY <1>10, <1>13 DEF InlineInv

\* heap_realloc keeps the invariant where the block stays in its chunk, now one of new.
LEMMA StaysStep ==
  ASSUME InlineInv, NEW o \in Owner, held[o] # NoBlock, NEW size \in Nat,
         NEW h \in UsedChunks(chunk), held[o].ptr = Data(h),
         NEW new, Tiles(new), UsedChunks(new) = UsedChunks(chunk), size <= new[h].size,
         \A k \in UsedChunks(chunk) : k # h => new[k].size = chunk[k].size,
         StaysAt(o, size, new)
  PROVE  InlineInv'
<1> DEFINE old == held[o]
           b == Written(byte, new, chunk)
           w == Resized(b, o, old, Data(h), size)
<1>1. /\ Tiles(chunk) /\ Headed(byte, chunk) /\ DOMAIN held = Owner
      /\ Placed(chunk, held) /\ Owned(chunk, held) /\ AllHold(byte, held)
  BY DEF InlineInv
<1>0. h = ChunkOf(old)
  <2>1. h \in Nat /\ Data(h) = h + HeaderSize
    BY <1>1, InHeap DEF UsedChunks
  <2> QED
    BY <2>1, Sizes DEF ChunkOf
<1>2. /\ h \in Nat /\ old = Block(old.ptr, old.len)
      /\ old.ptr = Data(h) /\ old.len \in Nat /\ old.len <= chunk[h].size
  BY <1>1, <1>0, BlockOf
<1>3. h \in DOMAIN chunk /\ h \in UsedChunks(new) /\ h \in DOMAIN new
  BY <1>2 DEF UsedChunks
<1>4. chunk' = new /\ byte' = w /\ held' = [held EXCEPT ![o].len = size]
  BY <1>2 DEF StaysAt
<1>5. Headed(b, new) /\ Beside(b, byte, new)
  BY <1>1, WrittenHeads
<1>6. Least(old.len, size) \in Nat /\ Least(old.len, size) <= new[h].size
  <2>1. new[h].size \in Nat
    BY <1>3, InHeap
  <2> QED
    BY <1>2, <2>1 DEF Least
<1>7. Holds(b, o, Data(h), Least(old.len, size))
  <2>1. Holds(byte, o, Data(h), old.len)
    BY <1>1, <1>2 DEF AllHold
  <2>2. Holds(byte, o, Data(h), Least(old.len, size))
    <3>1. \A i \in 0..(Least(old.len, size) - 1) : i \in 0..(old.len - 1)
      BY <1>2 DEF Least
    <3> QED
      BY <2>1, <3>1 DEF Holds
  <2> QED
    BY <1>3, <1>5, <1>6, <2>2, HeldStays
<1>8. w = Resized(b, o, old, Data(h), size)
  OBVIOUS
<1> HIDE DEF b, w
<1>9. /\ Headed(w, new) /\ Holds(w, o, Data(h), size)
      /\ \A q \in Owner, k \in DOMAIN new : \A n \in Nat :
           q # o /\ k # h /\ n <= new[k].size /\ Holds(b, q, Data(k), n)
             => Holds(w, q, Data(k), n)
  <2> HIDE DEF old
  <2> QED
    BY <1>2, <1>3, <1>5, <1>7, <1>8, ResizedHolds
<1>10. ASSUME NEW q \in Owner, q # o, held[q] # NoBlock
       PROVE  /\ ChunkOf(held[q]) \in UsedChunks(new) /\ ChunkOf(held[q]) # h
              /\ held[q].len <= new[ChunkOf(held[q])].size
              /\ Holds(w, q, held[q].ptr, held[q].len)
  <2> DEFINE k == ChunkOf(held[q])
  <2>1. /\ k \in UsedChunks(chunk) /\ held[q].ptr = Data(k)
        /\ held[q].len \in Nat /\ held[q].len <= chunk[k].size
    BY <1>1, <1>10, BlockOf
  <2>2. k # h
    BY <1>1, <1>0, <1>10 DEF Owned
  <2> HIDE DEF k
  <2>3. k \in UsedChunks(new) /\ k \in DOMAIN new /\ held[q].len <= new[k].size
    BY <2>1, <2>2 DEF UsedChunks
  <2>4. Holds(byte, q, Data(k), held[q].len)
    BY <1>1, <1>10, <2>1 DEF AllHold
  <2>5. Holds(b, q, Data(k), held[q].len)
    BY <1>5, <2>1, <2>3, <2>4, HeldStays
  <2>6. Holds(w, q, Data(k), held[q].len)
    BY <1>9, <1>10, <2>1, <2>2, <2>3, <2>5
  <2> QED
    BY <2>1, <2>2, <2>3, <2>6 DEF k
<1>11. \A k \in UsedChunks(new) : k # h =>
         k \in UsedChunks(chunk) /\ (held[o] # NoBlock => ChunkOf(held[o]) # k)
  BY <1>0
<1>12. /\ DOMAIN held' = Owner /\ held'[o] = Block(Data(h), size)
       /\ \A q \in Owner : q # o => held'[q] = held[q]
  <2>1. held'[o] = [old EXCEPT !.len = size]
    BY <1>1, <1>4
  <2>2. held'[o] = Block(old.ptr, size)
    BY <1>2, <2>1 DEF Block
  <2> QED
    BY <1>1, <1>2, <1>4, <2>2
<1>13. Placed(new, held') /\ Owned(new, held') /\ AllHold(w, held')
  BY <1>1, <1>2, <1>3, <1>9, <1>10, <1>11, <1>12, BlockPlaced
<1>14. /\ Tiles(chunk') /\ Headed(byte', chunk') /\ Placed(chunk', held')
       /\ Owned(chunk', held') /\ AllHold(byte', held')
  BY <1>4, <1>9, <1>13
<1> QED
  BY <1>12, <1>14 DEF InlineInv

\* heap_realloc keeps the invariant where the block moves, and where it cannot.
LEMMA MovesStep ==
  ASSUME InlineInv, NEW o \in Owner, held[o] # NoBlock, NEW size \in Nat, NEW asked,
         NEW h, h = ChunkOf(held[o]),
         NEW grown, grown = Coalesced(byte, chunk, h),
         Moves(o, h, size, asked, grown)
  PROVE  InlineInv'
<1> DEFINE old == held[o]
           ptr == old.ptr
           n == Least(grown[h].size, size)
           b1 == Written(byte, grown, chunk)
           r == InlineHeapAlloc(b1, grown, size, asked)
           b3 == Copied(r.byte, r.ptr, ptr, n)
           f == InlineHeapFree(b3, r.chunk, ptr)
           w == Resized(f.byte, o, old, r.ptr, size)
<1>1. /\ Tiles(chunk) /\ Headed(byte, chunk) /\ DOMAIN held = Owner
      /\ Placed(chunk, held) /\ Owned(chunk, held) /\ AllHold(byte, held)
  BY DEF InlineInv
<1>2. /\ h \in UsedChunks(chunk) /\ h \in DOMAIN chunk /\ h \in Nat
      /\ old = Block(ptr, old.len) /\ ptr \in Int
      /\ ptr = Data(h) /\ old.len \in Nat /\ old.len <= chunk[h].size
  BY <1>1, BlockOf
<1>3. \/ r.ptr = Null /\ chunk' = grown /\ byte' = r.byte /\ UNCHANGED held
      \/ /\ r.ptr # Null /\ chunk' = f.chunk /\ byte' = w
         /\ held' = [held EXCEPT ![o] = Block(r.ptr, size)]
  BY Zenon DEF Moves
<1>4. b1 = Written(byte, grown, chunk) /\ r = InlineHeapAlloc(b1, grown, size, asked)
  OBVIOUS
<1> HIDE DEF b1, r
<1>5. /\ Tiles(grown) /\ h \in DOMAIN grown /\ DOMAIN grown \subseteq DOMAIN chunk
      /\ \A k \in DOMAIN grown : k # h => grown[k] = chunk[k]
      /\ grown[h].size >= chunk[h].size
      /\ UsedChunks(grown) = UsedChunks(chunk)
  BY <1>1, <1>2, CoalescedTiles
<1>6. Headed(b1, grown) /\ Beside(b1, byte, grown)
  BY <1>1, <1>4, <1>5, WrittenHeads
<1>7. Placed(grown, held)
  <2>1. ASSUME NEW q \in Owner, held[q] # NoBlock
        PROVE  /\ ChunkOf(held[q]) \in UsedChunks(grown)
               /\ held[q].len <= grown[ChunkOf(held[q])].size
    <3> DEFINE k == ChunkOf(held[q])
    <3>1. /\ k \in UsedChunks(chunk) /\ k \in DOMAIN chunk
          /\ held[q].len \in Nat /\ held[q].len <= chunk[k].size
      BY <1>1, <2>1, BlockOf
    <3> HIDE DEF k
    <3>2. k \in UsedChunks(grown) /\ k \in DOMAIN grown
      BY <1>5, <3>1 DEF UsedChunks
    <3>3. chunk[k].size \in Nat /\ grown[k].size \in Nat
      BY <1>1, <1>5, <3>1, <3>2, InHeap
    <3>4. held[q].len <= grown[k].size
      BY <1>5, <3>1, <3>2, <3>3
    <3> QED
      BY <3>2, <3>4 DEF k
  <2> QED
    BY <1>1, <2>1, PlacedIn
<1>8. AllHold(b1, held)
  BY <1>1, <1>5, <1>6, <1>7, AllStay
<1>9. \/ r.ptr = Null /\ r.chunk = grown /\ r.byte = b1
      \/ \E first \in DOMAIN grown :
           /\ ~ grown[first].used /\ r.ptr = Data(first)
           /\ Tiles(r.chunk) /\ Headed(r.byte, r.chunk) /\ Beside(r.byte, b1, r.chunk)
           /\ UsedChunks(r.chunk) = UsedChunks(grown) \cup {first}
           /\ r.chunk[first].size >= size
           /\ \A k \in UsedChunks(grown) : r.chunk[k].size = grown[k].size
  BY <1>4, <1>5, <1>6, Allocates
<1>10. CASE r.ptr = Null
  <2>1. r.byte = b1
    <3>1. \A k \in DOMAIN grown : Data(k) # Null
      BY <1>5, InHeap, Sizes DEF Null
    <3> QED
      BY <1>9, <1>10, <3>1
  <2>2. chunk' = grown /\ byte' = b1 /\ held' = held
    BY <1>3, <1>10, <2>1
  <2>3. Owned(grown, held)
    BY <1>1, <1>5 DEF Owned
  <2>4. /\ Tiles(chunk') /\ Headed(byte', chunk') /\ Placed(chunk', held')
        /\ Owned(chunk', held') /\ AllHold(byte', held') /\ DOMAIN held' = Owner
    BY <1>1, <1>5, <1>6, <1>7, <1>8, <2>2, <2>3
  <2> QED
    BY <2>4 DEF InlineInv
<1>11. CASE r.ptr # Null
  <2>1. PICK first \in DOMAIN grown :
          /\ ~ grown[first].used /\ r.ptr = Data(first)
          /\ Tiles(r.chunk) /\ Headed(r.byte, r.chunk) /\ Beside(r.byte, b1, r.chunk)
          /\ UsedChunks(r.chunk) = UsedChunks(grown) \cup {first}
          /\ r.chunk[first].size >= size
          /\ \A k \in UsedChunks(grown) : r.chunk[k].size = grown[k].size
    BY <1>9, <1>11
  <2>2. chunk' = f.chunk /\ byte' = w /\ held' = [held EXCEPT ![o] = Block(Data(first), size)]
    BY <1>3, <1>11, <2>1
  <2> DEFINE c2 == r.chunk
             b2 == r.byte
             d == f.chunk
             b4 == f.byte
  <2>3. /\ Tiles(c2) /\ Headed(b2, c2) /\ Beside(b2, b1, c2)
        /\ UsedChunks(c2) = UsedChunks(grown) \cup {first}
        /\ c2[first].size >= size
        /\ \A k \in UsedChunks(grown) : c2[k].size = grown[k].size
    BY <2>1
  <2>4. /\ b3 = Copied(b2, Data(first), ptr, n)
        /\ f = InlineHeapFree(b3, c2, Data(h))
        /\ w = Resized(b4, o, old, Data(first), size)
    BY <1>2, <2>1
  <2> HIDE DEF c2, b2, b3, f, w
  <2>5. /\ first \in UsedChunks(c2) /\ first \in DOMAIN c2 /\ first \in Nat
        /\ first # h /\ first \notin UsedChunks(grown) /\ h \in UsedChunks(c2)
    BY <1>2, <1>5, <2>1, <2>3, InHeap DEF UsedChunks
  <2>6. /\ chunk[h].size \in Nat /\ grown[h].size \in Nat /\ c2[first].size \in Nat
    BY <1>1, <1>2, <1>5, <2>3, <2>5, InHeap
  <2>7. n \in Nat /\ n <= c2[first].size /\ Least(old.len, size) \in Nat /\ Least(old.len, size) <= n
    BY <1>2, <1>5, <2>3, <2>6 DEF Least
  <2> HIDE DEF n
  <2>8. Placed(c2, held)
    <3>1. ASSUME NEW q \in Owner, held[q] # NoBlock
          PROVE  /\ ChunkOf(held[q]) \in UsedChunks(c2)
                 /\ held[q].len <= c2[ChunkOf(held[q])].size
      BY <1>7, <2>3, <3>1 DEF Placed
    <3> QED
      BY <1>7, <3>1, PlacedIn
  <2>9. AllHold(b2, held)
    BY <1>8, <2>3, <2>8, AllStay
  <2>10. Holds(b2, o, ptr, Least(old.len, size))
    <3>1. Holds(b2, o, ptr, old.len)
      BY <2>9 DEF AllHold
    <3>2. \A i \in 0..(Least(old.len, size) - 1) : i \in 0..(old.len - 1)
      BY <1>2 DEF Least
    <3> QED
      BY <3>1, <3>2 DEF Holds
  <2>11. OnlyIn(first, b3, b2, c2) /\ Holds(b3, o, Data(first), Least(old.len, size))
    BY <1>2, <2>3, <2>4, <2>5, <2>7, <2>10, CopiedIn
  <2>12. /\ Headed(b3, c2)
         /\ \A q \in Owner, k \in DOMAIN c2 : \A m \in Nat :
              k # first /\ m <= c2[k].size /\ Holds(b2, q, Data(k), m)
                => Holds(b3, q, Data(k), m)
    BY <2>3, <2>5, <2>11, OthersStay
  <2>13. /\ Tiles(d) /\ Headed(b4, d) /\ Beside(b4, b3, d)
         /\ UsedChunks(d) = UsedChunks(c2) \ {h}
         /\ \A k \in UsedChunks(c2) : k # h => d[k].size = c2[k].size
    BY <2>3, <2>4, <2>5, <2>12, Frees
  <2> HIDE DEF d, b4
  <2>14. first \in UsedChunks(d) /\ first \in DOMAIN d /\ size <= d[first].size
    BY <2>3, <2>5, <2>6, <2>13 DEF UsedChunks
  <2>15. Least(old.len, size) <= d[first].size
    BY <2>5, <2>6, <2>7, <2>13
  <2>16. Holds(b4, o, Data(first), Least(old.len, size))
    BY <2>7, <2>11, <2>13, <2>14, <2>15, HeldStays
  <2>17. /\ Headed(w, d) /\ Holds(w, o, Data(first), size)
         /\ \A q \in Owner, k \in DOMAIN d : \A m \in Nat :
              q # o /\ k # first /\ m <= d[k].size /\ Holds(b4, q, Data(k), m)
                => Holds(w, q, Data(k), m)
    <3> HIDE DEF old
    <3> QED
      BY <1>2, <2>4, <2>13, <2>14, <2>16, ResizedHolds
  <2>18. ASSUME NEW q \in Owner, q # o, held[q] # NoBlock
         PROVE  /\ ChunkOf(held[q]) \in UsedChunks(d) /\ ChunkOf(held[q]) # first
                /\ held[q].len <= d[ChunkOf(held[q])].size
                /\ Holds(w, q, held[q].ptr, held[q].len)
    <3> DEFINE k == ChunkOf(held[q])
    <3>1. k \in UsedChunks(chunk)
      BY <1>1, <2>18, BlockOf
    <3>2. /\ k \in UsedChunks(c2) /\ k \in DOMAIN c2 /\ held[q].ptr = Data(k)
          /\ held[q].len \in Nat /\ held[q].len <= c2[k].size
      BY <2>3, <2>8, <2>18, BlockOf
    <3>3. k # h /\ k # first
      BY <1>1, <1>5, <2>5, <2>18, <3>1 DEF Owned
    <3> HIDE DEF k
    <3>4. k \in UsedChunks(d) /\ k \in DOMAIN d /\ held[q].len <= d[k].size
      BY <2>13, <3>2, <3>3 DEF UsedChunks
    <3>5. Holds(b2, q, Data(k), held[q].len)
      BY <2>9, <2>18, <3>2 DEF AllHold
    <3>6. Holds(b3, q, Data(k), held[q].len)
      BY <2>12, <3>2, <3>3, <3>5
    <3>7. Holds(b4, q, Data(k), held[q].len)
      BY <2>13, <3>2, <3>4, <3>6, HeldStays
    <3>8. Holds(w, q, Data(k), held[q].len)
      BY <2>17, <2>18, <3>2, <3>3, <3>4, <3>7
    <3> QED
      BY <3>2, <3>3, <3>4, <3>8 DEF k
  <2>19. \A k \in UsedChunks(d) : k # first =>
           k \in UsedChunks(chunk) /\ (held[o] # NoBlock => ChunkOf(held[o]) # k)
    BY <1>5, <2>3, <2>13
  <2>20. /\ DOMAIN held' = Owner /\ held'[o] = Block(Data(first), size)
         /\ \A q \in Owner : q # o => held'[q] = held[q]
    BY <1>1, <2>2
  <2>21. Placed(d, held') /\ Owned(d, held') /\ AllHold(w, held')
    BY <1>1, <2>5, <2>14, <2>17, <2>18, <2>19, <2>20, BlockPlaced
  <2>22. chunk' = d /\ byte' = w
    BY <2>2 DEF d, b4
  <2>23. /\ Tiles(chunk') /\ Headed(byte', chunk') /\ Placed(chunk', held')
         /\ Owned(chunk', held') /\ AllHold(byte', held')
    BY <2>13, <2>17, <2>21, <2>22
  <2> QED
    BY <2>20, <2>23 DEF InlineInv
<1> QED
  BY <1>10, <1>11

\* heap_realloc keeps the invariant.
LEMMA ReallocStep ==
  ASSUME InlineInv, caller \in Callers,
         NEW o \in Owner, NEW size \in caller.resizes, NEW asked, InlineRealloc(o, size, asked)
  PROVE  InlineInv'
<1>1. size \in Nat /\ held[o] # NoBlock
  BY HeapAssumption DEF InlineRealloc
<1>2. /\ Tiles(chunk) /\ Headed(byte, chunk)
      /\ Placed(chunk, held) /\ Owned(chunk, held) /\ AllHold(byte, held)
  BY DEF InlineInv
<1> DEFINE h == ChunkOf(held[o])
<1>3. h \in UsedChunks(chunk) /\ h \in DOMAIN chunk /\ held[o].ptr = Data(h)
  BY <1>1, <1>2, BlockOf
<1>4. ChunksFor(byte, chunk, held[o].ptr) = {h}
  BY <1>2, <1>3, ChunkFound
<1> DEFINE grown == Coalesced(byte, chunk, h)
<1>5. \/ size <= chunk[h].size /\ StaysAt(o, size, Split(chunk, h, size))
      \/ grown[h].size >= size /\ StaysAt(o, size, Split(grown, h, size))
      \/ Moves(o, h, size, asked, grown)
  <2> HIDE DEF h
  <2> QED
    BY <1>4 DEF InlineRealloc
<1>6. grown = Coalesced(byte, chunk, h) /\ h = ChunkOf(held[o])
  OBVIOUS
<1> HIDE DEF grown, h
<1>7. /\ Tiles(grown) /\ h \in DOMAIN grown
      /\ \A k \in DOMAIN grown : k # h => grown[k] = chunk[k]
      /\ UsedChunks(grown) = UsedChunks(chunk)
  BY <1>2, <1>3, <1>6, CoalescedTiles
<1>8. CASE size <= chunk[h].size /\ StaysAt(o, size, Split(chunk, h, size))
  <2> DEFINE new == Split(chunk, h, size)
  <2>1. /\ Tiles(new)
        /\ \A k \in DOMAIN chunk : k # h => new[k] = chunk[k]
        /\ new[h].size >= size /\ UsedChunks(new) = UsedChunks(chunk)
    BY <1>1, <1>2, <1>3, <1>8, SplitTiles
  <2>2. StaysAt(o, size, new)
    BY <1>8
  <2> HIDE DEF new
  <2>3. h \in DOMAIN new
    BY <1>3, <2>1 DEF UsedChunks
  <2>4. size <= new[h].size
    BY <1>1, <2>1, <2>3, InHeap
  <2>5. \A k \in UsedChunks(chunk) : k # h => new[k].size = chunk[k].size
    BY <2>1 DEF UsedChunks
  <2> QED
    BY <1>1, <1>3, <2>1, <2>2, <2>4, <2>5, StaysStep
<1>9. CASE grown[h].size >= size /\ StaysAt(o, size, Split(grown, h, size))
  <2> DEFINE new == Split(grown, h, size)
  <2>1. size <= grown[h].size
    BY <1>1, <1>7, <1>9, InHeap
  <2>2. /\ Tiles(new)
        /\ \A k \in DOMAIN grown : k # h => new[k] = grown[k]
        /\ new[h].size >= size /\ UsedChunks(new) = UsedChunks(grown)
    BY <1>1, <1>7, <2>1, SplitTiles
  <2>3. StaysAt(o, size, new)
    BY <1>9
  <2> HIDE DEF new
  <2>4. h \in DOMAIN new /\ UsedChunks(new) = UsedChunks(chunk)
    BY <1>3, <1>7, <2>2 DEF UsedChunks
  <2>5. size <= new[h].size
    BY <1>1, <2>2, <2>4, InHeap
  <2>6. ASSUME NEW k \in UsedChunks(chunk), k # h
        PROVE  new[k].size = chunk[k].size
    <3>1. k \in DOMAIN grown
      BY <1>7 DEF UsedChunks
    <3> QED
      BY <1>7, <2>2, <2>6, <3>1
  <2> QED
    BY <1>1, <1>3, <2>2, <2>3, <2>4, <2>5, <2>6, StaysStep
<1>10. CASE Moves(o, h, size, asked, grown)
  BY <1>1, <1>6, <1>10, MovesStep
<1> QED
  BY <1>5, <1>8, <1>9, <1>10

-----------------------------------------------------------------------------
(* The theorems                                                             *)

\* The heap starts as one free chunk.
LEMMA InlineStart ==
  ASSUME InlineInit
  PROVE  InlineInv
<1> DEFINE all == Chunk(HeapCapacity - HeaderSize, FALSE, MaxAlignment)
<1>1. /\ held = [o \in Owner |-> NoBlock]
      /\ chunk = [h \in {HeapStart} |-> all]
      /\ byte = [a \in HeapStart..LastAddress |-> IF a \in HeaderBytes(HeapStart) THEN Header ELSE Junk]
  BY DEF InlineInit, BlocksInit
<1>2. all = Chunk(HeapCapacity - HeaderSize, FALSE, MaxAlignment)
  OBVIOUS
<1> HIDE DEF all
<1>3. DOMAIN chunk = {HeapStart} /\ chunk[HeapStart] = all
  BY <1>1
<1>4. all.size = HeapCapacity - HeaderSize /\ all.used = FALSE /\ all.align = MaxAlignment
  BY <1>2 DEF Chunk
<1>5. HeapCapacity - HeaderSize \in Nat
  BY HeapAssumption, InlineAssumption DEF HeaderSize
<1>6. IsChunk(all)
  BY <1>2, <1>4, <1>5 DEF IsChunk
<1>7. NextChunk(chunk, HeapStart) = HeapEnd
  BY <1>3, <1>4, <1>5, Sizes, HeapAssumption DEF NextChunk, Data, HeapEnd
<1>8. Tiles(chunk)
  BY <1>3, <1>6, <1>7, Sizes DEF Tiles
<1>9. Headed(byte, chunk)
  <2>1. \A a \in HeaderBytes(HeapStart) : a \in HeapStart..LastAddress
    BY <1>3, <1>8, InChunk
  <2> QED
    BY <1>1, <1>3, <2>1 DEF Headed, Valid
<1>10. UsedChunks(chunk) = {}
  BY <1>3, <1>4 DEF UsedChunks
<1> QED
  BY <1>1, <1>8, <1>9, <1>10 DEF InlineInv, Placed, Owned, AllHold

\* The invariant holds at first, and every call keeps it.
THEOREM InlineInvariant == MemSpec => []MemInv
<1>1. MemInit => MemInv
  <2> SUFFICES ASSUME MemInit, caller.build = "inline"
               PROVE  InlineInv /\ caller \in Callers
    BY DEF MemInv
  <2>1. InlineInit
    BY DEF MemInit
  <2> QED
    BY <2>1, InlineStart DEF InlineInit, BlocksInit
<1>2. MemInv /\ [MemNext]_memVars => MemInv'
  <2> SUFFICES ASSUME MemInv, [MemNext]_memVars, (caller.build = "inline")'
               PROVE  InlineInv' /\ (caller \in Callers)'
    BY DEF MemInv
  <2>1. CASE caller.build = "inline" /\ InlineNext
    <3>1. InlineInv /\ caller \in Callers
      BY <2>1 DEF MemInv
    <3>2. PICK o \in Owner :
            \/ \E size \in caller.sizes, align \in caller.alignments : InlineAlloc(o, size, align)
            \/ \E size \in caller.resizes, align \in caller.alignments : InlineRealloc(o, size, align)
            \/ InlineFree(o)
      BY <2>1 DEF InlineNext
    <3>3. CASE \E size \in caller.sizes, align \in caller.alignments : InlineAlloc(o, size, align)
      <4>1. PICK size \in caller.sizes, align \in caller.alignments : InlineAlloc(o, size, align)
        BY <3>3
      <4>2. caller' = caller
        BY <4>1 DEF InlineAlloc
      <4> QED
        BY <3>1, <4>1, <4>2, AllocStep
    <3>4. CASE \E size \in caller.resizes, align \in caller.alignments :
                 InlineRealloc(o, size, align)
      <4>1. PICK size \in caller.resizes, align \in caller.alignments :
              InlineRealloc(o, size, align)
        BY <3>4
      <4>2. caller' = caller
        BY <4>1 DEF InlineRealloc
      <4> QED
        BY <3>1, <4>1, <4>2, ReallocStep
    <3>5. CASE InlineFree(o)
      <4>1. caller' = caller
        BY <3>5 DEF InlineFree
      <4> QED
        BY <3>1, <3>5, <4>1, FreeStep
    <3> QED
      BY <3>2, <3>3, <3>4, <3>5
  <2>2. CASE caller.build = "segmented" /\ SegNext
    <3>1. caller' = caller
      BY <2>2 DEF SegNext, SegAlloc, SegFree, SegRealloc
    <3> QED
      BY <2>2, <3>1
  <2>3. CASE UNCHANGED memVars
    <3>1. /\ caller' = caller /\ chunk' = chunk /\ byte' = byte /\ held' = held
      BY <2>3 DEF memVars
    <3>2. InlineInv /\ caller \in Callers
      BY <3>1 DEF MemInv
    <3> QED
      BY <3>1, <3>2 DEF InlineInv
  <2> QED
    BY <2>1, <2>2, <2>3 DEF MemNext
<1> QED
  BY <1>1, <1>2, PTL DEF MemSpec

\* There are as many users with a block as used chunks.
LEMMA AsManyAsUsed ==
  ASSUME InlineInv
  PROVE  Cardinality(Holders) = Cardinality(UsedChunks(chunk))
<1> DEFINE U == UsedChunks(chunk)
           f == [o \in Holders |-> ChunkOf(held[o])]
<1>1. Tiles(chunk) /\ Placed(chunk, held) /\ Owned(chunk, held)
  BY DEF InlineInv
<1>2. IsFiniteSet(U)
  <2>1. U \in SUBSET Nat /\ \A h \in U : h <= HeapEnd
    BY <1>1, InHeap, Sizes DEF UsedChunks, Tiles
  <2> HIDE DEF U
  <2> QED
    BY <2>1, Sizes, FS_BoundedSetOfNaturals
<1>3. f \in Injection(Holders, U)
  <2>1. f \in [Holders -> U]
    BY <1>1 DEF Holders, Placed
  <2>2. \A p, q \in Holders : f[p] = f[q] => p = q
    BY <1>1 DEF Holders, Owned
  <2> QED
    BY <2>1, <2>2 DEF Injection, IsInjective
<1>4. f \in Surjection(Holders, U)
  <2>1. f \in [Holders -> U]
    BY <1>1 DEF Holders, Placed
  <2>2. \A h \in U : \E o \in Holders : f[o] = h
    BY <1>1 DEF Holders, Owned
  <2> QED
    BY <2>1, <2>2 DEF Surjection
<1> HIDE DEF U, f
<1>5. Cardinality(Holders) = Cardinality(U)
  BY <1>2, <1>3, <1>4, FS_Injection
<1> QED
  BY <1>5 DEF U

\* The chunks of the inline allocator tile its heap, each used one under one block, also
\* after a heap_realloc that absorbed a chunk and then moved or failed: no memory is lost.
THEOREM HeapStaysTiled == MemSpec => []ChunksTile
<1>1. MemInv => ChunksTile
  <2> SUFFICES ASSUME InlineInv
               PROVE  Tiled
    BY DEF MemInv, ChunksTile
  <2>1. /\ Tiles(chunk) /\ Headed(byte, chunk) /\ Placed(chunk, held) /\ Owned(chunk, held)
    BY DEF InlineInv
  <2>2. \A h \in DOMAIN chunk :
          /\ NextChunk(chunk, h) \in DOMAIN chunk \cup {HeapEnd}
          /\ chunk[h].size >= 0 /\ Valid(byte, h)
    BY <2>1, InHeap DEF Tiles, Headed
  <2>3. \A h, k \in DOMAIN chunk : ~ (h < k /\ k < NextChunk(chunk, h))
    BY <2>1, InHeap DEF Tiles
  <2>4. \A o \in Holders : \E h \in DOMAIN chunk :
          /\ chunk[h].used /\ Data(h) = held[o].ptr /\ held[o].len <= chunk[h].size
          /\ \A q \in Holders \ {o} : held[q].ptr # held[o].ptr
    <3> SUFFICES ASSUME NEW o \in Owner, held[o] # NoBlock
                 PROVE  \E h \in DOMAIN chunk :
                          /\ chunk[h].used /\ Data(h) = held[o].ptr
                          /\ held[o].len <= chunk[h].size
                          /\ \A q \in Holders \ {o} : held[q].ptr # held[o].ptr
      BY DEF Holders
    <3>1. /\ ChunkOf(held[o]) \in UsedChunks(chunk) /\ held[o].ptr = Data(ChunkOf(held[o]))
          /\ held[o].len <= chunk[ChunkOf(held[o])].size
      BY <2>1, BlockOf
    <3>2. \A q \in Holders \ {o} : held[q].ptr # held[o].ptr
      BY <2>1 DEF Owned, Holders, ChunkOf
    <3> QED
      BY <3>1, <3>2 DEF UsedChunks
  <2>5. Cardinality(Holders) = Cardinality({h \in DOMAIN chunk : chunk[h].used})
    BY AsManyAsUsed DEF UsedChunks
  <2> QED
    BY <2>1, <2>2, <2>3, <2>4, <2>5 DEF Tiled, Tiles
<1> QED
  BY <1>1, InlineInvariant, PTL

\* Built with the inline allocator, whatever its users allocate, resize and free, in any
\* order and with any sizes and alignments, a block holds the bytes its user stored in it.
THEOREM InlineKeepsBytes == MemSpec => [](caller.build = "inline" => Kept)
<1>1. MemInv => (caller.build = "inline" => Kept)
  <2> SUFFICES ASSUME InlineInv
               PROVE  Kept
    BY DEF MemInv
  <2>1. /\ Tiles(chunk) /\ Headed(byte, chunk) /\ Placed(chunk, held) /\ AllHold(byte, held)
    BY DEF InlineInv
  <2> SUFFICES ASSUME NEW o \in Owner, held[o] # NoBlock, NEW i \in 0..(held[o].len - 1)
               PROVE  /\ held[o].ptr + i \in DOMAIN byte
                      /\ byte[held[o].ptr + i] = Stored(o, i)
    BY DEF Kept, Holders
  <2> DEFINE h == ChunkOf(held[o])
  <2>2. /\ h \in DOMAIN chunk /\ held[o].ptr = Data(h)
        /\ held[o].len \in Nat /\ held[o].len <= chunk[h].size
    BY <2>1, BlockOf
  <2> HIDE DEF h
  <2>3. Data(h) + i \in Data(h)..(NextChunk(chunk, h) - 1)
    BY <2>1, <2>2, InHeap
  <2>4. Data(h) + i \in DOMAIN byte
    BY <2>1, <2>2, <2>3, InChunk DEF Headed
  <2> QED
    BY <2>1, <2>2, <2>4 DEF AllHold, Holds
<1> QED
  BY <1>1, InlineInvariant, PTL

=============================================================================
