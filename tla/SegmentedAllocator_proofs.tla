----------------------- MODULE SegmentedAllocator_proofs -----------------------
(***************************************************************************)
(* The segmented allocator, for any heap, bins, tables and callers.          *)
(*                                                                         *)
(* Its tables lose no memory, if blocks are never split from their padding.   *)
(* The searches and defragment_heap are loops, so the first part is about    *)
(* what a loop keeps and when it has ended; then come what the operations on *)
(* tables do to their order, their chunks and the bytes they count; then the *)
(* calls, each one for its tables.                                           *)
(*                                                                         *)
(* It hands out no memory twice, if it is used regularly.  The second part,   *)
(* from multiples on, takes the same way, with what the operations on tables  *)
(* do to where chunks lie, and so to blocks and their bytes.                  *)
(***************************************************************************)
EXTENDS InlineAllocator_proofs, SequenceTheorems

-----------------------------------------------------------------------------
(* Loops                                                                    *)

\* Of some numbers up to n, one is the last.
LEMMA LastOf ==
  ASSUME NEW n \in Nat, NEW S \in SUBSET (0..n), S # {}
  PROVE  \E h \in S : \A k \in S : k <= h
<1> DEFINE T == {m \in Nat : m <= n /\ n - m \in S}
<1>1. T \in SUBSET Nat /\ T # {}
  <2>1. PICK k \in S : TRUE
    OBVIOUS
  <2>2. n - k \in T
    BY <2>1
  <2> QED
    BY <2>2
<1> HIDE DEF T
<1>2. PICK m \in T : \A k \in T : m <= k
  BY <1>1, FirstOf
<1>3. n - m \in S
  BY <1>2 DEF T
<1>4. \A k \in S : n - k \in T
  BY DEF T
<1>5. \A k \in S : k <= n - m
  BY <1>1, <1>2, <1>4
<1> QED
  BY <1>3, <1>5

\* f holds what a loop makes of v0 in each of its first n turns, as long as that is in V.
Loop(f, v0, F, V, n) == /\ f[0] = v0
                        /\ \A k \in 1..n : f[k - 1] \in V => f[k] = F[f[k - 1]]

\* What a turn of a loop keeps, the loop keeps.
LEMMA LoopKeeps ==
  ASSUME NEW V, NEW v0 \in V, NEW F \in [V -> V], NEW n \in Nat, NEW f, Loop(f, v0, F, V, n)
  PROVE  \A k \in 0..n : f[k] \in V
<1> DEFINE S == {k \in Nat : k <= n /\ f[k] \notin V}
<1> SUFFICES ASSUME S # {} PROVE FALSE
  OBVIOUS
<1>1. S \in SUBSET Nat
  OBVIOUS
<1>2. PICK k \in S : \A h \in S : k <= h
  <2> HIDE DEF S
  <2> QED
    BY <1>1, FirstOf
<1>3. k \in Nat /\ k <= n /\ f[k] \notin V
  BY <1>2
<1>4. k # 0
  BY <1>3 DEF Loop
<1>5. k - 1 \in Nat /\ k - 1 <= n /\ ~ (k <= k - 1) /\ k \in 1..n
  BY <1>3, <1>4
<1>6. f[k - 1] \in V
  BY <1>2, <1>5
<1> QED
  BY <1>3, <1>5, <1>6 DEF Loop

\* There is such an f.
LEMMA LoopRuns ==
  ASSUME NEW V, NEW v0 \in V, NEW F \in [V -> V], NEW n \in Nat
  PROVE  \E f \in [0..n -> V] : Loop(f, v0, F, V, n)
<1> DEFINE Runs(m) == \E f \in [0..m -> V] : Loop(f, v0, F, V, m)
           S == {m \in Nat : ~ Runs(m)}
<1> SUFFICES ASSUME S # {} PROVE FALSE
  OBVIOUS
<1>1. S \in SUBSET Nat
  OBVIOUS
<1>2. PICK m \in S : \A k \in S : m <= k
  <2> HIDE DEF S
  <2> QED
    BY <1>1, FirstOf
<1>3. m \in Nat /\ ~ Runs(m)
  BY <1>2
<1>4. m # 0
  <2> DEFINE f == [i \in 0..0 |-> v0]
  <2>1. f \in [0..0 -> V] /\ f[0] = v0 /\ \A k \in 1..0 : FALSE
    OBVIOUS
  <2> HIDE DEF f
  <2>2. Loop(f, v0, F, V, 0)
    BY <2>1 DEF Loop
  <2> QED
    BY <1>3, <2>1, <2>2
<1>5. m - 1 \in Nat /\ ~ (m <= m - 1)
  BY <1>3, <1>4
<1>6. PICK g \in [0..(m - 1) -> V] : Loop(g, v0, F, V, m - 1)
  <2>1. Runs(m - 1)
    <3> HIDE DEF Runs
    <3> QED
      BY <1>2, <1>5
  <2> QED
    BY <2>1
<1> DEFINE h == [i \in 0..m |-> IF i = m THEN F[g[m - 1]] ELSE g[i]]
<1>7. m - 1 \in 0..(m - 1) /\ 0 \in 0..(m - 1) /\ \A i \in 0..m : i = m \/ i \in 0..(m - 1)
  BY <1>3, <1>5
<1>8. h \in [0..m -> V]
  BY <1>7
<1>9. \A k \in 1..m : h[k] = F[h[k - 1]]
  <2> SUFFICES ASSUME NEW k \in 1..m PROVE h[k] = F[h[k - 1]]
    OBVIOUS
  <2>1. k \in 0..m /\ k - 1 \in 0..m /\ k - 1 # m /\ k - 1 \in 0..(m - 1)
    BY <1>3
  <2>2. h[k - 1] = g[k - 1]
    BY <2>1
  <2>3. CASE k = m
    BY <2>1, <2>2, <2>3
  <2>4. CASE k # m
    <3>1. k \in 1..(m - 1)
      BY <1>3, <2>4
    <3>2. g[k] = F[g[k - 1]]
      BY <1>6, <2>1, <3>1 DEF Loop
    <3> QED
      BY <2>1, <2>2, <2>4, <3>2
  <2> QED
    BY <2>3, <2>4
<1>10. h[0] = v0
  BY <1>3, <1>4, <1>6, <1>7 DEF Loop
<1> HIDE DEF h
<1>11. Loop(h, v0, F, V, m)
  BY <1>9, <1>10 DEF Loop
<1> QED
  BY <1>3, <1>8, <1>11

\* A loop that comes nearer to its end in each turn has ended after enough turns.
LEMMA LoopEnds ==
  ASSUME NEW V, NEW v0 \in V, NEW F \in [V -> V], NEW n \in Nat, NEW f, Loop(f, v0, F, V, n),
         NEW left \in [V -> Nat], left[v0] <= n,
         \A x \in V : left[F[x]] < left[x] \/ left[F[x]] = 0
  PROVE  left[f[n]] = 0
<1>1. \A k \in 0..n : f[k] \in V
  BY LoopKeeps
<1> DEFINE S == {k \in Nat : k <= n /\ ~ (left[f[k]] = 0 \/ left[f[k]] + k <= left[v0])}
<1>2. S = {}
  <2> SUFFICES ASSUME S # {} PROVE FALSE
    OBVIOUS
  <2>1. S \in SUBSET Nat
    OBVIOUS
  <2>2. PICK k \in S : \A h \in S : k <= h
    <3> HIDE DEF S
    <3> QED
      BY <2>1, FirstOf
  <2>3. k \in Nat /\ k <= n /\ ~ (left[f[k]] = 0 \/ left[f[k]] + k <= left[v0])
    BY <2>2
  <2>4. k # 0
    <3>1. left[v0] \in Nat
      OBVIOUS
    <3> QED
      BY <2>3, <3>1 DEF Loop
  <2>5. k - 1 \in Nat /\ k - 1 <= n /\ ~ (k <= k - 1) /\ k \in 1..n /\ k - 1 \in 0..n
    BY <2>3, <2>4
  <2>6. left[f[k - 1]] = 0 \/ left[f[k - 1]] + (k - 1) <= left[v0]
    BY <2>2, <2>5
  <2>7. f[k - 1] \in V /\ f[k] = F[f[k - 1]]
    BY <1>1, <2>5 DEF Loop
  <2>8. left[f[k]] < left[f[k - 1]] \/ left[f[k]] = 0
    BY <2>7
  <2>9. left[f[k]] \in Nat /\ left[f[k - 1]] \in Nat /\ left[v0] \in Nat
    BY <1>1, <2>3, <2>5, <2>7
  <2> QED
    BY <2>3, <2>5, <2>6, <2>8, <2>9
<1>3. left[f[n]] = 0 \/ left[f[n]] + n <= left[v0]
  BY <1>2
<1>4. left[f[n]] \in Nat /\ left[v0] \in Nat
  BY <1>1
<1> QED
  BY <1>3, <1>4

-----------------------------------------------------------------------------
(* The binary searches                                                      *)

\* What a table may hold.
Entries == [chunk : Nat, data : Nat, prev : Nat, size : Nat, usable : Int, align : Nat]

\* What a binary search in a table of n entries may be at.
Searches(n) == [left : 0..n, right : 0..n, found : 0..n]

\* Sorted by data_ptr.
ByData(t) == \A i, j \in 1..Len(t) : i < j => t[i].data <= t[j].data

\* The length of what is left of a search.
Remaining(s) == IF s.left < s.right THEN s.right - s.left ELSE 0

\* The middle of what is left is part of it.
LEMMA MiddleInside ==
  ASSUME NEW n \in Nat, NEW s \in Searches(n), s.left < s.right
  PROVE  Middle(s) \in Nat /\ s.left <= Middle(s) /\ Middle(s) < s.right /\ Middle(s) < n
<1>1. s.left \in 0..n /\ s.right \in 0..n
  BY DEF Searches
<1> QED
  BY <1>1 DEF Middle

\* What Search makes.
LEMMA SearchOf ==
  ASSUME NEW n \in Nat, NEW l \in 0..n, NEW r \in 0..n, NEW f \in 0..n
  PROVE  /\ Search(l, r, f) \in Searches(n)
         /\ Search(l, r, f).left = l /\ Search(l, r, f).right = r /\ Search(l, r, f).found = f
BY DEF Search, Searches

\* What a search by ptr has found lies at ptr, and what is not found is still ahead: K is
\* where the table has ptr, if it is sorted.
PtrSearches(n, table, ptr, K) ==
  {s \in Searches(n) : /\ s.found # 0 => s.left >= s.right /\ table[s.found].data = ptr
                       /\ s.found # 0 \/ \A k \in K : s.left < k /\ k <= s.right}

\* A turn of search_by_ptr leaves such a search, with less to go.
LEMMA PtrTurns ==
  ASSUME NEW table \in Seq(Entries), NEW ptr \in Int, NEW K \in SUBSET (1..Len(table)),
         \A k \in K : table[k].data = ptr, K # {} => ByData(table),
         NEW s \in PtrSearches(Len(table), table, ptr, K)
  PROVE  /\ PtrTurn(s, table, ptr) \in PtrSearches(Len(table), table, ptr, K)
         /\ \/ Remaining(PtrTurn(s, table, ptr)) < Remaining(s)
            \/ Remaining(PtrTurn(s, table, ptr)) = 0
<1> DEFINE n == Len(table)
           t == PtrTurn(s, table, ptr)
           mid == Middle(s)
<1>1. n \in Nat /\ s \in Searches(n) /\ \A i \in 1..n : table[i] \in Entries
  BY DEF PtrSearches
<1>2. s.left \in 0..n /\ s.right \in 0..n /\ s.found \in 0..n
  BY <1>1 DEF Searches
<1>3. CASE s.left >= s.right
  <2>1. t = s
    BY <1>3 DEF PtrTurn
  <2>2. Remaining(s) = 0
    BY <1>2, <1>3 DEF Remaining
  <2> QED
    BY <2>1, <2>2
<1>4. CASE s.left < s.right
  <2>1. mid \in Nat /\ s.left <= mid /\ mid < s.right /\ mid < n /\ mid + 1 \in 1..n
    BY <1>1, <1>2, <1>4, MiddleInside
  <2>2. table[mid + 1].data \in Nat
    BY <1>1, <2>1 DEF Entries
  <2>3. \A k \in K : k \in 1..n /\ table[k].data \in Nat /\ table[k].data = ptr
    BY <1>1 DEF Entries
  <2>4. \A k \in K : /\ k < mid + 1 => ptr <= table[mid + 1].data
                     /\ mid + 1 < k => table[mid + 1].data <= ptr
    BY <2>1, <2>3 DEF ByData
  <2>5. t = IF table[mid + 1].data = ptr THEN Search(s.right, s.right, mid + 1)
            ELSE IF table[mid + 1].data < ptr THEN Search(mid + 1, s.right, 0)
            ELSE Search(s.left, mid, 0)
    BY <1>2, <1>4 DEF PtrTurn
  <2> DEFINE M == mid
  <2> HIDE DEF t, n
  <2>6. CASE table[mid + 1].data = ptr
    <3>1. t = Search(s.right, s.right, mid + 1)
      BY <2>5, <2>6
    <3>2. mid + 1 \in 0..n /\ mid + 1 # 0
      BY <1>1, <2>1
    <3> HIDE DEF mid
    <3> DEFINE m == mid + 1
    <3>3. m \in 0..n /\ m # 0 /\ t = Search(s.right, s.right, m) /\ table[m].data = ptr
      BY <2>6, <3>1, <3>2
    <3> HIDE DEF m
    <3>4. t \in Searches(n) /\ t.left = s.right /\ t.right = s.right /\ t.found = m
      BY <1>1, <1>2, <3>3, SearchOf, SMTT(30)
    <3> QED
      BY <1>2, <3>3, <3>4 DEF PtrSearches, Remaining, n, t
  <2>7. CASE table[mid + 1].data < ptr
    <3>1. t = Search(mid + 1, s.right, 0)
      BY <2>2, <2>5, <2>7
    <3>2. mid + 1 \in 0..n /\ 0 \in 0..n
      BY <1>1, <2>1
    <3>3. \A k \in K : mid + 1 < k
      BY <2>2, <2>3, <2>4, <2>7, <2>1
    <3>4. t \in Searches(n) /\ t.left = mid + 1 /\ t.right = s.right /\ t.found = 0
      BY <1>1, <1>2, <3>1, <3>2, SearchOf
    <3>5. \A k \in K : k <= s.right
      BY <1>4, <1>2 DEF PtrSearches
    <3>6. Remaining(s) = s.right - s.left
      BY <1>4 DEF Remaining
    <3>7. Remaining(t) < Remaining(s) \/ Remaining(t) = 0
      <4> HIDE DEF mid
      <4> QED
      BY <1>2, <2>1, <3>4, <3>6 DEF Remaining
    <3> QED
      BY <3>3, <3>4, <3>5, <3>7 DEF PtrSearches, n, t
  <2>8. CASE ptr < table[mid + 1].data
    <3>1. t = Search(s.left, mid, 0)
      BY <2>2, <2>5, <2>8
    <3>2. mid \in 0..n /\ 0 \in 0..n
      BY <1>1, <2>1
    <3>3. \A k \in K : k <= mid
      BY <2>2, <2>3, <2>4, <2>8, <2>1
    <3>4. t \in Searches(n) /\ t.left = s.left /\ t.right = mid /\ t.found = 0
      BY <1>1, <1>2, <3>1, <3>2, SearchOf
    <3>5. \A k \in K : s.left < k
      BY <1>4, <1>2 DEF PtrSearches
    <3>6. Remaining(s) = s.right - s.left
      BY <1>4 DEF Remaining
    <3>7. Remaining(t) < Remaining(s) \/ Remaining(t) = 0
      <4> HIDE DEF mid
      <4> QED
      BY <1>2, <2>1, <3>4, <3>6 DEF Remaining
    <3> QED
      BY <3>3, <3>4, <3>5, <3>7 DEF PtrSearches, n, t
  <2> QED
    BY <2>2, <2>6, <2>7, <2>8
<1> QED
  BY <1>2, <1>3, <1>4

\* search_by_ptr returns the place of an entry for ptr; if the table is sorted, it finds one
\* when there is one.
LEMMA PtrFound ==
  ASSUME NEW table \in Seq(Entries), NEW ptr \in Int
  PROVE  /\ SearchByPtr(table, ptr) \in 0..Len(table)
         /\ SearchByPtr(table, ptr) # 0 => table[SearchByPtr(table, ptr)].data = ptr
         /\ ByData(table) => \A k \in 1..Len(table) : table[k].data = ptr => SearchByPtr(table, ptr) # 0
<1> DEFINE n == Len(table)
           K == {k \in 1..n : ByData(table) /\ table[k].data = ptr}
           V == PtrSearches(n, table, ptr, K)
           v0 == Search(0, n, 0)
           F == [s \in V |-> PtrTurn(s, table, ptr)]
           left == [s \in V |-> Remaining(s)]
           G(f) == [k \in 0..n |-> IF k = 0 THEN v0 ELSE PtrTurn(f[k - 1], table, ptr)]
           after == CHOOSE f : f = G(f)
<1>1. SearchByPtr(table, ptr) = after[n].found
  BY DEF SearchByPtr
<1>2. n \in Nat
  OBVIOUS
<1>3. v0 \in V /\ Remaining(v0) = n
  <2>1. v0 \in Searches(n) /\ v0.left = 0 /\ v0.right = n /\ v0.found = 0
    BY <1>2, SearchOf
  <2> HIDE DEF v0
  <2>2. \A k \in K : 0 < k /\ k <= n
    BY <1>2
  <2> HIDE DEF K
  <2> QED
    BY <1>2, <2>1, <2>2 DEF PtrSearches, Remaining
<1>4. \A s \in V : /\ PtrTurn(s, table, ptr) \in V
                   /\ \/ Remaining(PtrTurn(s, table, ptr)) < Remaining(s)
                      \/ Remaining(PtrTurn(s, table, ptr)) = 0
  <2> TAKE s \in V
  <2>1. K \in SUBSET (1..n) /\ (\A k \in K : table[k].data = ptr) /\ (K # {} => ByData(table))
    OBVIOUS
  <2> HIDE DEF K
  <2> QED
    BY <2>1, PtrTurns
<1>5. \A s \in V : s \in Searches(n) /\ Remaining(s) \in Nat
  <2> TAKE s \in V
  <2>1. s \in Searches(n)
    BY DEF PtrSearches
  <2>2. s.left \in Nat /\ s.right \in Nat
    BY <1>2, <2>1 DEF Searches
  <2> QED
    BY <2>1, <2>2 DEF Remaining
<1>6. \A s \in V : /\ s.found # 0 => table[s.found].data = ptr
                   /\ Remaining(s) = 0 => s.found # 0 \/ K = {}
  <2> TAKE s \in V
  <2>1. s.left \in Nat /\ s.right \in Nat
    BY <1>2, <1>5 DEF Searches
  <2>2. s.found # 0 \/ \A k \in K : s.left < k /\ k <= s.right
    BY DEF PtrSearches
  <2>3. K \in SUBSET Nat
    OBVIOUS
  <2> HIDE DEF K
  <2>4. Remaining(s) = 0 => ~ (s.left < s.right)
    BY <2>1 DEF Remaining
  <2> QED
    BY <2>1, <2>2, <2>3, <2>4 DEF PtrSearches
<1>7. F \in [V -> V] /\ left \in [V -> Nat] /\ left[v0] <= n
  BY <1>2, <1>3, <1>4, <1>5
<1>8. \A s \in V : F[s] = PtrTurn(s, table, ptr) /\ left[s] = Remaining(s)
  OBVIOUS
<1>9. \A s \in V : left[F[s]] < left[s] \/ left[F[s]] = 0
  BY <1>4, <1>8
<1> HIDE DEF V, v0, F, left, n
<1>10. PICK g : g \in [0..n -> V] /\ Loop(g, v0, F, V, n)
  BY <1>2, <1>3, <1>7, LoopRuns
<1>11. g = G(g)
  <2>1. \A k \in 0..n : g[k] = IF k = 0 THEN v0 ELSE PtrTurn(g[k - 1], table, ptr)
    <3> TAKE k \in 0..n
    <3>1. CASE k = 0
      BY <1>10, <3>1 DEF Loop
    <3>2. CASE k # 0
      <4>1. k \in 1..n /\ k - 1 \in 0..n
        BY <1>2, <3>2
      <4>2. g[k - 1] \in V /\ g[k] = F[g[k - 1]]
        BY <1>10, <4>1 DEF Loop
      <4> QED
        BY <1>8, <3>2, <4>2
    <3> QED
      BY <3>1, <3>2
  <2> QED
    BY <1>10, <2>1
<1>12. after = G(after)
  BY <1>11
<1> HIDE DEF after
<1>13. Loop(after, v0, F, V, n)
  <2>1. \A k \in 0..n : after[k] = IF k = 0 THEN v0 ELSE PtrTurn(after[k - 1], table, ptr)
    BY <1>12
  <2>2. \A k \in 1..n : k \in 0..n /\ k # 0 /\ 0 \in 0..n
    BY <1>2
  <2>3. 0 \in 0..n
    BY <1>2
  <2> QED
    BY <1>8, <2>1, <2>2, <2>3 DEF Loop
<1>14. after[n] \in V
  <2>1. \A k \in 0..n : after[k] \in V
    BY <1>2, <1>3, <1>7, <1>13, LoopKeeps
  <2> QED
    BY <1>2, <2>1
<1>15. left[after[n]] = 0
  BY <1>2, <1>3, <1>7, <1>9, <1>13, LoopEnds, SMTT(30)
<1>16. Remaining(after[n]) = 0
  BY <1>8, <1>14, <1>15
<1>17. after[n].found \in 0..n
  BY <1>5, <1>14 DEF Searches
<1>18. /\ after[n].found # 0 => table[after[n].found].data = ptr
       /\ after[n].found # 0 \/ K = {}
  BY <1>6, <1>14, <1>16
<1> QED
  BY <1>1, <1>17, <1>18 DEF n

\* What a search by size may be at: what it has found suffices; and if none that is too small
\* lies behind one that suffices, all it has passed on its left are too small, it has taken
\* nothing off its right before it found one, and that is the smallest on its right.
SizeSearches(n, table, size, align) ==
  {s \in Searches(n) :
     /\ s.found # 0 => Suffices(table[s.found], size, align)
     /\ SmallerFirst(table, size, align) =>
          /\ \A k \in 1..s.left : ~ Suffices(table[k], size, align)
          /\ s.found = 0 => s.right = n
          /\ s.found # 0 /\ BySize(table) =>
               \A k \in (s.right + 1)..n : table[s.found].size <= table[k].size}

\* The sizes in a table are numbers.
LEMMA SizesAre ==
  ASSUME NEW t \in Seq(Entries)
  PROVE  DOMAIN t = 1..Len(t) /\ \A k \in 1..Len(t) : t[k].size \in Nat
<1>1. \A k \in 1..Len(t) : t[k] \in Entries
  BY ElementOfSeq, LenProperties
<1>2. \A e \in Entries : e.size \in Nat
  BY DEF Entries
<1> QED
  BY <1>1, <1>2

\* A turn of search_by_size_in_free_array leaves such a search, with less to go.
LEMMA SizeTurns ==
  ASSUME NEW table \in Seq(Entries), NEW size, NEW align,
         NEW s \in SizeSearches(Len(table), table, size, align)
  PROVE  /\ SizeTurn(s, table, size, align) \in SizeSearches(Len(table), table, size, align)
         /\ \/ Remaining(SizeTurn(s, table, size, align)) < Remaining(s)
            \/ Remaining(SizeTurn(s, table, size, align)) = 0
<1> DEFINE n == Len(table)
           t == SizeTurn(s, table, size, align)
           mid == Middle(s)
           f == IF s.found = 0 \/ table[mid + 1].size < table[s.found].size THEN mid + 1 ELSE s.found
<1>1. n \in Nat /\ s \in Searches(n)
  BY DEF SizeSearches
<1>2. s.left \in 0..n /\ s.right \in 0..n /\ s.found \in 0..n
  BY <1>1 DEF Searches
<1>3. CASE s.left >= s.right
  <2>1. t = s
    BY <1>3 DEF SizeTurn
  <2>2. Remaining(s) = 0
    BY <1>2, <1>3 DEF Remaining
  <2> QED
    BY <2>1, <2>2
<1>4. CASE s.left < s.right
  <2>1. mid \in Nat /\ s.left <= mid /\ mid < s.right /\ mid < n /\ mid + 1 \in 1..n
    BY <1>1, <1>2, <1>4, MiddleInside
  <2>2. t = IF Suffices(table[mid + 1], size, align) THEN Search(s.left, mid, f)
            ELSE Search(mid + 1, s.right, s.found)
    BY <1>2, <1>4 DEF SizeTurn
  <2>3. Remaining(s) = s.right - s.left
    BY <1>4 DEF Remaining
  <2>4. /\ Suffices(table[mid + 1], size, align) => Suffices(table[f], size, align)
        /\ f \in 0..n /\ f # 0
    BY <1>2, <2>1 DEF SizeSearches
  <2>5. /\ s.found # 0 => Suffices(table[s.found], size, align)
        /\ SmallerFirst(table, size, align) =>
             /\ \A k \in 1..s.left : ~ Suffices(table[k], size, align)
             /\ s.found = 0 => s.right = n
             /\ s.found # 0 /\ BySize(table) =>
                  \A k \in (s.right + 1)..n : table[s.found].size <= table[k].size
    BY DEF SizeSearches
  <2>8. DOMAIN table = 1..n /\ \A k \in 1..n : table[k].size \in Nat
    BY SizesAre
  <2>9. BySize(table) => \A k \in (mid + 1)..n : table[f].size <= table[k].size
    <3> SUFFICES ASSUME BySize(table), NEW k \in (mid + 1)..n
                 PROVE  table[f].size <= table[k].size
      OBVIOUS
    <3> DEFINE m == mid + 1
    <3>1. m \in 1..n /\ k \in 1..n /\ m <= k
      BY <1>1, <2>1
    <3>2. f = m \/ (f = s.found /\ f \in 1..n /\ ~ (table[m].size < table[f].size))
      BY <1>2
    <3> HIDE DEF m, f, n
    <3>3. table[m].size <= table[k].size
      <4>1. CASE m = k
        BY <2>8, <3>1, <4>1
      <4>2. CASE m < k
        BY <2>8, <3>1, <4>2 DEF BySize
      <4> QED
        BY <1>1, <3>1, <4>1, <4>2
    <3>4. CASE f = m
      BY <3>3, <3>4
    <3>5. CASE f \in 1..n /\ ~ (table[m].size < table[f].size)
      <4>1. table[m].size \in Nat /\ table[f].size \in Nat /\ table[k].size \in Nat
        BY <2>8, <3>1, <3>5
      <4> QED
        BY <3>3, <3>5, <4>1
    <3> QED
      BY <3>2, <3>4, <3>5
  <2> HIDE DEF t, n, f, mid
  <2>6. CASE Suffices(table[mid + 1], size, align)
    <3>1. t = Search(s.left, mid, f)
      BY <2>2, <2>6
    <3>2. mid \in 0..n
      BY <1>1, <2>1
    <3> DEFINE l == s.left
    <3>5. n \in Nat /\ l \in 0..n /\ mid \in 0..n /\ f \in 0..n
      BY <1>1, <1>2, <2>4, <3>2
    <3>6. t = Search(l, mid, f)
      BY <3>1
    <3> HIDE DEF l
    <3>7. t \in Searches(n) /\ t.left = l /\ t.right = mid /\ t.found = f
      BY <3>5, <3>6, SearchOf
    <3>3. t \in Searches(n) /\ t.left = s.left /\ t.right = mid /\ t.found = f
      BY <3>7 DEF l
    <3>4. Remaining(t) < Remaining(s) \/ Remaining(t) = 0
      BY <1>2, <2>1, <2>3, <3>3 DEF Remaining
    <3>8. t \in SizeSearches(n, table, size, align)
      BY <2>4, <2>5, <2>6, <2>9, <3>3 DEF SizeSearches
    <3> QED
      BY <3>4, <3>8 DEF n, t
  <2>7. CASE ~ Suffices(table[mid + 1], size, align)
    <3>1. t = Search(mid + 1, s.right, s.found)
      BY <2>2, <2>7
    <3>2. mid + 1 \in 0..n
      BY <1>1, <2>1
    <3>3. t \in Searches(n) /\ t.left = mid + 1 /\ t.right = s.right /\ t.found = s.found
      BY <1>1, <1>2, <3>1, <3>2, SearchOf
    <3>4. Remaining(t) < Remaining(s) \/ Remaining(t) = 0
      BY <1>2, <2>1, <2>3, <3>3 DEF Remaining
    <3>5. SmallerFirst(table, size, align) => \A k \in 1..(mid + 1) : ~ Suffices(table[k], size, align)
      <4> SUFFICES ASSUME SmallerFirst(table, size, align), NEW k \in 1..(mid + 1)
                   PROVE  ~ Suffices(table[k], size, align)
        OBVIOUS
      <4>1. k \in 1..n /\ mid + 1 \in 1..n /\ (k = mid + 1 \/ k < mid + 1)
        BY <1>1, <2>1
      <4> QED
        BY <2>7, <2>8, <4>1 DEF SmallerFirst
    <3>6. t \in SizeSearches(n, table, size, align)
      BY <2>5, <3>3, <3>5 DEF SizeSearches
    <3> QED
      BY <3>4, <3>6 DEF n, t
  <2> QED
    BY <2>6, <2>7 DEF n, t
<1> QED
  BY <1>2, <1>3, <1>4

\* search_by_size_in_free_array returns the place of an entry that suffices.  If none that is
\* too small lies behind one that suffices, it finds one, and the smallest if the table has
\* them by size.
LEMMA FitIsFound ==
  ASSUME NEW table \in Seq(Entries), NEW size, NEW align
  PROVE  /\ SearchBySize(table, size, align) \in 0..Len(table)
         /\ SearchBySize(table, size, align) # 0 =>
              Suffices(table[SearchBySize(table, size, align)], size, align)
         /\ SmallerFirst(table, size, align) =>
              \A k \in 1..Len(table) :
                Suffices(table[k], size, align) =>
                  /\ SearchBySize(table, size, align) # 0
                  /\ BySize(table) =>
                       table[SearchBySize(table, size, align)].size <= table[k].size
<1> DEFINE n == Len(table)
           V == SizeSearches(n, table, size, align)
           v0 == Search(0, n, 0)
           F == [s \in V |-> SizeTurn(s, table, size, align)]
           left == [s \in V |-> Remaining(s)]
           G(f) == [k \in 0..n |-> IF k = 0 THEN v0 ELSE SizeTurn(f[k - 1], table, size, align)]
           after == CHOOSE f : f = G(f)
<1>1. SearchBySize(table, size, align) = after[n].found
  BY DEF SearchBySize
<1>2. n \in Nat
  OBVIOUS
<1>3. v0 \in V /\ Remaining(v0) = n
  <2>1. v0 \in Searches(n) /\ v0.left = 0 /\ v0.right = n /\ v0.found = 0
    BY <1>2, SearchOf
  <2> HIDE DEF v0
  <2> QED
    BY <1>2, <2>1 DEF SizeSearches, Remaining
<1>4. \A s \in V : /\ SizeTurn(s, table, size, align) \in V
                   /\ \/ Remaining(SizeTurn(s, table, size, align)) < Remaining(s)
                      \/ Remaining(SizeTurn(s, table, size, align)) = 0
  BY SizeTurns
<1>5. \A s \in V : s \in Searches(n) /\ Remaining(s) \in Nat
  <2> TAKE s \in V
  <2>1. s \in Searches(n)
    BY DEF SizeSearches
  <2>2. s.left \in Nat /\ s.right \in Nat
    BY <1>2, <2>1 DEF Searches
  <2> QED
    BY <2>1, <2>2 DEF Remaining
<1>6. \A s \in V : /\ s.found # 0 => Suffices(table[s.found], size, align)
                   /\ Remaining(s) = 0 /\ SmallerFirst(table, size, align) =>
                        \A k \in 1..n : Suffices(table[k], size, align) =>
                          /\ s.found # 0
                          /\ BySize(table) => table[s.found].size <= table[k].size
  <2> TAKE s \in V
  <2>1. s.left \in 0..n /\ s.right \in 0..n
    BY <1>5 DEF Searches
  <2>2. Remaining(s) = 0 => ~ (s.left < s.right)
    BY <1>2, <2>1 DEF Remaining
  <2>3. /\ s.found # 0 => Suffices(table[s.found], size, align)
        /\ SmallerFirst(table, size, align) =>
             /\ \A k \in 1..s.left : ~ Suffices(table[k], size, align)
             /\ s.found = 0 => s.right = n
             /\ s.found # 0 /\ BySize(table) =>
                  \A k \in (s.right + 1)..n : table[s.found].size <= table[k].size
    BY DEF SizeSearches
  <2> HIDE DEF n, V
  <2>4. ASSUME Remaining(s) = 0, SmallerFirst(table, size, align), NEW k \in 1..n,
               Suffices(table[k], size, align)
        PROVE  /\ s.found # 0
               /\ BySize(table) => table[s.found].size <= table[k].size
    <3>1. k \notin 1..s.left /\ k \in (s.left + 1)..n
      BY <1>2, <2>1, <2>3, <2>4
    <3>2. k \in (s.right + 1)..n
      BY <1>2, <2>1, <2>2, <2>4, <3>1
    <3>3. s.found # 0
      BY <1>2, <2>1, <2>3, <2>4, <3>2
    <3> QED
      BY <2>3, <2>4, <3>2, <3>3
  <2> QED
    BY <2>3, <2>4
<1>7. F \in [V -> V] /\ left \in [V -> Nat] /\ left[v0] <= n
  BY <1>2, <1>3, <1>4, <1>5
<1>8. \A s \in V : F[s] = SizeTurn(s, table, size, align) /\ left[s] = Remaining(s)
  OBVIOUS
<1>9. \A s \in V : left[F[s]] < left[s] \/ left[F[s]] = 0
  BY <1>4, <1>8
<1> HIDE DEF V, v0, F, left, n
<1>10. PICK g : g \in [0..n -> V] /\ Loop(g, v0, F, V, n)
  BY <1>2, <1>3, <1>7, LoopRuns
<1>11. g = G(g)
  <2>1. \A k \in 0..n : g[k] = IF k = 0 THEN v0 ELSE SizeTurn(g[k - 1], table, size, align)
    <3> TAKE k \in 0..n
    <3>1. CASE k = 0
      BY <1>10, <3>1 DEF Loop
    <3>2. CASE k # 0
      <4>1. k \in 1..n /\ k - 1 \in 0..n
        BY <1>2, <3>2
      <4>2. g[k - 1] \in V /\ g[k] = F[g[k - 1]]
        BY <1>10, <4>1 DEF Loop
      <4> QED
        BY <1>8, <3>2, <4>2
    <3> QED
      BY <3>1, <3>2
  <2> QED
    BY <1>10, <2>1
<1>12. after = G(after)
  BY <1>11
<1> HIDE DEF after
<1>13. Loop(after, v0, F, V, n)
  <2>1. \A k \in 0..n : after[k] = IF k = 0 THEN v0 ELSE SizeTurn(after[k - 1], table, size, align)
    BY <1>12
  <2>2. \A k \in 1..n : k \in 0..n /\ k # 0 /\ 0 \in 0..n
    BY <1>2
  <2>3. 0 \in 0..n
    BY <1>2
  <2> QED
    BY <1>8, <2>1, <2>2, <2>3 DEF Loop
<1>14. after[n] \in V
  <2>1. \A k \in 0..n : after[k] \in V
    BY <1>2, <1>3, <1>7, <1>13, LoopKeeps
  <2> QED
    BY <1>2, <2>1
<1>15. left[after[n]] = 0
  BY <1>2, <1>3, <1>7, <1>9, <1>13, LoopEnds, SMTT(30)
<1>16. Remaining(after[n]) = 0
  BY <1>8, <1>14, <1>15
<1>17. after[n].found \in 0..n
  BY <1>5, <1>14 DEF Searches
<1>18. /\ after[n].found # 0 => Suffices(table[after[n].found], size, align)
       /\ SmallerFirst(table, size, align) =>
            \A k \in 1..n : Suffices(table[k], size, align) =>
              /\ after[n].found # 0
              /\ BySize(table) => table[after[n].found].size <= table[k].size
  BY <1>6, <1>14, <1>16
<1> QED
  BY <1>1, <1>17, <1>18 DEF n

-----------------------------------------------------------------------------
(* Tables                                                                   *)

\* What InsertAt and RemoveAt of the community modules return.
LEMMA InsertAtFacts ==
  ASSUME NEW S, NEW s \in Seq(S), NEW i \in 1..(Len(s) + 1), NEW e \in S
  PROVE  /\ InsertAt(s, i, e) \in Seq(S)
         /\ Len(InsertAt(s, i, e)) = Len(s) + 1
         /\ \A k \in 1..(Len(s) + 1) :
              InsertAt(s, i, e)[k] =
                IF k < i THEN s[k] ELSE IF k = i THEN e ELSE s[k - 1]
<1> DEFINE a == SubSeq(s, 1, i - 1)
           b == <<e>>
           c == SubSeq(s, i, Len(s))
<1>0. Len(s) \in Nat /\ \A k \in 1..Len(s) : s[k] \in S
  BY LenProperties, ElementOfSeq
<1>1. a \in Seq(S) /\ Len(a) = i - 1 /\ \A k \in 1..(i - 1) : a[k] = s[k]
  <2>1. \A k \in 1..(i - 1) : s[k] \in S
    BY <1>0
  <2> QED
    BY <1>0, <2>1, SubSeqProperties
<1>2. b \in Seq(S) /\ Len(b) = 1 /\ b[1] = e
  OBVIOUS
<1>3. /\ c \in Seq(S) /\ Len(c) = Len(s) - i + 1
      /\ \A k \in 1..(Len(s) - i + 1) : c[k] = s[i + k - 1]
  <2>1. \A k \in i..Len(s) : s[k] \in S
    BY <1>0
  <2> QED
    BY <1>0, <2>1, SubSeqProperties
<1> HIDE DEF a, b, c
<1> DEFINE ab == a \o b
<1>4. /\ ab \in Seq(S) /\ Len(ab) = Len(a) + Len(b)
      /\ \A k \in 1..(Len(a) + Len(b)) :
           ab[k] = IF k <= Len(a) THEN a[k] ELSE b[k - Len(a)]
  BY <1>1, <1>2, ConcatProperties
<1> HIDE DEF ab
<1>5. /\ ab \in Seq(S) /\ Len(ab) = i
      /\ \A k \in 1..i : ab[k] = IF k < i THEN s[k] ELSE e
  <2>1. Len(a) + Len(b) = i
    BY <1>0, <1>1, <1>2
  <2>2. ASSUME NEW k \in 1..i
        PROVE  ab[k] = IF k < i THEN s[k] ELSE e
    <3>1. ab[k] = IF k <= i - 1 THEN a[k] ELSE b[k - (i - 1)]
      BY <1>1, <1>4, <2>1
    <3>2. CASE k < i
      BY <1>0, <1>1, <3>1, <3>2
    <3>3. CASE k = i
      BY <1>0, <1>2, <3>1, <3>3
    <3> QED
      BY <1>0, <3>2, <3>3
  <2> QED
    BY <1>4, <2>1, <2>2
<1>6. /\ ab \o c \in Seq(S) /\ Len(ab \o c) = Len(s) + 1
      /\ \A k \in 1..(Len(s) + 1) : (ab \o c)[k] = IF k <= i THEN ab[k] ELSE c[k - i]
  <2>1. /\ ab \o c \in Seq(S) /\ Len(ab \o c) = Len(ab) + Len(c)
        /\ \A k \in 1..(Len(ab) + Len(c)) :
             (ab \o c)[k] = IF k <= Len(ab) THEN ab[k] ELSE c[k - Len(ab)]
    BY <1>3, <1>5, ConcatProperties
  <2>2. Len(ab) + Len(c) = Len(s) + 1
    BY <1>0, <1>3, <1>5
  <2> QED
    BY <1>5, <2>1, <2>2
<1>7. InsertAt(s, i, e) = ab \o c
  BY DEF InsertAt, ab, a, b, c
<1>8. ASSUME NEW k \in 1..(Len(s) + 1)
      PROVE  (ab \o c)[k] = IF k < i THEN s[k] ELSE IF k = i THEN e ELSE s[k - 1]
  <2>1. CASE k <= i
    BY <1>5, <1>6, <2>1
  <2>2. CASE k > i
    <3>1. k - i \in 1..(Len(s) - i + 1) /\ i + (k - i) - 1 = k - 1
      BY <1>0, <2>2
    <3>2. c[k - i] = s[k - 1]
      BY <1>3, <3>1
    <3> QED
      BY <1>6, <2>2, <3>2
  <2>3. k <= i \/ k > i
    BY <1>0
  <2> QED
    BY <2>1, <2>2, <2>3, Zenon
<1> QED
  BY <1>6, <1>7, <1>8

\* The same of a table.
LEMMA EntryInserted ==
  ASSUME NEW t \in Seq(Entries), NEW i \in 1..(Len(t) + 1), NEW e \in Entries
  PROVE  /\ InsertAt(t, i, e) \in Seq(Entries) /\ Len(InsertAt(t, i, e)) = Len(t) + 1
         /\ \A k \in 1..(Len(t) + 1) :
              InsertAt(t, i, e)[k] = IF k < i THEN t[k] ELSE IF k = i THEN e ELSE t[k - 1]
<1> DEFINE S == Entries
<1>1. t \in Seq(S) /\ e \in S
  OBVIOUS
<1> HIDE DEF S
<1>2. /\ InsertAt(t, i, e) \in Seq(S) /\ Len(InsertAt(t, i, e)) = Len(t) + 1
      /\ \A k \in 1..(Len(t) + 1) :
           InsertAt(t, i, e)[k] = IF k < i THEN t[k] ELSE IF k = i THEN e ELSE t[k - 1]
  BY <1>1, InsertAtFacts
<1> QED
  BY <1>2 DEF S

\* What RemoveAt of the community modules returns.
LEMMA RemoveAtFacts ==
  ASSUME NEW S, NEW s \in Seq(S), NEW i \in 1..Len(s)
  PROVE  /\ RemoveAt(s, i) \in Seq(S)
         /\ Len(RemoveAt(s, i)) = Len(s) - 1
         /\ \A k \in 1..(Len(s) - 1) :
              RemoveAt(s, i)[k] = IF k < i THEN s[k] ELSE s[k + 1]
<1> DEFINE a == SubSeq(s, 1, i - 1)
           c == SubSeq(s, i + 1, Len(s))
<1>0. Len(s) \in Nat /\ \A k \in 1..Len(s) : s[k] \in S
  BY LenProperties, ElementOfSeq
<1>1. a \in Seq(S) /\ Len(a) = i - 1 /\ \A k \in 1..(i - 1) : a[k] = s[k]
  <2>1. \A k \in 1..(i - 1) : s[k] \in S
    BY <1>0
  <2> QED
    BY <1>0, <2>1, SubSeqProperties
<1>3. /\ c \in Seq(S) /\ Len(c) = Len(s) - i
      /\ \A k \in 1..(Len(s) - i) : c[k] = s[i + k]
  <2>1. \A k \in (i + 1)..Len(s) : s[k] \in S
    BY <1>0
  <2>2. /\ c \in Seq(S)
        /\ Len(c) = IF i + 1 <= Len(s) THEN Len(s) - (i + 1) + 1 ELSE 0
        /\ \A k \in 1..(Len(s) - (i + 1) + 1) : c[k] = s[(i + 1) + k - 1]
    BY <1>0, <2>1, SubSeqProperties
  <2> QED
    BY <1>0, <2>2
<1> HIDE DEF a, c
<1>4. /\ a \o c \in Seq(S) /\ Len(a \o c) = Len(s) - 1
      /\ \A k \in 1..(Len(s) - 1) : (a \o c)[k] = IF k <= i - 1 THEN a[k] ELSE c[k - (i - 1)]
  <2>1. /\ a \o c \in Seq(S) /\ Len(a \o c) = Len(a) + Len(c)
        /\ \A k \in 1..(Len(a) + Len(c)) :
             (a \o c)[k] = IF k <= Len(a) THEN a[k] ELSE c[k - Len(a)]
    BY <1>1, <1>3, ConcatProperties
  <2>2. Len(a) + Len(c) = Len(s) - 1
    BY <1>0, <1>1, <1>3
  <2> QED
    BY <1>1, <2>1, <2>2
<1>5. RemoveAt(s, i) = a \o c
  BY DEF RemoveAt, a, c
<1>6. ASSUME NEW k \in 1..(Len(s) - 1)
      PROVE  (a \o c)[k] = IF k < i THEN s[k] ELSE s[k + 1]
  <2>1. CASE k < i
    BY <1>0, <1>1, <1>4, <2>1
  <2>2. CASE k >= i
    <3>1. k - (i - 1) \in 1..(Len(s) - i) /\ i + (k - (i - 1)) = k + 1
      BY <1>0, <2>2
    <3>2. c[k - (i - 1)] = s[k + 1]
      BY <1>3, <3>1
    <3>3. ~ (k <= i - 1) /\ ~ (k < i)
      BY <1>0, <2>2
    <3>4. (a \o c)[k] = c[k - (i - 1)]
      BY <1>4, <3>3, Zenon
    <3> QED
      BY <3>2, <3>3, <3>4, Zenon
  <2>3. k < i \/ k >= i
    BY <1>0
  <2> QED
    BY <2>1, <2>2, <2>3, Zenon
<1> QED
  BY <1>4, <1>5, <1>6

\* The fields of the entries of a table.
LEMMA EntryFields ==
  ASSUME NEW t \in Seq(Entries)
  PROVE  /\ Len(t) \in Nat
         /\ \A i \in 1..Len(t) : /\ t[i] \in Entries
                                /\ t[i].chunk \in Nat /\ t[i].data \in Nat
                                /\ t[i].prev \in Nat /\ t[i].size \in Nat
<1>1. Len(t) \in Nat /\ \A i \in 1..Len(t) : t[i] \in Entries
  BY ElementOfSeq, LenProperties
<1>2. \A e \in Entries : e.chunk \in Nat /\ e.data \in Nat /\ e.prev \in Nat /\ e.size \in Nat
  BY DEF Entries
<1> QED
  BY <1>1, <1>2

\* A table whose entries have different addresses, in their order.
Sorted(t) == t \in Seq(Entries) /\ \A i, j \in 1..Len(t) : i < j => t[i].data < t[j].data

\* In a sorted table, the entries that are not above x come first.
LEMMA PlaceOf ==
  ASSUME NEW t \in Seq(Entries), ByData(t), NEW x \in Nat
  PROVE  \E p \in 0..Len(t) : \A j \in 1..Len(t) : t[j].data <= x <=> j <= p
<1> DEFINE n == Len(t)
           S == {0} \cup {j \in 1..n : t[j].data <= x}
<1>1. n \in Nat /\ \A j \in 1..n : t[j].data \in Nat
  BY EntryFields
<1>2. S \in SUBSET (0..n) /\ S # {}
  BY <1>1
<1>3. \A j \in 1..n : j \in S <=> t[j].data <= x
  BY <1>1
<1> HIDE DEF S
<1>4. PICK p \in S : \A k \in S : k <= p
  BY <1>1, <1>2, LastOf
<1>5. p \in 0..n
  BY <1>2
<1>6. ASSUME NEW j \in 1..n
      PROVE  t[j].data <= x <=> j <= p
  <2>1. t[j].data <= x => j <= p
    BY <1>3, <1>4
  <2>2. ASSUME j <= p
        PROVE  t[j].data <= x
    <3>1. p \in 1..n /\ t[p].data <= x
      BY <1>1, <1>3, <1>5, <2>2
    <3>2. j = p \/ j < p
      BY <1>1, <1>5, <2>2
    <3>3. t[j].data <= t[p].data
      BY <1>1, <3>1, <3>2 DEF ByData
    <3> QED
      BY <1>1, <3>1, <3>3
  <2> QED
    BY <2>1, <2>2
<1> QED
  BY <1>5, <1>6

\* add_into_array adds an entry after those that are not above it.
LEMMA AddedAt ==
  ASSUME NEW t \in Seq(Entries), NEW e \in Entries, NEW capacity \in Nat, NEW p \in 0..Len(t),
         \A j \in 1..Len(t) : t[j].data <= e.data <=> j <= p
  PROVE  Added(t, e, capacity) = IF Len(t) >= capacity THEN t ELSE InsertAt(t, p + 1, e)
<1>1. Len(t) \in Nat /\ DOMAIN t = 1..Len(t)
  OBVIOUS
<1>2. {i \in DOMAIN t : t[i].data <= e.data} = 1..p
  BY <1>1
<1>3. Cardinality(1..p) = p
  BY <1>1, FS_Interval
<1> QED
  BY <1>2, <1>3 DEF Added

\* An entry is found by its place, and by its data.
LEMMA InRange ==
  ASSUME NEW t \in Seq(Entries)
  PROVE  /\ \A e : e \in Range(t) <=> \E i \in 1..Len(t) : t[i] = e
         /\ \A e \in Range(t) : e \in Entries
BY DEF Range

\* add_into_array keeps them in their order.
LEMMA AddedSorted ==
  ASSUME NEW t, Sorted(t), NEW e \in Entries, NEW capacity \in Nat,
         \A i \in 1..Len(t) : t[i].data # e.data
  PROVE  /\ Sorted(Added(t, e, capacity))
         /\ Range(Added(t, e, capacity)) =
              IF Len(t) >= capacity THEN Range(t) ELSE Range(t) \cup {e}
         /\ Len(Added(t, e, capacity)) = IF Len(t) >= capacity THEN Len(t) ELSE Len(t) + 1
<1>1. CASE Len(t) >= capacity
  BY <1>1 DEF Added
<1>2. CASE ~ (Len(t) >= capacity)
  <2> DEFINE d == Added(t, e, capacity)
             n == Len(t)
  <2>1. /\ t \in Seq(Entries) /\ n \in Nat /\ e.data \in Nat
        /\ \A i \in 1..n : t[i] \in Entries /\ t[i].data \in Nat /\ t[i].data # e.data
        /\ \A i, j \in 1..n : i < j => t[i].data < t[j].data
    <3>1. e.data \in Nat
      BY DEF Entries
    <3> QED
      BY <3>1, EntryFields DEF Sorted
  <2>2. ByData(t)
    BY <2>1 DEF ByData
  <2>3. PICK p \in 0..n : \A j \in 1..n : t[j].data <= e.data <=> j <= p
    BY <2>1, <2>2, PlaceOf
  <2>4. d = InsertAt(t, p + 1, e)
    BY <1>2, <2>1, <2>3, AddedAt
  <2>5. p + 1 \in 1..(n + 1)
    BY <2>1
  <2> HIDE DEF d
  <2>6. /\ d \in Seq(Entries) /\ Len(d) = n + 1
        /\ \A k \in 1..(n + 1) : d[k] = IF k < p + 1 THEN t[k] ELSE IF k = p + 1 THEN e ELSE t[k - 1]
    <3> DEFINE q == p + 1
    <3>1. q \in 1..(Len(t) + 1) /\ t \in Seq(Entries) /\ d = InsertAt(t, q, e)
      BY <2>1, <2>4, <2>5
    <3> HIDE DEF q
    <3>2. /\ d \in Seq(Entries) /\ Len(d) = Len(t) + 1
          /\ \A k \in 1..(Len(t) + 1) : d[k] = IF k < q THEN t[k] ELSE IF k = q THEN e ELSE t[k - 1]
      BY <3>1, InsertAtFacts
    <3> QED
      BY <3>2 DEF q
  <2> HIDE DEF n
  <2>7. ASSUME NEW i \in 1..(n + 1), NEW j \in 1..(n + 1), i < j
        PROVE  d[i].data < d[j].data
    <3>1. CASE i <= p /\ j <= p
      <4>1. i \in 1..n /\ j \in 1..n /\ d[i] = t[i] /\ d[j] = t[j]
        BY <2>1, <2>6, <3>1
      <4> QED
        BY <2>1, <2>7, <4>1
    <3>2. CASE i <= p /\ j = p + 1
      <4>1. i \in 1..n /\ d[i] = t[i] /\ d[j] = e
        BY <2>1, <2>6, <3>2
      <4> QED
        BY <2>1, <2>3, <3>2, <4>1
    <3>3. CASE i <= p /\ j > p + 1
      <4>1. i \in 1..n /\ j - 1 \in 1..n /\ d[i] = t[i] /\ d[j] = t[j - 1] /\ i < j - 1
        BY <2>1, <2>6, <3>3
      <4> QED
        BY <2>1, <4>1
    <3>4. CASE i = p + 1
      <4>1. j - 1 \in 1..n /\ d[i] = e /\ d[j] = t[j - 1] /\ ~ (j - 1 <= p)
        BY <2>1, <2>6, <2>7, <3>4
      <4>2. ~ (t[j - 1].data <= e.data)
        BY <2>3, <4>1
      <4> QED
        BY <2>1, <4>1, <4>2
    <3>5. CASE i > p + 1
      <4>1. i - 1 \in 1..n /\ j - 1 \in 1..n /\ d[i] = t[i - 1] /\ d[j] = t[j - 1] /\ i - 1 < j - 1
        BY <2>1, <2>6, <2>7, <3>5
      <4> QED
        BY <2>1, <4>1
    <3> QED
      BY <2>1, <2>7, <3>1, <3>2, <3>3, <3>4, <3>5
  <2>8. Sorted(d)
    BY <2>6, <2>7 DEF Sorted
  <2>9. ASSUME NEW x
        PROVE  x \in Range(d) <=> x \in Range(t) \/ x = e
    <3>1. x \in Range(d) <=> \E k \in 1..(n + 1) : d[k] = x
      BY <2>6, InRange
    <3>2. x \in Range(t) <=> \E k \in 1..n : t[k] = x
      BY <2>1, InRange DEF n
    <3>3. ASSUME NEW k \in 1..(n + 1)
          PROVE  d[k] = e \/ \E h \in 1..n : t[h] = d[k]
      <4>1. CASE k < p + 1
        <5>1. k \in 1..n /\ d[k] = t[k]
          BY <2>1, <2>6, <4>1
        <5> QED
          BY <5>1
      <4>2. CASE k = p + 1
        BY <2>1, <2>6, <4>2
      <4>3. CASE k > p + 1
        <5>1. k - 1 \in 1..n /\ d[k] = t[k - 1]
          BY <2>1, <2>6, <4>3
        <5> QED
          BY <5>1
      <4> QED
        BY <2>1, <4>1, <4>2, <4>3
    <3>4. ASSUME NEW h \in 1..n
          PROVE  \E k \in 1..(n + 1) : d[k] = t[h]
      <4>1. CASE h <= p
        <5>1. h \in 1..(n + 1) /\ d[h] = t[h]
          BY <2>1, <2>6, <4>1
        <5> QED
          BY <5>1
      <4>2. CASE h > p
        <5>1. h + 1 \in 1..(n + 1) /\ d[h + 1] = t[h]
          BY <2>1, <2>6, <4>2
        <5> QED
          BY <5>1
      <4> QED
        BY <2>1, <4>1, <4>2
    <3>5. \E k \in 1..(n + 1) : d[k] = e
      <4>1. p + 1 \in 1..(n + 1) /\ d[p + 1] = e
        BY <2>1, <2>5, <2>6
      <4> QED
        BY <4>1
    <3> QED
      BY <3>1, <3>2, <3>3, <3>4, <3>5
  <2>10. Range(d) = Range(t) \cup {e}
    BY <2>9
  <2> QED
    BY <1>2, <2>6, <2>8, <2>10 DEF d, n
<1> QED
  BY <1>1, <1>2

\* So does removing one.
LEMMA RemovedSorted ==
  ASSUME NEW t, Sorted(t), NEW i \in 1..Len(t)
  PROVE  /\ Sorted(RemoveAt(t, i))
         /\ Range(RemoveAt(t, i)) = Range(t) \ {t[i]}
         /\ Len(RemoveAt(t, i)) = Len(t) - 1
         /\ \A k \in 1..(Len(t) - 1) : RemoveAt(t, i)[k] = IF k < i THEN t[k] ELSE t[k + 1]
<1> DEFINE d == RemoveAt(t, i)
           n == Len(t)
<1>1. /\ t \in Seq(Entries) /\ n \in Nat /\ i \in 1..n
      /\ \A k \in 1..n : t[k] \in Entries /\ t[k].data \in Nat
      /\ \A j, k \in 1..n : j < k => t[j].data < t[k].data
  BY EntryFields DEF Sorted
<1>2. /\ d \in Seq(Entries) /\ Len(d) = n - 1
      /\ \A k \in 1..(n - 1) : d[k] = IF k < i THEN t[k] ELSE t[k + 1]
  BY <1>1, RemoveAtFacts
<1> HIDE DEF d, n
<1>3. ASSUME NEW k \in 1..(n - 1)
      PROVE  \E h \in 1..n : h # i /\ d[k] = t[h] /\ (k < i => h = k) /\ (~ (k < i) => h = k + 1)
  <2>1. CASE k < i
    <3>1. k \in 1..n /\ k # i /\ d[k] = t[k]
      BY <1>1, <1>2, <2>1
    <3> QED
      BY <2>1, <3>1
  <2>2. CASE ~ (k < i)
    <3>1. k + 1 \in 1..n /\ k + 1 # i /\ d[k] = t[k + 1]
      BY <1>1, <1>2, <2>2
    <3> QED
      BY <2>2, <3>1
  <2> QED
    BY <2>1, <2>2
<1>4. ASSUME NEW h \in 1..n, h # i
      PROVE  \E k \in 1..(n - 1) : d[k] = t[h]
  <2>1. CASE h < i
    <3>1. h \in 1..(n - 1) /\ d[h] = t[h]
      BY <1>1, <1>2, <2>1
    <3> QED
      BY <3>1
  <2>2. CASE h > i
    <3>1. h - 1 \in 1..(n - 1) /\ d[h - 1] = t[h]
      BY <1>1, <1>2, <2>2
    <3> QED
      BY <3>1
  <2> QED
    BY <1>1, <1>4, <2>1, <2>2
<1>5. ASSUME NEW j \in 1..(n - 1), NEW k \in 1..(n - 1), j < k
      PROVE  d[j].data < d[k].data
  <2>1. PICK x \in 1..n : d[j] = t[x] /\ (j < i => x = j) /\ (~ (j < i) => x = j + 1)
    BY <1>3
  <2>2. PICK y \in 1..n : d[k] = t[y] /\ (k < i => y = k) /\ (~ (k < i) => y = k + 1)
    BY <1>3
  <2>3. x < y
    BY <1>1, <1>5, <2>1, <2>2
  <2> QED
    BY <1>1, <2>1, <2>2, <2>3
<1>6. Sorted(d)
  BY <1>2, <1>5 DEF Sorted
<1>7. \A h \in 1..n : t[h] = t[i] => h = i
  BY <1>1
<1>8. \A x : x \in Range(d) <=> x \in Range(t) /\ x # t[i]
  <2>1. \A x : x \in Range(d) <=> \E k \in 1..(n - 1) : d[k] = x
    BY <1>2, InRange
  <2>2. \A x : x \in Range(t) <=> \E k \in 1..n : t[k] = x
    BY <1>1, InRange DEF n
  <2> QED
    BY <1>3, <1>4, <1>7, <2>1, <2>2
<1>9. Range(d) = Range(t) \ {t[i]}
  BY <1>8
<1> QED
  BY <1>2, <1>6, <1>9 DEF d, n

\* So does changing one whose address stays.
LEMMA ChangedSorted ==
  ASSUME NEW t, Sorted(t), NEW i \in 1..Len(t), NEW e \in Entries, e.data = t[i].data
  PROVE  /\ Sorted([t EXCEPT ![i] = e])
         /\ Range([t EXCEPT ![i] = e]) = (Range(t) \ {t[i]}) \cup {e}
         /\ Len([t EXCEPT ![i] = e]) = Len(t)
         /\ \A k \in 1..Len(t) : [t EXCEPT ![i] = e][k] = IF k = i THEN e ELSE t[k]
<1> DEFINE d == [t EXCEPT ![i] = e]
           n == Len(t)
<1>1. /\ t \in Seq(Entries) /\ n \in Nat /\ i \in 1..n
      /\ \A k \in 1..n : t[k] \in Entries /\ t[k].data \in Nat
      /\ \A j, k \in 1..n : j < k => t[j].data < t[k].data
  BY EntryFields DEF Sorted
<1>2. /\ d \in Seq(Entries) /\ Len(d) = n
      /\ \A k \in 1..n : d[k] = IF k = i THEN e ELSE t[k]
  BY <1>1, ExceptSeq
<1> HIDE DEF d, n
<1>3. \A k \in 1..n : d[k].data = t[k].data
  BY <1>2
<1>4. Sorted(d)
  BY <1>1, <1>2, <1>3 DEF Sorted
<1>5. \A h \in 1..n : t[h] = t[i] => h = i
  BY <1>1
<1>6. \A x : x \in Range(d) <=> (x \in Range(t) /\ x # t[i]) \/ x = e
  <2>1. \A x : x \in Range(d) <=> \E k \in 1..n : d[k] = x
    BY <1>2, InRange
  <2>2. \A x : x \in Range(t) <=> \E k \in 1..n : t[k] = x
    BY <1>1, InRange DEF n
  <2> QED
    BY <1>1, <1>2, <1>5, <2>1, <2>2
<1>7. Range(d) = (Range(t) \ {t[i]}) \cup {e}
  BY <1>6
<1> QED
  BY <1>2, <1>4, <1>7 DEF d, n

-----------------------------------------------------------------------------
(* The bytes a table knows of                                               *)

\* f holds the sums of the sizes of the first entries of a table.
Sums(f, t, n) == /\ f \in [0..n -> Nat] /\ f[0] = 0
                 /\ \A k \in 1..n : f[k] = f[k - 1] + t[k].size

\* These sums exist.
LEMMA SumsExist ==
  ASSUME NEW t \in Seq(Entries)
  PROVE  \E f : Sums(f, t, Len(t))
<1> DEFINE Runs(m) == \E f : Sums(f, t, m)
           S == {m \in Nat : m <= Len(t) /\ ~ Runs(m)}
<1> SUFFICES ASSUME S # {} PROVE FALSE
  <2>1. Len(t) \in Nat
    BY EntryFields
  <2> QED
    BY <2>1
<1>1. S \in SUBSET Nat
  OBVIOUS
<1>2. PICK m \in S : \A k \in S : m <= k
  <2> HIDE DEF S
  <2> QED
    BY <1>1, FirstOf
<1>3. m \in Nat /\ m <= Len(t) /\ ~ Runs(m) /\ Len(t) \in Nat
  BY <1>2, EntryFields
<1>4. m # 0
  <2> DEFINE f == [i \in 0..0 |-> 0]
  <2>1. f \in [0..0 -> Nat] /\ f[0] = 0 /\ \A k \in 1..0 : FALSE
    OBVIOUS
  <2> HIDE DEF f
  <2>2. Sums(f, t, 0)
    BY <2>1 DEF Sums
  <2> QED
    BY <1>3, <2>2
<1>5. m - 1 \in Nat /\ ~ (m <= m - 1) /\ m - 1 <= Len(t)
  BY <1>3, <1>4
<1>6. Runs(m - 1)
  <2> HIDE DEF Runs
  <2> QED
    BY <1>2, <1>5
<1>7. PICK g : Sums(g, t, m - 1)
  BY <1>6
<1> DEFINE h == [i \in 0..m |-> IF i = m THEN g[m - 1] + t[m].size ELSE g[i]]
<1>8. m - 1 \in 0..(m - 1) /\ 0 \in 0..(m - 1) /\ \A i \in 0..m : i = m \/ i \in 0..(m - 1)
  BY <1>3, <1>5
<1>9. t[m].size \in Nat
  BY <1>3, <1>4, EntryFields
<1>10. h \in [0..m -> Nat]
  BY <1>7, <1>8, <1>9 DEF Sums
<1>11. \A k \in 1..m : h[k] = h[k - 1] + t[k].size
  <2> SUFFICES ASSUME NEW k \in 1..m PROVE h[k] = h[k - 1] + t[k].size
    OBVIOUS
  <2>1. k \in 0..m /\ k - 1 \in 0..m /\ k - 1 # m /\ k - 1 \in 0..(m - 1)
    BY <1>3
  <2>2. h[k - 1] = g[k - 1]
    BY <2>1
  <2>3. CASE k = m
    BY <2>1, <2>2, <2>3
  <2>4. CASE k # m
    <3>1. k \in 1..(m - 1)
      BY <1>3, <2>4
    <3>2. g[k] = g[k - 1] + t[k].size
      BY <1>7, <3>1 DEF Sums
    <3>3. h[k] = g[k]
      BY <2>1, <2>4
    <3> QED
      BY <2>2, <3>2, <3>3
  <2> QED
    BY <2>3, <2>4
<1>12. h[0] = 0
  BY <1>3, <1>4, <1>7, <1>8 DEF Sums
<1> HIDE DEF h
<1>13. Sums(h, t, m)
  BY <1>10, <1>11, <1>12 DEF Sums
<1> QED
  BY <1>3, <1>13

\* Known is the last of these sums.
LEMMA KnownSums ==
  ASSUME NEW t \in Seq(Entries)
  PROVE  \E f : Sums(f, t, Len(t)) /\ Known(t) = f[Len(t)]
<1> DEFINE n == Len(t)
           G(f) == [k \in 0..n |-> IF k = 0 THEN 0 ELSE f[k - 1] + t[k].size]
           sum == CHOOSE f : f = G(f)
<1>1. Known(t) = sum[n]
  BY DEF Known
<1>2. n \in Nat
  BY EntryFields
<1>3. PICK g : Sums(g, t, n)
  BY SumsExist
<1>4. g = G(g)
  <2>1. \A k \in 0..n : g[k] = IF k = 0 THEN 0 ELSE g[k - 1] + t[k].size
    <3> TAKE k \in 0..n
    <3>1. k = 0 \/ k \in 1..n
      BY <1>2
    <3> HIDE DEF n
    <3> QED
      BY <1>3, <3>1 DEF Sums
  <2>2. g \in [0..n -> Nat]
    BY <1>3 DEF Sums
  <2> HIDE DEF n
  <2> QED
    BY <2>1, <2>2
<1>5. sum = G(sum)
  BY <1>4
<1> HIDE DEF sum
<1>6. \A k \in 0..n : sum[k] = IF k = 0 THEN 0 ELSE sum[k - 1] + t[k].size
  BY <1>5
<1>7. \A k \in 1..n : t[k].size \in Nat
  BY EntryFields
<1> HIDE DEF n
<1> DEFINE S == {k \in Nat : k <= n /\ sum[k] # g[k]}
<1>8. S = {}
  <2> SUFFICES ASSUME S # {} PROVE FALSE
    OBVIOUS
  <2>1. S \in SUBSET Nat
    OBVIOUS
  <2>2. PICK k \in S : \A h \in S : k <= h
    <3> HIDE DEF S
    <3> QED
      BY <2>1, FirstOf
  <2>3. k \in Nat /\ k <= n /\ sum[k] # g[k]
    BY <2>2
  <2>4. k # 0
    BY <1>2, <1>3, <1>6, <2>3 DEF Sums
  <2>5. k - 1 \in Nat /\ k - 1 <= n /\ ~ (k <= k - 1) /\ k \in 0..n /\ k \in 1..n
    BY <1>2, <2>3, <2>4
  <2>6. sum[k - 1] = g[k - 1]
    BY <2>2, <2>5
  <2>7. sum[k] = sum[k - 1] + t[k].size
    BY <1>6, <2>4, <2>5
  <2>8. g[k] = g[k - 1] + t[k].size
    BY <1>3, <2>5 DEF Sums
  <2> QED
    BY <2>3, <2>6, <2>7, <2>8
<1>9. sum[n] = g[n]
  BY <1>2, <1>8
<1> QED
  BY <1>1, <1>3, <1>9 DEF n

\* What a table knows of is a number of bytes.
LEMMA KnownIsNat ==
  ASSUME NEW t \in Seq(Entries)
  PROVE  Known(t) \in Nat
<1>1. PICK f : Sums(f, t, Len(t)) /\ Known(t) = f[Len(t)]
  BY KnownSums
<1>2. Len(t) \in Nat
  BY EntryFields
<1>3. Len(t) \in 0..Len(t)
  BY <1>2
<1> QED
  BY <1>1, <1>3 DEF Sums

\* With one entry more, a table knows of its bytes, too.
LEMMA KnownInserted ==
  ASSUME NEW t \in Seq(Entries), NEW i \in 1..(Len(t) + 1), NEW e \in Entries
  PROVE  Known(InsertAt(t, i, e)) = Known(t) + e.size
<1> DEFINE d == InsertAt(t, i, e)
           n == Len(t)
<1>1. n \in Nat /\ i \in 1..(n + 1)
  BY EntryFields
<1>2. /\ d \in Seq(Entries) /\ Len(d) = n + 1
      /\ \A k \in 1..(n + 1) : d[k] = IF k < i THEN t[k] ELSE IF k = i THEN e ELSE t[k - 1]
  BY InsertAtFacts
<1>3. e.size \in Nat
  BY DEF Entries
<1>4. PICK f : Sums(f, t, n) /\ Known(t) = f[n]
  BY KnownSums
<1> HIDE DEF d
<1>5. PICK g : Sums(g, d, Len(d)) /\ Known(d) = g[Len(d)]
  BY <1>2, KnownSums
<1> HIDE DEF n
<1>6. /\ f \in [0..n -> Nat] /\ f[0] = 0
      /\ \A k \in 1..n : f[k] = f[k - 1] + t[k].size
  BY <1>4 DEF Sums
<1>7. /\ g \in [0..(n + 1) -> Nat] /\ g[0] = 0
      /\ \A k \in 1..(n + 1) : g[k] = g[k - 1] + d[k].size
  BY <1>2, <1>5 DEF Sums
<1> DEFINE Right(k) == g[k] = IF k < i THEN f[k] ELSE f[k - 1] + e.size
           S == {k \in Nat : k <= n + 1 /\ ~ Right(k)}
<1>8. S = {}
  <2> SUFFICES ASSUME S # {} PROVE FALSE
    OBVIOUS
  <2>1. S \in SUBSET Nat
    OBVIOUS
  <2>2. PICK k \in S : \A h \in S : k <= h
    <3> HIDE DEF S
    <3> QED
      BY <2>1, FirstOf
  <2>3. k \in Nat /\ k <= n + 1 /\ ~ Right(k)
    BY <2>2
  <2>4. k # 0
    <3>1. 0 < i
      BY <1>1
    <3>2. Right(0)
      BY <1>6, <1>7, <3>1
    <3> HIDE DEF Right
    <3> QED
      BY <2>3, <3>2
  <2>5. k - 1 \in Nat /\ k - 1 <= n + 1 /\ ~ (k <= k - 1) /\ k \in 1..(n + 1)
    BY <1>1, <2>3, <2>4
  <2>6. Right(k - 1)
    <3> HIDE DEF Right
    <3> QED
      BY <2>2, <2>5
  <2>7. g[k] = g[k - 1] + d[k].size
    BY <1>7, <2>5
  <2>8. CASE k < i
    <3>1. k - 1 < i /\ k \in 1..n /\ d[k] = t[k]
      BY <1>1, <1>2, <2>5, <2>8
    <3>2. g[k - 1] = f[k - 1] /\ f[k] = f[k - 1] + t[k].size
      BY <1>6, <2>6, <3>1
    <3> QED
      BY <2>3, <2>7, <2>8, <3>1, <3>2
  <2>9. CASE k = i
    <3>1. k - 1 < i /\ d[k] = e
      BY <1>1, <1>2, <2>5, <2>9
    <3>2. g[k - 1] = f[k - 1]
      BY <2>6, <3>1
    <3>3. ~ (k < i)
      BY <1>1, <2>9
    <3> QED
      BY <2>3, <2>7, <3>1, <3>2, <3>3
  <2>10. CASE k > i
    <3>1. ~ (k - 1 < i) /\ k - 1 \in 1..n /\ d[k] = t[k - 1] /\ ~ (k < i)
      BY <1>1, <1>2, <2>5, <2>10
    <3>2. g[k - 1] = f[k - 1 - 1] + e.size /\ f[k - 1] = f[k - 1 - 1] + t[k - 1].size
      BY <1>6, <2>6, <3>1
    <3>3. f[k - 1 - 1] \in Nat /\ t[k - 1].size \in Nat
      <4>1. k - 1 - 1 \in 0..n
        BY <1>1, <3>1
      <4>2. t[k - 1].size \in Nat
        BY <3>1, EntryFields DEF n
      <4> QED
        BY <1>6, <4>1, <4>2
    <3>4. g[k] = f[k - 1 - 1] + e.size + t[k - 1].size
      BY <2>7, <3>1, <3>2
    <3>5. g[k] = f[k - 1] + e.size
      BY <1>3, <3>2, <3>3, <3>4
    <3> QED
      BY <2>3, <3>1, <3>5
  <2> QED
    BY <1>1, <2>5, <2>8, <2>9, <2>10
<1>9. Right(n + 1)
  <2>1. n + 1 \in Nat /\ n + 1 <= n + 1
    BY <1>1
  <2> HIDE DEF Right
  <2> QED
    BY <1>8, <2>1
<1>10. g[n + 1] = f[n] + e.size
  <2>1. ~ (n + 1 < i) /\ (n + 1) - 1 = n
    BY <1>1
  <2>2. g[n + 1] = f[(n + 1) - 1] + e.size
    BY <1>9, <2>1, Zenon
  <2> QED
    BY <2>1, <2>2, Zenon
<1> QED
  BY <1>2, <1>4, <1>5, <1>10 DEF d

\* With one entry less, it does not.
LEMMA KnownRemoved ==
  ASSUME NEW t \in Seq(Entries), NEW i \in 1..Len(t)
  PROVE  Known(RemoveAt(t, i)) + t[i].size = Known(t)
<1> DEFINE d == RemoveAt(t, i)
           b == InsertAt(d, i, t[i])
           n == Len(t)
<1>1. /\ n \in Nat /\ i \in 1..n /\ t[i] \in Entries
      /\ \A k \in 1..n : t[k] \in Entries
  BY EntryFields
<1>2. /\ d \in Seq(Entries) /\ Len(d) = n - 1
      /\ \A k \in 1..(n - 1) : d[k] = IF k < i THEN t[k] ELSE t[k + 1]
  BY RemoveAtFacts
<1> HIDE DEF d
<1>3. i \in 1..(Len(d) + 1) /\ Len(d) + 1 = n
  BY <1>1, <1>2
<1>4. /\ b \in Seq(Entries) /\ Len(b) = n
      /\ \A k \in 1..n : b[k] = IF k < i THEN d[k] ELSE IF k = i THEN t[i] ELSE d[k - 1]
  <2> DEFINE e == t[i]
  <2>1. e \in Entries
    BY <1>1
  <2> HIDE DEF e
  <2>2. /\ InsertAt(d, i, e) \in Seq(Entries) /\ Len(InsertAt(d, i, e)) = Len(d) + 1
        /\ \A k \in 1..(Len(d) + 1) :
             InsertAt(d, i, e)[k] = IF k < i THEN d[k] ELSE IF k = i THEN e ELSE d[k - 1]
    BY <1>2, <1>3, <2>1, InsertAtFacts
  <2> QED
    BY <1>3, <2>2 DEF e
<1>5. Known(b) = Known(d) + t[i].size
  BY <1>1, <1>2, <1>3, KnownInserted
<1> HIDE DEF b
<1>6. ASSUME NEW k \in 1..n
      PROVE  b[k] = t[k]
  <2> HIDE DEF n
  <2>1. CASE k < i
    BY <1>1, <1>2, <1>4, <2>1, SMTT(30)
  <2>2. CASE k = i
    BY <1>1, <1>4, <2>2
  <2>3. CASE k > i
    <3>1. b[k] = d[k - 1] /\ k - 1 \in 1..(n - 1) /\ ~ (k - 1 < i) /\ (k - 1) + 1 = k
      BY <1>1, <1>4, <2>3
    <3> QED
      BY <1>2, <3>1
  <2> QED
    BY <1>1, <2>1, <2>2, <2>3
<1>7. b = t
  BY <1>4, <1>6, SeqEqual
<1> QED
  BY <1>5, <1>7 DEF d

\* A change to the entry that goes is of no account.
LEMMA RemovedChanged ==
  ASSUME NEW t \in Seq(Entries), NEW i \in 1..Len(t), NEW e \in Entries
  PROVE  RemoveAt([t EXCEPT ![i] = e], i) = RemoveAt(t, i)
<1> DEFINE d == [t EXCEPT ![i] = e]
           n == Len(t)
           x == RemoveAt(d, i)
           y == RemoveAt(t, i)
<1>1. /\ d \in Seq(Entries) /\ Len(d) = n
      /\ \A k \in 1..n : d[k] = IF k = i THEN e ELSE t[k]
  BY ExceptSeq
<1>2. n \in Nat /\ i \in 1..n
  BY EntryFields
<1> HIDE DEF d
<1>3. i \in 1..Len(d)
  BY <1>1
<1>4. /\ x \in Seq(Entries) /\ Len(x) = n - 1
      /\ \A k \in 1..(n - 1) : x[k] = IF k < i THEN d[k] ELSE d[k + 1]
  BY <1>1, <1>3, RemoveAtFacts
<1>5. /\ y \in Seq(Entries) /\ Len(y) = n - 1
      /\ \A k \in 1..(n - 1) : y[k] = IF k < i THEN t[k] ELSE t[k + 1]
  BY RemoveAtFacts
<1> HIDE DEF x, y, n
<1>6. \A k \in 1..(n - 1) : x[k] = y[k]
  <2> TAKE k \in 1..(n - 1)
  <2>1. CASE k < i
    BY <1>1, <1>2, <1>4, <1>5, <2>1
  <2>2. CASE ~ (k < i)
    <3>1. k + 1 \in 1..n /\ k + 1 # i
      BY <1>2, <2>2
    <3>2. d[k + 1] = t[k + 1]
      BY <1>1, <3>1
    <3> QED
      BY <1>4, <1>5, <2>2, <3>2
  <2> QED
    BY <2>1, <2>2
<1>7. x = y
  BY <1>4, <1>5, <1>6, SeqEqual
<1> QED
  BY <1>7 DEF d, x, y

\* An entry that changes changes what its table knows of.
LEMMA KnownChanged ==
  ASSUME NEW t \in Seq(Entries), NEW i \in 1..Len(t), NEW e \in Entries
  PROVE  Known([t EXCEPT ![i] = e]) + t[i].size = Known(t) + e.size
<1> DEFINE d == [t EXCEPT ![i] = e]
           n == Len(t)
<1>1. /\ d \in Seq(Entries) /\ Len(d) = n
      /\ \A k \in 1..n : d[k] = IF k = i THEN e ELSE t[k]
  BY ExceptSeq
<1>2. n \in Nat
  BY EntryFields
<1> HIDE DEF d
<1>3. i \in 1..Len(d) /\ d[i] = e
  BY <1>1
<1>4. Known(RemoveAt(d, i)) + e.size = Known(d)
  BY <1>1, <1>3, KnownRemoved
<1>5. Known(RemoveAt(t, i)) + t[i].size = Known(t)
  BY KnownRemoved
<1>6. RemoveAt(d, i) = RemoveAt(t, i)
  BY RemovedChanged DEF d
<1>7. /\ Known(RemoveAt(t, i)) \in Nat /\ t[i].size \in Nat /\ e.size \in Nat
  <2>1. RemoveAt(t, i) \in Seq(Entries)
    BY RemoveAtFacts
  <2>2. Known(RemoveAt(t, i)) \in Nat
    BY <2>1, KnownIsNat
  <2>3. e.size \in Nat
    BY DEF Entries
  <2> QED
    BY <2>2, <2>3, EntryFields
<1> QED
  BY <1>4, <1>5, <1>6, <1>7 DEF d

-----------------------------------------------------------------------------
(* defragment_heap                                                          *)

\* The address behind a chunk.
End(e) == e.chunk + e.size

\* The entries of a table in the order of their data; each has its data in its chunk, and
\* the chunk in front of it there.
IsClear(e) == e.prev < e.chunk /\ e.chunk <= e.data /\ e.data < End(e)

\* A table of clear entries, sorted.
Clear(t) == /\ t \in Seq(Entries) /\ ByData(t)
            /\ \A i \in 1..Len(t) : IsClear(t[i])

\* The entry p takes over the bytes of the entry q.
Grown(e, n) == [e EXCEPT !.size = @ + n]

\* The entry p takes over the bytes of the entry q, which goes.
Joined(t, p, q) == RemoveAt([t EXCEPT ![p] = Grown(t[p], t[q].size)], q)

\* An entry that has grown.
LEMMA GrownIs ==
  ASSUME NEW e \in Entries, NEW n \in Nat
  PROVE  /\ Grown(e, n) \in Entries
         /\ Grown(e, n).chunk = e.chunk /\ Grown(e, n).data = e.data
         /\ Grown(e, n).prev = e.prev /\ Grown(e, n).size = e.size + n
         /\ End(Grown(e, n)) = End(e) + n
<1>1. e.size \in Nat /\ e.chunk \in Nat
  BY DEF Entries
<1>2. /\ Grown(e, n) \in Entries
      /\ Grown(e, n).chunk = e.chunk /\ Grown(e, n).data = e.data
      /\ Grown(e, n).prev = e.prev /\ Grown(e, n).size = e.size + n
  BY <1>1 DEF Entries, Grown
<1> QED
  BY <1>1, <1>2 DEF End

\* The entries of a table after two of them were joined.
LEMMA JoinedIs ==
  ASSUME NEW t \in Seq(Entries), NEW p \in 1..Len(t), NEW q \in 1..Len(t), p # q
  PROVE  /\ Joined(t, p, q) \in Seq(Entries) /\ Len(Joined(t, p, q)) = Len(t) - 1
         /\ \A k \in 1..(Len(t) - 1) :
              LET h == IF k < q THEN k ELSE k + 1
              IN  /\ h \in 1..Len(t) /\ h # q
                  /\ Joined(t, p, q)[k] = IF h = p THEN Grown(t[p], t[q].size) ELSE t[h]
<1> DEFINE e == Grown(t[p], t[q].size)
           g == [t EXCEPT ![p] = e]
           d == RemoveAt(g, q)
           n == Len(t)
<1>1. /\ n \in Nat /\ \A i \in 1..n : t[i] \in Entries /\ t[i].size \in Nat
  BY EntryFields
<1>2. e \in Entries
  BY <1>1, GrownIs
<1>3. Joined(t, p, q) = d
  BY DEF Joined
<1> HIDE DEF e
<1>4. /\ g \in Seq(Entries) /\ Len(g) = n
      /\ \A k \in 1..n : g[k] = IF k = p THEN e ELSE t[k]
  BY <1>2, ExceptSeq
<1> HIDE DEF g
<1>5. q \in 1..Len(g)
  BY <1>4
<1>6. /\ d \in Seq(Entries) /\ Len(d) = n - 1
      /\ \A k \in 1..(n - 1) : d[k] = IF k < q THEN g[k] ELSE g[k + 1]
  BY <1>4, <1>5, RemoveAtFacts
<1> HIDE DEF d
<1>7. q \in 1..n
  OBVIOUS
<1> HIDE DEF n
<1>8. ASSUME NEW k \in 1..(n - 1), NEW h, h = IF k < q THEN k ELSE k + 1
      PROVE  /\ h \in 1..n /\ h # q
             /\ d[k] = IF h = p THEN e ELSE t[h]
  <2>1. h \in 1..n /\ h # q
    BY <1>1, <1>7, <1>8
  <2>2. d[k] = g[h]
    BY <1>6, <1>8
  <2> QED
    BY <1>4, <2>1, <2>2
<1>9. \A k \in 1..(n - 1) :
        LET h == IF k < q THEN k ELSE k + 1
        IN  /\ h \in 1..n /\ h # q
            /\ d[k] = IF h = p THEN e ELSE t[h]
  BY <1>8
<1> QED
  BY <1>3, <1>6, <1>9 DEF e, n

\* Joining entries loses no byte.
LEMMA KnownJoined ==
  ASSUME NEW t \in Seq(Entries), NEW p \in 1..Len(t), NEW q \in 1..Len(t), p # q
  PROVE  Known(Joined(t, p, q)) = Known(t)
<1> DEFINE e == Grown(t[p], t[q].size)
           g == [t EXCEPT ![p] = e]
<1>1. t[p] \in Entries /\ t[p].size \in Nat /\ t[q].size \in Nat
  BY EntryFields
<1>2. e \in Entries /\ e.size = t[p].size + t[q].size
  BY <1>1, GrownIs
<1> HIDE DEF e
<1>3. Known(g) + t[p].size = Known(t) + e.size
  BY <1>2, KnownChanged
<1>4. /\ g \in Seq(Entries) /\ Len(g) = Len(t) /\ g[q] = t[q]
  BY <1>2, ExceptSeq
<1> HIDE DEF g
<1>5. Known(RemoveAt(g, q)) + g[q].size = Known(g)
  BY <1>4, KnownRemoved
<1>6. Known(t) \in Nat /\ Known(g) \in Nat
  BY <1>4, KnownIsNat
<1>7. Known(RemoveAt(g, q)) \in Nat
  BY <1>4, RemoveAtFacts, KnownIsNat
<1>8. Joined(t, p, q) = RemoveAt(g, q)
  BY DEF Joined, g, e
<1> QED
  BY <1>1, <1>2, <1>3, <1>4, <1>5, <1>6, <1>7, <1>8

\* The table stays sorted and its entries clear when two that touch are joined.
LEMMA JoinedClear ==
  ASSUME NEW t, Clear(t), NEW p \in 1..Len(t), NEW q \in 1..Len(t), p # q
  PROVE  Clear(Joined(t, p, q))
<1> DEFINE d == Joined(t, p, q)
           n == Len(t)
           From(k) == IF k < q THEN k ELSE k + 1
<1>1. /\ n \in Nat /\ p \in 1..n /\ q \in 1..n /\ t \in Seq(Entries)
      /\ \A i \in 1..n : /\ t[i] \in Entries /\ t[i].chunk \in Nat /\ t[i].data \in Nat
                         /\ t[i].prev \in Nat /\ t[i].size \in Nat
      /\ \A i \in 1..n : IsClear(t[i])
      /\ \A i, j \in 1..n : i < j => t[i].data <= t[j].data
  BY EntryFields DEF Clear, ByData
<1>2. /\ d \in Seq(Entries) /\ Len(d) = n - 1
      /\ \A k \in 1..(n - 1) :
           /\ From(k) \in 1..n
           /\ d[k] = IF From(k) = p THEN Grown(t[p], t[q].size) ELSE t[From(k)]
  BY <1>1, JoinedIs
<1>3. \A j, k \in 1..(n - 1) : j < k => From(j) < From(k)
  BY <1>1
<1> HIDE DEF d, n, From
<1>4. ASSUME NEW k \in 1..(n - 1)
      PROVE  d[k].data = t[From(k)].data /\ IsClear(d[k])
  <2>1. CASE From(k) = p
    <3>1. d[k] = Grown(t[p], t[q].size)
      BY <1>2, <2>1
    <3> DEFINE m == t[q].size
               e == t[p]
    <3>4. e \in Entries /\ m \in Nat /\ d[k] = Grown(e, m)
      BY <1>1, <3>1
    <3> HIDE DEF e, m
    <3>5. d[k].chunk = e.chunk /\ d[k].data = e.data /\ d[k].prev = e.prev /\ End(d[k]) = End(e) + m
      BY <3>4, GrownIs
    <3>2. /\ d[k].chunk = t[p].chunk /\ d[k].data = t[p].data /\ d[k].prev = t[p].prev
          /\ End(d[k]) = End(t[p]) + t[q].size
      BY <3>5 DEF e, m
    <3>3. IsClear(t[p]) /\ t[p].data \in Nat /\ t[q].size \in Nat /\ End(t[p]) \in Nat
      BY <1>1 DEF End
    <3> QED
      BY <2>1, <3>2, <3>3 DEF IsClear
  <2>2. CASE From(k) # p
    BY <1>1, <1>2, <2>2
  <2> QED
    BY <2>1, <2>2
<1>5. ByData(d)
  BY <1>1, <1>2, <1>3, <1>4 DEF ByData
<1> QED
  BY <1>2, <1>4, <1>5 DEF Clear, d

\* A turn of defragment_heap either starts again, or joins the next chunk to the one at i,
\* if there is one, and then goes on, or joins this one to the chunk in front of it.
Next(t, i) == {j \in 1..Len(t) : t[j].chunk = End(t[i])}

\* u is t after the search for the chunk behind its entry i.
WithNext(t, i, u) == IF Next(t, i) = {} THEN u = t
                     ELSE \E j \in Next(t, i) : j > i /\ u = Joined(t, i, j)

\* The cases of a turn of defragment_heap.
LEMMA SweepTurnIs ==
  ASSUME NEW s, Clear(s.table), s.i \in Nat \ {0}
  PROVE  \/ s.i > Len(s.table) /\ SweepTurn(s) = Sweep(s.table, 1, FALSE)
         \/ /\ s.i <= Len(s.table)
            /\ \E u : /\ WithNext(s.table, s.i, u) /\ s.i <= Len(u)
                      /\ Clear(u)
                      /\ \/ SweepTurn(s) = Sweep(u, s.i + 1, s.merged \/ Next(s.table, s.i) # {})
                         \/ \E p \in 1..Len(u) :
                              /\ p # s.i /\ u[p].data = u[s.i].prev
                              /\ SweepTurn(s) = Sweep(Joined(u, p, s.i), 1, FALSE)
<1> DEFINE t == s.table
           i == s.i
           next == {j \in DOMAIN t \ {i} : t[j].chunk = t[i].chunk + t[i].size}
           j == CHOOSE k \in next : \A h \in next : k <= h
           grown == [t EXCEPT ![i].size = @ + t[j].size]
           joined == IF next = {} THEN t ELSE RemoveAt(grown, j)
           current == IF i \in DOMAIN joined THEN joined[i] ELSE grown[i]
           prev == SearchByPtr(joined, current.prev)
           above == [joined EXCEPT ![prev].size = @ + current.size]
<1>1. SweepTurn(s) =
        IF i > Len(t) THEN Sweep(t, 1, FALSE)
        ELSE IF prev = 0 THEN Sweep(joined, i + 1, s.merged \/ next # {})
        ELSE Sweep(IF i \in DOMAIN above THEN RemoveAt(above, i) ELSE above, 1, FALSE)
  BY DEF SweepTurn
<1>2. /\ t \in Seq(Entries) /\ Len(t) \in Nat /\ i \in Nat \ {0} /\ DOMAIN t = 1..Len(t)
      /\ \A k \in 1..Len(t) : /\ t[k] \in Entries /\ t[k].chunk \in Nat /\ t[k].data \in Nat
                              /\ t[k].prev \in Nat /\ t[k].size \in Nat
      /\ \A k \in 1..Len(t) : IsClear(t[k])
      /\ \A h, k \in 1..Len(t) : h < k => t[h].data <= t[k].data
  BY EntryFields DEF Clear, ByData
<1>3. CASE i > Len(t)
  BY <1>1, <1>3
<1>4. CASE ~ (i > Len(t))
  <2>1. i \in 1..Len(t)
    BY <1>2, <1>4
  <2>2. \A k \in Next(t, i) : k \in 1..Len(t) /\ k > i
    <3> TAKE k \in Next(t, i)
    <3>1. k \in 1..Len(t) /\ t[k].chunk = End(t[i])
      BY DEF Next
    <3>2. t[i].data < t[k].data
      <4>1. t[i].data < End(t[i]) /\ t[k].chunk <= t[k].data
        BY <1>2, <2>1, <3>1 DEF IsClear
      <4> QED
        BY <1>2, <2>1, <3>1, <4>1
    <3>3. ~ (k < i) /\ k # i
      BY <1>2, <2>1, <3>1, <3>2
    <3> QED
      BY <1>2, <2>1, <3>1, <3>3
  <2>3. next = Next(t, i)
    BY <1>2, <2>1, <2>2 DEF Next, End
  <2>4. next # {} => j \in next
    <3> SUFFICES ASSUME next # {} PROVE j \in next
      OBVIOUS
    <3>1. next \in SUBSET Nat
      BY <1>2
    <3> HIDE DEF next
    <3>2. \E k \in next : \A h \in next : k <= h
      BY <3>1, FirstOf
    <3> QED
      BY <3>2
  <2> HIDE DEF next, j
  <2>5. grown = [t EXCEPT ![i] = Grown(t[i], t[j].size)]
    BY <1>2, <2>1 DEF Grown
  <2>6. next # {} => joined = Joined(t, i, j)
    <3> HIDE DEF grown
    <3> QED
      BY <2>5 DEF Joined
  <2>7. WithNext(t, i, joined)
    <3> HIDE DEF joined, t, i
    <3>1. CASE next = {}
      BY <2>3, <3>1 DEF WithNext, joined
    <3>2. CASE next # {}
      BY <2>2, <2>3, <2>4, <2>6, <3>2 DEF WithNext
    <3> QED
      BY <3>1, <3>2
  <2>8. Clear(joined) /\ i <= Len(joined)
    <3>1. CASE next = {}
      BY <2>1, <3>1
    <3>2. CASE next # {}
      <4>1. j \in 1..Len(t) /\ j > i
        BY <2>2, <2>3, <2>4, <3>2
      <4>2. joined = Joined(t, i, j)
        BY <2>6, <3>2
      <4> HIDE DEF joined, t, i
      <4>3. Clear(t) /\ i # j
        BY <1>2, <4>1 DEF t
      <4>4. Clear(joined)
        BY <2>1, <4>1, <4>2, <4>3, JoinedClear
      <4>5. Len(joined) = Len(t) - 1
        BY <1>2, <2>1, <4>1, <4>2, <4>3, JoinedIs
      <4> QED
        BY <1>2, <4>1, <4>4, <4>5
    <3> QED
      BY <3>1, <3>2
  <2> HIDE DEF joined
  <2>9. /\ joined \in Seq(Entries) /\ Len(joined) \in Nat /\ DOMAIN joined = 1..Len(joined)
        /\ \A k \in 1..Len(joined) : /\ joined[k] \in Entries /\ joined[k].chunk \in Nat
                                     /\ joined[k].data \in Nat /\ joined[k].prev \in Nat
                                     /\ joined[k].size \in Nat /\ IsClear(joined[k])
    BY <2>8, EntryFields DEF Clear
  <2>10. i \in 1..Len(joined)
    BY <1>2, <2>8, <2>9
  <2>11. current = joined[i]
    BY <2>9, <2>10
  <2> HIDE DEF current
  <2>12. /\ prev \in 0..Len(joined)
         /\ prev # 0 => joined[prev].data = current.prev
    BY <2>9, <2>10, <2>11, PtrFound, SMTT(30)
  <2> HIDE DEF prev
  <2>13. CASE prev = 0
    <3>1. SweepTurn(s) = Sweep(joined, i + 1, s.merged \/ Next(t, i) # {})
      BY <1>1, <1>4, <2>3, <2>13
    <3> QED
      <4>1. i <= Len(t)
        BY <1>2, <1>4
      <4> HIDE DEF t, i
      <4> QED
        BY <2>7, <2>8, <3>1, <4>1 DEF t, i
  <2>14. CASE prev # 0
    <3>1. prev \in 1..Len(joined) /\ joined[prev].data = joined[i].prev
      BY <2>9, <2>11, <2>12, <2>14
    <3>2. prev # i
      BY <2>9, <2>10, <3>1 DEF IsClear
    <3>3. above = [joined EXCEPT ![prev] = Grown(joined[prev], joined[i].size)]
      BY <2>9, <2>11, <3>1 DEF Grown
    <3>4. DOMAIN above = 1..Len(joined)
      BY <2>9
    <3> HIDE DEF above
    <3>5. RemoveAt(above, i) = Joined(joined, prev, i)
      BY <3>3 DEF Joined
    <3>6. SweepTurn(s) = Sweep(Joined(joined, prev, i), 1, FALSE)
      BY <1>1, <1>4, <2>10, <2>14, <3>4, <3>5
    <3> HIDE DEF t, i
    <3>7. \E p \in 1..Len(joined) :
            /\ p # i /\ joined[p].data = joined[i].prev
            /\ SweepTurn(s) = Sweep(Joined(joined, p, i), 1, FALSE)
      BY <3>1, <3>2, <3>6
    <3>8. i <= Len(t)
      BY <1>2, <1>4
    <3> QED
      BY <2>7, <2>8, <3>7, <3>8 DEF t, i
  <2> QED
    BY <2>13, <2>14
<1> QED
  BY <1>3, <1>4

\* What defragment_heap may be at.
Sweeps == {s \in [table : Seq(Entries), i : Nat \ {0}, merged : BOOLEAN] :
             Clear(s.table) /\ s.i <= Len(s.table) + 1}

\* Its loop has ended.
Settled(s) == s.i > Len(s.table) /\ ~ s.merged

\* At most so many turns are left.
TurnsLeft(n, i, again) == n * n + (n + 1 - i) + again

\* The turns another sweep takes, when this one has merged something.
Again(n, merged) == IF merged THEN n + 1 ELSE 0

\* At most so many turns are left of a sweep.
Left(s) == IF Settled(s) THEN 0 ELSE TurnsLeft(Len(s.table), s.i, Again(Len(s.table), s.merged))

\* What Sweep makes.
LEMMA SweepOf ==
  ASSUME NEW t, Clear(t), NEW i \in Nat \ {0}, i <= Len(t) + 1, NEW m \in BOOLEAN
  PROVE  /\ Sweep(t, i, m) \in Sweeps
         /\ Sweep(t, i, m).table = t /\ Sweep(t, i, m).i = i /\ Sweep(t, i, m).merged = m
<1>1. t \in Seq(Entries)
  BY DEF Clear
<1>2. Sweep(t, i, m).table = t /\ Sweep(t, i, m).i = i /\ Sweep(t, i, m).merged = m
  BY DEF Sweep
<1>3. Sweep(t, i, m) \in [table : Seq(Entries), i : Nat \ {0}, merged : BOOLEAN]
  BY <1>1 DEF Sweep
<1> QED
  BY <1>2, <1>3 DEF Sweeps

\* The arithmetic of the turns.
LEMMA TurnsFewer ==
  ASSUME NEW n \in Nat, NEW i \in Nat \ {0}, i <= n + 1, NEW x \in Nat
  PROVE  /\ TurnsLeft(n, i, x) \in Nat
         /\ i > n => TurnsLeft(n, 1, 0) < TurnsLeft(n, i, n + 1)
         /\ i <= n => /\ TurnsLeft(n, i, x) # 0
                      /\ TurnsLeft(n, i + 1, x) < TurnsLeft(n, i, x)
                      /\ \A k \in Nat : k < n => TurnsLeft(k, 1, 0) < TurnsLeft(n, i, x)
                      /\ i <= n - 1 => TurnsLeft(n - 1, i + 1, n) < TurnsLeft(n, i, x)
<1>1. n * n \in Nat
  OBVIOUS
<1>2. (n - 1) * (n - 1) = n * n - 2 * n + 1
  OBVIOUS
<1>3. ASSUME NEW k \in Nat, k < n
      PROVE  k * k + k < n * n
  <2>1. k * k + k = k * (k + 1)
    OBVIOUS
  <2>2. k + 1 <= n /\ k + 1 \in Nat
    BY <1>3
  <2>3. k * (k + 1) <= k * n
    BY <2>2
  <2>4. k * n < n * n
    BY <1>3
  <2> QED
    BY <2>1, <2>3, <2>4
<1> DEFINE q == n * n
<1>4. q \in Nat /\ q = n * n
  BY <1>1
<1> HIDE DEF q
<1>5. TurnsLeft(n, i, x) = q + (n + 1 - i) + x
  BY <1>4 DEF TurnsLeft
<1>6. TurnsLeft(n, i, x) \in Nat /\ (i <= n => TurnsLeft(n, i, x) # 0)
  BY <1>4, <1>5
<1>7. i > n => TurnsLeft(n, 1, 0) < TurnsLeft(n, i, n + 1)
  BY <1>4 DEF TurnsLeft
<1>8. TurnsLeft(n, i + 1, x) < TurnsLeft(n, i, x)
  BY <1>4, <1>5 DEF TurnsLeft
<1>9. ASSUME i <= n, NEW k \in Nat, k < n
      PROVE  TurnsLeft(k, 1, 0) < TurnsLeft(n, i, x)
  <2> DEFINE p == k * k
  <2>1. p \in Nat /\ p = k * k /\ p + k < q
    BY <1>3, <1>4, <1>9
  <2> HIDE DEF p
  <2>2. TurnsLeft(k, 1, 0) = p + (k + 1 - 1) + 0
    BY <2>1 DEF TurnsLeft
  <2> QED
    BY <1>4, <1>5, <1>9, <2>1, <2>2
<1>10. ASSUME i <= n - 1
       PROVE  TurnsLeft(n - 1, i + 1, n) < TurnsLeft(n, i, x)
  <2>1. TurnsLeft(n - 1, i + 1, n) = (n - 1) * (n - 1) + (n - 1 + 1 - (i + 1)) + n
    BY DEF TurnsLeft
  <2>2. TurnsLeft(n - 1, i + 1, n) = (q - 2 * n + 1) + (n - 1 + 1 - (i + 1)) + n
    BY <1>2, <1>4, <2>1
  <2> QED
    BY <1>4, <1>5, <1>10, <2>2
<1> QED
  BY <1>6, <1>7, <1>8, <1>9, <1>10

\* A turn leaves a sweep, and brings its end nearer.
LEMMA TurnNearer ==
  ASSUME NEW s \in Sweeps
  PROVE  /\ Left(s) \in Nat
         /\ ~ Settled(s) => /\ SweepTurn(s) \in Sweeps
                            /\ \/ Left(SweepTurn(s)) < Left(s)
                               \/ Left(SweepTurn(s)) = 0
                            /\ Left(s) # 0
<1> DEFINE t == s.table
           n == Len(t)
           i == s.i
           r == SweepTurn(s)
<1>1. /\ Clear(t) /\ i \in Nat \ {0} /\ s.merged \in BOOLEAN /\ n \in Nat
      /\ i <= n + 1 /\ t \in Seq(Entries)
  BY EntryFields DEF Sweeps
<1>5. /\ Again(n, s.merged) \in Nat /\ Again(n, FALSE) = 0 /\ Again(n, TRUE) = n + 1
      /\ s.merged => Again(n, s.merged) = n + 1
  BY <1>1 DEF Again
<1>2. TurnsLeft(n, i, Again(n, s.merged)) \in Nat
  BY <1>1, <1>5, TurnsFewer
<1>3. Left(s) \in Nat
  BY <1>2 DEF Left
<1>4. ASSUME ~ Settled(s)
      PROVE  /\ r \in Sweeps /\ (Left(r) < Left(s) \/ Left(r) = 0)
             /\ Left(s) # 0
  <2>1. Left(s) = TurnsLeft(n, i, Again(n, s.merged))
    BY <1>4 DEF Left
  <2>2. i <= n \/ (i > n /\ s.merged)
    BY <1>1, <1>4 DEF Settled
  <2>3. Left(s) # 0
    <3> HIDE DEF n, i
    <3>1. CASE i <= n
      BY <1>1, <1>5, <2>1, <3>1, TurnsFewer
    <3>2. CASE i > n /\ s.merged
      <4>1. TurnsLeft(n, 1, 0) < TurnsLeft(n, i, n + 1) /\ TurnsLeft(n, 1, 0) \in Nat
        <5>1. 1 \in Nat \ {0} /\ 1 <= n + 1 /\ 0 \in Nat
          BY <1>1
        <5>2. TurnsLeft(n, 1, 0) \in Nat
          BY <1>1, <5>1, TurnsFewer
        <5> QED
          BY <1>1, <3>2, <5>1, <5>2, TurnsFewer
      <4>2. Left(s) = TurnsLeft(n, i, n + 1)
        BY <1>5, <2>1, <3>2, Zenon
      <4>3. \A a \in Nat : ~ (a < 0)
        OBVIOUS
      <4> QED
        BY <4>1, <4>2, <4>3
    <3> QED
      BY <2>2, <3>1, <3>2
  <2>4. ASSUME NEW u, Clear(u), Len(u) \in Nat, NEW j \in Nat \ {0}, j <= Len(u) + 1, NEW m \in BOOLEAN,
               r = Sweep(u, j, m), TurnsLeft(Len(u), j, Again(Len(u), m)) < TurnsLeft(n, i, Again(n, s.merged))
        PROVE  r \in Sweeps /\ (Left(r) < Left(s) \/ Left(r) = 0)
    <3> HIDE DEF n, i, r
    <3>1. r \in Sweeps /\ r.table = u /\ r.i = j /\ r.merged = m
      BY <2>4, SweepOf
    <3> QED
      BY <2>1, <2>4, <3>1 DEF Left
  <2>5. \/ i > n /\ r = Sweep(t, 1, FALSE)
        \/ /\ i <= n
           /\ \E u : /\ WithNext(t, i, u) /\ i <= Len(u)
                     /\ Clear(u)
                     /\ \/ r = Sweep(u, i + 1, s.merged \/ Next(t, i) # {})
                        \/ \E p \in 1..Len(u) :
                             /\ p # i /\ u[p].data = u[i].prev
                             /\ r = Sweep(Joined(u, p, i), 1, FALSE)
    BY <1>1, SweepTurnIs
  <2>6. CASE i > n /\ r = Sweep(t, 1, FALSE)
    <3>1. s.merged
      BY <1>1, <2>2, <2>6
    <3>2. TurnsLeft(n, 1, Again(n, FALSE)) < TurnsLeft(n, i, Again(n, s.merged))
      <4> HIDE DEF n, i
      <4> QED
        BY <1>1, <1>5, <2>6, <3>1, TurnsFewer
    <3>3. 1 \in Nat \ {0} /\ 1 <= n + 1 /\ FALSE \in BOOLEAN
      BY <1>1
    <3> QED
      BY <1>1, <2>3, <2>4, <2>6, <3>2, <3>3
  <2>7. CASE i <= n
    <3>1. PICK u : /\ WithNext(t, i, u) /\ i <= Len(u)
                   /\ Clear(u)
                   /\ \/ r = Sweep(u, i + 1, s.merged \/ Next(t, i) # {})
                      \/ \E p \in 1..Len(u) :
                           /\ p # i /\ u[p].data = u[i].prev
                           /\ r = Sweep(Joined(u, p, i), 1, FALSE)
      <4>1. ~ (i > n)
        BY <1>1, <2>7
      <4> HIDE DEF t, i, n, r
      <4> QED
        BY <2>5, <4>1
    <3>2. u \in Seq(Entries) /\ Len(u) \in Nat
      BY <3>1, EntryFields DEF Clear
    <3>3. \/ u = t /\ Next(t, i) = {}
          \/ Len(u) = n - 1 /\ Next(t, i) # {}
      <4>1. CASE Next(t, i) = {}
        BY <3>1, <4>1 DEF WithNext
      <4>2. CASE Next(t, i) # {}
        <5>1. PICK j \in Next(t, i) : j > i /\ u = Joined(t, i, j)
          BY <3>1, <4>2 DEF WithNext
        <5>2. j \in 1..n /\ i \in 1..n /\ i # j
          BY <1>1, <2>7, <5>1 DEF Next
        <5>3. Len(u) = n - 1
          <6> HIDE DEF t, i
          <6> QED
            BY <1>1, <5>1, <5>2, JoinedIs DEF n
        <5> QED
          BY <4>2, <5>3
      <4> QED
        BY <4>1, <4>2
    <3> HIDE DEF t, i, r
    <3>4. CASE r = Sweep(u, i + 1, s.merged \/ Next(t, i) # {})
      <4>1. i + 1 \in Nat \ {0} /\ i + 1 <= Len(u) + 1
        BY <1>1, <3>1, <3>2
      <4>2. TurnsLeft(Len(u), i + 1, Again(Len(u), s.merged \/ Next(t, i) # {}))
              < TurnsLeft(n, i, Again(n, s.merged))
        <5>1. CASE u = t /\ Next(t, i) = {}
          <6>1. Len(u) = n /\ (s.merged \/ Next(t, i) # {}) = s.merged
            BY <1>1, <5>1 DEF n
          <6>2. TurnsLeft(n, i + 1, Again(n, s.merged)) < TurnsLeft(n, i, Again(n, s.merged))
            <7> HIDE DEF n
            <7> QED
              BY <1>1, <1>5, <2>7, TurnsFewer
          <6> QED
            BY <6>1, <6>2
        <5>2. CASE Len(u) = n - 1 /\ Next(t, i) # {}
          <6>1. (s.merged \/ Next(t, i) # {}) = TRUE /\ i <= n - 1
            BY <1>1, <3>1, <5>2
          <6>2. TurnsLeft(n - 1, i + 1, n) < TurnsLeft(n, i, Again(n, s.merged))
            <7> HIDE DEF n
            <7> QED
              BY <1>1, <1>5, <2>7, <6>1, TurnsFewer
          <6>3. Again(n - 1, TRUE) = n
            BY <1>1 DEF Again
          <6> QED
            BY <5>2, <6>1, <6>2, <6>3
        <5> QED
          BY <3>3, <5>1, <5>2
      <4>3. (s.merged \/ Next(t, i) # {}) \in BOOLEAN
        BY <1>1
      <4> QED
        BY <2>3, <2>4, <3>1, <3>2, <3>4, <4>1, <4>2, <4>3
    <3>5. CASE \E p \in 1..Len(u) : /\ p # i /\ u[p].data = u[i].prev
                                    /\ r = Sweep(Joined(u, p, i), 1, FALSE)
      <4>1. PICK p \in 1..Len(u) : p # i /\ r = Sweep(Joined(u, p, i), 1, FALSE)
        BY <3>5
      <4>2. i \in 1..Len(u)
        BY <1>1, <3>1, <3>2
      <4> DEFINE d == Joined(u, p, i)
      <4>3. Clear(d)
        BY <3>1, <4>1, <4>2, JoinedClear
      <4>4. Len(d) = Len(u) - 1
        BY <3>2, <4>1, <4>2, JoinedIs
      <4>5. Len(d) \in Nat /\ Len(d) < n /\ 1 <= Len(d) + 1
        <5> HIDE DEF d
        <5>1. Len(u) = n \/ Len(u) = n - 1
          BY <3>3 DEF n
        <5> HIDE DEF n
        <5> QED
          BY <1>1, <3>2, <4>2, <4>4, <5>1
      <4>6. r = Sweep(d, 1, FALSE)
        BY <4>1
      <4> HIDE DEF d, n
      <4>7. TurnsLeft(Len(d), 1, Again(Len(d), FALSE)) < TurnsLeft(n, i, Again(n, s.merged))
        <5>1. Again(Len(d), FALSE) = 0
          BY DEF Again
        <5>2. \A k \in Nat : k < n => TurnsLeft(k, 1, 0) < TurnsLeft(n, i, Again(n, s.merged))
          BY <1>1, <1>5, <2>7, TurnsFewer
        <5> QED
          BY <4>5, <5>1, <5>2
      <4>8. 1 \in Nat \ {0} /\ FALSE \in BOOLEAN
        OBVIOUS
      <4> QED
        BY <2>3, <2>4, <4>3, <4>5, <4>6, <4>7, <4>8
    <3> QED
      BY <3>1, <3>4, <3>5
  <2> QED
    BY <2>2, <2>5, <2>6, <2>7
<1> QED
  BY <1>3, <1>4

\* defragment_heap ends with a loop over the whole table that merges nothing; what its
\* turns keep holds then.
LEMMA Settles ==
  ASSUME NEW t, Clear(t), NEW W \in SUBSET Sweeps, Sweep(t, 1, FALSE) \in W,
         \A s \in W : ~ Settled(s) => SweepTurn(s) \in W
  PROVE  \E s \in W : Settled(s) /\ Defragmented(t) = s.table
<1> DEFINE n == (Len(t) + 1) * (Len(t) + 1)
           v0 == Sweep(t, 1, FALSE)
           Turn(s) == IF s.i > Len(s.table) /\ ~ s.merged THEN s ELSE SweepTurn(s)
           F == [s \in W |-> Turn(s)]
           left == [s \in W |-> Left(s)]
           G(f) == [k \in 0..n |-> IF k = 0 THEN v0 ELSE Turn(f[k - 1])]
           after == CHOOSE f : f = G(f)
<1>1. Defragmented(t) = after[n].table
  BY DEF Defragmented
<1>2. Len(t) \in Nat /\ n \in Nat
  BY EntryFields DEF Clear
<1>3. v0 \in W /\ Left(v0) <= n
  <2>1. v0 \in W
    OBVIOUS
  <2>2. v0.table = t /\ v0.i = 1 /\ v0.merged = FALSE
    BY DEF Sweep
  <2> HIDE DEF v0
  <2> DEFINE m == Len(t)
  <2>3. Left(v0) = 0 \/ Left(v0) = TurnsLeft(m, 1, 0)
    BY <2>2 DEF Left, Again
  <2>4. n = (m + 1) * (m + 1) /\ m \in Nat
    BY <1>2
  <2> HIDE DEF m, n
  <2>5. TurnsLeft(m, 1, 0) = m * m + m /\ m * m \in Nat
    BY <2>4 DEF TurnsLeft
  <2>6. n = m * m + 2 * m + 1
    BY <2>4
  <2>7. 0 <= n
    BY <2>4, <2>5, <2>6
  <2>8. m * m + m <= n
    BY <2>4, <2>5, <2>6
  <2> QED
    BY <2>1, <2>3, <2>5, <2>7, <2>8
<1>4. \A s \in W : /\ Turn(s) \in W
                   /\ (Left(Turn(s)) < Left(s) \/ Left(Turn(s)) = 0)
                   /\ Left(s) \in Nat /\ (Left(s) = 0 => Settled(s))
  <2> TAKE s \in W
  <2>1. s \in Sweeps
    OBVIOUS
  <2>2. Left(s) \in Nat /\ (Left(s) = 0 => Settled(s))
    BY <2>1, TurnNearer
  <2>3. CASE Settled(s)
    <3>1. Turn(s) = s
      BY <2>3 DEF Settled
    <3>2. Left(s) = 0
      BY <2>3 DEF Left
    <3> HIDE DEF Turn
    <3> QED
      BY <2>2, <3>1, <3>2
  <2>4. CASE ~ Settled(s)
    <3>1. Turn(s) = SweepTurn(s)
      BY <2>4 DEF Settled
    <3> HIDE DEF Turn
    <3>2. Left(SweepTurn(s)) < Left(s) \/ Left(SweepTurn(s)) = 0
      BY <2>1, <2>4, TurnNearer
    <3> QED
      BY <2>2, <2>4, <3>1, <3>2
  <2> QED
    BY <2>3, <2>4
<1>5. F \in [W -> W] /\ left \in [W -> Nat] /\ left[v0] <= n
  <2> HIDE DEF Turn, v0, n
  <2> QED
    BY <1>2, <1>3, <1>4
<1>6. \A s \in W : F[s] = Turn(s) /\ left[s] = Left(s)
  <2> HIDE DEF Turn
  <2> QED
    OBVIOUS
<1>7. \A s \in W : left[F[s]] < left[s] \/ left[F[s]] = 0
  <2> HIDE DEF Turn, F, left
  <2> QED
    BY <1>4, <1>6
<1> HIDE DEF v0, F, left, n, Turn
<1>10. PICK g : g \in [0..n -> W] /\ Loop(g, v0, F, W, n)
  BY <1>2, <1>3, <1>5, LoopRuns
<1>11. g = G(g)
  <2>1. \A k \in 0..n : g[k] = IF k = 0 THEN v0 ELSE Turn(g[k - 1])
    <3> TAKE k \in 0..n
    <3>1. CASE k = 0
      BY <1>10, <3>1 DEF Loop
    <3>2. CASE k # 0
      <4>1. k \in 1..n /\ k - 1 \in 0..n
        BY <1>2, <3>2
      <4>2. g[k - 1] \in W /\ g[k] = F[g[k - 1]]
        BY <1>10, <4>1 DEF Loop
      <4> QED
        BY <1>6, <3>2, <4>2
    <3> QED
      BY <3>1, <3>2
  <2> QED
    BY <1>10, <2>1
<1>12. after = G(after)
  BY <1>11
<1> HIDE DEF after
<1>13. Loop(after, v0, F, W, n)
  <2>1. \A k \in 0..n : after[k] = IF k = 0 THEN v0 ELSE Turn(after[k - 1])
    BY <1>12
  <2>2. \A k \in 1..n : k \in 0..n /\ k # 0
    BY <1>2
  <2>3. 0 \in 0..n
    BY <1>2
  <2> QED
    BY <1>6, <2>1, <2>2, <2>3 DEF Loop
<1>14. after[n] \in W
  <2>1. \A k \in 0..n : after[k] \in W
    BY <1>2, <1>3, <1>5, <1>13, LoopKeeps
  <2> QED
    BY <1>2, <2>1
<1>15. left[after[n]] = 0
  BY <1>2, <1>3, <1>5, <1>7, <1>13, LoopEnds
<1>16. Settled(after[n])
  BY <1>4, <1>6, <1>14, <1>15
<1> QED
  BY <1>1, <1>14, <1>16

-----------------------------------------------------------------------------
(* Tables that gain or lose an entry                                        *)

\* An entry put in behind the place i, and the one at i taken out: in either order.
LEMMA CutOut ==
  ASSUME NEW t \in Seq(Entries), NEW i \in 1..Len(t), NEW p \in i..Len(t),
         NEW e \in Entries, NEW x \in Entries
  PROVE  RemoveAt([InsertAt(t, p + 1, e) EXCEPT ![i] = x], i) = InsertAt(RemoveAt(t, i), p, e)
<1> DEFINE n == Len(t)
           q == p + 1
           a == InsertAt(t, q, e)
           b == RemoveAt(a, i)
           c == RemoveAt(t, i)
           d == InsertAt(c, p, e)
<1>1. /\ n \in Nat /\ i \in 1..n /\ p \in i..n /\ p \in Nat /\ i \in Nat
      /\ q = p + 1 /\ q \in 1..(n + 1) /\ i \in 1..(n + 1)
  BY EntryFields
<1> HIDE DEF q
<1>2. /\ a \in Seq(Entries) /\ Len(a) = n + 1
      /\ \A k \in 1..(n + 1) : a[k] = IF k < q THEN t[k] ELSE IF k = q THEN e ELSE t[k - 1]
  <2>1. q \in 1..(Len(t) + 1)
    BY <1>1
  <2> QED
    BY <2>1, InsertAtFacts
<1> HIDE DEF a
<1>3. i \in 1..Len(a)
  BY <1>1, <1>2
<1>4. RemoveAt([a EXCEPT ![i] = x], i) = b
  BY <1>2, <1>3, RemovedChanged
<1>5. /\ b \in Seq(Entries) /\ Len(b) = n
      /\ \A k \in 1..n : b[k] = IF k < i THEN a[k] ELSE a[k + 1]
  <2>1. /\ b \in Seq(Entries) /\ Len(b) = Len(a) - 1
        /\ \A k \in 1..(Len(a) - 1) : b[k] = IF k < i THEN a[k] ELSE a[k + 1]
    BY <1>2, <1>3, RemoveAtFacts
  <2>2. Len(a) - 1 = n
    BY <1>1, <1>2
  <2> QED
    BY <2>1, <2>2
<1>6. /\ c \in Seq(Entries) /\ Len(c) = n - 1
      /\ \A k \in 1..(n - 1) : c[k] = IF k < i THEN t[k] ELSE t[k + 1]
  BY RemoveAtFacts
<1> HIDE DEF b, c
<1>7. p \in 1..(Len(c) + 1) /\ Len(c) + 1 = n
  BY <1>1, <1>6
<1>8. /\ d \in Seq(Entries) /\ Len(d) = n
      /\ \A k \in 1..n : d[k] = IF k < p THEN c[k] ELSE IF k = p THEN e ELSE c[k - 1]
  <2>1. /\ d \in Seq(Entries) /\ Len(d) = Len(c) + 1
        /\ \A k \in 1..(Len(c) + 1) : d[k] = IF k < p THEN c[k] ELSE IF k = p THEN e ELSE c[k - 1]
    BY <1>6, <1>7, InsertAtFacts
  <2> QED
    BY <1>7, <2>1
<1> HIDE DEF d, n
<1>9. ASSUME NEW k \in 1..n
      PROVE  b[k] = d[k]
  <2>1. CASE k < i
    <3>1. b[k] = a[k] /\ a[k] = t[k]
      BY <1>1, <1>2, <1>5, <2>1
    <3>2. d[k] = c[k] /\ c[k] = t[k]
      BY <1>1, <1>6, <1>8, <2>1
    <3> QED
      BY <3>1, <3>2
  <2>2. CASE i <= k /\ k < p
    <3>1. k + 1 \in 1..(n + 1) /\ k + 1 < q /\ k \in 1..(n - 1) /\ ~ (k < i)
      BY <1>1, <2>2
    <3>2. b[k] = a[k + 1] /\ a[k + 1] = t[k + 1]
      BY <1>2, <1>5, <3>1
    <3>3. d[k] = c[k] /\ c[k] = t[k + 1]
      BY <1>6, <1>8, <2>2, <3>1
    <3> QED
      BY <3>2, <3>3
  <2>3. CASE k = p
    <3>1. k + 1 \in 1..(n + 1) /\ k + 1 = q /\ ~ (k < i) /\ ~ (k < p)
      BY <1>1, <2>3
    <3>2. b[k] = a[k + 1] /\ a[k + 1] = e
      BY <1>1, <1>2, <1>5, <3>1
    <3>3. d[k] = e
      BY <1>8, <2>3, <3>1
    <3> QED
      BY <3>2, <3>3
  <2>4. CASE k > p
    <3>1. /\ k + 1 \in 1..(n + 1) /\ ~ (k + 1 < q) /\ k + 1 # q /\ (k + 1) - 1 = k
          /\ ~ (k < i) /\ ~ (k < p) /\ k # p
          /\ k - 1 \in 1..(n - 1) /\ ~ (k - 1 < i) /\ (k - 1) + 1 = k
      BY <1>1, <2>4
    <3>2. b[k] = a[k + 1]
      BY <1>5, <3>1
    <3>3. a[k + 1] = t[k]
      <4> DEFINE m == k + 1
      <4>1. m \in 1..(n + 1) /\ ~ (m < q) /\ m # q /\ m - 1 = k
        BY <3>1
      <4> HIDE DEF m
      <4>2. a[m] = t[m - 1]
        BY <1>2, <4>1
      <4> QED
        BY <4>1, <4>2 DEF m
    <3>4. d[k] = c[k - 1]
      BY <1>8, <3>1
    <3>5. c[k - 1] = t[k]
      BY <1>6, <3>1, Zenon
    <3> QED
      BY <3>2, <3>3, <3>4, <3>5
  <2> QED
    BY <1>1, <2>1, <2>2, <2>3, <2>4
<1>10. b = d
  BY <1>5, <1>8, <1>9, SeqEqual
<1> QED
  BY <1>4, <1>10 DEF a, b, c, d, q

\* The entries of d are some of t's, and perhaps e.
PartOf(d, t, e) == \A k \in 1..Len(d) : d[k] = e \/ \E h \in 1..Len(t) : d[k] = t[h]

\* add_into_array keeps a table sorted, and adds the bytes of the entry, if it has room.
LEMMA AddedOrdered ==
  ASSUME NEW t \in Seq(Entries), ByData(t), NEW e \in Entries, NEW capacity \in Nat
  PROVE  /\ Added(t, e, capacity) \in Seq(Entries) /\ ByData(Added(t, e, capacity))
         /\ PartOf(Added(t, e, capacity), t, e)
         /\ Len(Added(t, e, capacity)) = IF Len(t) >= capacity THEN Len(t) ELSE Len(t) + 1
         /\ Known(Added(t, e, capacity)) = IF Len(t) >= capacity THEN Known(t) ELSE Known(t) + e.size
<1>1. CASE Len(t) >= capacity
  BY <1>1 DEF Added, PartOf
<1>2. CASE ~ (Len(t) >= capacity)
  <2> DEFINE d == Added(t, e, capacity)
             n == Len(t)
  <2>1. /\ n \in Nat /\ e.data \in Nat
        /\ \A i \in 1..n : t[i].data \in Nat
        /\ \A i, j \in 1..n : i < j => t[i].data <= t[j].data
    <3>1. e.data \in Nat
      BY DEF Entries
    <3> QED
      BY <3>1, EntryFields DEF ByData
  <2>3. PICK p \in 0..n : \A j \in 1..n : t[j].data <= e.data <=> j <= p
    BY <2>1, PlaceOf
  <2>4. d = InsertAt(t, p + 1, e)
    BY <1>2, <2>1, <2>3, AddedAt
  <2> HIDE DEF d
  <2> DEFINE q == p + 1
  <2>5. q \in 1..(Len(t) + 1) /\ d = InsertAt(t, q, e) /\ q = p + 1
    BY <2>1, <2>4
  <2> HIDE DEF q
  <2>6. /\ d \in Seq(Entries) /\ Len(d) = n + 1 /\ Known(d) = Known(t) + e.size
        /\ \A k \in 1..(n + 1) : d[k] = IF k < q THEN t[k] ELSE IF k = q THEN e ELSE t[k - 1]
    BY <2>5, InsertAtFacts, KnownInserted
  <2> HIDE DEF n
  <2>7. ASSUME NEW k \in 1..(n + 1)
        PROVE  \/ k <= p /\ k \in 1..n /\ d[k] = t[k]
               \/ k = q /\ d[k] = e
               \/ k > q /\ k - 1 \in 1..n /\ k - 1 > p /\ d[k] = t[k - 1]
    <3>1. CASE k <= p
      BY <2>1, <2>5, <2>6, <3>1
    <3>2. CASE k = q
      BY <2>1, <2>5, <2>6, <3>2
    <3>3. CASE k > q
      <4>1. d[k] = t[k - 1]
        BY <2>1, <2>5, <2>6, <3>3
      <4> QED
        BY <2>1, <2>5, <3>3, <4>1
    <3> QED
      BY <2>1, <2>5, <3>1, <3>2, <3>3
  <2>8. ASSUME NEW i \in 1..(n + 1), NEW j \in 1..(n + 1), i < j
        PROVE  d[i].data <= d[j].data
    <3>1. CASE i <= p /\ i \in 1..n /\ d[i] = t[i]
      <4>1. CASE j <= p /\ j \in 1..n /\ d[j] = t[j]
        BY <2>1, <2>8, <3>1, <4>1
      <4>2. CASE j = q /\ d[j] = e
        BY <2>3, <3>1, <4>2
      <4>3. CASE j > q /\ j - 1 \in 1..n /\ d[j] = t[j - 1]
        <5>1. i < j - 1
          BY <2>1, <2>5, <3>1, <4>3
        <5> QED
          BY <2>1, <3>1, <4>3, <5>1
      <4> QED
        BY <2>7, <4>1, <4>2, <4>3
    <3>2. CASE i = q /\ d[i] = e
      <4>1. j - 1 \in 1..n /\ ~ (j - 1 <= p) /\ d[j] = t[j - 1]
        BY <2>1, <2>5, <2>7, <2>8, <3>2
      <4>2. ~ (t[j - 1].data <= e.data)
        BY <2>3, <4>1
      <4> QED
        BY <2>1, <3>2, <4>1, <4>2
    <3>3. CASE i > q /\ i - 1 \in 1..n /\ d[i] = t[i - 1]
      <4>1. j - 1 \in 1..n /\ d[j] = t[j - 1] /\ i - 1 < j - 1
        BY <2>1, <2>5, <2>7, <2>8, <3>3
      <4> QED
        BY <2>1, <3>3, <4>1
    <3> QED
      BY <2>7, <3>1, <3>2, <3>3
  <2>9. ByData(d)
    BY <2>6, <2>8 DEF ByData
  <2>10. PartOf(d, t, e)
    BY <2>6, <2>7 DEF PartOf, n
  <2> QED
    BY <1>2, <2>6, <2>9, <2>10 DEF d, n
<1> QED
  BY <1>1, <1>2

\* Removing an entry keeps a table sorted, and takes away its bytes.
LEMMA RemovedOrdered ==
  ASSUME NEW t \in Seq(Entries), ByData(t), NEW i \in 1..Len(t)
  PROVE  /\ RemoveAt(t, i) \in Seq(Entries) /\ ByData(RemoveAt(t, i))
         /\ PartOf(RemoveAt(t, i), t, t[i])
         /\ Len(RemoveAt(t, i)) = Len(t) - 1
         /\ Known(RemoveAt(t, i)) = Known(t) - t[i].size
<1> DEFINE d == RemoveAt(t, i)
           n == Len(t)
<1>1. /\ n \in Nat /\ i \in 1..n /\ t[i].size \in Nat
      /\ \A k \in 1..n : t[k].data \in Nat
      /\ \A j, k \in 1..n : j < k => t[j].data <= t[k].data
  BY EntryFields DEF ByData
<1>2. /\ d \in Seq(Entries) /\ Len(d) = n - 1
      /\ \A k \in 1..(n - 1) : d[k] = IF k < i THEN t[k] ELSE t[k + 1]
  BY RemoveAtFacts
<1>3. Known(d) + t[i].size = Known(t)
  BY KnownRemoved
<1>4. Known(d) \in Nat /\ Known(t) \in Nat
  BY <1>2, KnownIsNat
<1> HIDE DEF d, n
<1>5. ASSUME NEW k \in 1..(n - 1)
      PROVE  \/ k < i /\ k \in 1..n /\ d[k] = t[k]
             \/ k >= i /\ k + 1 \in 1..n /\ d[k] = t[k + 1]
  BY <1>1, <1>2
<1>6. PartOf(d, t, t[i])
  BY <1>2, <1>5 DEF PartOf, n
<1>7. ASSUME NEW j \in 1..(n - 1), NEW k \in 1..(n - 1), j < k
      PROVE  d[j].data <= d[k].data
  <2>1. CASE k < i
    <3>1. j \in 1..n /\ k \in 1..n /\ d[j] = t[j] /\ d[k] = t[k]
      BY <1>1, <1>5, <1>7, <2>1
    <3> QED
      BY <1>1, <1>7, <3>1
  <2>2. CASE j < i /\ k >= i
    <3>1. j \in 1..n /\ k + 1 \in 1..n /\ d[j] = t[j] /\ d[k] = t[k + 1] /\ j < k + 1
      BY <1>1, <1>5, <1>7, <2>2
    <3> QED
      BY <1>1, <3>1
  <2>3. CASE j >= i
    <3>1. j + 1 \in 1..n /\ k + 1 \in 1..n /\ d[j] = t[j + 1] /\ d[k] = t[k + 1] /\ j + 1 < k + 1
      BY <1>1, <1>5, <1>7, <2>3
    <3> QED
      BY <1>1, <3>1
  <2> QED
    BY <1>1, <1>7, <2>1, <2>2, <2>3
<1>8. ByData(d)
  BY <1>2, <1>7 DEF ByData
<1> QED
  BY <1>1, <1>2, <1>3, <1>4, <1>6, <1>8 DEF d, n

-----------------------------------------------------------------------------
(* Splitting a chunk                                                        *)

\* The alignment a call takes is one of alignment_t.
LEMMA UsableIs ==
  ASSUME NEW asked
  PROVE  /\ Usable(asked) \in Alignments /\ Usable(asked) \in Nat \ {0}
         /\ Usable(asked) <= MaxAlignment /\ MaxAlignment % Usable(asked) = 0
         /\ Usable(Usable(asked)) = Usable(asked)
BY HeapAssumption DEF Usable

\* The padding is smaller than the alignment.
LEMMA PaddingIs ==
  ASSUME NEW n \in Nat, NEW a \in Nat \ {0}
  PROVE  PaddingAt(n, a) \in Nat /\ PaddingAt(n, a) < a
<1> DEFINE m == n + a - 1
           d == m \div a
           r == m % a
<1>1. m \in Nat
  OBVIOUS
<1>2. m = a * d + r /\ r \in 0..(a - 1) /\ d \in Int
  <2> HIDE DEF m
  <2> QED
    BY <1>1, DivMod
<1>3. AlignUp(n, a) = d * a
  BY DEF AlignUp
<1> HIDE DEF d, r
<1>4. a * d \in Int /\ a * d = d * a
  BY <1>2
<1> DEFINE x == d * a
<1>5. x \in Int /\ n + a - 1 = x + r
  BY <1>2, <1>4
<1> HIDE DEF x, m
<1>6. PaddingAt(n, a) = x - n
  BY <1>3 DEF PaddingAt, x
<1> QED
  BY <1>2, <1>5, <1>6

\* calculate_alignment gives a number.
LEMMA PointerAlignmentIsNat ==
  ASSUME NEW ptr \in Nat
  PROVE  PointerAlignment(ptr) \in Nat
<1> DEFINE fits == {a \in Alignments \cup {1} : ptr % a = 0}
           most == MaxAlignment + 1
<1>1. most \in Nat /\ \A a \in Alignments : a \in 0..most
  BY HeapAssumption
<1>2. 1 \in fits /\ 1 \in 0..most
  BY <1>1, HeapAssumption
<1>3. fits \in SUBSET (0..most) /\ fits # {}
  BY <1>1, <1>2
<1>4. PointerAlignment(ptr) = CHOOSE a \in fits : \A b \in fits : b <= a
  BY DEF PointerAlignment
<1> HIDE DEF fits, most
<1>5. PICK h \in fits : \A k \in fits : k <= h
  BY <1>1, <1>3, LastOf
<1>6. (CHOOSE a \in fits : \A b \in fits : b <= a) \in fits
  BY <1>5
<1>7. PointerAlignment(ptr) \in 0..most
  BY <1>3, <1>4, <1>6
<1> QED
  BY <1>1, <1>7

\* The part of a chunk behind its first size bytes.
Rest(c, size) == FreeEntry(c.chunk + size, c.chunk, c.size - size, PointerAlignment(c.chunk + size))

\* The part behind a block.
LEMMA RestIs ==
  ASSUME NEW c \in Entries, NEW size \in Nat, size <= c.size
  PROVE  /\ Rest(c, size) \in Entries /\ Rest(c, size).chunk = c.chunk + size
         /\ Rest(c, size).data = c.chunk + size /\ Rest(c, size).prev = c.chunk
         /\ Rest(c, size).size = c.size - size /\ End(Rest(c, size)) = End(c)
<1> DEFINE x == c.chunk + size
           m == c.size - size
           al == PointerAlignment(x)
<1>1. c.chunk \in Nat /\ c.size \in Nat
  BY DEF Entries
<1>2. x \in Nat /\ m \in Nat /\ x + m = End(c)
  BY <1>1 DEF End
<1>3. al \in Nat
  <2> HIDE DEF x
  <2> QED
    BY <1>2, PointerAlignmentIsNat
<1> DEFINE r == Rest(c, size)
           p == c.chunk
<1>4. r = FreeEntry(x, p, m, al) /\ p \in Nat
  BY <1>1 DEF Rest
<1> HIDE DEF al, x, m, r, p
<1>5. /\ r \in Entries /\ r.chunk = x /\ r.data = x /\ r.prev = p
      /\ r.size = m /\ End(r) = x + m
  BY <1>2, <1>3, <1>4 DEF FreeEntry, Entry, Entries, End
<1> QED
  BY <1>2, <1>5 DEF x, m, r, p

\* A chunk that keeps its first n bytes.
Cut(c, n) == [c EXCEPT !.size = n]

\* A chunk cut down to n bytes.
LEMMA CutIs ==
  ASSUME NEW c \in Entries, NEW n \in Nat
  PROVE  /\ Cut(c, n) \in Entries /\ Cut(c, n).chunk = c.chunk /\ Cut(c, n).data = c.data
         /\ Cut(c, n).prev = c.prev /\ Cut(c, n).size = n /\ Cut(c, n).align = c.align
         /\ End(Cut(c, n)) = c.chunk + n
BY DEF Cut, Entries, End

\* The table without the chunk i, but with the part of it that is left over.
Without(t, i, e) == IF Len(t) >= FreeCapacity THEN RemoveAt(t, i)
                    ELSE Added(RemoveAt(t, i), e, FreeCapacity)

\* An entry that belongs behind the place i is added to the table without i as well.
LEMMA AddedWithout ==
  ASSUME NEW t \in Seq(Entries), ByData(t), NEW i \in 1..Len(t), NEW e \in Entries,
         Len(t) < FreeCapacity, t[i].data <= e.data, NEW x \in Entries
  PROVE  /\ RemoveAt([Added(t, e, FreeCapacity) EXCEPT ![i] = x], i) = Without(t, i, e)
         /\ Added(t, e, FreeCapacity)[i] = t[i]
         /\ Added(t, e, FreeCapacity) \in Seq(Entries)
         /\ Len(Added(t, e, FreeCapacity)) = Len(t) + 1
<1> DEFINE n == Len(t)
           d == RemoveAt(t, i)
<1>1. /\ n \in Nat /\ i \in 1..n /\ FreeCapacity \in Nat /\ e.data \in Nat
      /\ \A k \in 1..n : t[k].data \in Nat
      /\ \A j, k \in 1..n : j < k => t[j].data <= t[k].data
  <2>1. e.data \in Nat
    BY DEF Entries
  <2> QED
    BY <2>1, EntryFields, BinsAssumption DEF ByData
<1>2. PICK p \in 0..n : \A j \in 1..n : t[j].data <= e.data <=> j <= p
  BY <1>1, PlaceOf
<1>3. p \in i..n
  BY <1>1, <1>2
<1>4. Added(t, e, FreeCapacity) = InsertAt(t, p + 1, e)
  <2>1. ~ (Len(t) >= FreeCapacity) /\ FreeCapacity \in Nat
    BY <1>1
  <2> QED
    BY <1>2, <2>1, AddedAt
<1>5. RemoveAt([InsertAt(t, p + 1, e) EXCEPT ![i] = x], i) = InsertAt(d, p, e)
  BY <1>3, CutOut
<1>6. /\ d \in Seq(Entries) /\ Len(d) = n - 1
      /\ \A k \in 1..(n - 1) : d[k] = IF k < i THEN t[k] ELSE t[k + 1]
  BY RemoveAtFacts
<1>7. /\ InsertAt(t, p + 1, e) \in Seq(Entries) /\ Len(InsertAt(t, p + 1, e)) = n + 1
      /\ InsertAt(t, p + 1, e)[i] = t[i]
  <2> DEFINE q == p + 1
  <2>1. q \in 1..(Len(t) + 1) /\ i < q /\ i \in 1..(Len(t) + 1)
    BY <1>1, <1>3
  <2> HIDE DEF q
  <2>4. /\ InsertAt(t, q, e) \in Seq(Entries) /\ Len(InsertAt(t, q, e)) = Len(t) + 1
        /\ \A k \in 1..(Len(t) + 1) :
             InsertAt(t, q, e)[k] = IF k < q THEN t[k] ELSE IF k = q THEN e ELSE t[k - 1]
    BY <2>1, EntryInserted
  <2> DEFINE b == InsertAt(t, q, e)
  <2>3. /\ b \in Seq(Entries) /\ Len(b) = Len(t) + 1
        /\ \A k \in 1..(Len(t) + 1) : b[k] = IF k < q THEN t[k] ELSE IF k = q THEN e ELSE t[k - 1]
    BY <2>4
  <2> HIDE DEF b
  <2>2. b \in Seq(Entries) /\ Len(b) = n + 1 /\ b[i] = t[i]
    BY <2>1, <2>3
  <2> QED
    BY <2>2 DEF b, q
<1> HIDE DEF d
<1> DEFINE q == p - 1
<1>8. q \in 0..Len(d) /\ q + 1 = p
  BY <1>1, <1>3, <1>6
<1>9. \A j \in 1..Len(d) : d[j].data <= e.data <=> j <= q
  <2> TAKE j \in 1..Len(d)
  <2> HIDE DEF n
  <2>1. CASE j < i
    <3>1. d[j] = t[j] /\ j \in 1..n
      BY <1>1, <1>6, <2>1
    <3>2. j <= p /\ j <= q
      BY <1>1, <1>3, <1>8, <2>1, <3>1
    <3> QED
      BY <1>2, <3>1, <3>2
  <2>2. CASE ~ (j < i)
    <3>1. d[j] = t[j + 1] /\ j + 1 \in 1..n
      BY <1>1, <1>6, <2>2
    <3>2. j <= q <=> j + 1 <= p
      BY <1>1, <1>8, <3>1
    <3> QED
      BY <1>2, <3>1, <3>2
  <2> QED
    BY <2>1, <2>2
<1>10. Added(d, e, FreeCapacity) = InsertAt(d, q + 1, e)
  <2>1. ~ (Len(d) >= FreeCapacity)
    BY <1>1, <1>6
  <2> HIDE DEF q
  <2> QED
    BY <1>1, <1>6, <1>8, <1>9, <2>1, AddedAt
<1>11. ~ (Len(t) >= FreeCapacity)
  BY <1>1
<1>12. Without(t, i, e) = InsertAt(d, p, e)
  BY <1>8, <1>10, <1>11 DEF Without, d
<1> QED
  BY <1>4, <1>5, <1>7, <1>12

\* The chunk i is cut to size bytes when the rest is worth a chunk of its own.
LEMMA RestSplitIs ==
  ASSUME NEW t \in Seq(Entries), ByData(t), NEW i \in 1..Len(t), NEW size \in Nat,
         size <= t[i].size, t[i].data < t[i].chunk + size
  PROVE  /\ RestSplit(t, i, size)[i] = IF t[i].size - size < SplitCutoff THEN t[i] ELSE Cut(t[i], size)
         /\ RemoveAt(RestSplit(t, i, size), i) =
              IF t[i].size - size < SplitCutoff THEN RemoveAt(t, i) ELSE Without(t, i, Rest(t[i], size))
<1> DEFINE c == t[i]
           rest == Rest(c, size)
           x == Cut(c, size)
<1>1. /\ c \in Entries /\ c.size \in Nat /\ c.chunk \in Nat /\ c.data \in Nat
      /\ Len(t) \in Nat /\ FreeCapacity \in Nat /\ i \in 1..Len(t)
  BY EntryFields, BinsAssumption
<1>2. /\ rest \in Entries /\ rest.data = c.chunk + size
      /\ x \in Entries
  BY <1>1, RestIs, CutIs
<1>3. CASE c.size - size < SplitCutoff
  BY <1>3 DEF RestSplit
<1>4. CASE ~ (c.size - size < SplitCutoff)
  <2> DEFINE a == Added(t, rest, FreeCapacity)
  <2>1. RestSplit(t, i, size) = [a EXCEPT ![i].size = size]
    BY <1>4 DEF RestSplit, Rest
  <2>2. a[i] = t[i] /\ a \in Seq(Entries) /\ i \in 1..Len(a) /\ i \in DOMAIN a
    <3>1. CASE Len(t) >= FreeCapacity
      <4>1. a = t
        BY <3>1 DEF Added
      <4> HIDE DEF a
      <4> QED
        BY <1>1, <4>1
    <3>2. CASE ~ (Len(t) >= FreeCapacity)
      <4> HIDE DEF rest
      <4>1. Len(t) < FreeCapacity /\ t[i].data <= rest.data
        BY <1>1, <1>2, <3>2
      <4>2. a[i] = t[i] /\ a \in Seq(Entries) /\ Len(a) = Len(t) + 1
        BY <1>1, <1>2, <4>1, AddedWithout
      <4> HIDE DEF a
      <4> QED
        BY <1>1, <4>2
    <3> QED
      BY <3>1, <3>2
  <2>3. RestSplit(t, i, size) = [a EXCEPT ![i] = x]
    <3> HIDE DEF a
    <3> QED
      BY <2>1, <2>2 DEF Cut
  <2>4. RestSplit(t, i, size)[i] = x
    <3> HIDE DEF a
    <3> QED
      BY <2>2, <2>3
  <2>5. RemoveAt(RestSplit(t, i, size), i) = Without(t, i, rest)
    <3>1. CASE Len(t) >= FreeCapacity
      <4>1. a = t
        BY <3>1 DEF Added
      <4>2. RemoveAt([t EXCEPT ![i] = x], i) = RemoveAt(t, i)
        BY <1>2, RemovedChanged
      <4> QED
        BY <2>3, <3>1, <4>1, <4>2 DEF Without
    <3>2. CASE ~ (Len(t) >= FreeCapacity)
      <4> HIDE DEF rest, x
      <4>1. Len(t) < FreeCapacity /\ t[i].data <= rest.data
        BY <1>1, <1>2, <3>2
      <4> QED
        BY <1>2, <2>3, <4>1, AddedWithout
    <3> QED
      BY <3>1, <3>2
  <2> QED
    BY <1>4, <2>4, <2>5
<1> QED
  BY <1>3, <1>4

\* A block of the smallest size that the caller c uses ends behind the data of e.
Narrow(e, c) == \A s \in HeapSizes(c) \cup c.resizes : e.data < e.chunk + s

\* A table of the heap: clear entries, none of which has a padding as large as itself.
Whole(t, c) == Clear(t) /\ \A i \in 1..Len(t) : Narrow(t[i], c)

\* Joining entries of a whole table leaves it whole.
LEMMA JoinedWhole ==
  ASSUME NEW c, NEW t, Whole(t, c), NEW p \in 1..Len(t), NEW q \in 1..Len(t), p # q
  PROVE  /\ Whole(Joined(t, p, q), c) /\ Len(Joined(t, p, q)) = Len(t) - 1
         /\ Known(Joined(t, p, q)) = Known(t)
<1> DEFINE d == Joined(t, p, q)
           n == Len(t)
           From(k) == IF k < q THEN k ELSE k + 1
<1>1. /\ Clear(t) /\ t \in Seq(Entries) /\ \A i \in 1..n : t[i] \in Entries /\ t[i].size \in Nat
      /\ \A i \in 1..n : Narrow(t[i], c)
  BY EntryFields DEF Whole, Clear
<1>2. Clear(d)
  BY <1>1, JoinedClear
<1>3. Known(d) = Known(t)
  BY <1>1, KnownJoined
<1>4. /\ Len(d) = n - 1
      /\ \A k \in 1..(n - 1) :
           /\ From(k) \in 1..n
           /\ d[k] = IF From(k) = p THEN Grown(t[p], t[q].size) ELSE t[From(k)]
  BY <1>1, JoinedIs
<1> HIDE DEF d, From
<1>5. ASSUME NEW k \in 1..(n - 1)
      PROVE  Narrow(d[k], c)
  <2>1. CASE From(k) = p
    <3> DEFINE e == t[p]
               m == t[q].size
    <3>1. e \in Entries /\ m \in Nat /\ d[k] = Grown(e, m) /\ Narrow(e, c)
      BY <1>1, <1>4, <2>1
    <3> HIDE DEF e, m
    <3>2. d[k].chunk = e.chunk /\ d[k].data = e.data
      BY <3>1, GrownIs
    <3> QED
      BY <3>1, <3>2 DEF Narrow
  <2>2. CASE From(k) # p
    BY <1>1, <1>4, <2>2
  <2> QED
    BY <2>1, <2>2
<1>6. Whole(d, c)
  BY <1>2, <1>4, <1>5 DEF Whole
<1> QED
  BY <1>3, <1>4, <1>6 DEF d, n

\* defragment_heap loses no byte and leaves the table whole.
LEMMA DefragmentedWhole ==
  ASSUME NEW c, NEW t, Whole(t, c)
  PROVE  /\ Whole(Defragmented(t), c) /\ Known(Defragmented(t)) = Known(t)
         /\ Len(Defragmented(t)) <= Len(t)
<1> DEFINE Good(u) == Whole(u, c) /\ Known(u) = Known(t) /\ Len(u) <= Len(t)
           W == {s \in Sweeps : Good(s.table)}
<1>1. Clear(t) /\ Len(t) \in Nat
  BY EntryFields DEF Whole, Clear
<1>2. Sweep(t, 1, FALSE) \in W
  <2>1. 1 \in Nat \ {0} /\ 1 <= Len(t) + 1 /\ FALSE \in BOOLEAN
    BY <1>1
  <2>2. Sweep(t, 1, FALSE) \in Sweeps /\ Sweep(t, 1, FALSE).table = t
    BY <1>1, <2>1, SweepOf
  <2>3. Good(t)
    BY <1>1
  <2> HIDE DEF Good
  <2> QED
    BY <2>2, <2>3
<1>3. ASSUME NEW u, Good(u), NEW p \in 1..Len(u), NEW q \in 1..Len(u), p # q
      PROVE  Good(Joined(u, p, q))
  <2>1. Len(u) \in Nat
    BY <1>3, EntryFields DEF Whole, Clear
  <2>2. /\ Whole(Joined(u, p, q), c) /\ Len(Joined(u, p, q)) = Len(u) - 1
        /\ Known(Joined(u, p, q)) = Known(u)
    BY <1>3, JoinedWhole
  <2> QED
    BY <1>1, <1>3, <2>1, <2>2
<1>4. ASSUME NEW s \in W, ~ Settled(s)
      PROVE  SweepTurn(s) \in W
  <2>1. s \in Sweeps /\ Good(s.table)
    OBVIOUS
  <2>2. SweepTurn(s) \in Sweeps
    BY <1>4, <2>1, TurnNearer
  <2>3. Clear(s.table) /\ s.i \in Nat \ {0} /\ Len(s.table) \in Nat
    BY <2>1, EntryFields DEF Sweeps, Clear
  <2> HIDE DEF Good
  <2>4. Good(SweepTurn(s).table)
    <3>1. CASE s.i > Len(s.table) /\ SweepTurn(s) = Sweep(s.table, 1, FALSE)
      BY <2>1, <3>1 DEF Sweep
    <3>2. CASE /\ s.i <= Len(s.table)
               /\ \E u : /\ WithNext(s.table, s.i, u) /\ s.i <= Len(u)
                         /\ Clear(u)
                         /\ \/ SweepTurn(s) = Sweep(u, s.i + 1, s.merged \/ Next(s.table, s.i) # {})
                            \/ \E p \in 1..Len(u) :
                                 /\ p # s.i /\ u[p].data = u[s.i].prev
                                 /\ SweepTurn(s) = Sweep(Joined(u, p, s.i), 1, FALSE)
      <4>1. PICK u : /\ WithNext(s.table, s.i, u) /\ s.i <= Len(u)
                     /\ Clear(u)
                     /\ \/ SweepTurn(s) = Sweep(u, s.i + 1, s.merged \/ Next(s.table, s.i) # {})
                        \/ \E p \in 1..Len(u) :
                             /\ p # s.i /\ u[p].data = u[s.i].prev
                             /\ SweepTurn(s) = Sweep(Joined(u, p, s.i), 1, FALSE)
        BY <3>2
      <4>2. s.i \in 1..Len(s.table) /\ s.i \in 1..Len(u)
        <5>1. Len(u) \in Nat
          BY <4>1, EntryFields DEF Clear
        <5> QED
          BY <2>3, <3>2, <4>1, <5>1
      <4>3. Good(u)
        <5>1. CASE Next(s.table, s.i) = {}
          BY <2>1, <4>1, <5>1 DEF WithNext
        <5>2. CASE Next(s.table, s.i) # {}
          <6>1. PICK j \in Next(s.table, s.i) : j > s.i /\ u = Joined(s.table, s.i, j)
            BY <4>1, <5>2 DEF WithNext
          <6>2. j \in 1..Len(s.table) /\ s.i # j
            BY <4>2, <6>1 DEF Next
          <6> QED
            BY <1>3, <2>1, <4>2, <6>1, <6>2
        <5> QED
          BY <5>1, <5>2
      <4>4. CASE SweepTurn(s) = Sweep(u, s.i + 1, s.merged \/ Next(s.table, s.i) # {})
        BY <4>3, <4>4 DEF Sweep
      <4>5. CASE \E p \in 1..Len(u) : /\ p # s.i /\ u[p].data = u[s.i].prev
                                      /\ SweepTurn(s) = Sweep(Joined(u, p, s.i), 1, FALSE)
        <5>1. PICK p \in 1..Len(u) : p # s.i /\ SweepTurn(s) = Sweep(Joined(u, p, s.i), 1, FALSE)
          BY <4>5
        <5>2. Good(Joined(u, p, s.i))
          BY <1>3, <4>2, <4>3, <5>1
        <5> QED
          BY <5>1, <5>2 DEF Sweep
      <4> QED
        BY <4>1, <4>4, <4>5
    <3> QED
      BY <2>3, <3>1, <3>2, SweepTurnIs
  <2> QED
    BY <2>2, <2>4
<1>5. W \in SUBSET Sweeps
  OBVIOUS
<1> HIDE DEF Good
<1>6. \A s \in W : Good(s.table)
  OBVIOUS
<1> HIDE DEF W
<1>7. \E s \in W : Settled(s) /\ Defragmented(t) = s.table
  BY <1>1, <1>2, <1>4, <1>5, Settles
<1>8. Good(Defragmented(t))
  BY <1>6, <1>7
<1> QED
  BY <1>8 DEF Good

\* A table made of whole entries.
LEMMA PartWhole ==
  ASSUME NEW c, NEW t, Whole(t, c), NEW e, IsClear(e), Narrow(e, c),
         NEW d \in Seq(Entries), ByData(d), PartOf(d, t, e)
  PROVE  Whole(d, c)
<1>1. \A k \in 1..Len(d) : IsClear(d[k]) /\ Narrow(d[k], c)
  BY DEF PartOf, Whole, Clear
<1> QED
  BY <1>1 DEF Whole, Clear

-----------------------------------------------------------------------------
(* The calls, for the tables of the heap                                    *)

\* A caller that uses the segmented allocator so that no padding is split off.
IsCaller(c) == /\ c.blocks \in Nat /\ c.sizes \cup c.resizes \subseteq Nat \ {0}
               /\ c.alignments \subseteq Nat \ {0}

\* What Without adds and takes away.
LEMMA WithoutIs ==
  ASSUME NEW t \in Seq(Entries), ByData(t), NEW i \in 1..Len(t), NEW e \in Entries
  PROVE  /\ Without(t, i, e) \in Seq(Entries) /\ ByData(Without(t, i, e))
         /\ \A k \in 1..Len(Without(t, i, e)) :
              Without(t, i, e)[k] = e \/ \E h \in 1..Len(t) : Without(t, i, e)[k] = t[h]
         /\ Len(Without(t, i, e)) <= Len(t)
         /\ Known(Without(t, i, e)) = Known(t) - t[i].size
              + (IF Len(t) >= FreeCapacity THEN 0 ELSE e.size)
<1> DEFINE r == RemoveAt(t, i)
           w == Without(t, i, e)
           a == Added(r, e, FreeCapacity)
<1>1. /\ Len(t) \in Nat /\ i \in 1..Len(t) /\ FreeCapacity \in Nat
      /\ \A k \in 1..Len(t) : t[k] \in Entries /\ t[k].size \in Nat
  BY EntryFields, BinsAssumption
<1>2. /\ r \in Seq(Entries) /\ ByData(r) /\ PartOf(r, t, t[i]) /\ Len(r) = Len(t) - 1
      /\ Known(r) = Known(t) - t[i].size
  BY RemovedOrdered
<1>3. \A k \in 1..Len(r) : \E h \in 1..Len(t) : r[k] = t[h]
  BY <1>1, <1>2 DEF PartOf
<1> HIDE DEF r
<1>4. CASE Len(t) >= FreeCapacity
  <2>1. w = r
    BY <1>4 DEF Without, r
  <2>2. Known(t) - t[i].size = Known(t) - t[i].size + 0
    <3>1. Known(t) \in Nat
      BY KnownIsNat
    <3> QED
      BY <1>1, <3>1
  <2> HIDE DEF w
  <2> QED
    BY <1>1, <1>2, <1>3, <1>4, <2>1, <2>2 DEF w
<1>5. CASE ~ (Len(t) >= FreeCapacity)
  <2>1. w = a
    BY <1>5 DEF Without, r
  <2>2. ~ (Len(r) >= FreeCapacity)
    BY <1>1, <1>2, <1>5
  <2>3. /\ a \in Seq(Entries) /\ ByData(a) /\ PartOf(a, r, e)
        /\ Len(a) = Len(r) + 1 /\ Known(a) = Known(r) + e.size
    BY <1>1, <1>2, <2>2, AddedOrdered
  <2> HIDE DEF a, w
  <2>4. \A k \in 1..Len(a) : a[k] = e \/ \E h \in 1..Len(t) : a[k] = t[h]
    BY <1>3, <2>3 DEF PartOf
  <2> QED
    BY <1>1, <1>2, <1>5, <2>1, <2>3, <2>4 DEF w
<1> QED
  BY <1>4, <1>5

\* A padding that is not split off leaves the table as it is.
LEMMA NoLead ==
  ASSUME NEW t, NEW i, NEW padding, padding < SplitCutoff
  PROVE  LeadSplit(t, i, padding) = t
BY DEF LeadSplit

\* r is what is left when size bytes were taken from the free chunk i, which became a block
\* of n bytes.
Takes(f, a, size, align, r, i, n) ==
  LET c == f[0][i]
      padding == PaddingAt(c.chunk, align)
  IN  /\ size + padding <= c.size
      /\ r.ptr = c.chunk + padding
      /\ r.free = [f EXCEPT ![0] = IF c.size - size < SplitCutoff THEN RemoveAt(f[0], i)
                                   ELSE Without(f[0], i, Rest(c, size))]
      /\ n = IF c.size - size < SplitCutoff THEN c.size ELSE size
      /\ r.alloc = [a EXCEPT ![0] =
           Added(a[0], Entry(c.chunk, c.chunk + padding, c.prev, n, n - padding, align), AllocCapacity)]

\* heap_alloc of the heap, if no padding is split off: the chunk it takes, and what it
\* leaves of it.
LEMMA AllocHeapIs ==
  ASSUME NEW f, NEW a, 0 \in DOMAIN f, 0 \in DOMAIN a,
         f[0] \in Seq(Entries), ByData(f[0]), NEW size \in Nat, NEW align \in Nat \ {0},
         align <= SplitCutoff, align <= size, \A k \in 1..Len(f[0]) : f[0][k].data < f[0][k].chunk + size,
         NEW r, r = AllocHeap(f, a, size, align), r.ptr # Null
  PROVE  \E i \in 1..Len(f[0]), n \in Nat : Takes(f, a, size, align, r, i, n)
<1> DEFINE t == f[0]
           i == SearchBySize(t, size, align)
           c == t[i]
           padding == PaddingAt(c.chunk, align)
           u == RestSplit(LeadSplit(t, i, padding), i, size)
           n == IF c.size - size < SplitCutoff THEN c.size ELSE size
<1>1. i \in 0..Len(t) /\ (i # 0 => Suffices(t[i], size, align))
  BY FitIsFound
<1>2. r = IF i = 0 THEN Tables(Null, f, a)
          ELSE Tables(c.chunk + padding, [f EXCEPT ![0] = RemoveAt(u, i)],
                 [a EXCEPT ![0] = Added(a[0], Entry(u[i].chunk, c.chunk + padding, u[i].prev,
                                                    u[i].size, u[i].size - padding, align), AllocCapacity)])
  BY DEF AllocHeap
<1> HIDE DEF i
<1>3. i # 0
  BY <1>2 DEF Tables
<1>4. /\ Len(t) \in Nat /\ i \in 1..Len(t) /\ c \in Entries /\ c.chunk \in Nat /\ c.size \in Nat
      /\ c.data < c.chunk + size
  <2>1. Len(t) \in Nat
    BY EntryFields
  <2>2. i \in 1..Len(t)
    BY <1>1, <1>3, <2>1
  <2> QED
    BY <2>1, <2>2, EntryFields
<1> DEFINE k == c.chunk
<1>5. padding \in Nat /\ padding < align
  <2>1. k \in Nat
    BY <1>4
  <2> HIDE DEF k
  <2>2. PaddingAt(k, align) \in Nat /\ PaddingAt(k, align) < align
    BY <2>1, PaddingIs
  <2> QED
    BY <2>2 DEF k
<1>6. size + padding <= c.size
  BY <1>1, <1>3, <1>4, <1>5 DEF Suffices
<1>7. LeadSplit(t, i, padding) = t
  <2>1. padding < SplitCutoff
    <3> HIDE DEF padding
    <3> QED
      BY <1>5, BinsAssumption
  <2> QED
    BY <2>1, NoLead
<1>8. size <= c.size /\ n \in Nat
  <2> HIDE DEF padding, c
  <2> QED
    BY <1>4, <1>5, <1>6
<1>9. /\ u[i] = IF c.size - size < SplitCutoff THEN c ELSE Cut(c, size)
      /\ RemoveAt(u, i) = IF c.size - size < SplitCutoff THEN RemoveAt(t, i)
                          ELSE Without(t, i, Rest(c, size))
  <2>1. u = RestSplit(t, i, size)
    BY <1>7
  <2> HIDE DEF u, t
  <2> QED
    BY <1>4, <1>8, <2>1, RestSplitIs DEF t
<1>10. u[i].chunk = c.chunk /\ u[i].prev = c.prev /\ u[i].size = n
  <2> HIDE DEF u, c
  <2>1. Cut(c, size).chunk = c.chunk /\ Cut(c, size).prev = c.prev /\ Cut(c, size).size = size
    BY <1>4, CutIs
  <2> QED
    BY <1>9, <2>1
<1>11. /\ r.ptr = c.chunk + padding
       /\ r.free = [f EXCEPT ![0] = RemoveAt(u, i)]
       /\ r.alloc = [a EXCEPT ![0] = Added(a[0], Entry(u[i].chunk, c.chunk + padding, u[i].prev,
                                                       u[i].size, u[i].size - padding, align), AllocCapacity)]
  <2> HIDE DEF u, c, padding
  <2> QED
    BY <1>2, <1>3 DEF Tables
<1> HIDE DEF u
<1>12. r.alloc = [a EXCEPT ![0] =
         Added(a[0], Entry(c.chunk, c.chunk + padding, c.prev, n, n - padding, align), AllocCapacity)]
  BY <1>10, <1>11
<1>13. r.free = [f EXCEPT ![0] = IF c.size - size < SplitCutoff THEN RemoveAt(f[0], i)
                                 ELSE Without(f[0], i, Rest(c, size))]
  BY <1>9, <1>11
<1> WITNESS i \in 1..Len(f[0]), n \in Nat
<1> QED
  BY <1>6, <1>11, <1>12, <1>13 DEF Takes

-----------------------------------------------------------------------------
(* The calls, for all arenas                                                *)

\* A table of a bin.
IsTable(t) == t \in Seq(Entries) /\ ByData(t)

\* A table of the slots of the bin k.
SlotTable(t, k) == IsTable(t) /\ \A i \in 1..Len(t) : t[i].size = Bins[k].size

\* The tables of a caller that splits no padding off.
Tabled(f, a, c) ==
  /\ DOMAIN f = Arena /\ DOMAIN a = Arena
  /\ Whole(f[0], c) /\ Whole(a[0], c)
  /\ Len(f[0]) <= FreeCapacity /\ Len(a[0]) <= AllocCapacity
  /\ \A k \in Arena : k # 0 => SlotTable(f[k], k) /\ SlotTable(a[k], k)

\* The bytes of an arena that its tables know of.
Counted(f, a, k) == Known(f[k]) + Known(a[k])

\* A table of the arena k, the heap, is full.
IsFull(f, a, k) == k = 0 /\ (Len(f[0]) = FreeCapacity \/ Len(a[0]) = AllocCapacity)

\* The tables f2 and a2 know of as many bytes as f and a, unless one of these was full.
SameCount(f2, a2, f, a) == \A k \in Arena : Counted(f2, a2, k) # Counted(f, a, k) => IsFull(f, a, k)

\* The arenas are the heap and the bins.
LEMMA ArenaIs ==
  /\ Len(Bins) \in Nat /\ 0 \in Arena
  /\ \A k \in Arena : k # 0 => k \in 1..Len(Bins)
  /\ \A k \in 1..Len(Bins) : k \in Arena /\ k # 0
  /\ \A k \in 1..Len(Bins) : Bins[k].size \in Nat \ {0} /\ Bins[k].count \in Nat
<1>1. Bins \in Seq([size : Nat \ {0}, count : Nat])
  BY BinsAssumption
<1>2. Len(Bins) \in Nat /\ \A k \in 1..Len(Bins) : Bins[k] \in [size : Nat \ {0}, count : Nat]
  BY <1>1, ElementOfSeq, LenProperties
<1> QED
  BY <1>2 DEF Arena

\* The arena of a size, or of an address.
LEMMA ArenaForIs ==
  ASSUME NEW size
  PROVE  ArenaFor(size) \in Arena
<1> DEFINE fit == {k \in DOMAIN Bins : size <= Bins[k].size}
<1>1. DOMAIN Bins = 1..Len(Bins)
  BY BinsAssumption
<1>2. CASE fit = {}
  BY <1>2, ArenaIs DEF ArenaFor
<1>3. CASE fit # {}
  <2>1. fit \in SUBSET Nat /\ fit \in SUBSET (1..Len(Bins))
    BY <1>1, ArenaIs
  <2>2. ArenaFor(size) = CHOOSE k \in fit : \A j \in fit : k <= j
    BY <1>3 DEF ArenaFor
  <2> HIDE DEF fit
  <2>3. PICK h \in fit : \A j \in fit : h <= j
    BY <1>3, <2>1, FirstOf
  <2>4. (CHOOSE k \in fit : \A j \in fit : k <= j) \in fit
    BY <2>3
  <2> QED
    BY <2>1, <2>2, <2>4, ArenaIs
<1> QED
  BY <1>2, <1>3

\* Every address is in one of them.
LEMMA ArenaAtIs ==
  ASSUME NEW ptr
  PROVE  ArenaAt(ptr) \in Arena
<1>1. DOMAIN Bins = 1..Len(Bins)
  BY BinsAssumption
<1> DEFINE P(k) == ptr \in BinStart[k]..(BinEnd(k) - 1)
<1>2. ArenaAt(ptr) = IF \E k \in DOMAIN Bins : P(k) THEN CHOOSE k \in DOMAIN Bins : P(k) ELSE 0
  BY DEF ArenaAt
<1> HIDE DEF P
<1>3. ArenaAt(ptr) \in DOMAIN Bins \/ ArenaAt(ptr) = 0
  BY <1>2
<1> QED
  BY <1>1, <1>3, ArenaIs

\* The table without its first entry.
LEMMA TailIs ==
  ASSUME NEW t \in Seq(Entries), t # <<>>
  PROVE  1 \in 1..Len(t) /\ Tail(t) = RemoveAt(t, 1)
<1>1. Len(t) \in Nat /\ Len(t) # 0
  BY EmptySeq, LenProperties
<1>2. 1 \in 1..Len(t)
  BY <1>1
<1>3. /\ Tail(t) \in Seq(Entries) /\ Len(Tail(t)) = Len(t) - 1
      /\ \A k \in 1..(Len(t) - 1) : Tail(t)[k] = t[k + 1]
  BY HeadTailProperties
<1>4. /\ RemoveAt(t, 1) \in Seq(Entries) /\ Len(RemoveAt(t, 1)) = Len(t) - 1
      /\ \A k \in 1..(Len(t) - 1) : RemoveAt(t, 1)[k] = IF k < 1 THEN t[k] ELSE t[k + 1]
  BY <1>2, RemoveAtFacts
<1>5. \A k \in 1..(Len(t) - 1) : Tail(t)[k] = RemoveAt(t, 1)[k]
  BY <1>1, <1>3, <1>4
<1> DEFINE x == Tail(t)
           y == RemoveAt(t, 1)
<1>6. x \in Seq(Entries) /\ y \in Seq(Entries) /\ Len(x) = Len(y) /\ \A k \in 1..Len(x) : x[k] = y[k]
  BY <1>3, <1>4, <1>5
<1> HIDE DEF x, y
<1>7. x = y
  BY <1>6, SeqEqual
<1> QED
  BY <1>2, <1>7 DEF x, y

\* heap_alloc of the heap keeps the tables, and counts the bytes.
LEMMA HeapCounts ==
  ASSUME NEW c, IsCaller(c), Unsplit(c), NEW f, NEW a, Tabled(f, a, c),
         NEW size \in HeapSizes(c), NEW asked \in c.alignments,
         NEW r, r = AllocHeap(f, a, size, Usable(asked)), r.ptr # Null
  PROVE  /\ Tabled(r.free, r.alloc, c) /\ r.ptr \in Nat
         /\ Len(r.free[0]) <= Len(f[0]) /\ SameCount(r.free, r.alloc, f, a)
<1> DEFINE align == Usable(asked)
           t == f[0]
<1>1. /\ align \in Nat \ {0} /\ align <= SplitCutoff /\ SplitCutoff \in Nat
      /\ size \in Nat \ {0} /\ align <= size
      /\ FreeCapacity \in Nat /\ AllocCapacity \in Nat
      /\ \A s \in HeapSizes(c) \cup c.resizes : s \in Nat /\ align <= s
  BY UsableIs, BinsAssumption DEF Unsplit, IsCaller, HeapSizes
<1>2. /\ DOMAIN f = Arena /\ DOMAIN a = Arena /\ 0 \in Arena
      /\ Whole(t, c) /\ Whole(a[0], c) /\ Len(t) <= FreeCapacity /\ Len(a[0]) <= AllocCapacity
  BY ArenaIs DEF Tabled
<1>3. /\ t \in Seq(Entries) /\ ByData(t) /\ a[0] \in Seq(Entries) /\ ByData(a[0])
      /\ Len(t) \in Nat /\ Len(a[0]) \in Nat
      /\ \A k \in 1..Len(t) : IsClear(t[k]) /\ Narrow(t[k], c)
  BY <1>2, EntryFields DEF Whole, Clear
<1>4. \A k \in 1..Len(t) : t[k].data < t[k].chunk + size
  BY <1>3 DEF Narrow
<1> HIDE DEF align
<1>5. PICK i \in 1..Len(t), n \in Nat : Takes(f, a, size, align, r, i, n)
  <2>1. /\ 0 \in DOMAIN f /\ 0 \in DOMAIN a /\ f[0] \in Seq(Entries) /\ ByData(f[0])
        /\ size \in Nat /\ align \in Nat \ {0} /\ align <= SplitCutoff /\ align <= size
        /\ \A k \in 1..Len(f[0]) : f[0][k].data < f[0][k].chunk + size
        /\ r = AllocHeap(f, a, size, align) /\ r.ptr # Null
    BY <1>1, <1>2, <1>3, <1>4 DEF align
  <2> QED
    BY <2>1, AllocHeapIs
<1> DEFINE e == t[i]
           padding == PaddingAt(e.chunk, align)
           block == Entry(e.chunk, e.chunk + padding, e.prev, n, n - padding, align)
           split == ~ (e.size - size < SplitCutoff)
           rest == Rest(e, size)
           f0 == IF split THEN Without(t, i, rest) ELSE RemoveAt(t, i)
           a0 == Added(a[0], block, AllocCapacity)
<1>6. /\ size + padding <= e.size /\ r.ptr = e.chunk + padding
      /\ n = IF split THEN size ELSE e.size
      /\ r.free = [f EXCEPT ![0] = f0] /\ r.alloc = [a EXCEPT ![0] = a0]
  BY <1>5 DEF Takes
<1>7. /\ e \in Entries /\ e.chunk \in Nat /\ e.size \in Nat /\ e.prev \in Nat /\ e.data \in Nat
      /\ IsClear(e) /\ Narrow(e, c)
  BY <1>3, EntryFields
<1>8. padding \in Nat /\ padding < align
  <2> DEFINE k == e.chunk
  <2>1. k \in Nat
    BY <1>7
  <2> HIDE DEF k
  <2>2. PaddingAt(k, align) \in Nat /\ PaddingAt(k, align) < align
    BY <1>1, <2>1, PaddingIs
  <2> QED
    BY <2>2 DEF k
<1> HIDE DEF padding, e
<1>9. size <= e.size /\ padding < n /\ n <= e.size
  BY <1>1, <1>6, <1>7, <1>8
<1>10. /\ block \in Entries /\ block.chunk = e.chunk /\ block.data = e.chunk + padding
       /\ block.prev = e.prev /\ block.size = n
  <2> DEFINE x == e.chunk
             d == e.chunk + padding
             p == e.prev
             u == n - padding
  <2>1. /\ x \in Nat /\ d \in Nat /\ p \in Nat /\ u \in Int /\ align \in Nat
        /\ block = Entry(x, d, p, n, u, align)
    BY <1>1, <1>7, <1>8
  <2> HIDE DEF x, d, p, u, block
  <2>2. block \in Entries /\ block.chunk = x /\ block.data = d /\ block.prev = p /\ block.size = n
    BY <2>1 DEF Entry, Entries
  <2> QED
    BY <2>2 DEF x, d, p
<1> HIDE DEF block
<1>11. IsClear(block) /\ Narrow(block, c)
  <2>1. IsClear(block)
    BY <1>7, <1>8, <1>9, <1>10 DEF IsClear, End
  <2>2. Narrow(block, c)
    <3> SUFFICES ASSUME NEW s \in HeapSizes(c) \cup c.resizes
                 PROVE  block.data < block.chunk + s
      BY DEF Narrow
    <3>1. s \in Nat /\ align <= s
      BY <1>1
    <3> QED
      BY <1>1, <1>7, <1>8, <1>10, <3>1
  <2> QED
    BY <2>1, <2>2
<1>12. /\ rest \in Entries /\ rest.chunk = e.chunk + size /\ rest.data = e.chunk + size
       /\ rest.prev = e.chunk /\ rest.size = e.size - size
  BY <1>1, <1>7, <1>9, RestIs
<1> HIDE DEF rest
<1>13. split => IsClear(rest) /\ Narrow(rest, c)
  <2> SUFFICES ASSUME split PROVE IsClear(rest) /\ Narrow(rest, c)
    OBVIOUS
  <2>1. rest.size \in Nat \ {0}
    BY <1>1, <1>7, <1>9, <1>12, BinsAssumption
  <2>2. IsClear(rest)
    BY <1>1, <1>7, <1>12, <2>1 DEF IsClear, End
  <2>3. \A s \in HeapSizes(c) \cup c.resizes : s \in Nat \ {0}
    BY DEF IsCaller, HeapSizes
  <2>4. Narrow(rest, c)
    BY <1>1, <1>7, <1>12, <2>3 DEF Narrow
  <2> QED
    BY <2>2, <2>4
<1>14. /\ Whole(f0, c) /\ Len(f0) <= Len(t)
       /\ Known(f0) = Known(t) - e.size
            + (IF split /\ ~ (Len(t) >= FreeCapacity) THEN e.size - size ELSE 0)
  <2>1. CASE split
    <3> DEFINE w == Without(t, i, rest)
    <3>1. /\ w \in Seq(Entries) /\ ByData(w)
          /\ \A k \in 1..Len(w) : w[k] = rest \/ \E h \in 1..Len(t) : w[k] = t[h]
          /\ Len(w) <= Len(t)
          /\ Known(w) = Known(t) - t[i].size + (IF Len(t) >= FreeCapacity THEN 0 ELSE rest.size)
      BY <1>3, <1>12, WithoutIs
    <3>2. f0 = w
      BY <2>1
    <3> HIDE DEF w, f0, t, split
    <3>3. PartOf(w, t, rest)
      BY <3>1 DEF PartOf
    <3>4. Whole(w, c)
      BY <1>2, <1>13, <2>1, <3>1, <3>3, PartWhole
    <3> QED
      BY <1>12, <2>1, <3>1, <3>2, <3>4 DEF e
  <2>2. CASE ~ split
    <3> DEFINE w == RemoveAt(t, i)
    <3>1. /\ w \in Seq(Entries) /\ ByData(w) /\ PartOf(w, t, t[i]) /\ Len(w) = Len(t) - 1
          /\ Known(w) = Known(t) - t[i].size
      BY <1>3, RemovedOrdered
    <3>2. f0 = w
      BY <2>2
    <3>3. Known(t) \in Nat
      BY <1>3, KnownIsNat
    <3>5. PartOf(w, t, e) /\ Known(w) = Known(t) - e.size
      BY <3>1 DEF e
    <3> HIDE DEF w, f0, t, split
    <3>4. Whole(w, c)
      BY <1>2, <1>7, <3>1, <3>5, PartWhole
    <3> QED
      BY <1>3, <1>7, <2>2, <3>1, <3>2, <3>3, <3>4, <3>5
  <2> QED
    BY <2>1, <2>2
<1>15. /\ Whole(a0, c) /\ Len(a0) <= AllocCapacity
       /\ Known(a0) = IF Len(a[0]) >= AllocCapacity THEN Known(a[0]) ELSE Known(a[0]) + n
  <2> DEFINE b == a[0]
  <2>1. /\ a0 \in Seq(Entries) /\ ByData(a0) /\ PartOf(a0, b, block)
        /\ Len(a0) = (IF Len(b) >= AllocCapacity THEN Len(b) ELSE Len(b) + 1)
        /\ Known(a0) = IF Len(b) >= AllocCapacity THEN Known(b) ELSE Known(b) + block.size
    <3>1. b \in Seq(Entries) /\ ByData(b)
      BY <1>3
    <3>2. a0 = Added(b, block, AllocCapacity)
      OBVIOUS
    <3> HIDE DEF b, a0
    <3> QED
      BY <1>1, <1>10, <3>1, <3>2, AddedOrdered
  <2>2. Whole(b, c) /\ Len(b) \in Nat /\ Len(b) <= AllocCapacity
    BY <1>2, <1>3
  <2> HIDE DEF b, a0
  <2>3. Whole(a0, c)
    BY <1>11, <2>1, <2>2, PartWhole
  <2> QED
    BY <1>1, <1>10, <2>1, <2>2, <2>3 DEF b
<1> HIDE DEF f0, a0, t
<1>16. /\ DOMAIN r.free = Arena /\ DOMAIN r.alloc = Arena /\ r.free[0] = f0 /\ r.alloc[0] = a0
       /\ \A k \in Arena : k # 0 => r.free[k] = f[k] /\ r.alloc[k] = a[k]
  BY <1>2, <1>6
<1>17. Tabled(r.free, r.alloc, c)
  <2>1. Len(f0) <= FreeCapacity
    <3>1. Len(f0) \in Nat
      BY <1>14, EntryFields DEF Whole, Clear
    <3> QED
      BY <1>1, <1>2, <1>3, <1>14, <3>1
  <2> QED
    BY <1>14, <1>15, <1>16, <2>1 DEF Tabled
<1>18. SameCount(r.free, r.alloc, f, a)
  <2> SUFFICES ASSUME NEW k \in Arena, ~ IsFull(f, a, k)
               PROVE  Counted(r.free, r.alloc, k) = Counted(f, a, k)
    BY DEF SameCount
  <2>1. CASE k # 0
    BY <1>16, <2>1 DEF Counted
  <2>2. CASE k = 0
    <3>1. Len(t) # FreeCapacity /\ Len(a[0]) # AllocCapacity
      BY <2>2 DEF IsFull, t
    <3>2. ~ (Len(t) >= FreeCapacity) /\ ~ (Len(a[0]) >= AllocCapacity)
      BY <1>1, <1>2, <1>3, <3>1
    <3>3. Known(t) \in Nat /\ Known(a[0]) \in Nat
      BY <1>3, KnownIsNat
    <3>4. Known(f0) + Known(a0) = Known(t) + Known(a[0])
      <4>1. CASE split
        BY <1>1, <1>6, <1>7, <1>14, <1>15, <3>2, <3>3, <4>1, SMTT(30)
      <4>2. CASE ~ split
        BY <1>1, <1>6, <1>7, <1>14, <1>15, <3>2, <3>3, <4>2, SMTT(30)
      <4> QED
        BY <4>1, <4>2
    <3> QED
      BY <1>16, <2>2, <3>4 DEF Counted, t
  <2> QED
    BY <2>1, <2>2
<1>19. r.ptr \in Nat
  BY <1>6, <1>7, <1>8
<1> QED
  BY <1>14, <1>16, <1>17, <1>18, <1>19 DEF t

\* heap_alloc of a bin keeps the tables and the count.
LEMMA BinCounts ==
  ASSUME NEW c, NEW f, NEW a, Tabled(f, a, c), NEW k \in Arena, k # 0, NEW asked,
         NEW r, r = AllocBin(f, a, k, Usable(asked)), r.ptr # Null
  PROVE  /\ Tabled(r.free, r.alloc, c) /\ r.ptr \in Nat
         /\ r.free[0] = f[0] /\ SameCount(r.free, r.alloc, f, a)
<1> DEFINE align == Usable(asked)
           t == f[k]
           e == t[1]
           padding == PaddingAt(e.chunk, align)
           size == Bins[k].size
           block == Entry(e.chunk, e.chunk + padding, e.prev, size, size - padding, align)
           a0 == Added(a[k], block, Bins[k].count)
           f0 == Tail(t)
<1>1. align \in Nat \ {0}
  BY UsableIs
<1>2. /\ k \in 1..Len(Bins) /\ size \in Nat \ {0} /\ Bins[k].count \in Nat
      /\ Capacity(k).alloc = Bins[k].count
  BY ArenaIs DEF Capacity
<1>3. /\ DOMAIN f = Arena /\ DOMAIN a = Arena /\ 0 \in Arena
      /\ SlotTable(t, k) /\ SlotTable(a[k], k)
  BY ArenaIs DEF Tabled
<1>4. r = IF \/ t = <<>> \/ block.data + block.size > BinEnd(k) \/ Len(a[k]) >= Capacity(k).alloc
          THEN Tables(Null, f, a)
          ELSE Tables(block.data, [f EXCEPT ![k] = f0], [a EXCEPT ![k] = Added(a[k], block, Capacity(k).alloc)])
  BY DEF AllocBin
<1> HIDE DEF block, f0, a0
<1>5. /\ t # <<>> /\ ~ (Len(a[k]) >= Bins[k].count)
      /\ r.ptr = block.data /\ r.free = [f EXCEPT ![k] = f0] /\ r.alloc = [a EXCEPT ![k] = a0]
  <2> HIDE DEF t
  <2>1. ~ (\/ t = <<>> \/ block.data + block.size > BinEnd(k) \/ Len(a[k]) >= Capacity(k).alloc)
    BY <1>4 DEF Tables
  <2> QED
    BY <1>2, <1>4, <2>1 DEF Tables, a0
<1>6. /\ t \in Seq(Entries) /\ ByData(t) /\ Len(t) \in Nat
      /\ a[k] \in Seq(Entries) /\ ByData(a[k]) /\ Len(a[k]) \in Nat
      /\ \A i \in 1..Len(t) : t[i].size = size
      /\ \A i \in 1..Len(a[k]) : a[k][i].size = size
  BY <1>3, EntryFields DEF SlotTable, IsTable
<1>7. 1 \in 1..Len(t) /\ f0 = RemoveAt(t, 1)
  BY <1>5, <1>6, TailIs DEF f0
<1>8. e \in Entries /\ e.chunk \in Nat /\ e.prev \in Nat /\ e.size = size
  BY <1>6, <1>7, EntryFields
<1>9. padding \in Nat
  <2> DEFINE x == e.chunk
  <2>1. x \in Nat
    BY <1>8
  <2> HIDE DEF x, align
  <2>2. PaddingAt(x, align) \in Nat
    BY <1>1, <2>1, PaddingIs
  <2> QED
    BY <2>2 DEF x
<1>10. block \in Entries /\ block.data = e.chunk + padding /\ block.size = size
  <2> HIDE DEF e, padding, size
  <2> QED
    BY <1>1, <1>2, <1>8, <1>9 DEF block, Entry, Entries
<1>11. /\ SlotTable(f0, k) /\ Known(f0) = Known(t) - size
  <2>1. /\ f0 \in Seq(Entries) /\ ByData(f0) /\ PartOf(f0, t, e)
        /\ Known(f0) = Known(t) - e.size
    <3> DEFINE one == 1
    <3>1. one \in 1..Len(t) /\ f0 = RemoveAt(t, one) /\ e = t[one] /\ t \in Seq(Entries) /\ ByData(t)
      BY <1>6, <1>7
    <3> HIDE DEF one, t, e
    <3> QED
      BY <3>1, RemovedOrdered
  <2>2. \A i \in 1..Len(f0) : f0[i].size = size
    <3> HIDE DEF e, t, size
    <3> QED
      BY <1>6, <1>8, <2>1 DEF PartOf
  <2> QED
    BY <1>8, <2>1, <2>2 DEF SlotTable, IsTable
<1>12. /\ SlotTable(a0, k) /\ Known(a0) = Known(a[k]) + size
  <2> DEFINE b == a[k]
             m == Bins[k].count
  <2>1. /\ a0 \in Seq(Entries) /\ ByData(a0) /\ PartOf(a0, b, block)
        /\ Known(a0) = Known(b) + block.size
    <3>1. b \in Seq(Entries) /\ ByData(b) /\ a0 = Added(b, block, m) /\ m \in Nat /\ ~ (Len(b) >= m)
      BY <1>2, <1>5, <1>6 DEF a0
    <3> HIDE DEF b, m
    <3> QED
      BY <1>10, <3>1, AddedOrdered
  <2>2. \A i \in 1..Len(a0) : a0[i].size = size
    <3> HIDE DEF size
    <3> QED
      BY <1>6, <1>10, <2>1 DEF PartOf
  <2> QED
    BY <1>10, <2>1, <2>2 DEF SlotTable, IsTable
<1>13. /\ DOMAIN r.free = Arena /\ DOMAIN r.alloc = Arena /\ r.free[k] = f0 /\ r.alloc[k] = a0
       /\ \A j \in Arena : j # k => r.free[j] = f[j] /\ r.alloc[j] = a[j]
  BY <1>3, <1>5
<1>14. Tabled(r.free, r.alloc, c)
  <2>1. r.free[0] = f[0] /\ r.alloc[0] = a[0]
    BY <1>3, <1>13
  <2>2. \A j \in Arena : j # 0 => SlotTable(r.free[j], j) /\ SlotTable(r.alloc[j], j)
    BY <1>11, <1>12, <1>13 DEF Tabled
  <2> QED
    BY <1>13, <2>1, <2>2 DEF Tabled
<1>15. SameCount(r.free, r.alloc, f, a)
  <2> SUFFICES ASSUME NEW j \in Arena
               PROVE  Counted(r.free, r.alloc, j) = Counted(f, a, j)
    BY DEF SameCount
  <2>1. CASE j # k
    BY <1>13, <2>1 DEF Counted
  <2>2. CASE j = k
    <3>1. Known(t) \in Nat /\ Known(a[k]) \in Nat
      BY <1>6, KnownIsNat
    <3>2. Known(f0) + Known(a0) = Known(t) + Known(a[k])
      BY <1>2, <1>11, <1>12, <3>1
    <3> QED
      BY <1>13, <2>2, <3>2 DEF Counted
  <2> QED
    BY <2>1, <2>2
<1>16. r.ptr \in Nat /\ r.free[0] = f[0]
  BY <1>3, <1>5, <1>8, <1>9, <1>10, <1>13
<1> QED
  BY <1>14, <1>15, <1>16

\* heap_alloc keeps the tables and the count; the table of the free chunks does not grow.
LEMMA AllocCounts ==
  ASSUME NEW c, IsCaller(c), Unsplit(c), NEW f, NEW a, Tabled(f, a, c),
         NEW size \in c.sizes \cup c.resizes, NEW asked \in c.alignments,
         NEW r, r = HeapAlloc(f, a, size, asked), r.ptr # Null
  PROVE  /\ Tabled(r.free, r.alloc, c) /\ r.ptr \in Nat
         /\ Len(r.free[0]) <= Len(f[0]) /\ SameCount(r.free, r.alloc, f, a)
<1> DEFINE k == ArenaFor(size)
<1>1. k \in Arena
  BY ArenaForIs
<1>2. r = IF k = 0 THEN AllocHeap(f, a, size, Usable(asked)) ELSE AllocBin(f, a, k, Usable(asked))
  BY DEF HeapAlloc
<1> HIDE DEF k
<1>3. CASE k = 0
  <2>1. size \in HeapSizes(c)
    BY <1>3 DEF HeapSizes, k
  <2> QED
    BY <1>2, <1>3, <2>1, HeapCounts
<1>4. CASE k # 0
  <2>1. r = AllocBin(f, a, k, Usable(asked))
    BY <1>2, <1>4
  <2>2. /\ Tabled(r.free, r.alloc, c) /\ r.ptr \in Nat
        /\ r.free[0] = f[0] /\ SameCount(r.free, r.alloc, f, a)
    BY <1>1, <1>4, <2>1, BinCounts
  <2>3. Len(f[0]) \in Nat
    BY EntryFields DEF Tabled, Whole, Clear
  <2> QED
    BY <2>2, <2>3
<1> QED
  BY <1>3, <1>4

\* The free table of the heap is full.
FreeIsFull(f, k) == k = 0 /\ Len(f[0]) = FreeCapacity

\* After a heap_free: the tables are tables, and the bytes counted have stayed, or a table is full.
FreedCount(f2, a2, f, a) ==
  \A k \in Arena : Counted(f2, a2, k) # Counted(f, a, k) => FreeIsFull(f, k)

\* heap_free keeps the tables and the count, unless the free table of the heap is full.
LEMMA FreeCounts ==
  ASSUME NEW c, NEW f, NEW a, Tabled(f, a, c), NEW ptr \in Int, NEW r, r = HeapFree(f, a, ptr)
  PROVE  Tabled(r.free, r.alloc, c) /\ FreedCount(r.free, r.alloc, f, a)
<1> DEFINE k == ArenaAt(ptr)
           i == SearchByPtr(a[k], ptr)
           e == a[k][i]
           m == Capacity(k).free
           t == Added(f[k], e, m)
           a0 == RemoveAt(a[k], i)
           f0 == IF k = 0 THEN Defragmented(t) ELSE t
<1>1. k \in Arena
  BY ArenaAtIs
<1>2. /\ DOMAIN f = Arena /\ DOMAIN a = Arena /\ 0 \in Arena
      /\ FreeCapacity \in Nat /\ AllocCapacity \in Nat
  BY ArenaIs, BinsAssumption DEF Tabled
<1>3. r = IF i = 0 \/ (k # 0 /\ Len(f[k]) >= m) THEN Tables(Null, f, a)
          ELSE Tables(Null, [f EXCEPT ![k] = f0], [a EXCEPT ![k] = a0])
  BY DEF HeapFree
<1> HIDE DEF k
<1>4. IsTable(f[k]) /\ IsTable(a[k])
  BY <1>1 DEF Tabled, Whole, Clear, SlotTable, IsTable
<1>5. /\ f[k] \in Seq(Entries) /\ ByData(f[k]) /\ Len(f[k]) \in Nat
      /\ a[k] \in Seq(Entries) /\ ByData(a[k]) /\ Len(a[k]) \in Nat
  BY <1>4, EntryFields DEF IsTable
<1>6. i \in 0..Len(a[k])
  BY <1>5, PtrFound
<1> HIDE DEF i, f0, a0
<1>7. CASE i = 0 \/ (k # 0 /\ Len(f[k]) >= m)
  <2>1. r.free = f /\ r.alloc = a
    BY <1>3, <1>7 DEF Tables
  <2> QED
    BY <2>1 DEF FreedCount
<1>8. CASE ~ (i = 0 \/ (k # 0 /\ Len(f[k]) >= m))
  <2>1. r.free = [f EXCEPT ![k] = f0] /\ r.alloc = [a EXCEPT ![k] = a0]
    <3> HIDE DEF m
    <3> QED
      BY <1>3, <1>8 DEF Tables
  <2>2. /\ i \in 1..Len(a[k]) /\ e \in Entries /\ e.size \in Nat
    <3>1. i \in 1..Len(a[k])
      BY <1>5, <1>6, <1>8
    <3> QED
      BY <1>5, <3>1, EntryFields
  <2>3. m \in Nat /\ (k = 0 => m = FreeCapacity)
    BY <1>1, <1>2, ArenaIs DEF Capacity
  <2>4. /\ t \in Seq(Entries) /\ ByData(t) /\ PartOf(t, f[k], e)
        /\ Len(t) = (IF Len(f[k]) >= m THEN Len(f[k]) ELSE Len(f[k]) + 1)
        /\ Known(t) = IF Len(f[k]) >= m THEN Known(f[k]) ELSE Known(f[k]) + e.size
    <3> DEFINE x == f[k]
    <3>1. x \in Seq(Entries) /\ ByData(x) /\ t = Added(x, e, m)
      BY <1>5
    <3> HIDE DEF x, m, t, e
    <3>2. /\ t \in Seq(Entries) /\ ByData(t) /\ PartOf(t, x, e)
          /\ Len(t) = (IF Len(x) >= m THEN Len(x) ELSE Len(x) + 1)
          /\ Known(t) = IF Len(x) >= m THEN Known(x) ELSE Known(x) + e.size
      BY <2>2, <2>3, <3>1, AddedOrdered
    <3> QED
      BY <3>2 DEF x
  <2>5. /\ a0 \in Seq(Entries) /\ ByData(a0) /\ PartOf(a0, a[k], e) /\ Len(a0) = Len(a[k]) - 1
        /\ Known(a0) = Known(a[k]) - e.size
    BY <1>5, <2>2, RemovedOrdered DEF a0
  <2>6. Known(f[k]) \in Nat /\ Known(a[k]) \in Nat
    BY <1>5, KnownIsNat
  <2> HIDE DEF t, m
  <2>7. /\ DOMAIN r.free = Arena /\ DOMAIN r.alloc = Arena /\ r.free[k] = f0 /\ r.alloc[k] = a0
        /\ \A j \in Arena : j # k => r.free[j] = f[j] /\ r.alloc[j] = a[j]
    BY <1>1, <1>2, <2>1
  <2>8. CASE k = 0
    <3>1. /\ Whole(f[0], c) /\ Whole(a[0], c)
          /\ Len(f[0]) <= FreeCapacity /\ Len(a[0]) <= AllocCapacity
      BY DEF Tabled
    <3>2. IsClear(e) /\ Narrow(e, c)
      BY <2>2, <2>8, <3>1 DEF Whole, Clear
    <3> HIDE DEF e
    <3>3. Whole(t, c) /\ Whole(a0, c)
      BY <2>4, <2>5, <2>8, <3>1, <3>2, PartWhole
    <3>4. Whole(f0, c) /\ Known(f0) = Known(t) /\ Len(f0) <= Len(t)
      BY <2>8, <3>3, DefragmentedWhole DEF f0
    <3>5. Len(f0) \in Nat /\ Len(t) \in Nat /\ Len(a0) \in Nat
      BY <3>3, <3>4, EntryFields DEF Whole, Clear
    <3>6. Len(f0) <= FreeCapacity /\ Len(a0) <= AllocCapacity
      BY <1>2, <1>5, <2>3, <2>4, <2>5, <2>8, <3>1, <3>4, <3>5
    <3>7. Tabled(r.free, r.alloc, c)
      BY <2>7, <2>8, <3>3, <3>4, <3>6 DEF Tabled
    <3>8. FreedCount(r.free, r.alloc, f, a)
      <4> SUFFICES ASSUME NEW j \in Arena, ~ FreeIsFull(f, j)
                   PROVE  Counted(r.free, r.alloc, j) = Counted(f, a, j)
        BY DEF FreedCount
      <4>1. CASE j # k
        BY <2>7, <4>1 DEF Counted
      <4>2. CASE j = k
        <5>1. ~ (Len(f[k]) >= m)
          BY <1>2, <1>5, <2>3, <2>8, <3>1, <4>2 DEF FreeIsFull
        <5>2. Known(f0) + Known(a0) = Known(f[k]) + Known(a[k])
          BY <2>2, <2>4, <2>5, <2>6, <3>4, <5>1 DEF e
        <5> QED
          BY <2>7, <4>2, <5>2 DEF Counted
      <4> QED
        BY <4>1, <4>2
    <3> QED
      BY <3>7, <3>8
  <2>9. CASE k # 0
    <3>1. f0 = t /\ ~ (Len(f[k]) >= m)
      BY <1>8, <2>9 DEF f0
    <3>2. SlotTable(f[k], k) /\ SlotTable(a[k], k)
      BY <1>1, <2>9 DEF Tabled
    <3>3. e.size = Bins[k].size
      BY <2>2, <3>2 DEF SlotTable
    <3> HIDE DEF e
    <3>4. SlotTable(t, k) /\ SlotTable(a0, k)
      BY <2>4, <2>5, <3>2, <3>3 DEF SlotTable, IsTable, PartOf
    <3>5. Tabled(r.free, r.alloc, c)
      <4>1. r.free[0] = f[0] /\ r.alloc[0] = a[0]
        BY <1>2, <2>7, <2>9
      <4>2. \A j \in Arena : j # 0 => SlotTable(r.free[j], j) /\ SlotTable(r.alloc[j], j)
        BY <2>7, <3>1, <3>4 DEF Tabled
      <4> QED
        BY <2>7, <4>1, <4>2 DEF Tabled
    <3>6. FreedCount(r.free, r.alloc, f, a)
      <4> SUFFICES ASSUME NEW j \in Arena
                   PROVE  Counted(r.free, r.alloc, j) = Counted(f, a, j)
        BY DEF FreedCount
      <4>1. CASE j # k
        BY <2>7, <4>1 DEF Counted
      <4>2. CASE j = k
        <5>1. Known(f0) + Known(a0) = Known(f[k]) + Known(a[k])
          BY <2>2, <2>4, <2>5, <2>6, <3>1
        <5> QED
          BY <2>7, <4>2, <5>1 DEF Counted
      <4> QED
        BY <4>1, <4>2
    <3> QED
      BY <3>5, <3>6
  <2> QED
    BY <2>8, <2>9
<1> QED
  BY <1>7, <1>8

-----------------------------------------------------------------------------
(* Where the bins lie                                                       *)

\* f holds where the first n bins start.
Starts(f, n) ==
  /\ f \in [1..n -> Nat]
  /\ \A k \in 1..n :
       f[k] = AlignUp(IF k = 1 THEN HeapEnd ELSE f[k - 1] + Bins[k - 1].size * Bins[k - 1].count,
                      MaxAlignment)

\* Rounding up gives a number that is not below.
LEMMA AlignUpIs ==
  ASSUME NEW n \in Nat, NEW a \in Nat \ {0}
  PROVE  AlignUp(n, a) \in Nat /\ n <= AlignUp(n, a)
<1>1. PaddingAt(n, a) \in Nat
  BY PaddingIs
<1>2. AlignUp(n, a) \in Int
  <2>1. (n + a - 1) \div a \in Int
    OBVIOUS
  <2> DEFINE d == (n + a - 1) \div a
  <2>2. d \in Int /\ AlignUp(n, a) = d * a
    BY <2>1 DEF AlignUp
  <2> HIDE DEF d
  <2> QED
    BY <2>2
<1> DEFINE u == AlignUp(n, a)
<1>3. u \in Int /\ u - n \in Nat
  BY <1>1, <1>2 DEF PaddingAt
<1> HIDE DEF u
<1>4. u \in Nat /\ n <= u
  BY <1>3
<1> QED
  BY <1>4 DEF u

\* There are such addresses.
LEMMA StartsExist ==
  \E f : Starts(f, Len(Bins))
<1> DEFINE Runs(m) == \E f : Starts(f, m)
           S == {m \in Nat : m <= Len(Bins) /\ ~ Runs(m)}
<1> SUFFICES ASSUME S # {} PROVE FALSE
  BY ArenaIs
<1>1. S \in SUBSET Nat
  OBVIOUS
<1>2. PICK m \in S : \A k \in S : m <= k
  <2> HIDE DEF S
  <2> QED
    BY <1>1, FirstOf
<1>3. m \in Nat /\ m <= Len(Bins) /\ ~ Runs(m) /\ Len(Bins) \in Nat
  BY <1>2, ArenaIs
<1>4. m # 0
  <2> DEFINE f == [i \in 1..0 |-> 0]
  <2>1. f \in [1..0 -> Nat] /\ \A k \in 1..0 : FALSE
    OBVIOUS
  <2> HIDE DEF f
  <2>2. Starts(f, 0)
    BY <2>1 DEF Starts
  <2> QED
    BY <1>3, <2>2
<1> DEFINE l == m - 1
<1>5. l \in Nat /\ ~ (m <= l) /\ l <= Len(Bins) /\ m = l + 1
  BY <1>3, <1>4
<1>6. Runs(l)
  <2> HIDE DEF Runs, l
  <2> QED
    BY <1>2, <1>5
<1>7. PICK g : Starts(g, l)
  BY <1>6
<1> HIDE DEF l
<1> DEFINE n == IF m = 1 THEN HeapEnd ELSE g[l] + Bins[l].size * Bins[l].count
           h == [i \in 1..m |-> IF i = m THEN AlignUp(n, MaxAlignment) ELSE g[i]]
<1>8. n \in Nat
  <2>1. CASE m = 1
    BY <2>1, Sizes
  <2>2. CASE m # 1
    <3>1. l \in 1..Len(Bins) /\ l \in 1..l
      BY <1>3, <1>5, <2>2
    <3>2. g[l] \in Nat /\ Bins[l].size \in Nat /\ Bins[l].count \in Nat
      BY <1>7, <3>1, ArenaIs DEF Starts
    <3> DEFINE x == Bins[l].size
               y == Bins[l].count
    <3>3. x \in Nat /\ y \in Nat /\ n = g[l] + x * y
      BY <2>2, <3>2
    <3> HIDE DEF x, y, n
    <3>4. x * y \in Nat
      BY <3>3
    <3> QED
      BY <3>2, <3>3, <3>4
  <2> QED
    BY <2>1, <2>2
<1>9. n = IF m = 1 THEN HeapEnd ELSE g[l] + Bins[l].size * Bins[l].count
  OBVIOUS
<1> HIDE DEF n
<1>10. AlignUp(n, MaxAlignment) \in Nat
  <2>1. MaxAlignment \in Nat \ {0}
    BY HeapAssumption
  <2> QED
    BY <1>8, <2>1, AlignUpIs
<1>11. \A i \in 1..m : i = m \/ i \in 1..l
  BY <1>3, <1>5
<1>12. h \in [1..m -> Nat] /\ h[m] = AlignUp(n, MaxAlignment) /\ \A i \in 1..l : h[i] = g[i]
  <2>1. g \in [1..l -> Nat]
    BY <1>7 DEF Starts
  <2>2. m \in 1..m /\ \A i \in 1..l : i \in 1..m /\ i # m
    BY <1>3, <1>4, <1>5
  <2> QED
    BY <1>10, <1>11, <2>1, <2>2
<1> HIDE DEF h
<1>13. ASSUME NEW k \in 1..m
       PROVE  h[k] = AlignUp(IF k = 1 THEN HeapEnd ELSE h[k - 1] + Bins[k - 1].size * Bins[k - 1].count,
                             MaxAlignment)
  <2>1. CASE k = m
    <3>1. k # 1 => k - 1 = l /\ l \in 1..l
      BY <1>3, <1>5, <2>1
    <3>2. n = IF k = 1 THEN HeapEnd ELSE h[k - 1] + Bins[k - 1].size * Bins[k - 1].count
      BY <1>9, <1>12, <2>1, <3>1
    <3> QED
      BY <1>12, <2>1, <3>2
  <2>2. CASE k # m
    <3>1. k \in 1..l /\ (k # 1 => k - 1 \in 1..l)
      BY <1>3, <1>5, <2>2
    <3> QED
      BY <1>7, <1>12, <3>1 DEF Starts
  <2> QED
    BY <2>1, <2>2
<1>14. Starts(h, m)
  BY <1>12, <1>13 DEF Starts
<1> QED
  BY <1>3, <1>14

\* The bins have a start.
LEMMA BinStarts ==
  Starts(BinStart, Len(Bins))
<1> DEFINE G(f) == [k \in 1..Len(Bins) |->
                      AlignUp(IF k = 1 THEN HeapEnd ELSE f[k - 1] + Bins[k - 1].size * Bins[k - 1].count,
                              MaxAlignment)]
<1>1. BinStart = CHOOSE f : f = G(f)
  BY DEF BinStart
<1>2. PICK g : Starts(g, Len(Bins))
  BY StartsExist
<1>3. g = G(g)
  BY <1>2 DEF Starts
<1>4. BinStart = G(BinStart)
  BY <1>1, <1>3
<1> DEFINE n == Len(Bins)
<1>5. n \in Nat
  BY ArenaIs
<1>6. \A k \in 1..n :
        BinStart[k] = AlignUp(IF k = 1 THEN HeapEnd ELSE BinStart[k - 1] + Bins[k - 1].size * Bins[k - 1].count,
                              MaxAlignment)
  BY <1>4
<1>7. DOMAIN BinStart = 1..n
  BY <1>4
<1> HIDE DEF n, G
<1> DEFINE S == {k \in Nat : k \in 1..n /\ BinStart[k] # g[k]}
<1>8. S = {}
  <2> SUFFICES ASSUME S # {} PROVE FALSE
    OBVIOUS
  <2>1. S \in SUBSET Nat
    OBVIOUS
  <2>2. PICK k \in S : \A h \in S : k <= h
    <3> HIDE DEF S
    <3> QED
      BY <2>1, FirstOf
  <2>3. k \in 1..n /\ BinStart[k] # g[k]
    BY <2>2
  <2>4. k # 1 => k - 1 \in 1..n /\ BinStart[k - 1] = g[k - 1]
    <3>1. k # 1 => k - 1 \in Nat /\ k - 1 \in 1..n /\ ~ (k <= k - 1)
      BY <1>5, <2>3
    <3> QED
      BY <2>2, <3>1
  <2> QED
    BY <1>2, <1>6, <2>3, <2>4 DEF Starts, n
<1>9. \A k \in 1..n : BinStart[k] = g[k]
  BY <1>5, <1>8
<1>10. BinStart = [k \in 1..n |-> BinStart[k]]
  BY <1>4 DEF G, n
<1>11. \A k \in 1..n : BinStart[k] \in Nat
  BY <1>2, <1>9 DEF Starts, n
<1>12. BinStart \in [1..n -> Nat]
  BY <1>10, <1>11
<1> QED
  BY <1>6, <1>12 DEF Starts, n

-----------------------------------------------------------------------------
(* No memory is lost                                                        *)

\* What a caller of the segmented allocator holds.
HeldBlocks(H) == DOMAIN H = Owner /\ \A o \in Owner : H[o] # NoBlock => IsBlock(H[o])

\* The inductive invariant of the count.
CountInv == /\ caller \in Callers
            /\ caller.build = "segmented" /\ Unsplit(caller) =>
                 HeldBlocks(held) /\ Tabled(free, alloc, caller)

\* What HeapAssumption says of a caller.
LEMMA CallerIs ==
  ASSUME caller \in Callers
  PROVE  IsCaller(caller)
BY HeapAssumption DEF IsCaller

\* What is held after a call.
LEMMA BlockHeld ==
  ASSUME NEW H, HeldBlocks(H), NEW o \in Owner, NEW ptr \in Int, NEW len \in Nat, NEW J,
         J = [H EXCEPT ![o] = Block(ptr, len)]
  PROVE  HeldBlocks(J)
<1>1. IsBlock(Block(ptr, len))
  BY DEF IsBlock, Block
<1>2. DOMAIN J = Owner /\ \A q \in Owner : J[q] = IF q = o THEN Block(ptr, len) ELSE H[q]
  BY DEF HeldBlocks
<1> QED
  BY <1>1, <1>2 DEF HeldBlocks

\* The slots of a bin.
LEMMA SlotsAre ==
  ASSUME NEW k \in 1..Len(Bins)
  PROVE  /\ SlotTable(Slots(k), k) /\ Len(Slots(k)) = Bins[k].count
         /\ \A n \in 1..Bins[k].count :
              /\ Slots(k)[n].chunk = BinStart[k] + (n - 1) * Bins[k].size
              /\ Slots(k)[n].data = Slots(k)[n].chunk
<1> DEFINE m == Bins[k].count
           z == Bins[k].size
           b == BinStart[k]
           t == Slots(k)
           At(n) == b + (n - 1) * z
<1>1. m \in Nat /\ z \in Nat \ {0} /\ b \in Nat /\ MaxAlignment \in Nat
  BY ArenaIs, BinStarts, HeapAssumption DEF Starts
<1>2. t = [n \in 1..m |-> FreeEntry(At(n), IF n = 1 THEN Null ELSE b + (n - 2) * z, z, MaxAlignment)]
  BY DEF Slots
<1> HIDE DEF m, z, b, t
<1>3. ASSUME NEW n \in 1..m
      PROVE  /\ t[n] \in Entries /\ t[n].chunk = At(n) /\ t[n].data = At(n) /\ t[n].size = z
             /\ At(n) \in Nat
  <2> DEFINE x == At(n)
             p == IF n = 1 THEN Null ELSE b + (n - 2) * z
  <2>1. x \in Nat /\ p \in Nat
    <3>1. n - 1 \in Nat /\ (n # 1 => n - 2 \in Nat)
      BY <1>1
    <3>2. (n - 1) * z \in Nat /\ (n # 1 => (n - 2) * z \in Nat)
      BY <1>1, <3>1
    <3> QED
      BY <1>1, <3>2 DEF Null
  <2>2. t[n] = FreeEntry(x, p, z, MaxAlignment)
    BY <1>2
  <2> HIDE DEF x, p
  <2>3. /\ t[n] \in Entries /\ t[n].chunk = x /\ t[n].data = x /\ t[n].size = z
    BY <1>1, <2>1, <2>2 DEF FreeEntry, Entry, Entries
  <2> QED
    BY <2>1, <2>3 DEF x
<1>4. t \in Seq(Entries) /\ Len(t) = m
  <2>1. t = [n \in 1..m |-> t[n]]
    BY <1>2
  <2>2. t \in [1..m -> Entries]
    BY <1>3, <2>1
  <2> QED
    BY <1>1, <2>2
<1>5. ASSUME NEW i \in 1..m, NEW j \in 1..m, i < j
      PROVE  At(i) <= At(j)
  <2>1. (i - 1) * z <= (j - 1) * z /\ (i - 1) * z \in Nat /\ (j - 1) * z \in Nat
    <3>1. i - 1 \in Nat /\ j - 1 \in Nat /\ i - 1 <= j - 1
      BY <1>1, <1>5
    <3> DEFINE x == i - 1
               y == j - 1
    <3>2. x \in Nat /\ y \in Nat /\ x <= y
      BY <3>1
    <3> HIDE DEF x, y
    <3>3. x * z <= y * z /\ x * z \in Nat /\ y * z \in Nat
      BY <1>1, <3>2
    <3> QED
      BY <3>3 DEF x, y
  <2> QED
    BY <1>1, <2>1
<1>6. ByData(t)
  <2> HIDE DEF At
  <2> QED
    BY <1>3, <1>4, <1>5 DEF ByData
<1>7. \A i \in 1..Len(t) : t[i].size = Bins[k].size
  BY <1>3, <1>4 DEF z
<1> QED
  BY <1>3, <1>4, <1>6, <1>7 DEF SlotTable, IsTable, t, m, z, b

\* It holds before the first call.
LEMMA CountStart ==
  ASSUME SegInit
  PROVE  /\ caller \in Callers /\ HeldBlocks(held)
         /\ Tabled(free, alloc, caller)
<1>1. /\ held = [o \in Owner |-> NoBlock] /\ caller \in Callers
      /\ free = [k \in Arena |->
                   IF k = 0 THEN <<FreeEntry(HeapStart, Null, HeapCapacity, MaxAlignment)>> ELSE Slots(k)]
      /\ alloc = [k \in Arena |-> <<>>]
  BY DEF SegInit, BlocksInit
<1>2. HeldBlocks(held)
  BY <1>1 DEF HeldBlocks
<1> DEFINE e == FreeEntry(HeapStart, Null, HeapCapacity, MaxAlignment)
           t == <<e>>
<1>3. /\ e \in Entries /\ e.chunk = HeapStart /\ e.data = HeapStart /\ e.prev = 0 /\ e.size = HeapCapacity
  <2>1. MaxAlignment \in Nat /\ HeapCapacity \in Nat /\ HeapStart \in Nat
    BY HeapAssumption, Sizes
  <2> QED
    BY <2>1 DEF FreeEntry, Entry, Entries, Null
<1> HIDE DEF e
<1>4. t \in Seq(Entries) /\ Len(t) = 1 /\ t[1] = e
  BY <1>3
<1> HIDE DEF t
<1>5. IsClear(e) /\ Narrow(e, caller)
  <2>1. IsClear(e)
    BY <1>3, Sizes, HeapAssumption DEF IsClear, End
  <2>2. \A s \in HeapSizes(caller) \cup caller.resizes : s \in Nat \ {0}
    BY <1>1, CallerIs DEF IsCaller, HeapSizes
  <2> QED
    BY <1>3, <2>1, <2>2, Sizes DEF Narrow
<1>6. Whole(t, caller)
  BY <1>4, <1>5 DEF Whole, Clear, ByData
<1>7. /\ DOMAIN free = Arena /\ DOMAIN alloc = Arena /\ 0 \in Arena
      /\ free[0] = t /\ alloc[0] = <<>>
      /\ \A k \in Arena : alloc[k] = <<>> /\ (k # 0 => free[k] = Slots(k))
  BY <1>1, ArenaIs DEF t, e
<1>8. <<>> \in Seq(Entries) /\ Len(<<>>) = 0 /\ ByData(<<>>)
  BY DEF ByData
<1>9. Whole(alloc[0], caller)
  BY <1>7, <1>8 DEF Whole, Clear
<1>10. \A k \in Arena : k # 0 => SlotTable(free[k], k) /\ SlotTable(alloc[k], k)
  <2> TAKE k \in Arena
  <2> HAVE k # 0
  <2>1. SlotTable(free[k], k)
    BY <1>7, ArenaIs, SlotsAre
  <2>2. SlotTable(alloc[k], k)
    BY <1>7, <1>8 DEF SlotTable, IsTable
  <2> QED
    BY <2>1, <2>2
<1>11. Len(free[0]) <= FreeCapacity /\ Len(alloc[0]) <= AllocCapacity
  BY <1>4, <1>7, <1>8, BinsAssumption
<1> QED
  BY <1>1, <1>2, <1>6, <1>7, <1>9, <1>10, <1>11 DEF Tabled

\* Asked for a usable alignment or for any that leads to it: the call is the same.
LEMMA SameAlloc ==
  ASSUME NEW f, NEW a, NEW size, NEW asked
  PROVE  HeapAlloc(f, a, size, Usable(asked)) = HeapAlloc(f, a, size, asked)
<1>1. Usable(Usable(asked)) = Usable(asked)
  BY UsableIs
<1> QED
  BY <1>1 DEF HeapAlloc

\* A call keeps the tables and counts the bytes.
Adds == /\ HeldBlocks(held') /\ Tabled(free', alloc', caller)
        /\ SameCount(free', alloc', free, alloc)

\* heap_alloc loses no byte.
LEMMA AllocAdds ==
  ASSUME caller \in Callers, Unsplit(caller), HeldBlocks(held), Tabled(free, alloc, caller),
         NEW o \in Owner, NEW size \in caller.sizes, NEW asked \in caller.alignments, SegAlloc(o, size, asked)
  PROVE  Adds
<1> DEFINE r == HeapAlloc(free, alloc, size, asked)
<1>1. /\ r.ptr # Null /\ free' = r.free /\ alloc' = r.alloc
      /\ held' = [held EXCEPT ![o] = Block(r.ptr, size)]
  BY DEF SegAlloc, Becomes
<1>2. IsCaller(caller) /\ size \in Nat
  BY CallerIs DEF IsCaller
<1>3. r = HeapAlloc(free, alloc, size, asked)
  OBVIOUS
<1> HIDE DEF r
<1>4. Tabled(r.free, r.alloc, caller) /\ r.ptr \in Nat /\ SameCount(r.free, r.alloc, free, alloc)
  <2>1. size \in caller.sizes \cup caller.resizes /\ r.ptr # Null
    BY <1>1
  <2> QED
    BY <1>2, <1>3, <2>1, AllocCounts
<1>5. HeldBlocks(held')
  <2> DEFINE p == r.ptr
             J == held'
  <2>1. p \in Int /\ J = [held EXCEPT ![o] = Block(p, size)] /\ size \in Nat
    BY <1>1, <1>2, <1>4
  <2> HIDE DEF p, J
  <2>2. HeldBlocks(J)
    BY <2>1, BlockHeld
  <2> QED
    BY <2>2 DEF J
<1> QED
  BY <1>1, <1>4, <1>5 DEF Adds

\* Neither does heap_free.
LEMMA FreeAdds ==
  ASSUME HeldBlocks(held), Tabled(free, alloc, caller), NEW o \in Owner, SegFree(o)
  PROVE  Adds
<1> DEFINE r == HeapFree(free, alloc, held[o].ptr)
<1>1. /\ held[o] # NoBlock /\ free' = r.free /\ alloc' = r.alloc
      /\ held' = [held EXCEPT ![o] = NoBlock]
  BY DEF SegFree, Becomes
<1>2. held[o].ptr \in Int
  BY <1>1 DEF HeldBlocks, IsBlock
<1>3. r = HeapFree(free, alloc, held[o].ptr)
  OBVIOUS
<1> HIDE DEF r
<1>4. Tabled(r.free, r.alloc, caller) /\ FreedCount(r.free, r.alloc, free, alloc)
  BY <1>2, <1>3, FreeCounts
<1>6. SameCount(r.free, r.alloc, free, alloc)
  BY <1>4 DEF SameCount, FreedCount, IsFull, FreeIsFull
<1>5. HeldBlocks(held')
  BY <1>1 DEF HeldBlocks
<1> QED
  BY <1>1, <1>4, <1>5, <1>6 DEF Adds

\* heap_realloc that moves a block: it frees the old block after the new one was allocated.
\* The free table has not grown meanwhile.
LEMMA MoveAdds ==
  ASSUME caller \in Callers, Unsplit(caller), HeldBlocks(held), Tabled(free, alloc, caller),
         NEW o \in Owner, held[o] # NoBlock, NEW i, NEW size \in caller.resizes,
         NEW asked \in caller.alignments, MovesBlock(o, i, size, Usable(asked))
  PROVE  Adds
<1> DEFINE new == HeapAlloc(free, alloc, size, Usable(asked))
           r == HeapFree(new.free, new.alloc, held[o].ptr)
<1>1. /\ new.ptr # Null /\ free' = r.free /\ alloc' = r.alloc
      /\ held' = [held EXCEPT ![o] = Block(new.ptr, size)]
  BY DEF MovesBlock, Becomes
<1>2. IsCaller(caller) /\ size \in Nat
  BY CallerIs DEF IsCaller
<1>3. held[o].ptr \in Int
  BY DEF HeldBlocks, IsBlock
<1>4. new = HeapAlloc(free, alloc, size, asked)
  BY SameAlloc
<1>5. r = HeapFree(new.free, new.alloc, held[o].ptr)
  OBVIOUS
<1> HIDE DEF new, r
<1>6. /\ Tabled(new.free, new.alloc, caller) /\ new.ptr \in Nat
      /\ Len(new.free[0]) <= Len(free[0]) /\ SameCount(new.free, new.alloc, free, alloc)
  BY <1>1, <1>2, <1>4, AllocCounts
<1>7. Tabled(r.free, r.alloc, caller) /\ FreedCount(r.free, r.alloc, new.free, new.alloc)
  <2> DEFINE f == new.free
             a == new.alloc
             p == held[o].ptr
  <2>1. Tabled(f, a, caller) /\ p \in Int /\ r = HeapFree(f, a, p)
    BY <1>3, <1>5, <1>6
  <2> HIDE DEF f, a, p
  <2>2. Tabled(r.free, r.alloc, caller) /\ FreedCount(r.free, r.alloc, f, a)
    BY <2>1, FreeCounts
  <2> QED
    BY <2>2 DEF f, a
<1>8. HeldBlocks(held')
  <2> DEFINE p == new.ptr
             J == held'
  <2>1. p \in Int /\ J = [held EXCEPT ![o] = Block(p, size)] /\ size \in Nat
    BY <1>1, <1>2, <1>6
  <2> HIDE DEF p, J
  <2>2. HeldBlocks(J)
    BY <2>1, BlockHeld
  <2> QED
    BY <2>2 DEF J
<1>9. SameCount(r.free, r.alloc, free, alloc)
  <2> SUFFICES ASSUME NEW k \in Arena, ~ IsFull(free, alloc, k)
               PROVE  Counted(r.free, r.alloc, k) = Counted(free, alloc, k)
    BY DEF SameCount
  <2>1. ~ FreeIsFull(new.free, k)
    <3>1. /\ Len(new.free[0]) \in Nat /\ Len(free[0]) \in Nat /\ FreeCapacity \in Nat
          /\ Len(free[0]) <= FreeCapacity
      BY <1>6, EntryFields, BinsAssumption DEF Tabled, Whole, Clear
    <3> QED
      BY <1>6, <3>1 DEF FreeIsFull, IsFull
  <2>2. Counted(r.free, r.alloc, k) = Counted(new.free, new.alloc, k)
    BY <1>7, <2>1 DEF FreedCount
  <2>3. Counted(new.free, new.alloc, k) = Counted(free, alloc, k)
    BY <1>6 DEF SameCount
  <2> QED
    BY <2>2, <2>3
<1> QED
  BY <1>1, <1>7, <1>8, <1>9 DEF Adds

\* heap_realloc in place, which may split the rest off.
LEMMA ShrinkAdds ==
  ASSUME caller \in Callers, Unsplit(caller), HeldBlocks(held), Tabled(free, alloc, caller),
         NEW o \in Owner, held[o] # NoBlock, NEW i \in 1..Len(alloc[0]), NEW size \in caller.resizes,
         size <= alloc[0][i].size, ShrinksInPlace(o, i, size)
  PROVE  Adds
<1> DEFINE t == free[0]
           b == alloc[0]
           e == b[i]
           rest == Rest(e, size)
           x == Cut(e, size)
           f0 == Added(t, rest, FreeCapacity)
           a0 == [b EXCEPT ![i] = x]
           splits == e.size - size >= SplitCutoff
<1>1. /\ free' = (IF splits THEN [free EXCEPT ![0] = f0] ELSE free)
      /\ alloc' = (IF splits THEN [alloc EXCEPT ![0][i].size = size] ELSE alloc)
      /\ held' = [held EXCEPT ![o].len = size]
  BY DEF ShrinksInPlace, Rest
<1>2. /\ DOMAIN free = Arena /\ DOMAIN alloc = Arena /\ 0 \in Arena
      /\ Whole(t, caller) /\ Whole(b, caller) /\ Len(t) <= FreeCapacity /\ Len(b) <= AllocCapacity
      /\ FreeCapacity \in Nat /\ SplitCutoff \in Nat \ {0}
  BY ArenaIs, BinsAssumption DEF Tabled
<1>3. /\ t \in Seq(Entries) /\ ByData(t) /\ Len(t) \in Nat
      /\ b \in Seq(Entries) /\ ByData(b) /\ Len(b) \in Nat /\ i \in 1..Len(b)
      /\ e \in Entries /\ e.chunk \in Nat /\ e.size \in Nat /\ e.data \in Nat /\ e.prev \in Nat
      /\ IsClear(e) /\ Narrow(e, caller)
  BY <1>2, EntryFields DEF Whole, Clear
<1>4. size \in Nat \ {0} /\ size <= e.size /\ e.data < e.chunk + size
      /\ \A s \in HeapSizes(caller) \cup caller.resizes : s \in Nat \ {0}
  BY <1>3, CallerIs DEF Narrow, IsCaller, HeapSizes
<1>5. HeldBlocks(held')
  <2>1. IsBlock(held[o]) /\ held[o] = Block(held[o].ptr, held[o].len)
    BY DEF HeldBlocks, IsBlock
  <2>2. [held[o] EXCEPT !.len = size] = Block(held[o].ptr, size)
    BY <2>1 DEF Block
  <2>3. held' = [held EXCEPT ![o] = Block(held[o].ptr, size)]
    BY <1>1, <2>2
  <2> QED
    BY <1>4, <2>1, <2>3, BlockHeld DEF IsBlock
<1>6. CASE ~ splits
  <2>1. free' = free /\ alloc' = alloc
    BY <1>1, <1>6
  <2> QED
    BY <1>5, <2>1 DEF Adds, SameCount
<1>7. CASE splits
  <2>1. free' = [free EXCEPT ![0] = f0] /\ alloc' = [alloc EXCEPT ![0] = a0]
    <3>1. [b EXCEPT ![i].size = size] = a0
      BY <1>3 DEF Cut
    <3>2. [alloc EXCEPT ![0][i].size = size] = [alloc EXCEPT ![0] = [b EXCEPT ![i].size = size]]
      BY <1>2
    <3> HIDE DEF f0, a0, splits
    <3> QED
      BY <1>1, <1>7, <3>1, <3>2
  <2>2. /\ rest \in Entries /\ rest.chunk = e.chunk + size /\ rest.data = e.chunk + size
        /\ rest.prev = e.chunk /\ rest.size = e.size - size
    <3> HIDE DEF e
    <3> QED
      BY <1>3, <1>4, RestIs
  <2>3. x \in Entries /\ x.chunk = e.chunk /\ x.data = e.data /\ x.prev = e.prev /\ x.size = size
    <3> HIDE DEF e
    <3> QED
      BY <1>3, <1>4, CutIs
  <2> HIDE DEF rest, x
  <2>4. IsClear(rest) /\ Narrow(rest, caller) /\ IsClear(x) /\ Narrow(x, caller)
    <3>1. rest.size \in Nat \ {0}
      BY <1>2, <1>3, <1>4, <1>7, <2>2
    <3> HIDE DEF e
    <3>2. IsClear(rest) /\ IsClear(x)
      BY <1>3, <1>4, <2>2, <2>3, <3>1 DEF IsClear, End
    <3>3. Narrow(rest, caller)
      BY <1>3, <1>4, <2>2 DEF Narrow
    <3>4. Narrow(x, caller)
      BY <1>3, <2>3 DEF Narrow
    <3> QED
      BY <3>2, <3>3, <3>4
  <2>5. /\ f0 \in Seq(Entries) /\ ByData(f0) /\ PartOf(f0, t, rest)
        /\ Len(f0) = (IF Len(t) >= FreeCapacity THEN Len(t) ELSE Len(t) + 1)
        /\ Known(f0) = IF Len(t) >= FreeCapacity THEN Known(t) ELSE Known(t) + rest.size
    <3>1. f0 = Added(t, rest, FreeCapacity)
      OBVIOUS
    <3> HIDE DEF t, f0
    <3> QED
      BY <1>2, <1>3, <2>2, <3>1, AddedOrdered
  <2>6. /\ a0 \in Seq(Entries) /\ Len(a0) = Len(b)
        /\ \A k \in 1..Len(b) : a0[k] = IF k = i THEN x ELSE b[k]
        /\ Known(a0) + e.size = Known(b) + x.size
    <3>1. a0 = [b EXCEPT ![i] = x] /\ e = b[i]
      OBVIOUS
    <3> HIDE DEF b, a0, e
    <3>2. /\ a0 \in Seq(Entries) /\ Len(a0) = Len(b)
          /\ \A k \in 1..Len(b) : a0[k] = IF k = i THEN x ELSE b[k]
      BY <1>3, <2>3, <3>1, ExceptSeq
    <3>3. Known(a0) + b[i].size = Known(b) + x.size
      BY <1>3, <2>3, <3>1, KnownChanged
    <3> QED
      BY <3>1, <3>2, <3>3
  <2> HIDE DEF f0, a0
  <2>7. Whole(f0, caller)
    <3> HIDE DEF t
    <3> QED
      BY <1>2, <2>4, <2>5, PartWhole
  <2>8. Whole(a0, caller)
    <3>1. \A k \in 1..Len(b) : a0[k].data = b[k].data /\ IsClear(a0[k]) /\ Narrow(a0[k], caller)
      <4> HIDE DEF b
      <4> QED
        BY <1>2, <2>3, <2>4, <2>6 DEF Whole, Clear, e
    <3> HIDE DEF b
    <3>2. ByData(a0)
      BY <1>3, <2>6, <3>1 DEF ByData
    <3> QED
      BY <2>6, <3>1, <3>2 DEF Whole, Clear
  <2>9. /\ DOMAIN free' = Arena /\ DOMAIN alloc' = Arena /\ free'[0] = f0 /\ alloc'[0] = a0
        /\ \A k \in Arena : k # 0 => free'[k] = free[k] /\ alloc'[k] = alloc[k]
    BY <1>2, <2>1
  <2>10. Tabled(free', alloc', caller)
    <3>1. Len(f0) <= FreeCapacity /\ Len(a0) <= AllocCapacity
      BY <1>2, <1>3, <2>5, <2>6
    <3> QED
      BY <2>7, <2>8, <2>9, <3>1 DEF Tabled
  <2>11. SameCount(free', alloc', free, alloc)
    <3> SUFFICES ASSUME NEW k \in Arena, ~ IsFull(free, alloc, k)
                 PROVE  Counted(free', alloc', k) = Counted(free, alloc, k)
      BY DEF SameCount
    <3>1. CASE k # 0
      BY <2>9, <3>1 DEF Counted
    <3>2. CASE k = 0
      <4>1. ~ (Len(t) >= FreeCapacity)
        BY <1>2, <1>3, <3>2 DEF IsFull
      <4>2. Known(t) \in Nat /\ Known(b) \in Nat /\ Known(a0) \in Nat
        BY <1>3, <2>6, KnownIsNat
      <4>3. Known(f0) + Known(a0) = Known(t) + Known(b)
        <5>1. Known(f0) = Known(t) + (e.size - size)
          BY <2>2, <2>5, <4>1
        <5>2. Known(a0) + e.size = Known(b) + size
          BY <2>3, <2>6
        <5> DEFINE m == e.size
                   n == Known(f0)
                   kt == Known(t)
                   kb == Known(b)
                   ka == Known(a0)
        <5>3. /\ m \in Nat /\ kt \in Nat /\ kb \in Nat /\ ka \in Nat /\ size \in Nat
              /\ n = kt + (m - size) /\ ka + m = kb + size
          BY <1>3, <1>4, <4>2, <5>1, <5>2
        <5> HIDE DEF m, n, kt, kb, ka
        <5>4. n + ka = kt + kb
          BY <5>3
        <5> QED
          BY <5>4 DEF n, ka, kt, kb
      <4> QED
        BY <2>9, <3>2, <4>3 DEF Counted
    <3> QED
      BY <3>1, <3>2
  <2> QED
    BY <1>5, <2>10, <2>11 DEF Adds
<1> QED
  BY <1>6, <1>7

\* heap_realloc, which may shrink a block in place or move it.
LEMMA ReallocAdds ==
  ASSUME caller \in Callers, Unsplit(caller), HeldBlocks(held), Tabled(free, alloc, caller),
         NEW o \in Owner, NEW size \in caller.resizes, NEW asked \in caller.alignments,
         SegRealloc(o, size, asked)
  PROVE  Adds
<1> DEFINE align == Usable(asked)
           i == SearchByPtr(alloc[0], held[o].ptr)
<1>1. /\ held[o] # NoBlock /\ i # 0
      /\ \/ size <= alloc[0][i].size /\ ShrinksInPlace(o, i, size)
         \/ MovesBlock(o, i, size, align)
  <2> HIDE DEF align
  <2> QED
    BY DEF SegRealloc, align
<1>2. i \in 0..Len(alloc[0]) /\ Len(alloc[0]) \in Nat
  <2> DEFINE b == alloc[0]
             p == held[o].ptr
  <2>1. b \in Seq(Entries) /\ p \in Int
    BY <1>1 DEF Tabled, Whole, Clear, HeldBlocks, IsBlock
  <2> HIDE DEF b, p
  <2>2. SearchByPtr(b, p) \in 0..Len(b) /\ Len(b) \in Nat
    BY <2>1, PtrFound, EntryFields
  <2> QED
    BY <2>2 DEF b, p
<1> HIDE DEF i
<1>3. i \in 1..Len(alloc[0])
  BY <1>1, <1>2
<1>4. CASE size <= alloc[0][i].size /\ ShrinksInPlace(o, i, size)
  BY <1>1, <1>3, <1>4, ShrinkAdds
<1>5. CASE MovesBlock(o, i, size, align)
  BY <1>1, <1>5, MoveAdds
<1> QED
  BY <1>1, <1>4, <1>5

\* No call loses a byte.
LEMMA SegAdds ==
  ASSUME caller \in Callers, Unsplit(caller), HeldBlocks(held), Tabled(free, alloc, caller), SegNext
  PROVE  Adds
<1>1. PICK o \in Owner :
        \/ \E size \in caller.sizes, align \in caller.alignments : SegAlloc(o, size, align)
        \/ \E size \in caller.resizes, align \in caller.alignments : SegRealloc(o, size, align)
        \/ SegFree(o)
  BY DEF SegNext
<1>2. CASE \E size \in caller.sizes, align \in caller.alignments : SegAlloc(o, size, align)
  <2>1. PICK size \in caller.sizes, align \in caller.alignments : SegAlloc(o, size, align)
    BY <1>2
  <2> QED
    BY <2>1, AllocAdds
<1>3. CASE \E size \in caller.resizes, align \in caller.alignments : SegRealloc(o, size, align)
  <2>1. PICK size \in caller.resizes, align \in caller.alignments : SegRealloc(o, size, align)
    BY <1>3
  <2> QED
    BY <2>1, ReallocAdds
<1>4. CASE SegFree(o)
  BY <1>4, FreeAdds
<1> QED
  BY <1>1, <1>2, <1>3, <1>4

\* The caller does not change.
LEMMA CallerStays ==
  ASSUME [MemNext]_memVars
  PROVE  caller' = caller
<1>1. CASE SegNext
  BY <1>1 DEF SegNext, SegAlloc, SegFree, SegRealloc
<1>2. CASE InlineNext
  BY <1>2 DEF InlineNext, InlineAlloc, InlineFree, InlineRealloc
<1>3. CASE UNCHANGED memVars
  BY <1>3 DEF memVars
<1> QED
  BY <1>1, <1>2, <1>3 DEF MemNext

\* At the start a segmented allocator that no padding is split off from has its tables.
LEMMA CountStarts == MemInit => CountInv
<1> SUFFICES ASSUME MemInit PROVE CountInv
  OBVIOUS
<1>1. CASE InlineInit /\ caller.build = "inline"
  <2>1. caller \in Callers /\ caller.build # "segmented"
    BY <1>1 DEF InlineInit, BlocksInit
  <2> QED
    BY <2>1 DEF CountInv
<1>2. CASE SegInit
  BY <1>2, CountStart DEF CountInv
<1> QED
  BY <1>1, <1>2 DEF MemInit

\* Every step leaves it tables, which lose track of memory only when one of them is full.
LEMMA CountSteps ==
  CountInv /\ [MemNext]_memVars =>
    CountInv' /\ [caller.build = "segmented" /\ Unsplit(caller) => AddsUp]_memVars
<1> SUFFICES ASSUME CountInv, [MemNext]_memVars
             PROVE  /\ CountInv'
                    /\ [caller.build = "segmented" /\ Unsplit(caller) => AddsUp]_memVars
  OBVIOUS
<1>1. caller' = caller /\ caller \in Callers
  BY CallerStays DEF CountInv
<1>2. CASE ~ (caller.build = "segmented" /\ Unsplit(caller))
  BY <1>1, <1>2 DEF CountInv
<1>3. CASE caller.build = "segmented" /\ Unsplit(caller)
  <2>1. HeldBlocks(held) /\ Tabled(free, alloc, caller)
    BY <1>3 DEF CountInv
  <2>2. CASE SegNext
    <3>1. Adds
      BY <1>1, <1>3, <2>1, <2>2, SegAdds
    <3>2. HeldBlocks(held)' /\ Tabled(free, alloc, caller)'
      BY <1>1, <3>1 DEF Adds
    <3>3. AddsUp
      BY <3>1 DEF Adds, SameCount, AddsUp, KnownOf, Counted, IsFull
    <3> QED
      BY <1>1, <3>2, <3>3 DEF CountInv
  <2>3. CASE UNCHANGED memVars
    <3>1. free' = free /\ alloc' = alloc /\ held' = held
      BY <2>3 DEF memVars
    <3> QED
      BY <1>1, <2>1, <2>3, <3>1 DEF CountInv
  <2> QED
    BY <1>3, <2>2, <2>3 DEF MemNext
<1> QED
  BY <1>2, <1>3

\* So it always has them.
LEMMA CountIsKept == MemSpec => []CountInv
<1>1. MemInit => CountInv
  BY CountStarts
<1>2. CountInv /\ [MemNext]_memVars => CountInv'
  BY CountSteps
<1> QED
  BY <1>1, <1>2, PTL DEF MemSpec

\* With blocks of any sizes, as long as no padding is split off or as large as its block:
\* the tables lose track of memory only when one of them is full.
THEOREM NoMemoryLost == MemSpec => MemoryAddsUp
<1>1. CountInv /\ [MemNext]_memVars =>
        [caller.build = "segmented" /\ Unsplit(caller) => AddsUp]_memVars
  BY CountSteps
<1> QED
  BY <1>1, CountIsKept, PTL DEF MemSpec, MemoryAddsUp

-----------------------------------------------------------------------------
(* Multiples                                                                *)

\* The multiples of w.
Multiples(w) == {m * w : m \in Nat}

\* Sums and differences of multiples are multiples, and no two are nearer than w.
LEMMA MultiplesAre ==
  ASSUME NEW w \in Nat \ {0}
  PROVE  /\ 0 \in Multiples(w) /\ w \in Multiples(w)
         /\ \A x \in Multiples(w) : x \in Nat /\ (x # 0 => w <= x)
         /\ \A x, y \in Multiples(w) : /\ x + y \in Multiples(w)
                                       /\ x < y => x + w <= y
                                       /\ x <= y => y - x \in Multiples(w)
<1>1. 0 = 0 * w /\ w = 1 * w /\ 0 \in Nat /\ 1 \in Nat
  OBVIOUS
<1>2. ASSUME NEW m \in Nat
      PROVE  m * w \in Nat /\ (m # 0 => w <= m * w)
  <2>1. CASE m = 0
    BY <2>1
  <2>2. CASE m # 0
    <3>1. m - 1 \in Nat /\ (m - 1) * w \in Nat /\ m * w = (m - 1) * w + w
      BY <2>2
    <3> QED
      BY <3>1
  <2> QED
    BY <2>1, <2>2
<1>3. ASSUME NEW m \in Nat, NEW n \in Nat
      PROVE  /\ m * w + n * w = (m + n) * w /\ m + n \in Nat
             /\ m <= n => n * w - m * w = (n - m) * w /\ n - m \in Nat
             /\ m < n => m * w + w <= n * w
             /\ n <= m => n * w <= m * w
  <2>1. m * w + n * w = (m + n) * w /\ m + n \in Nat
    OBVIOUS
  <2>2. ASSUME m <= n
        PROVE  n * w - m * w = (n - m) * w /\ n - m \in Nat
    BY <2>2
  <2>3. ASSUME m < n
        PROVE  m * w + w <= n * w
    <3> DEFINE d == n - m - 1
    <3>1. d \in Nat /\ n = m + 1 + d
      BY <2>3
    <3>2. n * w = m * w + w + d * w
      <4> HIDE DEF d
      <4> QED
        BY <3>1
    <3>3. d * w \in Nat /\ m * w \in Nat
      BY <1>2, <3>1
    <3> HIDE DEF d
    <3> DEFINE x == d * w
               y == m * w
               z == n * w
    <3>4. x \in Nat /\ y \in Nat /\ z = y + w + x
      BY <3>2, <3>3
    <3> HIDE DEF x, y, z
    <3>5. y + w <= z
      BY <3>4
    <3> QED
      BY <3>5 DEF y, z
  <2>4. ASSUME n <= m
        PROVE  n * w <= m * w
    <3> DEFINE d == m - n
    <3>1. d \in Nat /\ m = n + d
      BY <2>4
    <3>2. m * w = n * w + d * w /\ d * w \in Nat /\ n * w \in Nat
      <4> HIDE DEF d
      <4> QED
        BY <1>2, <3>1
    <3> QED
      BY <3>2
  <2> QED
    BY <2>1, <2>2, <2>3, <2>4
<1>4. \A x \in Multiples(w) : x \in Nat /\ (x # 0 => w <= x)
  <2> SUFFICES ASSUME NEW m \in Nat
               PROVE  m * w \in Nat /\ (m * w # 0 => w <= m * w)
    BY DEF Multiples
  <2> QED
    BY <1>2
<1>5. ASSUME NEW x \in Multiples(w), NEW y \in Multiples(w)
      PROVE  /\ x + y \in Multiples(w)
             /\ x < y => x + w <= y
             /\ x <= y => y - x \in Multiples(w)
  <2>1. PICK m \in Nat : x = m * w
    BY DEF Multiples
  <2>2. PICK n \in Nat : y = n * w
    BY DEF Multiples
  <2>3. x + y = (m + n) * w /\ m + n \in Nat
    BY <1>3, <2>1, <2>2
  <2>4. ASSUME x < y
        PROVE  m < n
    <3>1. x \in Nat /\ y \in Nat
      BY <1>4
    <3>2. ~ (n <= m)
      BY <1>3, <2>1, <2>2, <2>4, <3>1
    <3> QED
      BY <3>2
  <2>5. ASSUME x <= y
        PROVE  y - x \in Multiples(w)
    <3>1. m <= n \/ x = y
      <4>1. CASE x = y
        BY <4>1
      <4>2. CASE x # y
        <5>1. x < y
          BY <1>4, <2>5, <4>2
        <5> QED
          BY <2>4, <5>1
      <4> QED
        BY <4>1, <4>2
    <3>2. CASE m <= n
      BY <1>3, <2>1, <2>2, <3>2 DEF Multiples
    <3>3. CASE x = y
      <4>1. y - x = 0
        BY <1>4, <3>3
      <4> QED
        BY <1>1, <4>1 DEF Multiples
    <3> QED
      BY <3>1, <3>2, <3>3
  <2>6. x < y => x + w <= y
    BY <1>3, <2>1, <2>2, <2>4
  <2>7. x + y \in Multiples(w)
    BY <2>3 DEF Multiples
  <2> QED
    BY <2>5, <2>6, <2>7
<1>6. 0 \in Multiples(w) /\ w \in Multiples(w)
  BY <1>1 DEF Multiples
<1> QED
  BY <1>4, <1>5, <1>6

\* A number is a multiple when the remainder is 0.
LEMMA Divided ==
  ASSUME NEW n \in Nat, NEW w \in Nat \ {0}
  PROVE  n % w = 0 <=> n \in Multiples(w)
<1> DEFINE d == n \div w
           r == n % w
<1>1. n = w * d + r /\ r \in 0..(w - 1) /\ d \in Int
  BY DivMod
<1> HIDE DEF d, r
<1>2. ASSUME r = 0
      PROVE  n \in Multiples(w)
  <2>1. n = d * w
    BY <1>1, <1>2
  <2>2. d \in Nat
    <3>1. CASE d < 0
      <4> DEFINE m == - d - 1
      <4>1. m \in Nat /\ d = - m - 1
        BY <1>1, <3>1
      <4>2. n = - (m * w) - w /\ m * w \in Nat
        <5> HIDE DEF m
        <5> QED
          BY <2>1, <4>1
      <4> HIDE DEF m
      <4> DEFINE x == m * w
      <4>3. x \in Nat /\ n = - x - w
        BY <4>2
      <4> HIDE DEF x
      <4> QED
        BY <4>3
    <3> QED
      BY <1>1, <3>1
  <2> QED
    BY <2>1, <2>2 DEF Multiples
<1>3. ASSUME n \in Multiples(w)
      PROVE  r = 0
  <2>1. PICK m \in Nat : n = m * w
    BY <1>3 DEF Multiples
  <2> DEFINE k == m - d
  <2>2. k \in Int /\ k * w = r
    BY <1>1, <2>1
  <2> HIDE DEF k
  <2>3. CASE k = 0
    BY <2>2, <2>3
  <2>4. CASE k > 0
    <3>1. k \in Nat /\ k # 0
      BY <2>2, <2>4
    <3>2. k * w \in Multiples(w)
      BY <3>1 DEF Multiples
    <3> DEFINE x == k * w
    <3>3. (k - 1) * w + w = x /\ k - 1 \in Nat
      BY <3>1
    <3>4. (k - 1) * w \in Nat
      BY <3>3
    <3>5. w <= x
      <4> DEFINE y == (k - 1) * w
      <4> HIDE DEF y, x
      <4> QED
        BY <3>3, <3>4 DEF y
    <3> QED
      BY <1>1, <2>2, <3>5
  <2>5. CASE k < 0
    <3> DEFINE h == - k - 1
    <3>1. h \in Nat /\ k = - h - 1
      BY <2>2, <2>5
    <3>2. k * w = - (h * w) - w /\ h * w \in Nat
      <4> HIDE DEF h
      <4> QED
        BY <3>1
    <3> HIDE DEF h
    <3> DEFINE x == h * w
    <3>3. x \in Nat /\ r = - x - w
      BY <2>2, <3>2
    <3> HIDE DEF x
    <3> QED
      BY <1>1, <3>3
  <2> QED
    BY <2>2, <2>3, <2>4, <2>5
<1> QED
  BY <1>2, <1>3 DEF r

\* The multiples of a multiple are multiples.
LEMMA MultiplesOf ==
  ASSUME NEW v \in Nat \ {0}, NEW w \in Multiples(v), NEW x \in Multiples(w)
  PROVE  x \in Multiples(v)
<1>1. PICK m \in Nat : w = m * v
  BY DEF Multiples
<1>2. PICK n \in Nat : x = n * w
  BY DEF Multiples
<1>3. x = (n * m) * v /\ n * m \in Nat
  BY <1>1, <1>2
<1> QED
  BY <1>3 DEF Multiples

\* What is aligned needs no padding, and with it everything is.
LEMMA AlignedIs ==
  ASSUME NEW n \in Nat, NEW a \in Nat \ {0}
  PROVE  /\ AlignUp(n, a) \in Multiples(a) /\ AlignUp(n, a) = n + PaddingAt(n, a)
         /\ n \in Multiples(a) => PaddingAt(n, a) = 0
<1> DEFINE m == n + a - 1
           d == m \div a
           r == m % a
<1>1. m \in Nat
  OBVIOUS
<1>2. m = a * d + r /\ r \in 0..(a - 1) /\ d \in Int
  <2> HIDE DEF m
  <2> QED
    BY <1>1, DivMod
<1>3. AlignUp(n, a) = d * a
  BY DEF AlignUp
<1>4. AlignUp(n, a) \in Nat /\ n <= AlignUp(n, a)
  BY AlignUpIs
<1>5. AlignUp(n, a) = n + PaddingAt(n, a) /\ PaddingAt(n, a) \in Nat /\ PaddingAt(n, a) < a
  <2>1. PaddingAt(n, a) \in Nat /\ PaddingAt(n, a) < a
    BY PaddingIs
  <2> QED
    BY <1>4, <2>1 DEF PaddingAt
<1>6. AlignUp(n, a) \in Multiples(a)
  <2>1. d \in Nat
    <3>1. CASE d < 0
      <4> DEFINE h == - d - 1
      <4> HIDE DEF d
      <4>1. h \in Nat /\ d = - h - 1
        BY <1>2, <3>1
      <4>2. d * a = - (h * a) - a /\ h * a \in Nat
        <5> HIDE DEF h
        <5> QED
          BY <4>1
      <4> HIDE DEF h
      <4> DEFINE x == h * a
                 y == d * a
      <4>3. x \in Nat /\ y = - x - a
        BY <4>2
      <4>4. y \in Nat
        BY <1>3, <1>4
      <4> HIDE DEF x, y
      <4> QED
        BY <4>3, <4>4
    <3> QED
      BY <1>2, <3>1
  <2> QED
    BY <1>3, <2>1 DEF Multiples
<1>7. ASSUME n \in Multiples(a)
      PROVE  PaddingAt(n, a) = 0
  <2> DEFINE u == AlignUp(n, a)
             p == PaddingAt(n, a)
  <2>1. n = u \/ n + a <= u
    <3>1. u \in Multiples(a) /\ n <= u /\ u \in Nat
      BY <1>4, <1>6
    <3> HIDE DEF u
    <3> QED
      BY <1>7, <3>1, MultiplesAre
  <2>2. u = n + p /\ p \in Nat /\ p < a
    BY <1>5
  <2> HIDE DEF u, p
  <2>3. p = 0
    BY <2>1, <2>2
  <2> QED
    BY <2>3 DEF p
<1> QED
  BY <1>5, <1>6, <1>7

-----------------------------------------------------------------------------
(* Chunks of the heap that do not overlap                                   *)

\* Two chunks that do not overlap.
Off(x, y) == End(x) <= y.chunk \/ End(y) <= x.chunk

\* A chunk of a table whose blocks need no padding.
Plain(x) == x \in Entries /\ x.data = x.chunk /\ x.size # 0 /\ x.prev < x.chunk

\* An address at a whole number of steps from the start of the heap.
OnStep(n, w) == n - HeapStart \in Multiples(w)

\* A chunk of the heap, whose chunk in front of it was not longer than s.
HeapChunk(x, s, w) ==
  /\ Plain(x) /\ HeapStart <= x.chunk /\ End(x) <= HeapEnd
  /\ x.prev # Null => x.chunk <= x.prev + s
  /\ OnStep(x.chunk, w) /\ (OnStep(End(x), w) \/ End(x) = HeapEnd)

\* Chunks that do not overlap; and where one is what another calls the chunk in front of it,
\* it does end there.
Sound(S, s, w) ==
  /\ \A x \in S : HeapChunk(x, s, w)
  /\ \A x, y \in S : x # y => Off(x, y)
  /\ \A x, y \in S : x.prev = y.chunk => End(y) = x.chunk

\* Where the heap lies.
LEMMA HeapLies ==
  HeapStart \in Nat \ {0} /\ HeapEnd \in Nat /\ HeapStart < HeapEnd /\ HeapEnd = HeapStart + HeapCapacity
BY HeapAssumption DEF HeapStart, HeapEnd

\* The numbers of an entry.
LEMMA Numbers ==
  ASSUME NEW x \in Entries
  PROVE  /\ x.chunk \in Nat /\ x.data \in Nat /\ x.prev \in Nat /\ x.size \in Nat
         /\ End(x) \in Nat /\ End(x) = x.chunk + x.size
BY DEF Entries, End

\* Chunks stay sound when some go.
LEMMA FewerSound ==
  ASSUME NEW s, NEW w, NEW S, Sound(S, s, w), NEW T, T \subseteq S
  PROVE  Sound(T, s, w)
BY DEF Sound

\* Of two chunks that touch, the first takes over the second.
LEMMA FusedSound ==
  ASSUME NEW s, NEW w, NEW S, Sound(S, s, w), NEW x \in S, NEW y \in S, End(x) = y.chunk,
         NEW g \in Entries, g.chunk = x.chunk, g.data = x.data, g.prev = x.prev,
         g.size = x.size + y.size
  PROVE  /\ Sound((S \ {x, y}) \cup {g}, s, w) /\ End(g) = End(y)
         /\ \A z \in S : z # x => z.prev # x.chunk \/ z = y
<1> DEFINE N == S \ {x, y}
<1>1. \A z \in S : /\ z.chunk \in Nat /\ z.prev \in Nat /\ End(z) \in Nat
                   /\ z.chunk < End(z) /\ z.prev < z.chunk
  BY Numbers DEF Sound, HeapChunk, Plain
<1>2. /\ End(g) = End(y) /\ g.chunk \in Nat /\ End(g) \in Nat
      /\ x.size \in Nat /\ y.size \in Nat /\ x.size # 0 /\ y.size # 0
  <2>1. x \in Entries /\ y \in Entries /\ x.size # 0 /\ y.size # 0
    BY DEF Sound, HeapChunk, Plain
  <2> QED
    BY <2>1, Numbers
<1>3. HeapChunk(g, s, w)
  <2>1. HeapChunk(x, s, w) /\ HeapChunk(y, s, w)
    BY DEF Sound
  <2>2. g.data = g.chunk /\ g.size # 0 /\ g.prev < g.chunk
    BY <1>2, <2>1 DEF HeapChunk, Plain
  <2>3. /\ HeapStart <= g.chunk /\ End(g) <= HeapEnd
        /\ g.prev # Null => g.chunk <= g.prev + s
    BY <1>2, <2>1 DEF HeapChunk
  <2>4. OnStep(g.chunk, w) /\ (OnStep(End(g), w) \/ End(g) = HeapEnd)
    BY <1>2, <2>1 DEF HeapChunk
  <2> QED
    BY <2>2, <2>3, <2>4 DEF HeapChunk, Plain
<1>4. ASSUME NEW z \in N
      PROVE  Off(z, g) /\ Off(g, z)
  <2>1. Off(z, x) /\ Off(z, y)
    BY <1>4 DEF Sound
  <2> QED
    BY <1>1, <1>2, <1>4, <2>1 DEF Off
<1>5. ASSUME NEW z \in S, z # x, z # y
      PROVE  z.prev # x.chunk
  <2>1. Off(z, y)
    BY <1>5 DEF Sound
  <2>2. z.prev = x.chunk => End(x) = z.chunk
    BY <1>5 DEF Sound
  <2> QED
    BY <1>1, <2>1, <2>2 DEF Off
<1>6. ASSUME NEW z \in N
      PROVE  z.prev # g.chunk /\ (g.prev = z.chunk => End(z) = g.chunk)
  <2>1. g.prev = z.chunk => End(z) = g.chunk
    BY <1>6 DEF Sound
  <2>2. z.prev # g.chunk
    BY <1>5, <1>6
  <2> QED
    BY <2>1, <2>2
<1>7. g.prev # g.chunk
  BY <1>1
<1> HIDE DEF N
<1> DEFINE T == N \cup {g}
<1>8. \A z \in N : z \in S
  BY DEF N
<1>9. \A z \in T : HeapChunk(z, s, w)
  BY <1>3, <1>8 DEF Sound
<1>10. \A u, v \in T : u # v => Off(u, v)
  <2> SUFFICES ASSUME NEW u \in T, NEW v \in T, u # v PROVE Off(u, v)
    OBVIOUS
  <2>1. CASE u \in N /\ v \in N
    BY <1>8, <2>1 DEF Sound
  <2>2. CASE u = g /\ v \in N
    BY <1>4, <2>2
  <2>3. CASE v = g /\ u \in N
    BY <1>4, <2>3
  <2> QED
    BY <2>1, <2>2, <2>3
<1>11. \A u, v \in T : u.prev = v.chunk => End(v) = u.chunk
  <2> SUFFICES ASSUME NEW u \in T, NEW v \in T, u.prev = v.chunk PROVE End(v) = u.chunk
    OBVIOUS
  <2>1. CASE u \in N /\ v \in N
    BY <1>8, <2>1 DEF Sound
  <2>2. CASE u = g /\ v \in N
    BY <1>6, <2>2
  <2>3. CASE v = g /\ u \in N
    BY <1>6, <2>3
  <2>4. CASE u = g /\ v = g
    BY <1>7, <2>4
  <2> QED
    BY <2>1, <2>2, <2>3, <2>4
<1>12. Sound(T, s, w)
  BY <1>9, <1>10, <1>11 DEF Sound
<1> QED
  BY <1>2, <1>5, <1>12 DEF N

\* A chunk is cut in two.
LEMMA CutSound ==
  ASSUME NEW s \in Nat, NEW w, NEW S, Sound(S, s, w), NEW c \in S, NEW q \in Nat,
         c.chunk < q, q < End(c), q <= c.chunk + s, OnStep(q, w),
         \A z \in S : z.prev # c.chunk /\ (z.prev = q => z.chunk = End(c)),
         NEW l, Plain(l), l.chunk = c.chunk, l.prev = c.prev, End(l) = q,
         NEW r, Plain(r), r.chunk = q, r.prev = c.chunk, End(r) = End(c)
  PROVE  Sound((S \ {c}) \cup {l, r}, s, w)
<1> DEFINE N == S \ {c}
           T == N \cup {l, r}
<1>1. \A z \in S : /\ z.chunk \in Nat /\ z.prev \in Nat /\ End(z) \in Nat
                   /\ z.chunk < End(z) /\ z.prev < z.chunk
  BY Numbers DEF Sound, HeapChunk, Plain
<1>2. HeapChunk(c, s, w)
  BY DEF Sound
<1>3. HeapChunk(l, s, w)
  <2>1. End(l) <= HeapEnd
    BY <1>1, <1>2, HeapLies DEF HeapChunk
  <2> QED
    BY <1>2, <2>1 DEF HeapChunk
<1>4. HeapChunk(r, s, w)
  <2>1. HeapStart <= r.chunk
    BY <1>1, <1>2, HeapLies DEF HeapChunk
  <2> QED
    BY <1>2, <2>1 DEF HeapChunk
<1>5. ASSUME NEW z \in N
      PROVE  Off(z, l) /\ Off(l, z) /\ Off(z, r) /\ Off(r, z) /\ z.chunk # c.chunk
  <2>1. Off(z, c)
    BY <1>5 DEF Sound
  <2> QED
    BY <1>1, <1>5, <2>1 DEF Off
<1>6. Off(l, r) /\ Off(r, l)
  BY DEF Off
<1>7. \A z \in N : z \in S
  OBVIOUS
<1>8. l.prev # l.chunk /\ l.prev # r.chunk /\ r.prev # r.chunk /\ r.prev = l.chunk
  BY <1>1
<1>9. ASSUME NEW z \in N
      PROVE  /\ z.prev # l.chunk /\ (z.prev = r.chunk => End(r) = z.chunk)
             /\ l.prev = z.chunk => End(z) = l.chunk
             /\ r.prev # z.chunk
  BY <1>5, <1>9 DEF Sound
<1> HIDE DEF N
<1>10. \A z \in T : HeapChunk(z, s, w)
  BY <1>3, <1>4, <1>7 DEF Sound
<1>11. \A u, v \in T : u # v => Off(u, v)
  <2> SUFFICES ASSUME NEW u \in T, NEW v \in T, u # v PROVE Off(u, v)
    OBVIOUS
  <2>1. CASE u \in N /\ v \in N
    BY <1>7, <2>1 DEF Sound
  <2>2. CASE u \in {l, r} /\ v \in N
    BY <1>5, <2>2
  <2>3. CASE v \in {l, r} /\ u \in N
    BY <1>5, <2>3
  <2>4. CASE u \in {l, r} /\ v \in {l, r}
    BY <1>6, <2>4
  <2> QED
    BY <2>1, <2>2, <2>3, <2>4
<1>12. \A u, v \in T : u.prev = v.chunk => End(v) = u.chunk
  <2> SUFFICES ASSUME NEW u \in T, NEW v \in T, u.prev = v.chunk PROVE End(v) = u.chunk
    OBVIOUS
  <2>1. CASE u \in N /\ v \in N
    BY <1>7, <2>1 DEF Sound
  <2>2. CASE u \in {l, r} /\ v \in N
    BY <1>9, <2>2
  <2>3. CASE v \in {l, r} /\ u \in N
    BY <1>9, <2>3
  <2>4. CASE u \in {l, r} /\ v \in {l, r}
    BY <1>8, <2>4
  <2> QED
    BY <2>1, <2>2, <2>3, <2>4
<1>13. Sound(T, s, w)
  BY <1>10, <1>11, <1>12 DEF Sound
<1> QED
  BY <1>13 DEF N

-----------------------------------------------------------------------------
(* Tables of such chunks                                                    *)

\* A table of such chunks, in the order of their addresses.
Neat(t) == Sorted(t) /\ \A i \in 1..Len(t) : Plain(t[i])

\* Its entries.
LEMMA NeatIs ==
  ASSUME NEW t, Neat(t)
  PROVE  /\ Sorted(t) /\ t \in Seq(Entries) /\ ByData(t) /\ Clear(t)
         /\ \A e \in Range(t) : Plain(e)
         /\ \A i, j \in 1..Len(t) : t[i] = t[j] => i = j
<1>1. t \in Seq(Entries) /\ \A i, j \in 1..Len(t) : i < j => t[i].data < t[j].data
  BY DEF Neat, Sorted
<1>2. Len(t) \in Nat /\ \A i \in 1..Len(t) : t[i] \in Entries /\ t[i].data \in Nat
  BY <1>1, EntryFields
<1>3. ByData(t)
  BY <1>1, <1>2 DEF ByData
<1>4. ASSUME NEW i \in 1..Len(t)
      PROVE  IsClear(t[i])
  <2> DEFINE e == t[i]
  <2>1. Plain(e)
    BY DEF Neat
  <2> HIDE DEF e
  <2>2. IsClear(e)
    BY <2>1, Numbers DEF Plain, IsClear
  <2> QED
    BY <2>2 DEF e
<1>5. Clear(t)
  BY <1>1, <1>3, <1>4 DEF Clear
<1>6. \A e \in Range(t) : Plain(e)
  BY <1>1, InRange DEF Neat
<1>7. ASSUME NEW i \in 1..Len(t), NEW j \in 1..Len(t), t[i] = t[j]
      PROVE  i = j
  <2>1. ~ (i < j) /\ ~ (j < i)
    BY <1>1, <1>2, <1>7
  <2> QED
    BY <1>2, <2>1
<1> QED
  BY <1>1, <1>3, <1>5, <1>6, <1>7 DEF Neat

\* A table of plain chunks with different addresses is neat.
LEMMA NeatOf ==
  ASSUME NEW t, Sorted(t), \A e \in Range(t) : Plain(e)
  PROVE  Neat(t)
<1>1. t \in Seq(Entries)
  BY DEF Sorted
<1>2. \A i \in 1..Len(t) : t[i] \in Range(t)
  BY <1>1, InRange
<1> QED
  BY <1>2 DEF Neat

\* Two entries that touch are joined.
LEMMA JoinedNeat ==
  ASSUME NEW t, Neat(t), NEW p \in 1..Len(t), NEW q \in 1..Len(t), End(t[p]) = t[q].chunk,
         NEW g, g = Grown(t[p], t[q].size)
  PROVE  /\ Neat(Joined(t, p, q)) /\ Len(Joined(t, p, q)) = Len(t) - 1
         /\ Range(Joined(t, p, q)) = (Range(t) \ {t[p], t[q]}) \cup {g}
         /\ g \in Entries /\ g.chunk = t[p].chunk /\ g.data = t[p].data /\ g.prev = t[p].prev
         /\ g.size = t[p].size + t[q].size /\ Plain(g)
<1> DEFINE x == t[p]
           y == t[q]
           d == [t EXCEPT ![p] = g]
           u == Joined(t, p, q)
<1>1. Sorted(t) /\ t \in Seq(Entries) /\ Len(t) \in Nat /\ Plain(x) /\ Plain(y)
  BY NeatIs, EntryFields DEF Neat
<1>2. /\ x \in Entries /\ y \in Entries /\ x.size \in Nat /\ y.size \in Nat /\ x.size # 0
      /\ x.chunk \in Nat /\ x.data = x.chunk /\ y.data = y.chunk /\ x.prev < x.chunk
      /\ End(x) = x.chunk + x.size
  BY <1>1, Numbers DEF Plain
<1>3. y.data # x.data /\ p # q
  BY <1>2
<1>4. /\ g \in Entries /\ g.chunk = x.chunk /\ g.data = x.data /\ g.prev = x.prev
      /\ g.size = x.size + y.size
  BY <1>2, GrownIs
<1>5. Plain(g)
  BY <1>2, <1>4 DEF Plain
<1>6. u = RemoveAt(d, q)
  BY DEF Joined
<1>7. /\ Sorted(d) /\ Range(d) = (Range(t) \ {x}) \cup {g} /\ Len(d) = Len(t)
      /\ d[q] = y
  <2>1. g \in Entries /\ g.data = t[p].data
    BY <1>4
  <2> HIDE DEF x, y, u
  <2>4. Sorted(t) /\ p \in 1..Len(t) /\ g \in Entries
    BY <1>1, <2>1
  <2>2. ASSUME NEW e \in Entries, e.data = t[p].data
        PROVE  /\ Sorted([t EXCEPT ![p] = e])
               /\ Range([t EXCEPT ![p] = e]) = (Range(t) \ {t[p]}) \cup {e}
               /\ Len([t EXCEPT ![p] = e]) = Len(t)
               /\ \A k \in 1..Len(t) : [t EXCEPT ![p] = e][k] = IF k = p THEN e ELSE t[k]
    <3>1. Sorted([t EXCEPT ![p] = e])
      BY <2>2, <2>4, ChangedSorted
    <3>2. Range([t EXCEPT ![p] = e]) = (Range(t) \ {t[p]}) \cup {e}
      BY <2>2, <2>4, ChangedSorted
    <3>3. Len([t EXCEPT ![p] = e]) = Len(t)
      BY <2>2, <2>4, ChangedSorted
    <3>4. \A k \in 1..Len(t) : [t EXCEPT ![p] = e][k] = IF k = p THEN e ELSE t[k]
      BY <2>2, <2>4, ChangedSorted
    <3> QED
      BY <3>1, <3>2, <3>3, <3>4
  <2>3. /\ Sorted(d) /\ Range(d) = (Range(t) \ {t[p]}) \cup {g} /\ Len(d) = Len(t)
        /\ \A k \in 1..Len(t) : d[k] = IF k = p THEN g ELSE t[k]
    BY <2>1, <2>2
  <2>5. d[q] = t[q]
    BY <1>3, <2>3
  <2> QED
    BY <2>3, <2>5 DEF x, y
<1> HIDE DEF d, x, y
<1>8. q \in 1..Len(d)
  BY <1>7
<1>9. /\ Sorted(RemoveAt(d, q)) /\ Range(RemoveAt(d, q)) = Range(d) \ {d[q]}
      /\ Len(RemoveAt(d, q)) = Len(d) - 1
  BY <1>7, <1>8, RemovedSorted
<1>10. g # y
  BY <1>3, <1>4
<1> HIDE DEF u
<1>11. /\ Sorted(u) /\ Range(u) = (Range(t) \ {x, y}) \cup {g} /\ Len(u) = Len(t) - 1
  BY <1>6, <1>7, <1>9, <1>10
<1>12. \A e \in Range(u) : Plain(e)
  <2>1. \A e \in Range(t) : Plain(e)
    BY NeatIs
  <2> QED
    BY <1>5, <1>11, <2>1
<1>13. Neat(u)
  BY <1>11, <1>12, NeatOf
<1> QED
  BY <1>4, <1>5, <1>11, <1>13 DEF u, x, y

\* The free chunks t and the allocated ones A of the heap.
Swept(t, A, s, w) == Neat(t) /\ Sound(Range(t) \cup A, s, w) /\ Range(t) \cap A = {}

\* No chunk of F reaches into the addresses from l up to h.
OffArea(F, l, h) == \A e \in F : End(e) <= l \/ h <= e.chunk

\* The chunks fill the heap up to its end.
Covered(S) == \A x \in S : End(x) = HeapEnd \/ \E y \in S : y.chunk = End(x)

\* No two chunks touch.
Loose(F) == \A x, y \in F : y.chunk # End(x)

\* What joining free chunks that touch makes of a table.
Merges(t, u, A, s, w) ==
  /\ Swept(u, A, s, w) /\ Len(u) <= Len(t)
  /\ \A l, h \in Nat : l < h /\ OffArea(Range(t), l, h) => OffArea(Range(u), l, h)
  /\ Covered(Range(t) \cup A) => Covered(Range(u) \cup A)

\* One join.
LEMMA JoinMerges ==
  ASSUME NEW A, NEW s, NEW w, NEW t, NEW u, Merges(t, u, A, s, w), Len(t) \in Nat,
         NEW p \in 1..Len(u), NEW q \in 1..Len(u), End(u[p]) = u[q].chunk
  PROVE  Merges(t, Joined(u, p, q), A, s, w)
<1> DEFINE x == u[p]
           y == u[q]
           g == Grown(x, y.size)
           v == Joined(u, p, q)
           S == Range(u) \cup A
<1>1. Neat(u) /\ Sound(S, s, w) /\ Range(u) \cap A = {} /\ Len(u) \in Nat /\ Len(u) <= Len(t)
  <2>1. Neat(u)
    BY DEF Merges, Swept
  <2>2. u \in Seq(Entries)
    BY <2>1, NeatIs
  <2> QED
    BY <2>1, <2>2, EntryFields DEF Merges, Swept
<1>2. x \in Range(u) /\ y \in Range(u) /\ Plain(x) /\ Plain(y)
  <2>1. u \in Seq(Entries)
    BY <1>1, NeatIs
  <2> QED
    BY <1>1, <2>1, InRange, NeatIs
<1>3. /\ x.size \in Nat /\ y.size \in Nat /\ x.size # 0 /\ y.size # 0 /\ x \in Entries /\ y \in Entries
      /\ x.chunk \in Nat /\ y.chunk \in Nat /\ End(x) = x.chunk + x.size /\ End(y) = y.chunk + y.size
      /\ End(x) = y.chunk
  BY <1>2, Numbers DEF Plain
<1>4. /\ Neat(v) /\ Len(v) = Len(u) - 1
      /\ Range(v) = (Range(u) \ {x, y}) \cup {g}
      /\ g \in Entries /\ g.chunk = x.chunk /\ g.data = x.data /\ g.prev = x.prev
      /\ g.size = x.size + y.size
  <2> HIDE DEF v
  <2>1. g = Grown(u[p], u[q].size)
    OBVIOUS
  <2> HIDE DEF g, x, y
  <2>2. /\ Neat(Joined(u, p, q)) /\ Len(Joined(u, p, q)) = Len(u) - 1
        /\ Range(Joined(u, p, q)) = (Range(u) \ {u[p], u[q]}) \cup {g}
        /\ g \in Entries /\ g.chunk = u[p].chunk /\ g.data = u[p].data /\ g.prev = u[p].prev
        /\ g.size = u[p].size + u[q].size
    BY <1>1, <2>1, JoinedNeat
  <2> QED
    BY <2>2 DEF v, x, y
<1> HIDE DEF v, g, x, y
<1>5. x # y
  BY <1>3
<1>6. /\ Sound((S \ {x, y}) \cup {g}, s, w) /\ End(g) = End(y)
  <2>1. x \in S /\ y \in S
    BY <1>2
  <2> HIDE DEF S
  <2> QED
    BY <1>1, <1>3, <1>4, <1>5, <2>1, FusedSound
<1>7. (S \ {x, y}) \cup {g} = Range(v) \cup A
  BY <1>1, <1>2, <1>4
<1>8. Range(v) \cap A = {}
  <2>1. g \notin A
    <3> SUFFICES ASSUME g \in A PROVE FALSE
      OBVIOUS
    <3>1. g # x /\ g \in S /\ x \in S
      BY <1>1, <1>2
    <3>2. Off(g, x)
      BY <1>1, <3>1 DEF Sound
    <3>3. End(g) = x.chunk + x.size + y.size
      BY <1>3, <1>6
    <3> QED
      BY <1>3, <1>4, <3>2, <3>3 DEF Off
  <2> QED
    BY <1>1, <1>4, <2>1
<1>9. Swept(v, A, s, w)
  BY <1>4, <1>6, <1>7, <1>8 DEF Swept
<1>10. ASSUME NEW l \in Nat, NEW h \in Nat, l < h, OffArea(Range(t), l, h)
       PROVE  OffArea(Range(v), l, h)
  <2>1. OffArea(Range(u), l, h)
    BY <1>10 DEF Merges
  <2>2. (End(x) <= l \/ h <= x.chunk) /\ (End(y) <= l \/ h <= y.chunk)
    BY <1>2, <2>1 DEF OffArea
  <2>3. End(g) <= l \/ h <= g.chunk
    BY <1>3, <1>4, <1>6, <1>10, <2>2
  <2> QED
    BY <1>4, <2>1, <2>3 DEF OffArea
<1>11. ASSUME Covered(Range(t) \cup A)
       PROVE  Covered(Range(v) \cup A)
  <2>1. Covered(S)
    BY <1>11 DEF Merges
  <2>2. ASSUME NEW z \in S, z # x, z # y
        PROVE  End(z) = HeapEnd \/ \E e \in Range(v) \cup A : e.chunk = End(z)
    <3>1. CASE End(z) = HeapEnd
      BY <3>1
    <3>2. CASE \E e \in S : e.chunk = End(z)
      <4>1. PICK e \in S : e.chunk = End(z)
        BY <3>2
      <4>2. CASE e = x
        BY <1>4, <4>1, <4>2
      <4>3. CASE e = y
        <5>1. Off(z, x) /\ Plain(z)
          BY <1>1, <1>2, <2>2 DEF Sound, HeapChunk
        <5>2. z.chunk \in Nat /\ z.size \in Nat /\ z.size # 0 /\ End(z) = z.chunk + z.size
          BY <5>1, Numbers DEF Plain
        <5> QED
          BY <1>3, <4>1, <4>3, <5>1, <5>2, SMTT(30) DEF Off
      <4>4. CASE e # x /\ e # y
        BY <1>4, <4>1, <4>4
      <4> QED
        BY <4>2, <4>3, <4>4
    <3> QED
      BY <2>1, <3>1, <3>2 DEF Covered
  <2>3. End(g) = HeapEnd \/ \E e \in Range(v) \cup A : e.chunk = End(g)
    <3>1. CASE End(y) = HeapEnd
      BY <1>6, <3>1
    <3>2. CASE \E e \in S : e.chunk = End(y)
      <4>1. PICK e \in S : e.chunk = End(y)
        BY <3>2
      <4>2. e # x /\ e # y
        <5>1. End(y) # x.chunk /\ End(y) # y.chunk
          BY <1>3
        <5> QED
          BY <4>1, <5>1
      <4> QED
        BY <1>4, <1>6, <4>1, <4>2
    <3> QED
      BY <1>2, <2>1, <3>1, <3>2 DEF Covered
  <2>4. \A z \in Range(v) \cup A : z = g \/ (z \in S /\ z # x /\ z # y)
    BY <1>1, <1>2, <1>4
  <2> HIDE DEF S
  <2> QED
    BY <2>2, <2>3, <2>4 DEF Covered
<1>12. Len(v) <= Len(t)
  BY <1>1, <1>4
<1>13. Merges(t, v, A, s, w)
  BY <1>9, <1>10, <1>11, <1>12 DEF Merges
<1> QED
  BY <1>13 DEF v

-----------------------------------------------------------------------------
(* defragment_heap joins those that touch                                   *)

\* What the turns of defragment_heap keep: chunks that touch were joined, and those the
\* loop has passed touch none, unless it will start again.
LEMMA TurnMerges ==
  ASSUME NEW A, NEW s, NEW w, NEW t, Len(t) \in Nat, NEW r \in Sweeps, ~ Settled(r),
         Merges(t, r.table, A, s, w),
         r.merged \/ \A j \in 1..Len(r.table) : j < r.i => Next(r.table, j) = {}
  PROVE  LET n == SweepTurn(r)
         IN  /\ n \in Sweeps /\ Merges(t, n.table, A, s, w)
             /\ n.merged \/ \A j \in 1..Len(n.table) : j < n.i => Next(n.table, j) = {}
<1> DEFINE n == SweepTurn(r)
           v == r.table
           i == r.i
<1>1. n \in Sweeps
  BY TurnNearer
<1>2. /\ Clear(v) /\ i \in Nat \ {0} /\ r.merged \in BOOLEAN /\ v \in Seq(Entries)
      /\ Len(v) \in Nat /\ i <= Len(v) + 1
  <2>1. Clear(v) /\ i \in Nat \ {0} /\ r.merged \in BOOLEAN /\ v \in Seq(Entries) /\ i <= Len(v) + 1
    BY DEF Sweeps
  <2> QED
    BY <2>1, EntryFields
<1>3. ASSUME i > Len(v), n = Sweep(v, 1, FALSE)
      PROVE  Merges(t, n.table, A, s, w) /\ \A j \in 1..Len(n.table) : j < n.i => Next(n.table, j) = {}
  <2>1. n.table = v /\ n.i = 1
    BY <1>3 DEF Sweep
  <2> QED
    BY <2>1
<1>4. ASSUME i <= Len(v), NEW u, WithNext(v, i, u), i <= Len(u), Clear(u)
      PROVE  Merges(t, u, A, s, w) /\ u \in Seq(Entries) /\ Len(u) \in Nat /\ i \in 1..Len(u)
  <2>1. u \in Seq(Entries) /\ Len(u) \in Nat
    BY <1>4, EntryFields DEF Clear
  <2>2. i \in 1..Len(u)
    BY <1>2, <1>4, <2>1
  <2>3. CASE Next(v, i) = {}
    BY <1>4, <2>1, <2>2, <2>3 DEF WithNext
  <2>4. CASE Next(v, i) # {}
    <3>1. PICK j \in Next(v, i) : u = Joined(v, i, j)
      BY <1>4, <2>4 DEF WithNext
    <3>2. i \in 1..Len(v) /\ j \in 1..Len(v) /\ End(v[i]) = v[j].chunk
      BY <1>2, <1>4 DEF Next
    <3> HIDE DEF v, i
    <3>3. Merges(t, v, A, s, w)
      BY DEF v
    <3>4. Merges(t, Joined(v, i, j), A, s, w)
      BY <3>2, <3>3, JoinMerges
    <3> QED
      BY <2>1, <2>2, <3>1, <3>4
  <2> QED
    BY <2>3, <2>4
<1>5. ASSUME i <= Len(v), NEW u, WithNext(v, i, u), i <= Len(u), Clear(u),
             n = Sweep(u, i + 1, r.merged \/ Next(v, i) # {})
      PROVE  /\ Merges(t, n.table, A, s, w)
             /\ n.merged \/ \A j \in 1..Len(n.table) : j < n.i => Next(n.table, j) = {}
  <2>1. n.table = u /\ n.i = i + 1 /\ n.merged = (r.merged \/ Next(v, i) # {})
    BY <1>5 DEF Sweep
  <2>2. Merges(t, u, A, s, w)
    BY <1>4, <1>5
  <2>3. CASE r.merged \/ Next(v, i) # {}
    BY <2>1, <2>2, <2>3
  <2>4. CASE ~ r.merged /\ Next(v, i) = {}
    <3>1. u = v /\ \A j \in 1..Len(v) : j < i => Next(v, j) = {}
      BY <1>5, <2>4 DEF WithNext
    <3>2. \A j \in 1..Len(v) : j < i + 1 => j < i \/ j = i
      BY <1>2
    <3> QED
      BY <2>1, <2>2, <2>4, <3>1, <3>2
  <2> QED
    BY <2>3, <2>4
<1>6. ASSUME i <= Len(v), NEW u, WithNext(v, i, u), i <= Len(u), Clear(u),
             NEW p \in 1..Len(u), p # i, u[p].data = u[i].prev, n = Sweep(Joined(u, p, i), 1, FALSE)
      PROVE  Merges(t, n.table, A, s, w) /\ \A j \in 1..Len(n.table) : j < n.i => Next(n.table, j) = {}
  <2>1. n.table = Joined(u, p, i) /\ n.i = 1
    BY <1>6 DEF Sweep
  <2>2. Merges(t, u, A, s, w) /\ u \in Seq(Entries) /\ i \in 1..Len(u)
    BY <1>4, <1>6
  <2> HIDE DEF n, v, i
  <2> DEFINE x == u[i]
             y == u[p]
             S == Range(u) \cup A
  <2>3. x \in S /\ y \in S
    BY <2>2, InRange
  <2>4. Sound(S, s, w) /\ Plain(y)
    BY <2>2 DEF Merges, Swept, Neat
  <2>5. x.prev = y.chunk
    BY <1>6, <2>4 DEF Plain
  <2>6. End(y) = x.chunk
    <3> HIDE DEF x, y, S
    <3> QED
      BY <2>3, <2>4, <2>5 DEF Sound
  <2>7. Merges(t, Joined(u, p, i), A, s, w)
    BY <2>2, <2>6, JoinMerges
  <2> QED
    BY <2>1, <2>7
<1>7. /\ Merges(t, n.table, A, s, w)
      /\ n.merged \/ \A j \in 1..Len(n.table) : j < n.i => Next(n.table, j) = {}
  <2>1. \/ i > Len(v) /\ n = Sweep(v, 1, FALSE)
        \/ /\ i <= Len(v)
           /\ \E u : /\ WithNext(v, i, u) /\ i <= Len(u) /\ Clear(u)
                     /\ \/ n = Sweep(u, i + 1, r.merged \/ Next(v, i) # {})
                        \/ \E p \in 1..Len(u) : /\ p # i /\ u[p].data = u[i].prev
                                                /\ n = Sweep(Joined(u, p, i), 1, FALSE)
    BY <1>2, SweepTurnIs
  <2> HIDE DEF n, v, i
  <2>2. CASE i > Len(v) /\ n = Sweep(v, 1, FALSE)
    BY <1>3, <2>2
  <2>3. CASE i <= Len(v) /\ ~ (i > Len(v) /\ n = Sweep(v, 1, FALSE))
    <3>1. PICK u : /\ WithNext(v, i, u) /\ i <= Len(u) /\ Clear(u)
                   /\ \/ n = Sweep(u, i + 1, r.merged \/ Next(v, i) # {})
                      \/ \E p \in 1..Len(u) : /\ p # i /\ u[p].data = u[i].prev
                                              /\ n = Sweep(Joined(u, p, i), 1, FALSE)
      BY <2>1, <2>3
    <3>2. CASE n = Sweep(u, i + 1, r.merged \/ Next(v, i) # {})
      BY <1>5, <2>3, <3>1, <3>2
    <3>3. CASE \E p \in 1..Len(u) : /\ p # i /\ u[p].data = u[i].prev
                                    /\ n = Sweep(Joined(u, p, i), 1, FALSE)
      <4>1. PICK p \in 1..Len(u) : /\ p # i /\ u[p].data = u[i].prev
                                   /\ n = Sweep(Joined(u, p, i), 1, FALSE)
        BY <3>3
      <4> QED
        BY <1>6, <2>3, <3>1, <4>1
    <3> QED
      BY <3>1, <3>2, <3>3
  <2> QED
    BY <2>1, <2>2, <2>3
<1> QED
  BY <1>1, <1>7

\* defragment_heap joins free chunks that touch, until none do.
LEMMA DefragmentedSwept ==
  ASSUME NEW A, NEW s, NEW w, NEW t, Swept(t, A, s, w)
  PROVE  Merges(t, Defragmented(t), A, s, w) /\ Loose(Range(Defragmented(t)))
<1> DEFINE Passed(r) == r.merged \/ \A j \in 1..Len(r.table) : j < r.i => Next(r.table, j) = {}
           W == {r \in Sweeps : Merges(t, r.table, A, s, w) /\ Passed(r)}
<1>1. Clear(t) /\ t \in Seq(Entries) /\ Len(t) \in Nat
  <2>1. Clear(t)
    BY NeatIs DEF Swept
  <2> QED
    BY <2>1, EntryFields DEF Clear
<1>2. Merges(t, t, A, s, w)
  BY <1>1 DEF Merges
<1>3. Sweep(t, 1, FALSE) \in W
  <2>1. Sweep(t, 1, FALSE) \in Sweeps /\ Sweep(t, 1, FALSE).table = t /\ Sweep(t, 1, FALSE).i = 1
    <3>1. 1 \in Nat \ {0} /\ 1 <= Len(t) + 1 /\ FALSE \in BOOLEAN
      BY <1>1
    <3> HIDE DEF W
    <3> QED
      BY <1>1, <3>1, SweepOf
  <2>2. \A j \in 1..Len(t) : ~ (j < 1)
    BY <1>1
  <2> QED
    BY <1>2, <2>1, <2>2
<1>4. ASSUME NEW r \in W, ~ Settled(r)
      PROVE  SweepTurn(r) \in W
  BY <1>1, <1>4, TurnMerges
<1>5. W \in SUBSET Sweeps
  OBVIOUS
<1>6. PICK r \in W : Settled(r) /\ Defragmented(t) = r.table
  <2> HIDE DEF W
  <2> QED
    BY <1>1, <1>3, <1>4, <1>5, Settles
<1> DEFINE u == r.table
<1>7. Merges(t, u, A, s, w) /\ \A j \in 1..Len(u) : Next(u, j) = {}
  <2>1. Merges(t, u, A, s, w) /\ ~ r.merged /\ Passed(r) /\ r \in Sweeps /\ r.i > Len(u)
    BY <1>6 DEF Settled
  <2>2. u \in Seq(Entries) /\ r.i \in Nat
    BY <2>1 DEF Sweeps
  <2>3. Len(u) \in Nat
    BY <2>2, EntryFields
  <2> QED
    BY <2>1, <2>2, <2>3
<1>8. Loose(Range(u))
  <2> HIDE DEF u
  <2>1. u \in Seq(Entries)
    BY <1>7, NeatIs DEF Merges, Swept
  <2>2. ASSUME NEW x \in Range(u), NEW y \in Range(u), y.chunk = End(x)
        PROVE  FALSE
    <3>1. PICK j \in 1..Len(u) : u[j] = x
      BY <2>1, InRange
    <3>2. PICK k \in 1..Len(u) : u[k] = y
      BY <2>1, InRange
    <3>3. k \in Next(u, j)
      BY <2>2, <3>1, <3>2 DEF Next
    <3> QED
      BY <1>7, <3>3
  <2> QED
    BY <2>2 DEF Loose
<1> QED
  BY <1>6, <1>7, <1>8

-----------------------------------------------------------------------------
(* Cutting one for a block                                                  *)

\* If c is cut, no chunk but the one behind c will have a stale address in front of it.
MayCut(S, c, w) ==
  \A q \in Nat : c.chunk < q /\ q < End(c) /\ OnStep(q, w) =>
    \A z \in S : z.prev = q => z.chunk = End(c)

\* The numbers of sound chunks.
LEMMA SoundNumbers ==
  ASSUME NEW s, NEW w, NEW S, Sound(S, s, w)
  PROVE  \A z \in S : /\ z \in Entries /\ z.data = z.chunk /\ z.chunk \in Nat /\ z.prev \in Nat
                      /\ z.size \in Nat /\ z.size # 0 /\ End(z) \in Nat /\ End(z) = z.chunk + z.size
                      /\ z.chunk < End(z) /\ z.prev < z.chunk
                      /\ HeapStart <= z.chunk /\ End(z) <= HeapEnd
BY Numbers DEF Sound, HeapChunk, Plain

\* A part of a chunk is none of the others, nor does it overlap them.
LEMMA PartIsNew ==
  ASSUME NEW s, NEW w, NEW S, Sound(S, s, w), NEW c \in S,
         NEW x, Plain(x), c.chunk <= x.chunk, End(x) <= End(c)
  PROVE  /\ \A z \in S : z # c => z # x /\ Off(z, x) /\ Off(x, z)
         /\ x \in Entries /\ x.chunk \in Nat /\ x.size \in Nat /\ End(x) = x.chunk + x.size /\ x.chunk < End(x)
<1>1. c.chunk \in Nat /\ End(c) \in Nat
  BY SoundNumbers
<1>2. x \in Entries /\ x.chunk \in Nat /\ x.size \in Nat /\ End(x) = x.chunk + x.size /\ x.chunk < End(x)
  BY Numbers DEF Plain
<1>3. ASSUME NEW z \in S, z # c
      PROVE  z # x /\ Off(z, x) /\ Off(x, z)
  <2>1. Off(z, c)
    BY <1>3 DEF Sound
  <2>2. z.chunk \in Nat /\ End(z) \in Nat /\ z.chunk < End(z)
    BY SoundNumbers
  <2>3. Off(z, x) /\ Off(x, z)
    BY <1>1, <1>2, <2>1, <2>2 DEF Off
  <2>4. ~ Off(x, x)
    BY <1>2 DEF Off
  <2> QED
    BY <2>3, <2>4
<1> QED
  BY <1>2, <1>3

\* A chunk is cut in two, and the second part can be cut again.
LEMMA CutAgain ==
  ASSUME NEW s \in Nat, NEW w, NEW S, Sound(S, s, w), NEW c \in S, MayCut(S, c, w), NEW q \in Nat,
         c.chunk < q, q < End(c), q <= c.chunk + s, c.chunk + s < End(c), OnStep(q, w),
         NEW l, Plain(l), l.chunk = c.chunk, l.prev = c.prev, End(l) = q,
         NEW r, Plain(r), r.chunk = q, r.prev = c.chunk, End(r) = End(c),
         NEW T, T = (S \ {c}) \cup {l, r}
  PROVE  Sound(T, s, w) /\ MayCut(T, r, w) /\ (Covered(S) => Covered(T))
<1>1. \A z \in S : /\ z.chunk \in Nat /\ z.prev \in Nat /\ End(z) \in Nat
                   /\ z.chunk < End(z) /\ z.prev < z.chunk /\ HeapStart <= z.chunk
  BY SoundNumbers
<1>2. ASSUME NEW z \in S
      PROVE  z.prev # c.chunk
  <2> SUFFICES ASSUME z.prev = c.chunk PROVE FALSE
    OBVIOUS
  <2>1. End(c) = z.chunk
    BY DEF Sound
  <2>2. z.prev # Null
    BY <1>1, HeapLies DEF Null
  <2>3. z.chunk <= z.prev + s
    BY <2>2 DEF Sound, HeapChunk
  <2> QED
    BY <1>1, <2>1, <2>3
<1>3. \A z \in S : z.prev = q => z.chunk = End(c)
  BY DEF MayCut
<1>4. Sound(T, s, w)
  BY <1>2, <1>3, CutSound
<1>5. MayCut(T, r, w)
  <2> SUFFICES ASSUME NEW h \in Nat, q < h, h < End(c), OnStep(h, w), NEW z \in T, z.prev = h
               PROVE  z.chunk = End(c)
    BY DEF MayCut
  <2>1. CASE z \in S
    <3>1. c.chunk < h
      BY <1>1
    <3> QED
      BY <2>1, <3>1 DEF MayCut
  <2>2. CASE z = l \/ z = r
    BY <1>1, <2>2
  <2> QED
    BY <2>1, <2>2
<1>6. ASSUME Covered(S)
      PROVE  Covered(T)
  <2>1. ASSUME NEW z \in S, \E y \in S : y.chunk = End(z)
        PROVE  \E y \in T : y.chunk = End(z)
    <3>1. PICK y \in S : y.chunk = End(z)
      BY <2>1
    <3>2. CASE y = c
      BY <3>1, <3>2
    <3>3. CASE y # c
      BY <3>1, <3>3
    <3> QED
      BY <3>2, <3>3
  <2>2. ASSUME NEW z \in S
        PROVE  End(z) = HeapEnd \/ \E y \in T : y.chunk = End(z)
    BY <1>6, <2>1 DEF Covered
  <2>3. End(r) = HeapEnd \/ \E y \in T : y.chunk = End(r)
    BY <2>2
  <2>4. \E y \in T : y.chunk = End(l)
    OBVIOUS
  <2> QED
    BY <2>2, <2>3, <2>4 DEF Covered
<1> QED
  BY <1>4, <1>5, <1>6

\* Another entry for the same chunk.
LEMMA RenamedSound ==
  ASSUME NEW s \in Nat, NEW w, NEW S, Sound(S, s, w), NEW c \in S,
         NEW b, Plain(b), b.chunk = c.chunk, b.prev = c.prev, End(b) = End(c),
         NEW T, T = (S \ {c}) \cup {b}
  PROVE  /\ Sound(T, s, w) /\ (Covered(S) => Covered(T))
         /\ MayCut(S, c, w) => MayCut(T, b, w)
<1> DEFINE N == S \ {c}
<1>1. HeapChunk(b, s, w)
  BY DEF Sound, HeapChunk
<1>2. /\ \A z \in N : z \in S /\ z # c
      /\ T = N \cup {b}
  OBVIOUS
<1> HIDE DEF N
<1>3. \A z \in T : HeapChunk(z, s, w)
  BY <1>1, <1>2 DEF Sound
<1>4. \A u, v \in T : u # v => Off(u, v)
  <2> SUFFICES ASSUME NEW u \in T, NEW v \in T, u # v PROVE Off(u, v)
    OBVIOUS
  <2>1. CASE u \in N /\ v \in N
    BY <1>2, <2>1 DEF Sound
  <2>2. CASE u = b /\ v \in N
    <3>1. Off(c, v)
      BY <1>2, <2>2 DEF Sound
    <3> QED
      BY <2>2, <3>1 DEF Off
  <2>3. CASE v = b /\ u \in N
    <3>1. Off(u, c)
      BY <1>2, <2>3 DEF Sound
    <3> QED
      BY <2>3, <3>1 DEF Off
  <2> QED
    BY <1>2, <2>1, <2>2, <2>3
<1>5. \A u, v \in T : u.prev = v.chunk => End(v) = u.chunk
  <2> SUFFICES ASSUME NEW u \in T, NEW v \in T, u.prev = v.chunk PROVE End(v) = u.chunk
    OBVIOUS
  <2>1. CASE u \in N /\ v \in N
    BY <1>2, <2>1 DEF Sound
  <2>2. CASE u = b /\ v \in N
    BY <1>2, <2>2 DEF Sound
  <2>3. CASE v = b /\ u \in N
    BY <1>2, <2>3 DEF Sound
  <2>4. CASE u = b /\ v = b
    BY <2>4 DEF Sound
  <2> QED
    BY <1>2, <2>1, <2>2, <2>3, <2>4
<1>6. Sound(T, s, w)
  BY <1>3, <1>4, <1>5 DEF Sound
<1>7. ASSUME Covered(S)
      PROVE  Covered(T)
  <2>1. ASSUME NEW z \in S
        PROVE  End(z) = HeapEnd \/ \E y \in T : y.chunk = End(z)
    <3>1. CASE End(z) = HeapEnd
      BY <3>1
    <3>2. CASE \E y \in S : y.chunk = End(z)
      <4>1. PICK y \in S : y.chunk = End(z)
        BY <3>2
      <4>2. CASE y = c
        BY <4>1, <4>2
      <4>3. CASE y # c
        BY <4>1, <4>3
      <4> QED
        BY <4>2, <4>3
    <3> QED
      BY <1>7, <3>1, <3>2 DEF Covered
  <2> QED
    BY <2>1 DEF Covered
<1>8. ASSUME MayCut(S, c, w)
      PROVE  MayCut(T, b, w)
  <2> SUFFICES ASSUME NEW h \in Nat, c.chunk < h, h < End(c), OnStep(h, w), NEW z \in T, z.prev = h
               PROVE  z.chunk = End(c)
    BY DEF MayCut
  <2>1. CASE z \in S
    BY <1>8, <2>1 DEF MayCut
  <2>2. CASE z = b
    BY <1>8, <2>2 DEF MayCut
  <2> QED
    BY <2>1, <2>2
<1> QED
  BY <1>6, <1>7, <1>8

\* The chunk c is cut after p bytes: L holds the part in front, if there is one, and m is
\* what follows.
LeadOf(c, p, L, m) ==
  /\ Plain(m) /\ m.chunk = c.chunk + p /\ End(m) = End(c)
  /\ \/ p = 0 /\ L = {} /\ m.prev = c.prev
     \/ /\ p # 0 /\ m.prev = c.chunk
        /\ \E l : L = {l} /\ Plain(l) /\ l.chunk = c.chunk /\ l.prev = c.prev /\ End(l) = c.chunk + p

\* The chunk m becomes the block b: R holds the part behind its first s bytes, if that is
\* cut off.
RestOf(m, s, R, b) ==
  /\ Plain(b) /\ b.chunk = m.chunk /\ b.prev = m.prev
  /\ \/ R = {} /\ End(b) = End(m)
     \/ /\ End(b) = m.chunk + s /\ End(b) < End(m)
        /\ \E r : R = {r} /\ Plain(r) /\ r.chunk = End(b) /\ r.prev = m.chunk /\ End(r) = End(m)

\* Cutting off the part in front of a block leaves chunks that do not overlap.
LEMMA LeadCut ==
  ASSUME NEW s \in Nat \ {0}, NEW w, NEW S, Sound(S, s, w), NEW c \in S, MayCut(S, c, w), NEW p \in Nat,
         p <= s, c.chunk + p + s <= End(c), OnStep(c.chunk + p, w), NEW L, NEW m, LeadOf(c, p, L, m),
         NEW T, T = (S \ {c}) \cup L \cup {m}
  PROVE  Sound(T, s, w) /\ MayCut(T, m, w) /\ (Covered(S) => Covered(T))
<1>1. c.chunk \in Nat /\ End(c) \in Nat
  BY SoundNumbers
<1>2. CASE p = 0
  <2>1. Plain(m) /\ m.chunk = c.chunk /\ m.prev = c.prev /\ End(m) = End(c) /\ T = (S \ {c}) \cup {m}
    BY <1>1, <1>2 DEF LeadOf
  <2>2. s \in Nat
    OBVIOUS
  <2> QED
    BY <2>1, <2>2, RenamedSound
<1>3. CASE p # 0
  <2>1. /\ Plain(m) /\ m.chunk = c.chunk + p /\ End(m) = End(c) /\ m.prev = c.chunk
        /\ \E l : L = {l} /\ Plain(l) /\ l.chunk = c.chunk /\ l.prev = c.prev /\ End(l) = c.chunk + p
    BY <1>3 DEF LeadOf
  <2>2. PICK l : L = {l} /\ Plain(l) /\ l.chunk = c.chunk /\ l.prev = c.prev /\ End(l) = c.chunk + p
    BY <2>1
  <2> DEFINE q == c.chunk + p
  <2>3. T = (S \ {c}) \cup {l, m}
    BY <2>2
  <2>4. /\ q \in Nat /\ c.chunk < q /\ q < End(c) /\ q <= c.chunk + s /\ c.chunk + s < End(c)
        /\ OnStep(q, w) /\ s \in Nat
    BY <1>1, <1>3
  <2>5. /\ Plain(l) /\ l.chunk = c.chunk /\ l.prev = c.prev /\ End(l) = q
        /\ Plain(m) /\ m.chunk = q /\ m.prev = c.chunk /\ End(m) = End(c)
    BY <2>1, <2>2
  <2> HIDE DEF q
  <2> QED
    BY <2>3, <2>4, <2>5, CutAgain
<1> QED
  BY <1>2, <1>3

\* So does cutting off the part behind it.
LEMMA RestCut ==
  ASSUME NEW s \in Nat \ {0}, NEW w, NEW S, Sound(S, s, w), NEW m \in S, MayCut(S, m, w),
         OnStep(m.chunk + s, w), NEW R, NEW b, RestOf(m, s, R, b),
         NEW T, T = (S \ {m}) \cup R \cup {b}
  PROVE  Sound(T, s, w) /\ (Covered(S) => Covered(T))
<1>1. m.chunk \in Nat /\ End(m) \in Nat
  BY SoundNumbers
<1>2. Plain(b) /\ b.chunk = m.chunk /\ b.prev = m.prev /\ s \in Nat
  BY DEF RestOf
<1>3. CASE R = {} /\ End(b) = End(m)
  <2>1. T = (S \ {m}) \cup {b}
    BY <1>3
  <2> QED
    BY <1>2, <1>3, <2>1, RenamedSound
<1>4. CASE /\ End(b) = m.chunk + s /\ End(b) < End(m)
           /\ \E r : R = {r} /\ Plain(r) /\ r.chunk = End(b) /\ r.prev = m.chunk /\ End(r) = End(m)
  <2>1. PICK r : R = {r} /\ Plain(r) /\ r.chunk = End(b) /\ r.prev = m.chunk /\ End(r) = End(m)
    BY <1>4
  <2> DEFINE q == m.chunk + s
  <2>2. T = (S \ {m}) \cup {b, r}
    BY <2>1
  <2>3. /\ q \in Nat /\ m.chunk < q /\ q < End(m) /\ q <= m.chunk + s /\ m.chunk + s < End(m)
        /\ OnStep(q, w)
    BY <1>1, <1>4
  <2>4. /\ End(b) = q
        /\ Plain(r) /\ r.chunk = q /\ r.prev = m.chunk /\ End(r) = End(m)
    BY <1>4, <2>1
  <2> HIDE DEF q
  <2> QED
    BY <1>2, <2>2, <2>3, <2>4, CutAgain
<1> QED
  BY <1>3, <1>4 DEF RestOf

\* A part of c.
PartOfChunk(x, c) == Plain(x) /\ c.chunk <= x.chunk /\ End(x) <= End(c)

\* A block b of s bytes or more is taken out of the chunk c of S, p bytes behind its start;
\* T is what there is then.
Carving(S, s, w, c, p, L, m, R, b, T) ==
  /\ s \in Nat \ {0} /\ Sound(S, s, w) /\ c \in S /\ MayCut(S, c, w) /\ p \in Nat /\ p <= s
  /\ c.chunk + p + s <= End(c) /\ OnStep(c.chunk + p, w) /\ OnStep(c.chunk + p + s, w)
  /\ LeadOf(c, p, L, m) /\ RestOf(m, s, R, b)
  /\ T = (S \ {c}) \cup L \cup R \cup {b}

\* A block is taken out of the chunk c: what is left of c, and where it lies.
LEMMA Carved ==
  ASSUME NEW s, NEW w, NEW S, NEW c, NEW p, NEW L, NEW m, NEW R, NEW b, NEW T,
         Carving(S, s, w, c, p, L, m, R, b, T)
  PROVE  /\ Sound(T, s, w) /\ (Covered(S) => Covered(T))
         /\ b.chunk = c.chunk + p /\ b.chunk + s <= End(b) /\ PartOfChunk(b, c) /\ b \notin L \cup R
         /\ \A x \in L : PartOfChunk(x, c) /\ x.chunk = c.chunk /\ End(x) = b.chunk
         /\ \A x \in R : PartOfChunk(x, c) /\ x.chunk = End(b) /\ End(x) = End(c)
<1>0. /\ s \in Nat \ {0} /\ Sound(S, s, w) /\ c \in S /\ MayCut(S, c, w) /\ p \in Nat /\ p <= s
      /\ c.chunk + p + s <= End(c) /\ OnStep(c.chunk + p, w) /\ OnStep(c.chunk + p + s, w)
      /\ LeadOf(c, p, L, m) /\ RestOf(m, s, R, b)
      /\ T = (S \ {c}) \cup L \cup R \cup {b}
  BY DEF Carving
<1>1. c.chunk \in Nat /\ End(c) \in Nat
  BY <1>0, SoundNumbers
<1> DEFINE T1 == (S \ {c}) \cup L \cup {m}
<1>2. Sound(T1, s, w) /\ MayCut(T1, m, w) /\ (Covered(S) => Covered(T1)) /\ m \in T1
  <2>1. T1 = (S \ {c}) \cup L \cup {m} /\ m \in T1
    OBVIOUS
  <2> HIDE DEF T1
  <2> QED
    BY <1>0, <2>1, LeadCut
<1>3. /\ Plain(m) /\ m.chunk = c.chunk + p /\ End(m) = End(c)
      /\ m.chunk \in Nat /\ m.size \in Nat /\ m.size # 0 /\ End(m) = m.chunk + m.size
  BY <1>0, Numbers DEF LeadOf, Plain
<1>4. /\ Plain(b) /\ b.chunk = m.chunk /\ End(b) \in Nat /\ b.chunk < End(b)
      /\ b.chunk + s <= End(b) /\ End(b) <= End(m)
  <2>1. Plain(b) /\ b.chunk = m.chunk /\ (End(b) = End(m) \/ (End(b) = m.chunk + s /\ End(b) < End(m)))
    BY <1>0 DEF RestOf
  <2>2. b.chunk \in Nat /\ b.size \in Nat /\ b.size # 0 /\ End(b) = b.chunk + b.size
    BY <2>1, Numbers DEF Plain
  <2> QED
    BY <1>0, <1>1, <1>3, <2>1, <2>2
<1>5. \A x \in L : PartOfChunk(x, c) /\ x.chunk = c.chunk /\ End(x) = b.chunk
  BY <1>0, <1>1, <1>3, <1>4 DEF LeadOf, PartOfChunk
<1>6. \A x \in R : PartOfChunk(x, c) /\ x.chunk = End(b) /\ End(x) = End(c)
  <2> SUFFICES ASSUME NEW x \in R PROVE PartOfChunk(x, c) /\ x.chunk = End(b) /\ End(x) = End(c)
    OBVIOUS
  <2>1. Plain(x) /\ x.chunk = End(b) /\ End(x) = End(m)
    BY <1>0 DEF RestOf
  <2> QED
    BY <1>0, <1>1, <1>3, <1>4, <2>1 DEF PartOfChunk
<1>7. PartOfChunk(b, c)
  BY <1>0, <1>1, <1>3, <1>4 DEF PartOfChunk
<1>8. m \notin S \ {c}
  <2>1. c.chunk <= m.chunk /\ End(m) <= End(c)
    BY <1>0, <1>1, <1>3
  <2> HIDE DEF T1
  <2>2. Plain(m)
    BY <1>3
  <2>3. \A z \in S : z # c => z # m
    BY <2>1, <1>0, <2>2, PartIsNew
  <2> QED
    BY <2>3
<1>9. m \notin L
  BY <1>3, <1>4, <1>5
<1>10. OnStep(m.chunk + s, w)
  BY <1>0, <1>3
<1>11. Sound(T, s, w) /\ (Covered(T1) => Covered(T))
  <2>1. T = (T1 \ {m}) \cup R \cup {b}
    BY <1>0, <1>8, <1>9
  <2> HIDE DEF T1
  <2> QED
    BY <1>0, <1>2, <1>10, <2>1, RestCut
<1>12. b \notin L \cup R
  BY <1>3, <1>4, <1>5, <1>6
<1> HIDE DEF T1
<1> QED
  BY <1>2, <1>3, <1>4, <1>5, <1>6, <1>7, <1>11, <1>12

\* Addresses at different numbers of steps are a step apart.
LEMMA StepsApart ==
  ASSUME NEW w \in Nat \ {0}, NEW m, NEW n, OnStep(m, w), OnStep(n, w), m \in Nat, n \in Nat, m < n
  PROVE  m + w <= n
<1> DEFINE x == m - HeapStart
           y == n - HeapStart
<1>1. x \in Multiples(w) /\ y \in Multiples(w)
  BY DEF OnStep
<1>2. HeapStart \in Nat /\ x \in Int /\ y \in Int /\ m = HeapStart + x /\ n = HeapStart + y
  BY HeapLies
<1>3. x < y
  BY <1>2
<1> HIDE DEF x, y
<1>4. x + w <= y
  BY <1>1, <1>3, MultiplesAre
<1> QED
  BY <1>2, <1>4

\* A multiple further on.
LEMMA StepsOn ==
  ASSUME NEW w \in Nat \ {0}, NEW m \in Nat, OnStep(m, w), NEW d \in Multiples(w)
  PROVE  OnStep(m + d, w) /\ d \in Nat
<1> DEFINE x == m - HeapStart
<1>1. x \in Multiples(w)
  BY DEF OnStep
<1>2. HeapStart \in Nat /\ x \in Int /\ m = HeapStart + x
  BY HeapLies
<1> HIDE DEF x
<1>3. x + d \in Multiples(w) /\ d \in Nat
  BY <1>1, MultiplesAre
<1>4. (m + d) - HeapStart = x + d
  BY <1>2, <1>3
<1> QED
  BY <1>3, <1>4 DEF OnStep

\* If all chunks lie at whole numbers of blocks, every chunk may be cut.
LEMMA FitsUniform ==
  ASSUME NEW s \in Nat \ {0}, NEW S, Sound(S, s, s), NEW c \in S
  PROVE  MayCut(S, c, s)
<1> SUFFICES ASSUME NEW q \in Nat, c.chunk < q, q < End(c), OnStep(q, s), NEW z \in S, z.prev = q
             PROVE  z.chunk = End(c)
  BY DEF MayCut
<1>1. /\ c.chunk \in Nat /\ End(c) \in Nat /\ c.prev \in Nat /\ c.prev < c.chunk /\ HeapStart <= c.chunk
      /\ z.chunk \in Nat /\ End(z) \in Nat /\ z.chunk < End(z) /\ z.prev < z.chunk /\ End(z) <= HeapEnd
  BY SoundNumbers
<1>2. HeapEnd \in Nat /\ q # Null
  BY <1>1, HeapLies DEF Null
<1>3. z.chunk <= q + s /\ OnStep(z.chunk, s) /\ (OnStep(End(c), s) \/ End(c) = HeapEnd)
  BY <1>2 DEF Sound, HeapChunk
<1>4. End(c) <= z.chunk
  <2>1. z # c
    BY <1>1
  <2>2. Off(z, c)
    BY <2>1 DEF Sound
  <2> QED
    BY <1>1, <2>2 DEF Off
<1>5. OnStep(End(c), s)
  BY <1>1, <1>2, <1>3, <1>4
<1>6. q + s <= End(c)
  BY <1>1, <1>5, StepsApart
<1> QED
  BY <1>1, <1>3, <1>4, <1>6

\* If no free chunks touch, no memory was lost, and no block is smaller than s, every free
\* chunk may be cut.
LEMMA FitsPadded ==
  ASSUME NEW s \in Nat \ {0}, NEW w, NEW F, NEW A, Sound(F \cup A, s, w), NEW c \in F,
         Covered(F \cup A), Loose(F), \A x \in A : s <= x.size
  PROVE  MayCut(F \cup A, c, w)
<1> DEFINE S == F \cup A
<1> SUFFICES ASSUME NEW q \in Nat, c.chunk < q, q < End(c), NEW z \in S, z.prev = q, z.chunk # End(c)
             PROVE  FALSE
  BY DEF MayCut
<1>0. c \in S /\ Sound(S, s, w)
  OBVIOUS
<1>1. \A x \in S : /\ x.chunk \in Nat /\ End(x) \in Nat /\ x.prev \in Nat /\ x.prev < x.chunk
                   /\ HeapStart <= x.chunk /\ x.size \in Nat /\ End(x) = x.chunk + x.size
                   /\ x.chunk < End(x) /\ End(x) <= HeapEnd
  <2> HIDE DEF S
  <2> QED
    BY <1>0, SoundNumbers
<1>2. HeapEnd \in Nat /\ q # Null
  BY <1>1, HeapLies DEF Null
<1>3. z.chunk <= q + s
  BY <1>0, <1>2 DEF Sound, HeapChunk
<1>4. End(c) < z.chunk
  <2>1. z # c
    BY <1>0, <1>1
  <2>2. Off(z, c)
    BY <1>0, <2>1 DEF Sound
  <2> QED
    BY <1>0, <1>1, <2>2 DEF Off
<1>5. End(c) # HeapEnd
  BY <1>0, <1>1, <1>2, <1>4
<1>6. PICK y \in S : y.chunk = End(c)
  BY <1>5 DEF Covered
<1>7. End(y) <= z.chunk
  <2>1. y # z
    BY <1>6
  <2>2. Off(y, z)
    BY <1>0, <1>6, <2>1 DEF Sound
  <2> QED
    BY <1>0, <1>1, <1>4, <1>6, <2>2 DEF Off
<1>8. y.size < s
  BY <1>0, <1>1, <1>3, <1>6, <1>7
<1>9. y \in F
  BY <1>1, <1>6, <1>8
<1> QED
  BY <1>6, <1>9 DEF Loose

\* What is left of a chunk touches no free chunk.
LEMMA CarvedLoose ==
  ASSUME NEW s, NEW w, NEW S, Sound(S, s, w), NEW F, F \subseteq S, Loose(F), NEW c \in F,
         NEW b, PartOfChunk(b, c), NEW P,
         \A x \in P : /\ PartOfChunk(x, c)
                      /\ \/ x.chunk = c.chunk /\ End(x) = b.chunk
                         \/ x.chunk = End(b) /\ End(x) = End(c)
  PROVE  Loose((F \ {c}) \cup P)
<1>1. /\ c \in S /\ c.chunk \in Nat /\ End(c) \in Nat /\ c.chunk < End(c)
      /\ \A z \in S : z.chunk \in Nat /\ End(z) \in Nat /\ z.chunk < End(z)
  <2>1. c \in S
    OBVIOUS
  <2> QED
    BY <2>1, SoundNumbers
<1>2. /\ b.chunk \in Nat /\ End(b) \in Nat /\ b.chunk < End(b) /\ c.chunk <= b.chunk /\ End(b) <= End(c)
      /\ \A x \in P : /\ x.chunk \in Nat /\ End(x) \in Nat /\ x.chunk < End(x)
                      /\ c.chunk <= x.chunk /\ End(x) <= End(c)
  <2> SUFFICES ASSUME NEW x, PartOfChunk(x, c)
               PROVE  /\ x.chunk \in Nat /\ End(x) \in Nat /\ x.chunk < End(x)
                      /\ c.chunk <= x.chunk /\ End(x) <= End(c)
    OBVIOUS
  <2> QED
    BY <1>1, PartIsNew DEF PartOfChunk
<1>3. ASSUME NEW x \in P, NEW y \in P
      PROVE  y.chunk # End(x)
  BY <1>1, <1>2
<1>4. ASSUME NEW z \in F \ {c}
      PROVE  z.chunk # End(c) /\ End(z) # c.chunk /\ (End(z) <= c.chunk \/ End(c) <= z.chunk)
  <2>1. z \in S /\ z # c
    BY <1>4
  <2>2. Off(z, c)
    BY <1>1, <2>1 DEF Sound
  <2> QED
    BY <1>4, <2>2 DEF Off, Loose
<1>5. ASSUME NEW z \in F \ {c}, NEW x \in P
      PROVE  z.chunk # End(x) /\ x.chunk # End(z)
  <2>1. z \in S
    BY <1>5
  <2>2. /\ z.chunk \in Nat /\ End(z) \in Nat /\ z.chunk < End(z)
        /\ x.chunk \in Nat /\ End(x) \in Nat /\ x.chunk < End(x)
        /\ c.chunk <= x.chunk /\ End(x) <= End(c)
    BY <1>1, <1>2, <2>1
  <2>3. z.chunk # End(c) /\ End(z) # c.chunk /\ (End(z) <= c.chunk \/ End(c) <= z.chunk)
    BY <1>4
  <2> QED
    BY <1>1, <2>2, <2>3
<1>6. ASSUME NEW x \in F \ {c}, NEW y \in F \ {c}
      PROVE  y.chunk # End(x)
  BY DEF Loose
<1> QED
  BY <1>3, <1>4, <1>5, <1>6 DEF Loose

\* v is u with the chunk of X, if there is one, or without it when a table of n entries has
\* no room.
Put(n, u, X, v) ==
  \/ v = u /\ (X = {} \/ n >= FreeCapacity)
  \/ \E x \in Entries : X = {x} /\ v = Added(u, x, FreeCapacity)

\* The block b that heap_alloc makes of the chunk i of t, cutting off the rest; m is that
\* chunk.
LEMMA RestTaken ==
  ASSUME NEW t \in Seq(Entries), ByData(t), NEW i \in 1..Len(t), NEW size \in Nat \ {0},
         size <= t[i].size, t[i].data < t[i].chunk + size, t[i].prev < t[i].chunk,
         NEW pad \in Int, NEW align \in Nat, NEW u, u = RestSplit(t, i, size),
         NEW data, data = t[i].chunk,
         NEW b, b = Entry(u[i].chunk, data, u[i].prev, u[i].size, u[i].size - pad, align),
         NEW m, m.chunk = t[i].chunk, m.prev = t[i].prev, End(m) = End(t[i])
  PROVE  /\ b \in Entries /\ b.align = align /\ size <= b.size /\ b.size < size + SplitCutoff
         /\ \E R : RestOf(m, size, R, b) /\ Put(Len(t), RemoveAt(t, i), R, RemoveAt(u, i))
<1> DEFINE c == t[i]
           n == IF c.size - size < SplitCutoff THEN c.size ELSE size
           r == Rest(c, size)
<1>1. /\ c \in Entries /\ c.size \in Nat /\ c.chunk \in Nat /\ c.prev \in Nat /\ c.data \in Nat
      /\ End(c) = c.chunk + c.size /\ SplitCutoff \in Nat \ {0}
  BY EntryFields, Numbers, BinsAssumption
<1>2. /\ u[i] = IF c.size - size < SplitCutoff THEN c ELSE Cut(c, size)
      /\ RemoveAt(u, i) = IF c.size - size < SplitCutoff THEN RemoveAt(t, i) ELSE Without(t, i, r)
  <2>1. size \in Nat
    OBVIOUS
  <2> QED
    BY <2>1, RestSplitIs
<1> HIDE DEF c
<1>3. u[i].chunk = c.chunk /\ u[i].prev = c.prev /\ u[i].size = n
  <2>1. Cut(c, size).chunk = c.chunk /\ Cut(c, size).prev = c.prev /\ Cut(c, size).size = size
    BY <1>1, CutIs
  <2> QED
    BY <1>2, <2>1
<1>4. n \in Nat /\ size <= n /\ n < size + SplitCutoff /\ n # 0
  BY <1>1 DEF c
<1>5. /\ b \in Entries /\ b.chunk = c.chunk /\ b.data = c.chunk /\ b.prev = c.prev
      /\ b.size = n /\ b.align = align /\ End(b) = c.chunk + n
  <2> DEFINE x == c.chunk
             y == c.prev
             usable == n - pad
  <2>1. b = Entry(x, x, y, n, usable, align)
    BY <1>3 DEF c
  <2>2. x \in Nat /\ y \in Nat /\ usable \in Int
    BY <1>1, <1>4
  <2> HIDE DEF n, usable, x, y
  <2>3. ASSUME NEW e, e = Entry(x, x, y, n, usable, align)
        PROVE  /\ e \in Entries /\ e.chunk = x /\ e.data = x /\ e.prev = y
               /\ e.size = n /\ e.align = align /\ End(e) = x + n
    BY <1>4, <2>2, <2>3 DEF Entry, Entries, End
  <2> QED
    BY <2>1, <2>3 DEF x, y
<1>6. Plain(b) /\ b.chunk = m.chunk /\ b.prev = m.prev
  BY <1>4, <1>5 DEF Plain, c
<1>7. CASE c.size - size < SplitCutoff
  <2>1. RestOf(m, size, {}, b)
    BY <1>1, <1>5, <1>6, <1>7 DEF RestOf, c
  <2>2. Put(Len(t), RemoveAt(t, i), {}, RemoveAt(u, i))
    BY <1>2, <1>7 DEF Put
  <2> QED
    BY <1>4, <1>5, <2>1, <2>2
<1>8. CASE ~ (c.size - size < SplitCutoff)
  <2>1. /\ r \in Entries /\ r.chunk = c.chunk + size /\ r.data = c.chunk + size
        /\ r.prev = c.chunk /\ r.size = c.size - size /\ End(r) = End(c)
    BY <1>1, RestIs DEF c
  <2> HIDE DEF r
  <2>2. n = size /\ c.size - size # 0
    BY <1>1, <1>8
  <2>3. Plain(r)
    BY <1>1, <2>1, <2>2 DEF Plain
  <2>4. RestOf(m, size, {r}, b)
    BY <1>1, <1>5, <1>6, <2>1, <2>2, <2>3 DEF RestOf, c
  <2>5. Put(Len(t), RemoveAt(t, i), {r}, RemoveAt(u, i))
    BY <1>2, <1>8, <2>1 DEF Put, Without
  <2> QED
    BY <1>4, <1>5, <2>4, <2>5
<1> QED
  BY <1>7, <1>8

\* A chunk whose padding is split off: the new entry lies behind it in the table.
LEMMA LeadTaken ==
  ASSUME NEW t \in Seq(Entries), ByData(t), NEW i \in 1..Len(t), Len(t) < FreeCapacity,
         t[i].prev < t[i].chunk, t[i].data = t[i].chunk,
         NEW p \in Nat, SplitCutoff <= p, p < t[i].size, NEW u, u = LeadSplit(t, i, p)
  PROVE  /\ u \in Seq(Entries) /\ ByData(u) /\ Len(u) = Len(t) + 1 /\ i \in 1..Len(u)
         /\ u[i].data = t[i].chunk /\ u[i].chunk = t[i].chunk + p /\ u[i].prev = t[i].chunk
         /\ u[i].size = t[i].size - p
         /\ \E L, m : /\ LeadOf(t[i], p, L, m) /\ m.prev = t[i].chunk
                      /\ Put(Len(t), RemoveAt(t, i), L, RemoveAt(u, i))
<1> DEFINE c == t[i]
           al == PointerAlignment(c.chunk)
           l == FreeEntry(c.chunk, c.prev, p, al)
           a == Added(t, l, FreeCapacity)
           x == [c EXCEPT !.chunk = @ + p, !.size = @ - p, !.prev = c.chunk]
           m == FreeEntry(c.chunk + p, c.chunk, c.size - p, 1)
<1>1. /\ c \in Entries /\ c.size \in Nat /\ c.chunk \in Nat /\ c.prev \in Nat /\ c.data \in Nat
      /\ End(c) = c.chunk + c.size /\ SplitCutoff \in Nat \ {0} /\ Len(t) \in Nat
      /\ FreeCapacity \in Nat
  BY EntryFields, Numbers, BinsAssumption
<1>2. al \in Nat
  <2> DEFINE k == c.chunk
  <2>1. k \in Nat
    BY <1>1
  <2> HIDE DEF k
  <2>2. PointerAlignment(k) \in Nat
    BY <2>1, PointerAlignmentIsNat
  <2> QED
    BY <2>2 DEF k
<1>3. /\ l \in Entries /\ l.chunk = c.chunk /\ l.data = c.chunk /\ l.prev = c.prev /\ l.size = p
      /\ End(l) = c.chunk + p
  <2> DEFINE k == c.chunk
             j == c.prev
  <2>1. k \in Nat /\ j \in Nat /\ l = FreeEntry(k, j, p, al)
    BY <1>1
  <2> HIDE DEF al, l, k, j
  <2>2. l \in Entries /\ l.chunk = k /\ l.data = k /\ l.prev = j /\ l.size = p /\ End(l) = k + p
    BY <1>2, <2>1 DEF FreeEntry, Entry, Entries, End
  <2> QED
    BY <2>2 DEF k, j
<1>4. /\ m \in Entries /\ m.chunk = c.chunk + p /\ m.data = c.chunk + p /\ m.prev = c.chunk
      /\ m.size = c.size - p /\ End(m) = (c.chunk + p) + (c.size - p)
  <2> DEFINE k == c.chunk + p
             j == c.chunk
             z == c.size - p
  <2>1. k \in Nat /\ j \in Nat /\ z \in Nat /\ m = FreeEntry(k, j, z, 1)
    BY <1>1
  <2> HIDE DEF m, k, j, z
  <2>2. m \in Entries /\ m.chunk = k /\ m.data = k /\ m.prev = j /\ m.size = z /\ End(m) = k + z
    BY <2>1 DEF FreeEntry, Entry, Entries, End
  <2> QED
    BY <2>2 DEF k, j, z
<1>5. /\ x \in Entries /\ x.data = c.data /\ x.chunk = c.chunk + p /\ x.prev = c.chunk
      /\ x.size = c.size - p
  <2> HIDE DEF c
  <2>1. c.size - p \in Nat /\ c.chunk + p \in Nat
    BY <1>1 DEF c
  <2> QED
    BY <1>1, <2>1 DEF Entries
<1>6. /\ a[i] = t[i] /\ a \in Seq(Entries) /\ Len(a) = Len(t) + 1 /\ ByData(a)
      /\ RemoveAt([a EXCEPT ![i] = x], i) = Without(t, i, l)
  <2>1. t[i].data <= l.data
    BY <1>1, <1>3
  <2> HIDE DEF l, x, c
  <2>2. /\ RemoveAt([Added(t, l, FreeCapacity) EXCEPT ![i] = x], i) = Without(t, i, l)
        /\ Added(t, l, FreeCapacity)[i] = t[i]
        /\ Added(t, l, FreeCapacity) \in Seq(Entries)
        /\ Len(Added(t, l, FreeCapacity)) = Len(t) + 1
    BY <1>3, <1>5, <2>1, AddedWithout
  <2>3. ByData(Added(t, l, FreeCapacity))
    BY <1>1, <1>3, AddedOrdered
  <2> QED
    BY <2>2, <2>3
<1> HIDE DEF a
<1>7. i \in 1..Len(a) /\ i \in DOMAIN a
  BY <1>1, <1>6
<1>8. u = [a EXCEPT ![i] = x]
  <2>1. u = [a EXCEPT ![i].chunk = @ + p, ![i].size = @ - p, ![i].prev = a[i].chunk]
    <3>1. ~ (p < SplitCutoff)
      BY <1>1
    <3> QED
      BY <3>1 DEF LeadSplit, a
  <2>2. a[i] = c
    BY <1>6
  <2> HIDE DEF c
  <2> QED
    BY <1>7, <2>1, <2>2
<1> HIDE DEF x
<1>9. u \in Seq(Entries) /\ Len(u) = Len(a) /\ u[i] = x /\ \A k \in 1..Len(a) : k # i => u[k] = a[k]
  BY <1>5, <1>6, <1>7, <1>8
<1>10. ByData(u)
  <2>1. \A k \in 1..Len(a) : u[k].data = a[k].data
    BY <1>5, <1>6, <1>9
  <2> QED
    BY <1>6, <1>9, <2>1 DEF ByData
<1>11. LeadOf(c, p, {l}, m)
  <2>1. Plain(l)
    BY <1>1, <1>3 DEF Plain
  <2>2. Plain(m)
    BY <1>1, <1>4 DEF Plain
  <2> HIDE DEF l, m, c
  <2>3. p # 0 /\ End(m) = End(c)
    BY <1>1, <1>4 DEF c
  <2> QED
    BY <1>3, <1>4, <2>1, <2>2, <2>3 DEF LeadOf
<1>12. Put(Len(t), RemoveAt(t, i), {l}, RemoveAt(u, i))
  <2>1. ~ (Len(t) >= FreeCapacity)
    BY <1>1
  <2>2. RemoveAt(u, i) = Added(RemoveAt(t, i), l, FreeCapacity)
    BY <1>6, <1>8, <2>1 DEF Without
  <2> HIDE DEF l
  <2> QED
    BY <1>3, <2>2 DEF Put
<1> HIDE DEF l, m
<1> QED
  BY <1>4, <1>5, <1>6, <1>7, <1>9, <1>10, <1>11, <1>12

\* The call with the result r took the block b out of the free chunk c, p bytes behind its
\* start; L and R are what is left of c, u and v the table without c, with L, and with R.
Carves(f, a, size, align, r, i, p, L, m, R, b, u, v) ==
  /\ p = PaddingAt(f[0][i].chunk, align) /\ p + size <= f[0][i].size /\ r.ptr = f[0][i].chunk + p
  /\ LeadOf(f[0][i], p, L, m) /\ RestOf(m, size, R, b)
  /\ b \in Entries /\ b.align = align /\ size <= b.size /\ b.size < size + SplitCutoff
  /\ Put(Len(f[0]), RemoveAt(f[0], i), L, u) /\ Put(Len(f[0]) + 1, u, R, v)
  /\ r.free = [f EXCEPT ![0] = v] /\ r.alloc = [a EXCEPT ![0] = Added(a[0], b, AllocCapacity)]

\* heap_alloc of the heap: the chunk it takes, and what it leaves of it.
LEMMA HeapCarves ==
  ASSUME NEW f, NEW a, Neat(f[0]), NEW size \in Nat \ {0}, NEW align \in Nat \ {0},
         \A k \in 1..Len(f[0]) :
           \/ PaddingAt(f[0][k].chunk, align) = 0
           \/ SplitCutoff <= PaddingAt(f[0][k].chunk, align) /\ Len(f[0]) < FreeCapacity,
         NEW r, r = AllocHeap(f, a, size, align), r.ptr # Null
  PROVE  \E i \in 1..Len(f[0]), p \in Nat : \E L, m, R, b, u, v :
           Carves(f, a, size, align, r, i, p, L, m, R, b, u, v)
<1> DEFINE t == f[0]
           i == SearchBySize(t, size, align)
           c == t[i]
           p == PaddingAt(c.chunk, align)
           d == LeadSplit(t, i, p)
           e == RestSplit(d, i, size)
           data == c.chunk + p
           b == Entry(e[i].chunk, data, e[i].prev, e[i].size, e[i].size - p, align)
<1>1. /\ t \in Seq(Entries) /\ ByData(t) /\ Len(t) \in Nat /\ SplitCutoff \in Nat \ {0}
      /\ i \in 0..Len(t) /\ (i # 0 => Suffices(t[i], size, align))
  <2>1. t \in Seq(Entries) /\ ByData(t)
    BY NeatIs
  <2> HIDE DEF t
  <2> QED
    BY <2>1, FitIsFound, EntryFields, BinsAssumption
<1>2. r = IF i = 0 THEN Tables(Null, f, a)
          ELSE Tables(data, [f EXCEPT ![0] = RemoveAt(e, i)],
                 [a EXCEPT ![0] = Added(a[0], b, AllocCapacity)])
  BY DEF AllocHeap
<1> HIDE DEF i
<1>3. i # 0
  BY <1>2 DEF Tables
<1>4. /\ i \in 1..Len(t) /\ Plain(c) /\ c \in Entries /\ c.chunk \in Nat /\ c.size \in Nat
      /\ c.data = c.chunk /\ c.prev < c.chunk /\ End(c) = c.chunk + c.size
  <2>1. i \in 1..Len(t)
    BY <1>1, <1>3
  <2>2. Plain(c)
    BY <2>1 DEF Neat
  <2> HIDE DEF c
  <2> QED
    BY <2>1, <2>2, Numbers DEF Plain
<1> HIDE DEF t
<1>5. p \in Nat
  <2> DEFINE k == c.chunk
  <2>1. k \in Nat
    BY <1>4
  <2> HIDE DEF k
  <2>2. PaddingAt(k, align) \in Nat
    BY <2>1, PaddingIs
  <2> QED
    BY <2>2 DEF k
<1>6. size + p <= c.size
  BY <1>1, <1>3 DEF Suffices
<1>7. /\ r.ptr = data /\ r.free = [f EXCEPT ![0] = RemoveAt(e, i)]
      /\ r.alloc = [a EXCEPT ![0] = Added(a[0], b, AllocCapacity)]
  <2> HIDE DEF data, e, b
  <2> QED
    BY <1>2, <1>3 DEF Tables
<1>8. p = 0 \/ (SplitCutoff <= p /\ Len(t) < FreeCapacity)
  BY <1>4 DEF t
<1> HIDE DEF p
<1>9. \E L, m, R, u : /\ LeadOf(c, p, L, m) /\ RestOf(m, size, R, b)
                      /\ b \in Entries /\ b.align = align /\ size <= b.size /\ b.size < size + SplitCutoff
                      /\ Put(Len(t), RemoveAt(t, i), L, u) /\ Put(Len(t) + 1, u, R, RemoveAt(e, i))
  <2> DEFINE j == d[i]
             n == p
  <2>1. align \in Nat /\ n \in Int
    BY <1>5
  <2>2. ASSUME NEW m, d \in Seq(Entries), ByData(d), i \in 1..Len(d), Len(d) \in Nat, Len(d) <= Len(t) + 1,
               size <= j.size, j.data < j.chunk + size, j.prev < j.chunk, data = j.chunk,
               m.chunk = j.chunk, m.prev = j.prev, End(m) = End(j)
        PROVE  /\ b \in Entries /\ b.align = align /\ size <= b.size /\ b.size < size + SplitCutoff
               /\ \E R : RestOf(m, size, R, b) /\ Put(Len(t) + 1, RemoveAt(d, i), R, RemoveAt(e, i))
    <3> DEFINE g == RemoveAt(d, i)
               h == RemoveAt(e, i)
    <3>1. /\ b \in Entries /\ b.align = align /\ size <= b.size /\ b.size < size + SplitCutoff
          /\ \E R : RestOf(m, size, R, b) /\ Put(Len(d), g, R, h)
      <4>1. e = RestSplit(d, i, size) /\ b = Entry(e[i].chunk, data, e[i].prev, e[i].size, e[i].size - n, align)
        OBVIOUS
      <4>2. size <= d[i].size /\ d[i].data < d[i].chunk + size /\ d[i].prev < d[i].chunk /\ data = d[i].chunk
        BY <2>2
      <4>3. m.chunk = d[i].chunk /\ m.prev = d[i].prev /\ End(m) = End(d[i])
        BY <2>2
      <4> HIDE DEF d, e, b, data, j, n
      <4> QED
        BY <2>1, <2>2, <4>1, <4>2, <4>3, RestTaken
    <3> HIDE DEF g, h, b
    <3>2. PICK R : RestOf(m, size, R, b) /\ Put(Len(d), g, R, h)
      BY <3>1
    <3>3. Len(d) >= FreeCapacity => Len(t) + 1 >= FreeCapacity
      <4> HIDE DEF d
      <4> QED
        BY <1>1, <2>2, BinsAssumption
    <3>4. Put(Len(t) + 1, g, R, h)
      <4> HIDE DEF d
      <4> QED
        BY <3>2, <3>3 DEF Put
    <3> QED
      BY <3>1, <3>2, <3>4 DEF g, h
  <2>3. CASE p = 0
    <3>1. d = t
      <4>1. p < SplitCutoff
        BY <1>1, <2>3
      <4> QED
        BY <4>1, NoLead
    <3>2. j = c /\ data = j.chunk
      BY <1>4, <2>3, <3>1
    <3>3. LeadOf(c, p, {}, c)
      <4> HIDE DEF c
      <4> QED
        BY <1>4, <2>3 DEF LeadOf
    <3>4. Put(Len(t), RemoveAt(t, i), {}, RemoveAt(d, i))
      BY <3>1 DEF Put
    <3>5. /\ d \in Seq(Entries) /\ ByData(d) /\ i \in 1..Len(d) /\ Len(d) \in Nat /\ Len(d) <= Len(t) + 1
          /\ size <= j.size /\ j.data < j.chunk + size /\ j.prev < j.chunk /\ data = j.chunk
      <4> HIDE DEF d, c, data, j
      <4> QED
        BY <1>1, <1>4, <1>6, <2>3, <3>1, <3>2
    <3>6. c.chunk = j.chunk /\ c.prev = j.prev /\ End(c) = End(j)
      BY <3>2
    <3> HIDE DEF d, c, data, j, e, b
    <3>7. /\ b \in Entries /\ b.align = align /\ size <= b.size /\ b.size < size + SplitCutoff
          /\ \E R : RestOf(c, size, R, b) /\ Put(Len(t) + 1, RemoveAt(d, i), R, RemoveAt(e, i))
      BY <2>2, <3>5, <3>6
    <3> QED
      BY <3>3, <3>4, <3>7
  <2>4. CASE p # 0
    <3>1. SplitCutoff <= p /\ Len(t) < FreeCapacity /\ p < c.size /\ c.size - p \in Nat /\ size <= c.size - p
      <4> HIDE DEF c
      <4> QED
        BY <1>4, <1>5, <1>6, <1>8, <2>4
    <3>2. /\ d \in Seq(Entries) /\ ByData(d) /\ Len(d) = Len(t) + 1 /\ i \in 1..Len(d)
          /\ d[i].data = t[i].chunk /\ d[i].chunk = t[i].chunk + p /\ d[i].prev = t[i].chunk
          /\ d[i].size = t[i].size - p
          /\ \E L, m : /\ LeadOf(t[i], p, L, m) /\ m.prev = t[i].chunk
                       /\ Put(Len(t), RemoveAt(t, i), L, RemoveAt(d, i))
      <4>1. d = LeadSplit(t, i, p) /\ t[i].prev < t[i].chunk /\ t[i].data = t[i].chunk /\ p < t[i].size
        BY <1>4, <3>1
      <4> HIDE DEF d, c
      <4> QED
        BY <1>1, <1>4, <1>5, <3>1, <4>1, LeadTaken
    <3>3. PICK L, m : /\ LeadOf(c, p, L, m) /\ m.prev = c.chunk
                      /\ Put(Len(t), RemoveAt(t, i), L, RemoveAt(d, i))
      <4> HIDE DEF d
      <4> QED
        BY <3>2
    <3>4. /\ j.data = c.chunk /\ j.chunk = c.chunk + p /\ j.prev = c.chunk /\ j.size = c.size - p
          /\ data = j.chunk
      <4> HIDE DEF d
      <4> QED
        BY <3>2
    <3>5. /\ d \in Seq(Entries) /\ ByData(d) /\ i \in 1..Len(d) /\ Len(d) \in Nat /\ Len(d) <= Len(t) + 1
          /\ size <= j.size /\ j.data < j.chunk + size /\ j.prev < j.chunk /\ data = j.chunk
      <4> HIDE DEF d, c, data, j
      <4>1. Len(d) = Len(t) + 1 /\ Len(t) \in Nat
        BY <1>1, <3>2
      <4>2. size <= j.size /\ j.data < j.chunk + size /\ j.prev < j.chunk /\ data = j.chunk
        BY <1>4, <1>5, <2>4, <3>1, <3>4
      <4> QED
        BY <3>2, <4>1, <4>2
    <3>6. m.chunk = j.chunk /\ m.prev = j.prev /\ End(m) = End(j)
      <4> HIDE DEF d, c, data, j
      <4>1. m.chunk = c.chunk + p /\ m.prev = c.chunk /\ End(m) = End(c)
        BY <3>3 DEF LeadOf
      <4>2. End(j) = (c.chunk + p) + (c.size - p)
        BY <3>4 DEF End
      <4> QED
        BY <1>4, <1>5, <3>1, <3>4, <4>1, <4>2
    <3> HIDE DEF d, c, data, j, e, b
    <3>7. /\ b \in Entries /\ b.align = align /\ size <= b.size /\ b.size < size + SplitCutoff
          /\ \E R : RestOf(m, size, R, b) /\ Put(Len(t) + 1, RemoveAt(d, i), R, RemoveAt(e, i))
      BY <2>2, <3>5, <3>6
    <3> QED
      BY <3>3, <3>7
  <2> QED
    BY <2>3, <2>4
<1> HIDE DEF c, b, data, e
<1>10. PICK L, m, R, u : /\ LeadOf(c, p, L, m) /\ RestOf(m, size, R, b)
                      /\ b \in Entries /\ b.align = align /\ size <= b.size /\ b.size < size + SplitCutoff
                      /\ Put(Len(t), RemoveAt(t, i), L, u) /\ Put(Len(t) + 1, u, R, RemoveAt(e, i))
  BY <1>9
<1> DEFINE v == RemoveAt(e, i)
<1>11. /\ p = PaddingAt(t[i].chunk, align) /\ p + size <= t[i].size /\ r.ptr = t[i].chunk + p
       /\ c = t[i]
  BY <1>4, <1>5, <1>6, <1>7 DEF c, p, data
<1>12. Carves(f, a, size, align, r, i, p, L, m, R, b, u, v)
  BY <1>7, <1>10, <1>11 DEF Carves, t
<1>13. i \in 1..Len(f[0]) /\ p \in Nat
  BY <1>4, <1>5 DEF t
<1> HIDE DEF v
<1> QED
  BY <1>12, <1>13

\* What Put adds.
LEMMA PutNeat ==
  ASSUME NEW n \in Nat, NEW u, Neat(u), NEW X, \A x \in X : Plain(x) /\ \A e \in Range(u) : e.chunk # x.chunk,
         NEW v, Put(n, u, X, v)
  PROVE  /\ Neat(v) /\ Range(v) \subseteq Range(u) \cup X
         /\ n < FreeCapacity /\ Len(u) < FreeCapacity => Range(v) = Range(u) \cup X
         /\ Len(v) <= Len(u) + 1
<1>1. Sorted(u) /\ u \in Seq(Entries) /\ Len(u) \in Nat /\ FreeCapacity \in Nat
  BY NeatIs, EntryFields, BinsAssumption
<1>2. CASE v = u /\ (X = {} \/ n >= FreeCapacity)
  BY <1>1, <1>2
<1>3. CASE \E x \in Entries : X = {x} /\ v = Added(u, x, FreeCapacity)
  <2>1. PICK x \in Entries : X = {x} /\ v = Added(u, x, FreeCapacity)
    BY <1>3
  <2>2. Plain(x) /\ x.data = x.chunk /\ \A e \in Range(u) : e.chunk # x.chunk
    BY <2>1 DEF Plain
  <2>3. \A k \in 1..Len(u) : u[k].data # x.data
    <3> SUFFICES ASSUME NEW k \in 1..Len(u) PROVE u[k].data # x.data
      OBVIOUS
    <3>1. u[k] \in Range(u) /\ Plain(u[k])
      BY <1>1, InRange DEF Neat
    <3> QED
      BY <2>2, <3>1 DEF Plain
  <2> DEFINE g == Added(u, x, FreeCapacity)
  <2>4. /\ Sorted(g) /\ Range(g) = (IF Len(u) >= FreeCapacity THEN Range(u) ELSE Range(u) \cup {x})
        /\ Len(g) = (IF Len(u) >= FreeCapacity THEN Len(u) ELSE Len(u) + 1)
    BY <1>1, <2>3, AddedSorted
  <2> HIDE DEF g
  <2>5. v = g
    BY <2>1 DEF g
  <2>6. \A e \in Range(u) : Plain(e)
    BY NeatIs
  <2>7. \A e \in Range(v) : Plain(e)
    BY <2>2, <2>4, <2>5, <2>6
  <2>8. Neat(v)
    BY <2>4, <2>5, <2>7, NeatOf
  <2> QED
    BY <1>1, <2>1, <2>4, <2>5, <2>8
<1> QED
  BY <1>2, <1>3 DEF Put

\* The block from l to h: no free chunk of F meets it, and no chunk in use of A but its own.
Guarded(F, A, l, h) ==
  /\ OffArea(F, l, h)
  /\ \A x \in A : End(x) <= l \/ h <= x.chunk \/ (x.chunk = l /\ h <= End(x))

\* The chunks F and A become F2 and A2 as the block from l to h is handed out: it lies apart
\* from the other blocks, which stay as they were.
HandsOut(F, A, F2, A2, l, h) ==
  /\ Guarded(F2, A2, l, h)
  /\ \A m, n \in Nat : m < n /\ Guarded(F, A, m, n) => Guarded(F2, A2, m, n) /\ (n <= l \/ h <= m)

\* A block in a chunk that was free.
LEMMA TakenOut ==
  ASSUME NEW F, NEW A, NEW c \in F, NEW F2, NEW A2, NEW P, NEW b, NEW n \in Nat \ {0},
         \A x \in F \cup A : x.chunk \in Nat /\ End(x) \in Nat /\ x.chunk < End(x),
         \A x \in (F \cup A) \ {c} : Off(x, c), c \notin A,
         b.chunk \in Nat, End(b) \in Nat, c.chunk <= b.chunk, b.chunk + n <= End(b), End(b) <= End(c),
         F2 \subseteq (F \ {c}) \cup P, A2 \subseteq A \cup {b},
         \A x \in P : /\ x.chunk \in Nat /\ End(x) \in Nat
                      /\ c.chunk <= x.chunk /\ End(x) <= End(c) /\ Off(x, b)
  PROVE  HandsOut(F, A, F2, A2, b.chunk, b.chunk + n)
<1> DEFINE l == b.chunk
           h == b.chunk + n
<1>1. c.chunk \in Nat /\ End(c) \in Nat /\ l \in Nat /\ h \in Nat /\ l < h
      /\ c.chunk <= l /\ h <= End(c) /\ h <= End(b)
  OBVIOUS
<1>2. ASSUME NEW x \in (F \cup A) \ {c}
      PROVE  End(x) <= l \/ h <= x.chunk
  <2>1. Off(x, c) /\ x.chunk \in Nat /\ End(x) \in Nat
    OBVIOUS
  <2> HIDE DEF l, h
  <2> QED
    BY <1>1, <2>1 DEF Off
<1>3. ASSUME NEW x \in P
      PROVE  End(x) <= l \/ h <= x.chunk
  <2>1. Off(x, b) /\ x.chunk \in Nat /\ End(x) \in Nat
    OBVIOUS
  <2> QED
    BY <1>1, <2>1 DEF Off
<1>4. Guarded(F2, A2, l, h)
  <2>1. OffArea(F2, l, h)
    <3> HIDE DEF l, h
    <3> QED
      BY <1>2, <1>3 DEF OffArea
  <2>2. \A x \in A2 : End(x) <= l \/ h <= x.chunk \/ (x.chunk = l /\ h <= End(x))
    <3> SUFFICES ASSUME NEW x \in A2 PROVE End(x) <= l \/ h <= x.chunk \/ (x.chunk = l /\ h <= End(x))
      OBVIOUS
    <3>1. CASE x = b
      BY <1>1, <3>1
    <3>2. CASE x \in A
      BY <1>2, <3>2
    <3> QED
      BY <3>1, <3>2
  <2> QED
    BY <2>1, <2>2 DEF Guarded
<1>5. ASSUME NEW i \in Nat, NEW j \in Nat, i < j, Guarded(F, A, i, j)
      PROVE  Guarded(F2, A2, i, j) /\ (j <= l \/ h <= i)
  <2>1. End(c) <= i \/ j <= c.chunk
    BY <1>5 DEF Guarded, OffArea
  <2>2. j <= l \/ h <= i
    BY <1>1, <2>1
  <2>3. OffArea(F2, i, j)
    <3> SUFFICES ASSUME NEW x \in F2 PROVE End(x) <= i \/ j <= x.chunk
      BY DEF OffArea
    <3>1. CASE x \in F
      BY <1>5, <3>1 DEF Guarded, OffArea
    <3>2. CASE x \in P
      <4>1. x.chunk \in Nat /\ End(x) \in Nat /\ c.chunk <= x.chunk /\ End(x) <= End(c)
        BY <3>2
      <4> QED
        BY <1>1, <2>1, <4>1
    <3> QED
      BY <3>1, <3>2
  <2>4. \A x \in A2 : End(x) <= i \/ j <= x.chunk \/ (x.chunk = i /\ j <= End(x))
    <3> SUFFICES ASSUME NEW x \in A2 PROVE End(x) <= i \/ j <= x.chunk \/ (x.chunk = i /\ j <= End(x))
      OBVIOUS
    <3>1. CASE x = b
      BY <1>1, <2>1, <3>1
    <3>2. CASE x \in A
      BY <1>5, <3>2 DEF Guarded
    <3> QED
      BY <3>1, <3>2
  <2> QED
    BY <2>2, <2>3, <2>4 DEF Guarded
<1> HIDE DEF l, h
<1>6. HandsOut(F, A, F2, A2, l, h)
  BY <1>4, <1>5 DEF HandsOut
<1> QED
  BY <1>6 DEF l, h

\* A block that is given back: the others stay as they were.
LEMMA GivenBack ==
  ASSUME NEW F, NEW A, NEW F2, NEW A2, NEW e \in A, A2 \subseteq A,
         \A l, h \in Nat : l < h /\ OffArea(F \cup {e}, l, h) => OffArea(F2, l, h),
         NEW m \in Nat, NEW n \in Nat, m < n, Guarded(F, A, m, n), m # e.chunk
  PROVE  Guarded(F2, A2, m, n)
<1>1. OffArea(F \cup {e}, m, n)
  BY DEF Guarded, OffArea
<1>2. OffArea(F2, m, n)
  BY <1>1
<1> QED
  BY <1>2 DEF Guarded

-----------------------------------------------------------------------------
(* The calls, for such tables of the heap                                   *)

\* The tables of the heap: the free chunks t and the blocks u, none of them smaller than s.
HeapLaid(t, u, s, w) == Swept(t, Range(u), s, w) /\ Neat(u) /\ \A x \in Range(u) : s <= x.size

\* Any free chunk can be cut to a block of s bytes: its padding is nothing or worth a chunk,
\* for which there is room.
Cuttable(t, u, s, w, align) ==
  \A k \in 1..Len(t) :
    LET p == PaddingAt(t[k].chunk, align)
    IN  /\ MayCut(Range(t) \cup Range(u), t[k], w) /\ p <= s
        /\ OnStep(t[k].chunk + p, w) /\ OnStep(t[k].chunk + p + s, w)
        /\ p = 0 \/ (SplitCutoff <= p /\ Len(t) < FreeCapacity)

\* The chunks F2 and A2 after a block b was taken out of c, some of them perhaps lost.
Follows(S, F, A, F2, A2, c, L, R, b) ==
  /\ S = F \cup A /\ F \cap A = {} /\ c \in F
  /\ F2 \subseteq (F \ {c}) \cup L \cup R /\ A2 \subseteq A \cup {b}

\* The same, when none of them was lost.
NoneLost(F, A, F2, A2, c, L, R, b) == A2 = A \cup {b} /\ F2 = (F \ {c}) \cup L \cup R

\* No chunk overlaps the block that was taken out.
LEMMA CarvedSets ==
  ASSUME NEW s, NEW w, NEW F, NEW A, NEW S, NEW c, NEW p, NEW L, NEW m, NEW R, NEW b, NEW T,
         Carving(S, s, w, c, p, L, m, R, b, T),
         NEW F2, NEW A2, Follows(S, F, A, F2, A2, c, L, R, b)
  PROVE  /\ Sound(F2 \cup A2, s, w) /\ F2 \cap A2 = {}
         /\ HandsOut(F, A, F2, A2, b.chunk, b.chunk + s)
         /\ HeapStart <= b.chunk /\ b.chunk + s <= HeapEnd
         /\ Loose(F) => Loose(F2)
         /\ NoneLost(F, A, F2, A2, c, L, R, b) /\ Covered(S) => Covered(F2 \cup A2)
<1> DEFINE P == L \cup R
<1>0. /\ S = F \cup A /\ F \cap A = {} /\ c \in F
      /\ F2 \subseteq (F \ {c}) \cup L \cup R /\ A2 \subseteq A \cup {b}
  BY DEF Follows
<1>1. /\ c \in S /\ Sound(S, s, w) /\ c \notin A /\ s \in Nat \ {0}
      /\ T = (S \ {c}) \cup L \cup R \cup {b}
  BY <1>0 DEF Carving
<1>2. /\ Sound(T, s, w) /\ (Covered(S) => Covered(T))
      /\ b.chunk = c.chunk + p /\ b.chunk + s <= End(b) /\ PartOfChunk(b, c) /\ b \notin P
      /\ \A x \in L : PartOfChunk(x, c) /\ x.chunk = c.chunk /\ End(x) = b.chunk
      /\ \A x \in R : PartOfChunk(x, c) /\ x.chunk = End(b) /\ End(x) = End(c)
  BY Carved
<1>3. /\ \A x \in S : x.chunk \in Nat /\ End(x) \in Nat /\ x.chunk < End(x) /\ HeapStart <= x.chunk /\ End(x) <= HeapEnd
      /\ \A x \in S \ {c} : Off(x, c)
  <2> QED
    BY <1>1, SoundNumbers DEF Sound
<1>4. ASSUME NEW x, PartOfChunk(x, c)
      PROVE  /\ \A z \in S : z # c => z # x
             /\ x.chunk \in Nat /\ End(x) \in Nat /\ x.chunk < End(x) /\ c.chunk <= x.chunk /\ End(x) <= End(c)
  <2> HIDE DEF P
  <2>1. Plain(x) /\ c.chunk <= x.chunk /\ End(x) <= End(c)
    BY <1>4 DEF PartOfChunk
  <2>2. /\ \A z \in S : z # c => z # x
        /\ x \in Entries /\ x.chunk \in Nat /\ x.size \in Nat /\ End(x) = x.chunk + x.size /\ x.chunk < End(x)
    BY <1>1, <2>1, PartIsNew
  <2> QED
    BY <2>1, <2>2
<1>5. F2 \cap A2 = {}
  <2> SUFFICES ASSUME NEW x \in F2, x \in A2 PROVE FALSE
    OBVIOUS
  <2>1. CASE x = b
    <3>1. b \notin S \ {c}
      BY <1>2, <1>4
    <3> QED
      BY <1>0, <1>2, <2>1, <3>1
  <2>2. CASE x \in A
    <3>1. x \in S /\ x # c
      BY <1>0, <1>1, <2>2
    <3>2. x \notin P
      BY <1>2, <1>4, <3>1
    <3> QED
      BY <1>0, <2>2, <3>2
  <2> QED
    BY <1>0, <2>1, <2>2
<1>6. Sound(F2 \cup A2, s, w)
  <2>1. F2 \cup A2 \subseteq T
    BY <1>0, <1>1
  <2> DEFINE U == F2 \cup A2
  <2> HIDE DEF U
  <2>2. U \subseteq T
    BY <2>1 DEF U
  <2>3. Sound(U, s, w)
    BY <1>2, <2>2, FewerSound
  <2> QED
    BY <2>3 DEF U
<1>7. \A x \in P : /\ x.chunk \in Nat /\ End(x) \in Nat
                   /\ c.chunk <= x.chunk /\ End(x) <= End(c) /\ Off(x, b)
  <2> SUFFICES ASSUME NEW x \in P
               PROVE  /\ x.chunk \in Nat /\ End(x) \in Nat
                      /\ c.chunk <= x.chunk /\ End(x) <= End(c) /\ Off(x, b)
    OBVIOUS
  <2>1. PartOfChunk(x, c) /\ (End(x) = b.chunk \/ x.chunk = End(b))
    BY <1>2
  <2>2. x.chunk \in Nat /\ End(x) \in Nat /\ c.chunk <= x.chunk /\ End(x) <= End(c)
    BY <1>4, <2>1
  <2>3. b.chunk \in Nat /\ End(b) \in Nat
    BY <1>2, <1>4
  <2> QED
    BY <2>1, <2>2, <2>3 DEF Off
<1>8. b.chunk \in Nat /\ End(b) \in Nat /\ c.chunk <= b.chunk /\ b.chunk + s <= End(b) /\ End(b) <= End(c)
  BY <1>2, <1>4
<1>9. HandsOut(F, A, F2, A2, b.chunk, b.chunk + s)
  <2>1. F2 \subseteq (F \ {c}) \cup P
    BY <1>0
  <2>2. /\ \A x \in F \cup A : x.chunk \in Nat /\ End(x) \in Nat /\ x.chunk < End(x)
        /\ \A x \in (F \cup A) \ {c} : Off(x, c)
    BY <1>0, <1>3
  <2> HIDE DEF P
  <2> QED
    BY <1>0, <1>1, <1>7, <1>8, <2>1, <2>2, TakenOut
<1>10. HeapStart <= b.chunk /\ b.chunk + s <= HeapEnd
  BY <1>1, <1>3, <1>8, HeapLies
<1>11. ASSUME Loose(F)
       PROVE  Loose(F2)
  <2>1. Loose((F \ {c}) \cup P)
    <3>1. F \subseteq S
      BY <1>0
    <3>2. \A x \in P : /\ PartOfChunk(x, c)
                       /\ \/ x.chunk = c.chunk /\ End(x) = b.chunk
                          \/ x.chunk = End(b) /\ End(x) = End(c)
      BY <1>2
    <3> HIDE DEF P
    <3> QED
      BY <1>0, <1>1, <1>2, <1>11, <3>1, <3>2, CarvedLoose
  <2>2. F2 \subseteq (F \ {c}) \cup P
    BY <1>0
  <2> QED
    BY <2>1, <2>2 DEF Loose
<1>12. ASSUME Covered(S), NoneLost(F, A, F2, A2, c, L, R, b)
       PROVE  Covered(F2 \cup A2)
  <2>1. F2 \cup A2 = T
    BY <1>0, <1>1, <1>12 DEF NoneLost
  <2> QED
    BY <1>2, <1>12, <2>1
<1> QED
  BY <1>0, <1>5, <1>6, <1>9, <1>10, <1>11, <1>12

\* What a heap_alloc of s bytes with the result r makes of the tables t and u of the heap: t2
\* and u2.
HeapGives(t, u, t2, u2, s, w, align, r) ==
  /\ HeapLaid(t2, u2, s, w)
  /\ HandsOut(Range(t), Range(u), Range(t2), Range(u2), r.ptr, r.ptr + s)
  /\ HeapStart <= r.ptr /\ r.ptr + s <= HeapEnd
  /\ Loose(Range(t)) => Loose(Range(t2))
  /\ Covered(Range(t) \cup Range(u)) /\ Len(t) + 1 < FreeCapacity /\ Len(u) < AllocCapacity =>
       Covered(Range(t2) \cup Range(u2))
  /\ \E b \in Entries : /\ b.align = align /\ b.chunk = r.ptr /\ b.size < s + SplitCutoff
                        /\ Range(u2) \subseteq Range(u) \cup {b}

\* heap_alloc takes the block out of one free chunk.
LEMMA HeapHands ==
  ASSUME NEW s \in Nat \ {0}, NEW w, NEW f, NEW a, HeapLaid(f[0], a[0], s, w),
         NEW align \in Nat \ {0}, Cuttable(f[0], a[0], s, w, align),
         NEW r, r = AllocHeap(f, a, s, align), r.ptr # Null
  PROVE  \E t2, u2 : /\ r.free = [f EXCEPT ![0] = t2] /\ r.alloc = [a EXCEPT ![0] = u2]
                     /\ HeapGives(f[0], a[0], t2, u2, s, w, align, r)
<1> DEFINE t == f[0]
           d == a[0]
           F == Range(t)
           A == Range(d)
           S == F \cup A
<1>1. /\ Neat(t) /\ Sound(S, s, w) /\ F \cap A = {} /\ Neat(d) /\ \A x \in A : s <= x.size
      /\ t \in Seq(Entries) /\ Len(t) \in Nat /\ Sorted(t) /\ d \in Seq(Entries) /\ Len(d) \in Nat /\ Sorted(d)
      /\ FreeCapacity \in Nat /\ AllocCapacity \in Nat
  <2>1. Neat(t) /\ Neat(d)
    BY DEF HeapLaid, Swept
  <2>2. Sound(S, s, w) /\ F \cap A = {} /\ \A x \in A : s <= x.size
    BY DEF HeapLaid, Swept
  <2> HIDE DEF t, d, F, A, S
  <2> QED
    BY <2>1, <2>2, NeatIs, EntryFields, BinsAssumption
<1>2. \A k \in 1..Len(t) :
        \/ PaddingAt(t[k].chunk, align) = 0
        \/ SplitCutoff <= PaddingAt(t[k].chunk, align) /\ Len(t) < FreeCapacity
  BY DEF Cuttable
<1>3. PICK i \in 1..Len(t), p \in Nat : \E L, m, R, b, u, v :
        Carves(f, a, s, align, r, i, p, L, m, R, b, u, v)
  BY <1>1, <1>2, HeapCarves
<1>4. PICK L, m, R, b, u, v : Carves(f, a, s, align, r, i, p, L, m, R, b, u, v)
  BY <1>3
<1> DEFINE c == t[i]
           d2 == Added(d, b, AllocCapacity)
           o == RemoveAt(t, i)
<1>5. /\ p = PaddingAt(c.chunk, align) /\ p + s <= c.size /\ r.ptr = c.chunk + p
      /\ LeadOf(c, p, L, m) /\ RestOf(m, s, R, b)
      /\ b \in Entries /\ b.align = align /\ s <= b.size /\ b.size < s + SplitCutoff
      /\ Put(Len(t), o, L, u) /\ Put(Len(t) + 1, u, R, v)
      /\ r.free = [f EXCEPT ![0] = v] /\ r.alloc = [a EXCEPT ![0] = d2]
      /\ p \in Nat
  BY <1>3, <1>4 DEF Carves
<1>6. /\ MayCut(S, c, w) /\ p <= s /\ OnStep(c.chunk + p, w) /\ OnStep(c.chunk + p + s, w)
  BY <1>5 DEF Cuttable
<1>7. c \in F /\ c \in S /\ c \notin A
  <2>1. c \in F
    BY <1>1, InRange
  <2> QED
    BY <1>1, <2>1
<1> HIDE DEF c, t, d, o, d2
<1>8. /\ c.chunk \in Nat /\ c.size \in Nat /\ End(c) = c.chunk + c.size /\ c.chunk + p + s <= End(c)
  <2> HIDE DEF S
  <2>1. c.chunk \in Nat /\ c.size \in Nat /\ End(c) = c.chunk + c.size
    BY <1>1, <1>7, SoundNumbers
  <2> QED
    BY <1>5, <2>1
<1> DEFINE T == (S \ {c}) \cup L \cup R \cup {b}
<1>9. Carving(S, s, w, c, p, L, m, R, b, T)
  BY <1>1, <1>5, <1>6, <1>7, <1>8 DEF Carving
<1> HIDE DEF T
<1>0. /\ b.chunk = c.chunk + p /\ PartOfChunk(b, c) /\ b \notin L \cup R
      /\ \A x \in L : PartOfChunk(x, c) /\ x.chunk = c.chunk /\ End(x) = b.chunk
      /\ \A x \in R : PartOfChunk(x, c) /\ x.chunk = End(b) /\ End(x) = End(c)
  BY <1>9, Carved
<1>10. ASSUME NEW x, PartOfChunk(x, c)
       PROVE  /\ Plain(x) /\ \A z \in S : z # c => z.chunk # x.chunk
              /\ x.chunk \in Nat /\ End(x) \in Nat /\ x.chunk < End(x)
  <2> HIDE DEF S, F, A
  <2>1. Plain(x) /\ c.chunk <= x.chunk /\ End(x) <= End(c)
    BY <1>10 DEF PartOfChunk
  <2>2. /\ \A z \in S : z # c => Off(z, x)
        /\ x.chunk \in Nat /\ x.size \in Nat /\ End(x) = x.chunk + x.size /\ x.chunk < End(x)
    BY <1>1, <1>7, <2>1, PartIsNew
  <2>3. \A z \in S : z.chunk \in Nat /\ End(z) \in Nat /\ z.chunk < End(z)
    BY <1>1, SoundNumbers
  <2> QED
    BY <2>1, <2>2, <2>3 DEF Off
<1>11. Neat(o) /\ Range(o) = F \ {c} /\ Len(o) = Len(t) - 1
  <2>1. /\ Sorted(o) /\ Range(o) = F \ {c} /\ Len(o) = Len(t) - 1
    BY <1>1, RemovedSorted DEF o, c
  <2>2. \A x \in F : Plain(x)
    BY <1>1, NeatIs
  <2> HIDE DEF F
  <2> QED
    BY <2>1, <2>2, NeatOf
<1>12. /\ Neat(u) /\ Range(u) \subseteq (F \ {c}) \cup L
       /\ Len(t) < FreeCapacity => Range(u) = (F \ {c}) \cup L
       /\ Len(u) <= Len(t)
  <2>1. \A x \in L : Plain(x) /\ \A e \in Range(o) : e.chunk # x.chunk
    BY <1>0, <1>10, <1>11
  <2> HIDE DEF F, S, A
  <2>2. /\ Neat(u) /\ Range(u) \subseteq Range(o) \cup L
        /\ Len(t) < FreeCapacity /\ Len(o) < FreeCapacity => Range(u) = Range(o) \cup L
        /\ Len(u) <= Len(o) + 1
    BY <1>1, <1>5, <1>11, <2>1, PutNeat
  <2>3. Len(u) \in Nat
    BY <2>2, NeatIs, EntryFields
  <2> QED
    BY <1>1, <1>11, <2>2, <2>3
<1>13. /\ Neat(v) /\ Range(v) \subseteq (F \ {c}) \cup L \cup R
       /\ Len(t) + 1 < FreeCapacity => Range(v) = (F \ {c}) \cup L \cup R
  <2>1. \A x \in R : Plain(x) /\ \A e \in Range(u) : e.chunk # x.chunk
    <3> SUFFICES ASSUME NEW x \in R, NEW e \in Range(u) PROVE Plain(x) /\ e.chunk # x.chunk
      BY <1>0, <1>10
    <3>1. Plain(x) /\ PartOfChunk(x, c) /\ x.chunk = End(b)
      BY <1>0, <1>10
    <3>2. CASE e \in F \ {c}
      BY <1>10, <3>1, <3>2
    <3>3. CASE e \in L
      <4>1. e.chunk = c.chunk /\ End(e) = b.chunk /\ e.chunk \in Nat /\ e.chunk < End(e)
        BY <1>0, <1>10, <3>3
      <4>2. b.chunk \in Nat /\ End(b) \in Nat /\ b.chunk < End(b)
        BY <1>0, <1>10
      <4> QED
        BY <3>1, <4>1, <4>2
    <3> QED
      BY <1>12, <3>2, <3>3
  <2> DEFINE n == Len(t) + 1
  <2>2. n \in Nat /\ Put(n, u, R, v)
    BY <1>1, <1>5
  <2> HIDE DEF F, S, A, n
  <2>3. /\ Neat(v) /\ Range(v) \subseteq Range(u) \cup R
        /\ n < FreeCapacity /\ Len(u) < FreeCapacity => Range(v) = Range(u) \cup R
    BY <1>12, <2>1, <2>2, PutNeat
  <2>4. Len(u) \in Nat
    BY <1>12, NeatIs, EntryFields
  <2>5. Len(t) + 1 < FreeCapacity => Len(t) < FreeCapacity /\ Len(u) < FreeCapacity
    BY <1>1, <1>12, <2>4
  <2> QED
    BY <1>12, <2>3, <2>5 DEF n
<1>14. /\ Neat(d2) /\ Range(d2) \subseteq A \cup {b}
       /\ Len(d) < AllocCapacity => Range(d2) = A \cup {b}
  <2>1. Plain(b) /\ b.data = b.chunk /\ \A z \in A : z.chunk # b.chunk
    <3>1. Plain(b) /\ \A z \in S : z # c => z.chunk # b.chunk
      BY <1>0, <1>10
    <3> QED
      BY <1>7, <3>1 DEF Plain
  <2>2. \A x \in A : Plain(x)
    BY <1>1, NeatIs
  <2>3. \A k \in 1..Len(d) : d[k].data # b.data
    <3> SUFFICES ASSUME NEW k \in 1..Len(d) PROVE d[k].data # b.data
      OBVIOUS
    <3>1. d[k] \in A
      BY <1>1, InRange
    <3> HIDE DEF A, S
    <3> QED
      BY <2>1, <2>2, <3>1 DEF Plain
  <2> HIDE DEF A, F, S
  <2>4. /\ Sorted(d2)
        /\ Range(d2) = IF Len(d) >= AllocCapacity THEN Range(d) ELSE Range(d) \cup {b}
    BY <1>1, <1>5, <2>3, AddedSorted DEF d2
  <2>5. Range(d2) \subseteq A \cup {b} /\ (Len(d) < AllocCapacity => Range(d2) = A \cup {b})
    BY <1>1, <2>4 DEF A
  <2>6. \A x \in Range(d2) : Plain(x)
    BY <2>1, <2>2, <2>5
  <2> QED
    BY <2>4, <2>5, <2>6, NeatOf
<1> DEFINE F2 == Range(v)
           A2 == Range(d2)
<1>15. /\ Sound(F2 \cup A2, s, w) /\ F2 \cap A2 = {}
       /\ HandsOut(F, A, F2, A2, b.chunk, b.chunk + s)
       /\ HeapStart <= b.chunk /\ b.chunk + s <= HeapEnd
       /\ Loose(F) => Loose(F2)
       /\ NoneLost(F, A, F2, A2, c, L, R, b) /\ Covered(S) => Covered(F2 \cup A2)
  <2>1. Follows(S, F, A, F2, A2, c, L, R, b)
    BY <1>1, <1>7, <1>13, <1>14 DEF Follows
  <2> HIDE DEF F2, A2, F, A, S
  <2>2. Sound(F2 \cup A2, s, w) /\ F2 \cap A2 = {}
    BY <1>9, <2>1, CarvedSets
  <2>3. HandsOut(F, A, F2, A2, b.chunk, b.chunk + s)
    BY <1>9, <2>1, CarvedSets
  <2>4. HeapStart <= b.chunk /\ b.chunk + s <= HeapEnd
    BY <1>9, <2>1, CarvedSets
  <2>5. Loose(F) => Loose(F2)
    BY <1>9, <2>1, CarvedSets
  <2>6. NoneLost(F, A, F2, A2, c, L, R, b) /\ Covered(S) => Covered(F2 \cup A2)
    BY <1>9, <2>1, CarvedSets
  <2> QED
    BY <2>2, <2>3, <2>4, <2>5, <2>6
<1>16. r.ptr = b.chunk
  BY <1>5, <1>0
<1>17. HeapLaid(v, d2, s, w)
  <2>1. \A x \in Range(d2) : s <= x.size
    BY <1>1, <1>5, <1>14
  <2>2. Swept(v, Range(d2), s, w)
    BY <1>13, <1>15 DEF Swept
  <2> QED
    BY <1>14, <2>1, <2>2 DEF HeapLaid
<1>18. HeapGives(t, d, v, d2, s, w, align, r)
  <2>1. Covered(F \cup A) /\ Len(t) + 1 < FreeCapacity /\ Len(d) < AllocCapacity => Covered(F2 \cup A2)
    BY <1>13, <1>14, <1>15 DEF NoneLost
  <2>2. b \in Entries /\ b.align = align /\ b.chunk = r.ptr /\ b.size < s + SplitCutoff /\ A2 \subseteq A \cup {b}
    BY <1>5, <1>14, <1>16
  <2>3. /\ HandsOut(F, A, F2, A2, r.ptr, r.ptr + s)
        /\ HeapStart <= r.ptr /\ r.ptr + s <= HeapEnd
        /\ Loose(F) => Loose(F2)
    BY <1>15, <1>16
  <2> QED
    BY <1>17, <2>1, <2>2, <2>3 DEF HeapGives
<1> QED
  BY <1>5, <1>18 DEF t, d

\* What heap_free makes of the tables t and d of the heap when it takes the block e back: t2
\* and d2.
HeapTakes(t, d, t2, d2, s, w, e) ==
  /\ HeapLaid(t2, d2, s, w) /\ Loose(Range(t2)) /\ Range(d2) = Range(d) \ {e}
  /\ Covered(Range(t) \cup Range(d)) /\ Len(t) < FreeCapacity => Covered(Range(t2) \cup Range(d2))
  /\ \A m, n \in Nat : m < n /\ m # e.chunk /\ Guarded(Range(t), Range(d), m, n) =>
       Guarded(Range(t2), Range(d2), m, n)

\* heap_free gives its chunk back, and joins what touches it.
LEMMA HeapTakesBack ==
  ASSUME NEW s \in Nat, NEW w, NEW t, NEW d, HeapLaid(t, d, s, w), NEW i \in 1..Len(d),
         NEW g, g = Added(t, d[i], FreeCapacity), NEW t2, t2 = Defragmented(g),
         NEW d2, d2 = RemoveAt(d, i)
  PROVE  HeapTakes(t, d, t2, d2, s, w, d[i])
<1> DEFINE F == Range(t)
           A == Range(d)
           S == F \cup A
           e == d[i]
           A2 == Range(d2)
<1>1. /\ Neat(t) /\ Sound(S, s, w) /\ F \cap A = {} /\ Neat(d) /\ \A x \in A : s <= x.size
      /\ t \in Seq(Entries) /\ Len(t) \in Nat /\ Sorted(t) /\ d \in Seq(Entries) /\ Len(d) \in Nat /\ Sorted(d)
      /\ FreeCapacity \in Nat
  <2>1. Neat(t) /\ Neat(d)
    BY DEF HeapLaid, Swept
  <2>2. Sound(S, s, w) /\ F \cap A = {} /\ \A x \in A : s <= x.size
    BY DEF HeapLaid, Swept
  <2> HIDE DEF F, A, S
  <2> QED
    BY <2>1, <2>2, NeatIs, EntryFields, BinsAssumption
<1>2. e \in A /\ Plain(e) /\ e \in Entries
  <2>1. e \in A
    BY <1>1, InRange
  <2>2. \A x \in A : Plain(x)
    BY <1>1, NeatIs
  <2> QED
    BY <2>1, <2>2 DEF Plain
<1>3. Neat(d2) /\ A2 = A \ {e}
  <2>1. Sorted(d2) /\ A2 = A \ {e}
    BY <1>1, RemovedSorted
  <2>2. \A x \in A : Plain(x)
    BY <1>1, NeatIs
  <2> HIDE DEF A, e
  <2>3. \A x \in A2 : Plain(x)
    BY <2>1, <2>2
  <2> QED
    BY <2>1, <2>3, NeatOf
<1>4. \A x \in F : x.chunk # e.chunk
  <2> SUFFICES ASSUME NEW x \in F PROVE x.chunk # e.chunk
    OBVIOUS
  <2>1. x \in S /\ e \in S /\ x # e
    BY <1>1, <1>2
  <2> HIDE DEF S, e, F, A
  <2>2. Off(x, e)
    BY <1>1, <2>1 DEF Sound
  <2>3. /\ x.chunk \in Nat /\ End(x) \in Nat /\ x.chunk < End(x)
        /\ e.chunk \in Nat /\ End(e) \in Nat /\ e.chunk < End(e)
    BY <1>1, <2>1, SoundNumbers
  <2> QED
    BY <2>2, <2>3 DEF Off
<1>5. /\ Neat(g) /\ Range(g) \subseteq F \cup {e} /\ (Len(t) < FreeCapacity => Range(g) = F \cup {e})
  <2> DEFINE X == {e}
  <2>1. Put(Len(t), t, X, g)
    BY <1>2 DEF Put
  <2>2. \A x \in X : Plain(x) /\ \A z \in Range(t) : z.chunk # x.chunk
    BY <1>2, <1>4
  <2> HIDE DEF X, e, F, A, S
  <2>3. /\ Neat(g) /\ Range(g) \subseteq Range(t) \cup X
        /\ Len(t) < FreeCapacity /\ Len(t) < FreeCapacity => Range(g) = Range(t) \cup X
    BY <1>1, <2>1, <2>2, PutNeat
  <2> QED
    BY <2>3 DEF X, F
<1> HIDE DEF e, F, A, A2, S
<1> DEFINE G == Range(g)
<1>6. Swept(g, A2, s, w)
  <2>1. G \cup A2 \subseteq S
    BY <1>2, <1>3, <1>5 DEF S
  <2> DEFINE U == G \cup A2
  <2>2. Sound(U, s, w)
    <3>1. U \subseteq S
      BY <2>1
    <3> HIDE DEF U
    <3> QED
      BY <1>1, <3>1, FewerSound
  <2>3. G \cap A2 = {}
    BY <1>1, <1>3, <1>5
  <2> QED
    BY <1>5, <2>2, <2>3 DEF Swept
<1>7. Merges(g, t2, A2, s, w) /\ Loose(Range(t2))
  BY <1>6, DefragmentedSwept
<1>8. HeapLaid(t2, d2, s, w)
  <2>1. Swept(t2, A2, s, w)
    BY <1>7 DEF Merges
  <2>2. \A x \in A2 : s <= x.size
    BY <1>1, <1>3
  <2> QED
    BY <1>3, <2>1, <2>2 DEF HeapLaid, A2
<1>9. ASSUME Covered(S), Len(t) < FreeCapacity
      PROVE  Covered(Range(t2) \cup A2)
  <2>1. G \cup A2 = S
    BY <1>2, <1>3, <1>5, <1>9 DEF S
  <2> QED
    BY <1>7, <1>9, <2>1 DEF Merges
<1>10. ASSUME NEW m \in Nat, NEW n \in Nat, m < n, m # e.chunk, Guarded(F, A, m, n)
       PROVE  Guarded(Range(t2), A2, m, n)
  <2> DEFINE F2 == Range(t2)
  <2>1. ASSUME NEW l \in Nat, NEW h \in Nat, l < h, OffArea(F \cup {e}, l, h)
        PROVE  OffArea(F2, l, h)
    <3>1. OffArea(G, l, h)
      BY <1>5, <2>1 DEF OffArea
    <3> QED
      BY <1>7, <2>1, <3>1 DEF Merges
  <2>2. e \in A /\ A2 \subseteq A /\ \A l, h \in Nat : l < h /\ OffArea(F \cup {e}, l, h) => OffArea(F2, l, h)
    BY <1>2, <1>3, <2>1
  <2> HIDE DEF F2
  <2>3. Guarded(F2, A2, m, n)
    BY <1>10, <2>2, GivenBack
  <2> QED
    BY <2>3 DEF F2
<1> QED
  BY <1>3, <1>7, <1>8, <1>9, <1>10 DEF S, F, A, A2, e, HeapTakes

-----------------------------------------------------------------------------
(* Where the arenas lie                                                     *)

\* The addresses of an arena.
Lo(k) == IF k = 0 THEN HeapStart ELSE BinStart[k]

\* Where it ends.
Hi(k) == IF k = 0 THEN HeapEnd ELSE BinEnd(k)

\* Where one arena ends the next one starts, aligned.
LEMMA ArenaLies ==
  /\ \A k \in Arena : /\ Lo(k) \in Nat /\ Hi(k) \in Nat /\ Lo(k) <= Hi(k) /\ Hi(k) <= LastAddress + 1
                      /\ k # 0 => /\ k - 1 \in Arena /\ Hi(k - 1) <= Lo(k)
                                  /\ Lo(k) \in Multiples(MaxAlignment)
  /\ \A k \in 1..Len(Bins) : Lo(k) = BinStart[k] /\ Hi(k) = BinStart[k] + Bins[k].size * Bins[k].count
<1> DEFINE n == Len(Bins)
           w == MaxAlignment
<1>1. w \in Nat \ {0} /\ n \in Nat
  BY HeapAssumption, ArenaIs
<1>2. HeapStart \in Nat /\ HeapEnd \in Nat /\ HeapStart < HeapEnd /\ HeapEnd - 1 <= LastAddress /\ LastAddress \in Nat
  BY HeapLies, Sizes
<1>3. \A k \in 1..n : /\ BinStart[k] \in Nat
                      /\ BinStart[k] = AlignUp(IF k = 1 THEN HeapEnd
                                               ELSE BinStart[k - 1] + Bins[k - 1].size * Bins[k - 1].count, w)
  BY BinStarts DEF Starts
<1>4. \A k \in 1..n : BinEnd(k) - 1 <= LastAddress
  BY MemoryAssumption
<1>5. \A k \in 1..n : Bins[k].size * Bins[k].count \in Nat
  <2>1. \A x, y \in Nat : x * y \in Nat
    OBVIOUS
  <2> QED
    BY <2>1, ArenaIs
<1>6. ASSUME NEW k \in 1..n
      PROVE  /\ Lo(k) = BinStart[k] /\ Hi(k) = BinStart[k] + Bins[k].size * Bins[k].count
             /\ Lo(k) \in Nat /\ Hi(k) \in Nat /\ Lo(k) <= Hi(k) /\ Hi(k) <= LastAddress + 1
  <2> DEFINE d == Bins[k].size * Bins[k].count
             b == BinStart[k]
  <2>1. d \in Nat /\ b \in Nat
    BY <1>3, <1>5
  <2>2. k # 0
    OBVIOUS
  <2>3. Lo(k) = b /\ Hi(k) = b + d /\ b + d - 1 <= LastAddress
    <3>1. BinEnd(k) = b + d
      BY DEF BinEnd
    <3>2. Lo(k) = b /\ Hi(k) = BinEnd(k)
      BY <2>2 DEF Lo, Hi
    <3> HIDE DEF b, d
    <3> QED
      BY <1>4, <2>1, <3>1, <3>2
  <2> HIDE DEF b, d
  <2>4. Lo(k) \in Nat /\ Hi(k) \in Nat /\ Lo(k) <= Hi(k) /\ Hi(k) <= LastAddress + 1
    BY <1>2, <2>1, <2>3
  <2> QED
    BY <2>3, <2>4 DEF b, d
<1>7. Lo(0) = HeapStart /\ Hi(0) = HeapEnd
  BY DEF Lo, Hi
<1>8. ASSUME NEW k \in 1..n
      PROVE  k - 1 \in 0..n /\ Hi(k - 1) <= Lo(k) /\ Lo(k) \in Multiples(w)
  <2>1. k - 1 \in 0..n
    BY <1>1
  <2> DEFINE h == Hi(k - 1)
             u == AlignUp(h, w)
  <2>2. h \in Nat /\ Lo(k) = u
    <3>1. CASE k = 1
      BY <1>2, <1>3, <1>6, <1>7, <3>1
    <3>2. CASE k # 1
      <4>1. k - 1 \in 1..n
        BY <1>1, <3>2
      <4>2. h \in Nat /\ h = BinStart[k - 1] + Bins[k - 1].size * Bins[k - 1].count
        BY <1>6, <4>1
      <4> HIDE DEF h
      <4> QED
        BY <1>3, <1>6, <3>2, <4>2
    <3> QED
      BY <3>1, <3>2
  <2> HIDE DEF h, w
  <2>3. u \in Nat /\ h <= u /\ u \in Multiples(w)
    BY <1>1, <2>2, AlignUpIs, AlignedIs
  <2> QED
    BY <2>1, <2>2, <2>3 DEF h
<1> QED
  BY <1>1, <1>2, <1>6, <1>7, <1>8 DEF Arena

\* Of two arenas, one lies behind the other.
LEMMA ArenasApart ==
  /\ \A j, k \in Arena : j < k => Hi(j) <= Lo(k)
  /\ \A k \in Arena : HeapStart <= Lo(k)
<1>1. ASSUME NEW j \in Arena, NEW k \in Arena, j < k
      PROVE  Hi(j) <= Lo(k)
  <2> DEFINE S == {h \in Arena : j < h /\ ~ (Hi(j) <= Lo(h))}
  <2> SUFFICES S = {}
    BY <1>1
  <2> SUFFICES ASSUME S # {} PROVE FALSE
    OBVIOUS
  <2>1. S \in SUBSET Nat
    BY ArenaIs DEF Arena
  <2> HIDE DEF S
  <2>2. PICK h \in S : \A i \in S : h <= i
    BY <2>1, FirstOf
  <2>3. h \in Arena /\ j < h /\ ~ (Hi(j) <= Lo(h)) /\ h \in Nat /\ j \in Nat
    BY <2>1, ArenaIs DEF S, Arena
  <2>4. h - 1 \in Arena /\ Hi(h - 1) <= Lo(h)
    BY <2>3, ArenaLies
  <2>5. /\ Hi(j) \in Nat /\ Lo(h) \in Nat /\ Hi(h - 1) \in Nat /\ Lo(h - 1) \in Nat
        /\ Lo(h - 1) <= Hi(h - 1)
    BY <2>3, <2>4, ArenaLies
  <2>6. h - 1 # j
    BY <2>3, <2>4
  <2>7. h - 1 \notin S
    BY <2>2, <2>3
  <2>8. Hi(j) <= Lo(h - 1)
    BY <2>3, <2>4, <2>6, <2>7 DEF S
  <2> QED
    BY <2>3, <2>4, <2>5, <2>8
<1>2. ASSUME NEW k \in Arena
      PROVE  HeapStart <= Lo(k)
  <2>1. CASE k = 0
    BY <2>1, HeapLies DEF Lo
  <2>2. CASE k # 0
    <3>1. 0 \in Arena /\ 0 < k
      BY <2>2, ArenaIs DEF Arena
    <3>2. Hi(0) <= Lo(k)
      BY <1>1, <3>1
    <3>3. Hi(0) = HeapEnd /\ Lo(k) \in Nat
      BY ArenaLies DEF Hi
    <3> QED
      BY <3>2, <3>3, HeapLies
  <2> QED
    BY <2>1, <2>2
<1> QED
  BY <1>1, <1>2

-----------------------------------------------------------------------------
(* The slots of a bin                                                       *)

\* A table with one chunk more, and with one less.
LEMMA AddedNeat ==
  ASSUME NEW t, Neat(t), NEW e, Plain(e), \A x \in Range(t) : x.chunk # e.chunk, NEW n \in Nat, ~ (Len(t) >= n)
  PROVE  Neat(Added(t, e, n)) /\ Range(Added(t, e, n)) = Range(t) \cup {e}
<1>1. Sorted(t) /\ t \in Seq(Entries) /\ \A x \in Range(t) : Plain(x)
  BY NeatIs
<1>2. e \in Entries /\ e.data = e.chunk
  BY DEF Plain
<1>3. \A i \in 1..Len(t) : t[i].data # e.data
  <2> SUFFICES ASSUME NEW i \in 1..Len(t) PROVE t[i].data # e.data
    OBVIOUS
  <2>1. t[i] \in Range(t)
    BY <1>1, InRange
  <2>2. Plain(t[i]) /\ t[i].chunk # e.chunk
    BY <1>1, <2>1
  <2> QED
    BY <1>2, <2>2 DEF Plain
<1>4. /\ Sorted(Added(t, e, n))
      /\ Range(Added(t, e, n)) = IF Len(t) >= n THEN Range(t) ELSE Range(t) \cup {e}
  BY <1>1, <1>2, <1>3, AddedSorted
<1>5. Range(Added(t, e, n)) = Range(t) \cup {e}
  BY <1>4
<1>6. \A x \in Range(Added(t, e, n)) : Plain(x)
  BY <1>1, <1>5
<1> DEFINE u == Added(t, e, n)
<1>7. Sorted(u) /\ \A x \in Range(u) : Plain(x)
  BY <1>4, <1>6
<1> HIDE DEF u
<1>8. Neat(u)
  BY <1>7, NeatOf
<1> QED
  BY <1>5, <1>8 DEF u

\* Without one of its entries.
LEMMA RemovedNeat ==
  ASSUME NEW t, Neat(t), NEW i \in 1..Len(t)
  PROVE  Neat(RemoveAt(t, i)) /\ Range(RemoveAt(t, i)) = Range(t) \ {t[i]}
<1>1. Sorted(t) /\ \A x \in Range(t) : Plain(x)
  BY NeatIs
<1> DEFINE u == RemoveAt(t, i)
<1>2. Sorted(u) /\ Range(u) = Range(t) \ {t[i]}
  BY <1>1, RemovedSorted
<1>3. \A x \in Range(u) : Plain(x)
  BY <1>1, <1>2
<1> HIDE DEF u
<1>4. Neat(u)
  BY <1>2, <1>3, NeatOf
<1> QED
  BY <1>2, <1>4 DEF u

\* A slot of the bin k.
IsSlot(x, k) ==
  /\ Plain(x) /\ x.size = Bins[k].size /\ Lo(k) <= x.chunk /\ End(x) <= Hi(k)
  /\ x.chunk - Lo(k) \in Multiples(Bins[k].size)

\* Slots in disjoint sets, free and allocated, that do not overlap.
SlotsLie(F, A, k) ==
  /\ F \cap A = {} /\ \A x \in F \cup A : IsSlot(x, k)
  /\ \A x, y \in F \cup A : x # y => Off(x, y)

\* The tables of the bin k.
BinLaid(t, u, k) == Neat(t) /\ Neat(u) /\ SlotsLie(Range(t), Range(u), k)

\* The numbers of a slot.
LEMMA SlotNumbers ==
  ASSUME NEW k \in Arena, k # 0, NEW x, IsSlot(x, k)
  PROVE  /\ x \in Entries /\ x.chunk \in Nat /\ x.data = x.chunk /\ x.prev \in Nat /\ x.size \in Nat
         /\ End(x) \in Nat /\ End(x) = x.chunk + x.size /\ x.chunk < End(x)
         /\ x.prev < x.chunk
<1>1. Plain(x) /\ x \in Entries /\ x.data = x.chunk /\ x.size # 0 /\ x.prev < x.chunk
  BY DEF IsSlot, Plain
<1> QED
  BY <1>1, Numbers

\* Slots do not overlap, so no two start at one address.
LEMMA SlotsDiffer ==
  ASSUME NEW k \in Arena, k # 0, NEW F, NEW A, SlotsLie(F, A, k), NEW x \in F \cup A, NEW y \in F \cup A, x # y
  PROVE  x.chunk # y.chunk
<1>1. IsSlot(x, k) /\ IsSlot(y, k) /\ Off(x, y)
  BY DEF SlotsLie
<1>2. /\ x.chunk \in Nat /\ End(x) \in Nat /\ x.chunk < End(x)
      /\ y.chunk \in Nat /\ End(y) \in Nat /\ y.chunk < End(y)
  BY <1>1, SlotNumbers
<1> QED
  BY <1>1, <1>2 DEF Off

\* A free slot is handed out.
LEMMA SlotTaken ==
  ASSUME NEW k \in Arena, k # 0, NEW F, NEW A, SlotsLie(F, A, k), NEW c \in F,
         NEW b, IsSlot(b, k), b.chunk = c.chunk,
         NEW n \in Nat \ {0}, n <= Bins[k].size
  PROVE  /\ SlotsLie(F \ {c}, A \cup {b}, k)
         /\ HandsOut(F, A, F \ {c}, A \cup {b}, b.chunk, b.chunk + n)
<1> DEFINE F2 == F \ {c}
           A2 == A \cup {b}
           P == {}
<1>1. \A x \in F \cup A : /\ x.chunk \in Nat /\ End(x) \in Nat /\ x.chunk < End(x)
                          /\ End(x) = x.chunk + Bins[k].size
  <2> SUFFICES ASSUME NEW x \in F \cup A
               PROVE  /\ x.chunk \in Nat /\ End(x) \in Nat /\ x.chunk < End(x)
                      /\ End(x) = x.chunk + Bins[k].size
    OBVIOUS
  <2>1. IsSlot(x, k) /\ x.size = Bins[k].size
    BY DEF SlotsLie, IsSlot
  <2> QED
    BY <2>1, SlotNumbers
<1>2. b.chunk \in Nat /\ End(b) = b.chunk + Bins[k].size /\ End(b) \in Nat /\ b.chunk < End(b) /\ Bins[k].size \in Nat
  <2>1. b.size = Bins[k].size
    BY DEF IsSlot
  <2> QED
    BY <2>1, SlotNumbers
<1>3. c \notin A /\ \A x \in (F \cup A) \ {c} : Off(x, c)
  BY DEF SlotsLie
<1>4. End(b) = End(c) /\ c.chunk \in Nat
  BY <1>1, <1>2
<1>5. \A x \in (F \cup A) \ {c} : Off(x, b) /\ Off(b, x) /\ x # b
  <2> SUFFICES ASSUME NEW x \in (F \cup A) \ {c} PROVE Off(x, b) /\ Off(b, x) /\ x # b
    OBVIOUS
  <2>1. Off(x, c) /\ x.chunk \in Nat /\ End(x) \in Nat /\ x.chunk < End(x)
    BY <1>1, <1>3
  <2>2. Off(x, b) /\ Off(b, x)
    BY <1>4, <2>1 DEF Off
  <2> QED
    BY <1>2, <2>2 DEF Off
<1>6. SlotsLie(F2, A2, k)
  <2>1. F2 \cap A2 = {}
    BY <1>5 DEF SlotsLie
  <2>2. \A x \in F2 \cup A2 : IsSlot(x, k)
    BY DEF SlotsLie
  <2>3. \A x, y \in F2 \cup A2 : x # y => Off(x, y)
    BY <1>3, <1>5 DEF SlotsLie
  <2> QED
    BY <2>1, <2>2, <2>3 DEF SlotsLie
<1>7. HandsOut(F, A, F2, A2, b.chunk, b.chunk + n)
  <2>1. F2 \subseteq (F \ {c}) \cup P /\ A2 \subseteq A \cup {b}
    OBVIOUS
  <2>2. \A x \in F \cup A : x.chunk \in Nat /\ End(x) \in Nat /\ x.chunk < End(x)
    BY <1>1
  <2>3. \A x \in P : /\ x.chunk \in Nat /\ End(x) \in Nat
                     /\ c.chunk <= x.chunk /\ End(x) <= End(c) /\ Off(x, b)
    OBVIOUS
  <2>4. b.chunk \in Nat /\ End(b) \in Nat /\ c.chunk <= b.chunk /\ b.chunk + n <= End(b) /\ End(b) <= End(c)
    BY <1>2, <1>4
  <2> HIDE DEF P, F2, A2
  <2> QED
    BY <1>3, <2>1, <2>2, <2>3, <2>4, TakenOut
<1> QED
  BY <1>6, <1>7

\* The slots of a bin are aligned, so a block of it needs no padding if its size is.
LEMMA SlotAligned ==
  ASSUME NEW k \in Arena, k # 0, NEW c, IsSlot(c, k), NEW align \in Nat \ {0},
         MaxAlignment % align = 0, Bins[k].size % align = 0
  PROVE  PaddingAt(c.chunk, align) = 0
<1> DEFINE l == Lo(k)
           z == Bins[k].size
           x == c.chunk
           M == Multiples(align)
<1>1. z \in Nat \ {0} /\ l \in Nat /\ l \in Multiples(MaxAlignment) /\ MaxAlignment \in Nat \ {0} /\ x \in Nat
  <2>1. z \in Nat \ {0}
    BY ArenaIs
  <2>2. x \in Nat
    BY SlotNumbers
  <2> QED
    BY <2>1, <2>2, ArenaLies, HeapAssumption
<1>2. MaxAlignment \in M /\ z \in M
  <2> HIDE DEF z, M
  <2>1. z \in Nat /\ z % align = 0
    BY <1>1 DEF z
  <2>2. MaxAlignment \in Nat /\ MaxAlignment % align = 0
    BY <1>1
  <2> QED
    BY <2>1, <2>2, Divided DEF M
<1>3. x - l \in Multiples(z) /\ l <= x
  BY DEF IsSlot
<1> HIDE DEF l, z, x
<1>4. l \in M
  BY <1>1, <1>2, MultiplesOf
<1>5. x - l \in M
  <2> DEFINE d == x - l
  <2>1. d \in Multiples(z)
    BY <1>3
  <2> HIDE DEF d
  <2>2. d \in M
    BY <1>2, <2>1, MultiplesOf
  <2> QED
    BY <2>2 DEF d
<1>6. x \in M
  <2> DEFINE d == x - l
  <2>1. d \in M
    BY <1>5
  <2>2. l + d = x
    BY <1>1, <1>3
  <2> HIDE DEF d, M
  <2>3. l + d \in M
    BY <1>4, <2>1, MultiplesAre DEF M
  <2> QED
    BY <2>2, <2>3
<1>7. PaddingAt(x, align) = 0
  BY <1>1, <1>6, AlignedIs
<1> QED
  BY <1>7 DEF x

\* What a heap_alloc of n bytes with the result r makes of the tables t and u of the bin k.
BinGives(t, u, t2, u2, k, n, r) ==
  /\ BinLaid(t2, u2, k)
  /\ HandsOut(Range(t), Range(u), Range(t2), Range(u2), r.ptr, r.ptr + n)
  /\ Lo(k) <= r.ptr /\ r.ptr + n <= Hi(k)

\* heap_alloc from a bin.
LEMMA BinHands ==
  ASSUME NEW k \in Arena, k # 0, NEW f, NEW a, BinLaid(f[k], a[k], k), NEW align \in Nat \ {0},
         MaxAlignment % align = 0, Bins[k].size % align = 0,
         NEW r, r = AllocBin(f, a, k, align), r.ptr # Null, NEW n \in Nat \ {0}, n <= Bins[k].size
  PROVE  \E t2, u2 : /\ r.free = [f EXCEPT ![k] = t2] /\ r.alloc = [a EXCEPT ![k] = u2]
                     /\ BinGives(f[k], a[k], t2, u2, k, n, r)
<1> DEFINE t == f[k]
           d == a[k]
           e == t[1]
           padding == PaddingAt(e.chunk, align)
           size == Bins[k].size
           block == Entry(e.chunk, e.chunk + padding, e.prev, size, size - padding, align)
           t2 == Tail(t)
           d2 == Added(d, block, Bins[k].count)
<1>1. /\ k \in 1..Len(Bins) /\ size \in Nat \ {0} /\ Bins[k].count \in Nat
      /\ Capacity(k).alloc = Bins[k].count
  BY ArenaIs DEF Capacity
<1>2. r = IF \/ t = <<>> \/ block.data + block.size > BinEnd(k) \/ Len(d) >= Capacity(k).alloc
          THEN Tables(Null, f, a)
          ELSE Tables(block.data, [f EXCEPT ![k] = t2], [a EXCEPT ![k] = Added(d, block, Capacity(k).alloc)])
  BY DEF AllocBin
<1> HIDE DEF block, t2, d2
<1>3. /\ t # <<>> /\ ~ (Len(d) >= Bins[k].count)
      /\ r.ptr = block.data /\ r.free = [f EXCEPT ![k] = t2] /\ r.alloc = [a EXCEPT ![k] = d2]
  <2> HIDE DEF t, d
  <2>1. ~ (\/ t = <<>> \/ block.data + block.size > BinEnd(k) \/ Len(d) >= Capacity(k).alloc)
    BY <1>2 DEF Tables
  <2> QED
    BY <1>1, <1>2, <2>1 DEF Tables, d2
<1> DEFINE F == Range(t)
           A == Range(d)
<1>4. /\ Neat(t) /\ Neat(d) /\ SlotsLie(F, A, k)
      /\ t \in Seq(Entries) /\ Len(t) \in Nat /\ d \in Seq(Entries)
  <2>1. Neat(t) /\ Neat(d) /\ SlotsLie(F, A, k)
    BY DEF BinLaid
  <2> HIDE DEF t, d, F, A
  <2> QED
    BY <2>1, NeatIs, EntryFields
<1>5. 1 \in 1..Len(t) /\ t2 = RemoveAt(t, 1)
  BY <1>3, <1>4, TailIs DEF t2
<1>6. e \in F /\ IsSlot(e, k)
  <2> DEFINE one == 1
  <2>1. one \in 1..Len(t)
    BY <1>5
  <2>2. e = t[one]
    OBVIOUS
  <2> HIDE DEF one, e, t
  <2>3. e \in Range(t)
    BY <1>4, <2>1, <2>2, InRange
  <2> QED
    BY <1>4, <2>3 DEF SlotsLie
<1>7. /\ e \in Entries /\ e.chunk \in Nat /\ e.prev \in Nat /\ e.prev < e.chunk /\ End(e) = e.chunk + size
      /\ e.size = size
  <2> HIDE DEF e
  <2>1. e.size = size
    BY <1>6 DEF IsSlot
  <2> QED
    BY <1>6, <2>1, SlotNumbers
<1>8. padding = 0
  <2> HIDE DEF e
  <2> QED
    BY <1>6, SlotAligned
<1>9. Neat(t2) /\ Range(t2) = F \ {e}
  <2> DEFINE one == 1
  <2>1. one \in 1..Len(t) /\ t2 = RemoveAt(t, one) /\ e = t[one]
    BY <1>5
  <2> HIDE DEF one, t, e
  <2>2. Neat(t2) /\ Range(t2) = Range(t) \ {e}
    BY <1>4, <2>1, RemovedNeat
  <2> QED
    BY <2>2
<1> HIDE DEF padding, size, t, d, e
<1>10. /\ block \in Entries /\ block.chunk = e.chunk /\ block.data = e.chunk /\ block.prev = e.prev
       /\ block.size = size /\ End(block) = End(e)
  <2>1. align \in Nat /\ size - padding \in Int /\ e.chunk + padding = e.chunk
    BY <1>1, <1>7, <1>8 DEF size
  <2> QED
    BY <1>1, <1>7, <2>1 DEF block, Entry, Entries, End, size
<1>11. IsSlot(block, k)
  <2>1. Plain(block)
    BY <1>1, <1>7, <1>10 DEF Plain, size
  <2>2. Lo(k) <= e.chunk /\ End(e) <= Hi(k) /\ e.chunk - Lo(k) \in Multiples(size)
    BY <1>6 DEF IsSlot, size
  <2> QED
    BY <1>10, <2>1, <2>2 DEF IsSlot, size
<1>12. /\ SlotsLie(F \ {e}, A \cup {block}, k)
       /\ HandsOut(F, A, F \ {e}, A \cup {block}, block.chunk, block.chunk + n)
  <2> HIDE DEF F, A
  <2> QED
    BY <1>4, <1>6, <1>10, <1>11, SlotTaken
<1>13. Neat(d2) /\ Range(d2) = A \cup {block}
  <2>1. \A x \in A : x.chunk # block.chunk
    <3> SUFFICES ASSUME NEW x \in A PROVE x.chunk # block.chunk
      OBVIOUS
    <3>1. x # e /\ x \in F \cup A /\ e \in F \cup A
      BY <1>4, <1>6 DEF SlotsLie
    <3> HIDE DEF F, A
    <3> QED
      BY <1>4, <1>10, <3>1, SlotsDiffer
  <2>2. Plain(block) /\ Bins[k].count \in Nat
    BY <1>1, <1>11 DEF IsSlot
  <2> DEFINE m == Bins[k].count
  <2>3. m \in Nat /\ ~ (Len(d) >= m) /\ d2 = Added(d, block, m) /\ \A x \in Range(d) : x.chunk # block.chunk
    BY <1>3, <2>1, <2>2 DEF d2
  <2> HIDE DEF m
  <2>4. Neat(d2) /\ Range(d2) = Range(d) \cup {block}
    BY <1>4, <2>2, <2>3, AddedNeat
  <2> QED
    BY <2>4
<1>14. BinLaid(t2, d2, k)
  BY <1>9, <1>12, <1>13 DEF BinLaid
<1>15. Lo(k) <= r.ptr /\ r.ptr + n <= Hi(k) /\ r.ptr = block.chunk
  <2>1. Lo(k) <= e.chunk /\ End(e) <= Hi(k)
    BY <1>6 DEF IsSlot
  <2>2. Hi(k) \in Nat
    BY ArenaLies
  <2> QED
    BY <1>1, <1>3, <1>7, <1>10, <2>1, <2>2 DEF size
<1>16. BinGives(t, d, t2, d2, k, n, r)
  BY <1>9, <1>12, <1>13, <1>14, <1>15 DEF BinGives
<1> QED
  BY <1>3, <1>16 DEF t, d

\* What heap_free makes of the tables t and d of the bin k when it takes the block d[i] back.
LEMMA BinTakesBack ==
  ASSUME NEW k \in Arena, k # 0, NEW t, NEW d, BinLaid(t, d, k), NEW i \in 1..Len(d),
         ~ (Len(t) >= Bins[k].count),
         NEW t2, t2 = Added(t, d[i], Bins[k].count), NEW d2, d2 = RemoveAt(d, i)
  PROVE  /\ BinLaid(t2, d2, k)
         /\ \A m, n \in Nat : m < n /\ m # d[i].chunk /\ Guarded(Range(t), Range(d), m, n) =>
              Guarded(Range(t2), Range(d2), m, n)
<1> DEFINE e == d[i]
           F == Range(t)
           A == Range(d)
           F2 == Range(t2)
           A2 == Range(d2)
           z == Bins[k].count
<1>1. z \in Nat
  BY ArenaIs
<1>2. Neat(t) /\ Neat(d) /\ SlotsLie(F, A, k) /\ d \in Seq(Entries)
  <2>1. Neat(t) /\ Neat(d) /\ SlotsLie(F, A, k)
    BY DEF BinLaid
  <2> HIDE DEF F, A
  <2> QED
    BY <2>1, NeatIs
<1>3. e \in A
  BY <1>2, InRange
<1>4. IsSlot(e, k) /\ Plain(e)
  BY <1>2, <1>3 DEF SlotsLie, IsSlot
<1>5. Neat(d2) /\ A2 = A \ {e}
  BY <1>2, RemovedNeat
<1>6. Neat(t2) /\ F2 = F \cup {e}
  <2>1. \A x \in F : x.chunk # e.chunk
    <3> SUFFICES ASSUME NEW x \in F PROVE x.chunk # e.chunk
      OBVIOUS
    <3>1. x # e /\ x \in F \cup A /\ e \in F \cup A
      BY <1>2, <1>3 DEF SlotsLie
    <3> HIDE DEF F, A, e
    <3> QED
      BY <1>2, <3>1, SlotsDiffer
  <2>2. ~ (Len(t) >= z) /\ t2 = Added(t, e, z) /\ \A x \in Range(t) : x.chunk # e.chunk
    BY <2>1
  <2> HIDE DEF z, e
  <2>3. Neat(t2) /\ Range(t2) = Range(t) \cup {e}
    BY <1>1, <1>2, <1>4, <2>2, AddedNeat
  <2> QED
    BY <2>3
<1>7. BinLaid(t2, d2, k)
  <2>1. SlotsLie(F2, A2, k)
    <3> HIDE DEF F, A, F2, A2, e
    <3>1. F2 \cup A2 = F \cup A /\ F2 \cap A2 = {}
      BY <1>2, <1>3, <1>5, <1>6 DEF SlotsLie
    <3> QED
      BY <1>2, <3>1 DEF SlotsLie
  <2> QED
    BY <1>5, <1>6, <2>1 DEF BinLaid
<1>8. ASSUME NEW m \in Nat, NEW n \in Nat, m < n, m # e.chunk, Guarded(F, A, m, n)
      PROVE  Guarded(F2, A2, m, n)
  <2>1. A2 \subseteq A /\ \A l, h \in Nat : l < h /\ OffArea(F \cup {e}, l, h) => OffArea(F2, l, h)
    BY <1>5, <1>6
  <2> HIDE DEF F, A, F2, A2, e
  <2> QED
    BY <1>3, <1>8, <2>1, GivenBack
<1> QED
  BY <1>7, <1>8

-----------------------------------------------------------------------------
(* Before the first call                                                    *)

\* Multiples grow with their factor.
LEMMA TimesGrow ==
  ASSUME NEW z \in Nat
  PROVE  /\ \A x \in Nat : x * z \in Nat /\ (x + 1) * z = x * z + z
         /\ \A x, y \in Nat : x <= y => x * z <= y * z
<1>1. ASSUME NEW x \in Nat
      PROVE  x * z \in Nat /\ (x + 1) * z = x * z + z
  OBVIOUS
<1>2. ASSUME NEW x \in Nat, NEW y \in Nat, x <= y
      PROVE  x * z <= y * z
  <2> DEFINE d == y - x
  <2>1. d \in Nat /\ y = x + d
    BY <1>2
  <2> HIDE DEF d
  <2>2. y * z = x * z + d * z
    BY <2>1
  <2>3. d * z \in Nat /\ x * z \in Nat
    BY <2>1
  <2> QED
    BY <2>2, <2>3
<1> QED
  BY <1>1, <1>2

\* The empty table.
LEMMA EmptyNeat ==
  Neat(<<>>) /\ Range(<<>>) = {}
<1>1. <<>> \in Seq(Entries) /\ Len(<<>>) = 0
  OBVIOUS
<1>2. Neat(<<>>)
  BY <1>1 DEF Neat, Sorted
<1>3. \A e : e \in Range(<<>>) <=> \E i \in 1..Len(<<>>) : <<>>[i] = e
  BY <1>1, InRange
<1> QED
  BY <1>1, <1>2, <1>3

\* init_bins lays the slots of a bin.
LEMMA SlotsLaid ==
  ASSUME NEW k \in Arena, k # 0
  PROVE  BinLaid(Slots(k), <<>>, k)
<1> DEFINE m == Bins[k].count
           z == Bins[k].size
           b == BinStart[k]
           t == Slots(k)
           At(n) == b + (n - 1) * z
<1>1. /\ m \in Nat /\ z \in Nat \ {0} /\ b \in Nat /\ MaxAlignment \in Nat /\ k \in 1..Len(Bins)
      /\ Lo(k) = b /\ Hi(k) = b + z * m /\ b # 0
  <2>1. k \in 1..Len(Bins)
    BY ArenaIs
  <2>2. Lo(k) = b /\ Hi(k) = b + z * m
    BY <2>1, ArenaLies
  <2>3. b \in Nat /\ b # 0
    BY <2>2, ArenasApart, HeapLies, ArenaLies
  <2> QED
    BY <2>1, <2>2, <2>3, ArenaIs, HeapAssumption
<1>2. /\ SlotTable(t, k) /\ Len(t) = m
      /\ \A n \in 1..m : t[n] = FreeEntry(At(n), IF n = 1 THEN Null ELSE b + (n - 2) * z, z, MaxAlignment)
  BY <1>1, SlotsAre DEF Slots
<1> HIDE DEF m, z, b, t
<1>3. ASSUME NEW n \in 1..m
      PROVE  /\ Plain(t[n]) /\ t[n].chunk = At(n) /\ t[n].data = At(n) /\ t[n].size = z
             /\ At(n) \in Nat /\ End(t[n]) = At(n) + z /\ At(n) - b \in Multiples(z)
             /\ b <= At(n) /\ At(n) + z <= b + z * m /\ At(n + 1) = At(n) + z
  <2> DEFINE x == At(n)
             p == IF n = 1 THEN Null ELSE b + (n - 2) * z
             j == n - 1
  <2>1. j \in Nat /\ n = j + 1 /\ j + 1 <= m
    BY <1>1
  <2>2. x = b + j * z /\ j * z \in Nat /\ (j + 1) * z = j * z + z /\ (j + 1) * z <= m * z /\ m * z = z * m
    <3>1. x = b + j * z
      OBVIOUS
    <3> HIDE DEF j, x
    <3> QED
      BY <1>1, <2>1, <3>1, TimesGrow
  <2>3. p \in Nat /\ p < x
    <3>1. CASE n = 1
      BY <1>1, <2>2, <3>1 DEF Null
    <3>2. CASE n # 1
      <4> DEFINE i == n - 2
      <4>1. i \in Nat /\ j = i + 1 /\ p = b + i * z
        BY <1>1, <3>2
      <4> HIDE DEF i, j, p, x
      <4>2. i * z \in Nat /\ (i + 1) * z = i * z + z
        BY <1>1, <4>1, TimesGrow
      <4> QED
        BY <1>1, <2>2, <4>1, <4>2
    <3> QED
      BY <3>1, <3>2
  <2>4. t[n] = FreeEntry(x, p, z, MaxAlignment)
    BY <1>2
  <2>5. j * z \in Multiples(z)
    BY <2>1 DEF Multiples
  <2>6. At(n + 1) = b + (j + 1) * z
    BY <1>1
  <2> HIDE DEF x, p, j
  <2>7. x \in Nat /\ b <= x /\ x + z <= b + z * m /\ x - b \in Multiples(z) /\ b + (j + 1) * z = x + z
    <3>1. x - b = j * z
      BY <1>1, <2>2
    <3> QED
      BY <1>1, <2>2, <2>5, <3>1
  <2>8. /\ t[n] \in Entries /\ t[n].chunk = x /\ t[n].data = x /\ t[n].size = z /\ t[n].prev = p
        /\ End(t[n]) = x + z
    BY <1>1, <2>3, <2>4, <2>7 DEF FreeEntry, Entry, Entries, End
  <2>9. Plain(t[n])
    BY <1>1, <2>3, <2>8 DEF Plain
  <2> QED
    BY <2>6, <2>7, <2>8, <2>9 DEF x
<1>4. ASSUME NEW i \in 1..m, NEW j \in 1..m, i < j
      PROVE  End(t[i]) <= t[j].chunk /\ t[i].data < t[j].data
  <2> DEFINE x == i
             y == j - 1
  <2>1. x \in Nat /\ y \in Nat /\ x <= y
    BY <1>1, <1>4
  <2>2. At(i) + z = b + x * z /\ At(j) = b + y * z
    <3>1. At(i + 1) = b + x * z
      BY <1>1
    <3> QED
      BY <1>3, <3>1
  <2> HIDE DEF x, y
  <2>3. x * z <= y * z /\ x * z \in Nat /\ y * z \in Nat
    BY <1>1, <2>1, TimesGrow
  <2>4. /\ t[i].data = At(i) /\ End(t[i]) = At(i) + z /\ t[j].data = At(j) /\ t[j].chunk = At(j)
        /\ At(i) \in Nat /\ At(j) \in Nat
    BY <1>3
  <2>5. At(i) + z <= At(j) /\ At(i) < At(j)
    <3> HIDE DEF At
    <3> QED
      BY <1>1, <2>2, <2>3, <2>4, SMTT(30)
  <2> HIDE DEF At
  <2> QED
    BY <2>4, <2>5
<1> HIDE DEF At
<1>5. t \in Seq(Entries)
  BY <1>2 DEF SlotTable, IsTable
<1>6. Neat(t)
  BY <1>2, <1>3, <1>4, <1>5 DEF Neat, Sorted
<1>7. \A x \in Range(t) : \E n \in 1..m : t[n] = x
  BY <1>2, <1>5, InRange
<1>8. SlotsLie(Range(t), {}, k)
  <2>1. \A x \in Range(t) : IsSlot(x, k)
    <3> SUFFICES ASSUME NEW n \in 1..m PROVE IsSlot(t[n], k)
      BY <1>7
    <3>1. /\ Plain(t[n]) /\ t[n].size = z /\ b <= t[n].chunk /\ End(t[n]) <= b + z * m
          /\ t[n].chunk - b \in Multiples(z)
      BY <1>3
    <3> QED
      BY <1>1, <3>1 DEF IsSlot, z
  <2>2. \A x, y \in Range(t) : x # y => Off(x, y)
    <3> SUFFICES ASSUME NEW i \in 1..m, NEW j \in 1..m, t[i] # t[j] PROVE Off(t[i], t[j])
      BY <1>7
    <3>1. i < j \/ j < i
      BY <1>1
    <3> QED
      BY <1>4, <3>1 DEF Off
  <2> QED
    BY <2>1, <2>2 DEF SlotsLie
<1> QED
  BY <1>6, <1>8, EmptyNeat DEF BinLaid, t

\* init_heap lays the heap.
LEMMA HeapStarts ==
  ASSUME NEW s \in Nat \ {0}, NEW w \in Nat \ {0},
         NEW e, e = FreeEntry(HeapStart, Null, HeapCapacity, MaxAlignment), NEW t, t = <<e>>
  PROVE  /\ HeapLaid(t, <<>>, s, w) /\ Range(t) = {e}
         /\ Covered(Range(t) \cup Range(<<>>)) /\ Loose(Range(t))
<1>1. HeapStart \in Nat \ {0} /\ HeapEnd \in Nat /\ HeapStart < HeapEnd /\ HeapEnd = HeapStart + HeapCapacity
  BY HeapLies
<1>2. /\ e \in Entries /\ e.chunk = HeapStart /\ e.data = HeapStart /\ e.prev = 0 /\ e.size = HeapCapacity
      /\ HeapCapacity # 0 /\ End(e) = HeapEnd
  <2>1. MaxAlignment \in Nat /\ HeapCapacity \in Nat \ {0}
    BY HeapAssumption
  <2> QED
    BY <1>1, <2>1 DEF FreeEntry, Entry, Entries, Null, End
<1>3. t \in Seq(Entries) /\ Len(t) = 1 /\ t[1] = e
  BY <1>2
<1>4. Plain(e)
  BY <1>1, <1>2 DEF Plain
<1>5. Neat(t)
  BY <1>3, <1>4 DEF Neat, Sorted
<1>6. Range(t) = {e}
  <2>1. \A x : x \in Range(t) <=> \E i \in 1..1 : t[i] = x
    BY <1>3, InRange
  <2>2. \A i \in 1..1 : t[i] = e
    BY <1>3
  <2>3. 1 \in 1..1
    OBVIOUS
  <2> QED
    BY <2>1, <2>2, <2>3
<1>7. HeapChunk(e, s, w)
  <2>1. OnStep(HeapStart, w)
    <3>1. HeapStart - HeapStart = 0
      BY <1>1
    <3> QED
      BY <3>1, MultiplesAre DEF OnStep
  <2> QED
    BY <1>1, <1>2, <1>4, <2>1 DEF HeapChunk, Null
<1>8. Sound({e}, s, w)
  <2>1. e.prev # e.chunk
    BY <1>1, <1>2
  <2> QED
    BY <1>7, <2>1 DEF Sound
<1>9. Covered({e}) /\ Loose({e})
  BY <1>1, <1>2 DEF Covered, Loose
<1> QED
  BY <1>5, <1>6, <1>8, <1>9, EmptyNeat DEF HeapLaid, Swept

-----------------------------------------------------------------------------
(* The calls, and the blocks they hand out                                  *)

\* The tables of all arenas.
Laid(f, a, s, w) ==
  /\ DOMAIN f = Arena /\ DOMAIN a = Arena
  /\ HeapLaid(f[0], a[0], s, w)
  /\ \A k \in Arena : k # 0 => BinLaid(f[k], a[k], k)

\* The tables of one arena.
ArenaLaid(t, u, k, s, w) == IF k = 0 THEN HeapLaid(t, u, s, w) ELSE BinLaid(t, u, k)

\* The block from l to h meets no chunk of any arena but its own.
AllGuarded(f, a, l, h) == \A k \in Arena : Guarded(Range(f[k]), Range(a[k]), l, h)

\* Tables are laid out when those of each arena are.
LEMMA LaidIs ==
  ASSUME NEW f, NEW a, NEW s, NEW w
  PROVE  Laid(f, a, s, w) <=> /\ DOMAIN f = Arena /\ DOMAIN a = Arena
                              /\ \A k \in Arena : ArenaLaid(f[k], a[k], k, s, w)
BY ArenaIs DEF Laid, ArenaLaid

\* The chunks of an arena lie in it.
LEMMA ChunksLie ==
  ASSUME NEW s, NEW w, NEW k \in Arena, NEW t, NEW u, ArenaLaid(t, u, k, s, w)
  PROVE  \A x \in Range(t) \cup Range(u) :
           /\ x \in Entries /\ x.data = x.chunk /\ x.chunk \in Nat /\ End(x) \in Nat /\ x.chunk < End(x)
           /\ Lo(k) <= x.chunk /\ End(x) <= Hi(k)
<1> DEFINE S == Range(t) \cup Range(u)
<1> SUFFICES ASSUME NEW x \in S
             PROVE  /\ x \in Entries /\ x.data = x.chunk /\ x.chunk \in Nat /\ End(x) \in Nat /\ x.chunk < End(x)
                    /\ Lo(k) <= x.chunk /\ End(x) <= Hi(k)
  OBVIOUS
<1>1. CASE k = 0
  <2>1. Sound(S, s, w)
    BY <1>1 DEF ArenaLaid, HeapLaid, Swept
  <2> HIDE DEF S
  <2>2. /\ x \in Entries /\ x.data = x.chunk /\ x.chunk \in Nat /\ End(x) \in Nat /\ x.chunk < End(x)
        /\ HeapStart <= x.chunk /\ End(x) <= HeapEnd
    BY <2>1, SoundNumbers
  <2> QED
    BY <1>1, <2>2 DEF Lo, Hi
<1>2. CASE k # 0
  <2>1. IsSlot(x, k)
    BY <1>2 DEF ArenaLaid, BinLaid, SlotsLie
  <2> HIDE DEF S
  <2>2. Lo(k) <= x.chunk /\ End(x) <= Hi(k)
    BY <2>1 DEF IsSlot
  <2> QED
    BY <1>2, <2>1, <2>2, SlotNumbers
<1> QED
  BY <1>1, <1>2

\* A block in one arena meets no chunk of another.
LEMMA OtherArena ==
  ASSUME NEW s, NEW w, NEW k \in Arena, NEW t, NEW u, ArenaLaid(t, u, k, s, w),
         NEW j \in Arena, j # k, NEW l \in Nat, NEW h \in Nat, Lo(j) <= l, h <= Hi(j)
  PROVE  Guarded(Range(t), Range(u), l, h)
<1> SUFFICES ASSUME NEW x \in Range(t) \cup Range(u) PROVE End(x) <= l \/ h <= x.chunk
  BY DEF Guarded, OffArea
<1>1. x.chunk \in Nat /\ End(x) \in Nat /\ Lo(k) <= x.chunk /\ End(x) <= Hi(k)
  BY ChunksLie
<1>2. Lo(k) \in Nat /\ Hi(k) \in Nat /\ Lo(j) \in Nat /\ Hi(j) \in Nat
  BY ArenaLies
<1>3. j < k \/ k < j
  BY ArenaIs DEF Arena
<1>4. Hi(j) <= Lo(k) \/ Hi(k) <= Lo(j)
  BY <1>3, ArenasApart
<1> QED
  BY <1>1, <1>2, <1>4

\* The tables f and a change to f2 and a2 in the arena k only.
Only(k, f, a, f2, a2, t2, u2) == f2 = [f EXCEPT ![k] = t2] /\ a2 = [a EXCEPT ![k] = u2]

\* The tables of the other arenas stay.
LEMMA OnlyIs ==
  ASSUME NEW s, NEW w, NEW f, NEW a, Laid(f, a, s, w), NEW k \in Arena,
         NEW t2, NEW u2, ArenaLaid(t2, u2, k, s, w), NEW f2, NEW a2, Only(k, f, a, f2, a2, t2, u2)
  PROVE  /\ Laid(f2, a2, s, w) /\ f2[k] = t2 /\ a2[k] = u2
         /\ \A j \in Arena : j # k => f2[j] = f[j] /\ a2[j] = a[j]
<1>1. /\ DOMAIN f = Arena /\ DOMAIN a = Arena
      /\ \A j \in Arena : ArenaLaid(f[j], a[j], j, s, w)
  BY LaidIs
<1>2. /\ DOMAIN f2 = Arena /\ DOMAIN a2 = Arena /\ f2[k] = t2 /\ a2[k] = u2
      /\ \A j \in Arena : j # k => f2[j] = f[j] /\ a2[j] = a[j]
  BY <1>1 DEF Only
<1>3. \A j \in Arena : ArenaLaid(f2[j], a2[j], j, s, w)
  BY <1>1, <1>2
<1> QED
  BY <1>2, <1>3, LaidIs

\* A call of heap_alloc that makes f2 and a2 of the tables hands out the block from l to h.
Given(f, a, f2, a2, l, h) ==
  /\ AllGuarded(f2, a2, l, h)
  /\ \A m, n \in Nat : m < n /\ AllGuarded(f, a, m, n) => AllGuarded(f2, a2, m, n) /\ (n <= l \/ h <= m)

\* A block that one arena hands out meets no block, and no chunk, of another.
LEMMA ArenaGives ==
  ASSUME NEW s, NEW w, NEW f, NEW a, Laid(f, a, s, w), NEW k \in Arena,
         NEW t2, NEW u2, ArenaLaid(t2, u2, k, s, w), NEW f2, NEW a2, Only(k, f, a, f2, a2, t2, u2),
         NEW l \in Nat, NEW h \in Nat, Lo(k) <= l, h <= Hi(k),
         HandsOut(Range(f[k]), Range(a[k]), Range(t2), Range(u2), l, h)
  PROVE  Laid(f2, a2, s, w) /\ Given(f, a, f2, a2, l, h)
<1>1. /\ Laid(f2, a2, s, w) /\ f2[k] = t2 /\ a2[k] = u2
      /\ \A j \in Arena : j # k => f2[j] = f[j] /\ a2[j] = a[j]
  BY OnlyIs
<1>2. \A j \in Arena : ArenaLaid(f[j], a[j], j, s, w)
  BY LaidIs
<1>3. ASSUME NEW j \in Arena
      PROVE  Guarded(Range(f2[j]), Range(a2[j]), l, h)
  <2>1. CASE j = k
    BY <1>1, <2>1 DEF HandsOut
  <2>2. CASE j # k
    <3> DEFINE t == f[j]
               u == a[j]
    <3>1. ArenaLaid(t, u, j, s, w) /\ f2[j] = t /\ a2[j] = u
      BY <1>1, <1>2, <2>2
    <3> HIDE DEF t, u
    <3>2. Guarded(Range(t), Range(u), l, h)
      BY <2>2, <3>1, OtherArena
    <3> QED
      BY <3>1, <3>2
  <2> QED
    BY <2>1, <2>2
<1>4. ASSUME NEW m \in Nat, NEW n \in Nat, m < n, AllGuarded(f, a, m, n)
      PROVE  AllGuarded(f2, a2, m, n) /\ (n <= l \/ h <= m)
  <2>1. Guarded(Range(f2[k]), Range(a2[k]), m, n) /\ (n <= l \/ h <= m)
    BY <1>1, <1>4 DEF HandsOut, AllGuarded
  <2>2. \A j \in Arena : j # k => Guarded(Range(f2[j]), Range(a2[j]), m, n)
    BY <1>1, <1>4 DEF AllGuarded
  <2> QED
    BY <2>1, <2>2 DEF AllGuarded
<1> QED
  BY <1>1, <1>3, <1>4 DEF Given, AllGuarded

\* A call of heap_free that makes f2 and a2 of the tables takes no block back but the one at p.
TakenBack(f, a, f2, a2, p) ==
  \A m, n \in Nat : m < n /\ m # p /\ AllGuarded(f, a, m, n) => AllGuarded(f2, a2, m, n)

\* No more does a block that is taken back.
LEMMA ArenaTakesBack ==
  ASSUME NEW s, NEW w, NEW f, NEW a, Laid(f, a, s, w), NEW k \in Arena,
         NEW t2, NEW u2, ArenaLaid(t2, u2, k, s, w), NEW f2, NEW a2, Only(k, f, a, f2, a2, t2, u2),
         NEW p, \A m, n \in Nat : m < n /\ m # p /\ Guarded(Range(f[k]), Range(a[k]), m, n) =>
                                    Guarded(Range(t2), Range(u2), m, n)
  PROVE  Laid(f2, a2, s, w) /\ TakenBack(f, a, f2, a2, p)
<1>1. /\ Laid(f2, a2, s, w) /\ f2[k] = t2 /\ a2[k] = u2
      /\ \A j \in Arena : j # k => f2[j] = f[j] /\ a2[j] = a[j]
  BY OnlyIs
<1>2. ASSUME NEW m \in Nat, NEW n \in Nat, m < n, m # p, AllGuarded(f, a, m, n)
      PROVE  AllGuarded(f2, a2, m, n)
  <2>1. Guarded(Range(f2[k]), Range(a2[k]), m, n)
    BY <1>1, <1>2 DEF AllGuarded
  <2>2. \A j \in Arena : j # k => Guarded(Range(f2[j]), Range(a2[j]), m, n)
    BY <1>1, <1>2 DEF AllGuarded
  <2> QED
    BY <2>1, <2>2 DEF AllGuarded
<1> QED
  BY <1>1, <1>2 DEF TakenBack

\* A bin is chosen if its slots are large enough.
LEMMA ArenaForFits ==
  ASSUME NEW size \in Nat, NEW k, k = ArenaFor(size), k # 0
  PROVE  k \in Arena /\ size <= Bins[k].size
<1> DEFINE fit == {j \in DOMAIN Bins : size <= Bins[j].size}
<1>1. k = IF fit = {} THEN 0 ELSE CHOOSE j \in fit : \A h \in fit : j <= h
  BY DEF ArenaFor
<1>2. fit # {} /\ k = CHOOSE j \in fit : \A h \in fit : j <= h
  BY <1>1
<1>3. fit \in SUBSET Nat
  BY BinsAssumption
<1> HIDE DEF fit
<1>4. \E j \in fit : \A h \in fit : j <= h
  BY <1>2, <1>3, FirstOf
<1>5. k \in fit
  BY <1>2, <1>4
<1> QED
  BY <1>5, ArenaForIs DEF fit

\* Where heap_free looks for an address.
LEMMA ArenaAtLies ==
  ASSUME NEW p \in Nat
  PROVE  /\ ArenaAt(p) \in Arena
         /\ ArenaAt(p) # 0 => HeapEnd <= p
         /\ ArenaAt(p) = 0 \/ ~ (p < HeapEnd)
<1> DEFINE k == ArenaAt(p)
<1>1. k \in Arena
  BY ArenaAtIs
<1>2. ASSUME k # 0
      PROVE  HeapEnd <= p
  <2>1. \E j \in DOMAIN Bins : p \in BinStart[j]..(BinEnd(j) - 1)
    BY <1>2 DEF ArenaAt
  <2>2. PICK j \in DOMAIN Bins : p \in BinStart[j]..(BinEnd(j) - 1)
    BY <2>1
  <2>3. j \in 1..Len(Bins)
    BY BinsAssumption
  <2>4. j \in Arena /\ j # 0 /\ 0 \in Arena /\ 0 < j
    BY <2>3, ArenaIs DEF Arena
  <2>5. Lo(j) = BinStart[j] /\ Lo(j) \in Nat /\ Hi(0) = HeapEnd /\ Hi(0) <= Lo(j) /\ HeapEnd \in Nat
    BY <2>3, <2>4, ArenaLies, ArenasApart, HeapLies DEF Hi
  <2>6. BinStart[j] <= p
    BY <2>2
  <2> QED
    BY <2>5, <2>6
<1> QED
  BY <1>1, <1>2, HeapLies

\* The call may be made: the block is of the size s, if it is one of the heap, and its chunk
\* can be cut; or it is one of a bin and needs no padding.
Served(f, a, s, w, size, align) ==
  IF ArenaFor(size) = 0 THEN size = s /\ Cuttable(f[0], a[0], s, w, align)
  ELSE Bins[ArenaFor(size)].size % align = 0

\* What heap_alloc makes of the tables of the heap.
Draws(f, a, f2, a2, s, align, p) ==
  /\ Loose(Range(f[0])) => Loose(Range(f2[0]))
  /\ /\ Covered(Range(f[0]) \cup Range(a[0]))
     /\ Len(f[0]) + 1 < FreeCapacity /\ Len(a[0]) < AllocCapacity
     => Covered(Range(f2[0]) \cup Range(a2[0]))
  /\ \A b \in Range(a2[0]) : b \in Range(a[0]) \/ (b.align = align /\ b.chunk = p /\ b.size < s + SplitCutoff)

\* heap_alloc of size bytes.
LaidOut(f, a, r, s, w, size, align) ==
  /\ Laid(r.free, r.alloc, s, w) /\ Given(f, a, r.free, r.alloc, r.ptr, r.ptr + size)
  /\ r.ptr \in Nat /\ HeapStart <= r.ptr /\ r.ptr + size <= LastAddress + 1
  /\ Draws(f, a, r.free, r.alloc, s, align, r.ptr)

\* heap_alloc from the heap.
LEMMA HeapLaysOut ==
  ASSUME NEW s \in Nat \ {0}, NEW w, NEW f, NEW a, Laid(f, a, s, w),
         NEW align \in Nat \ {0}, Cuttable(f[0], a[0], s, w, align),
         NEW r, r = AllocHeap(f, a, s, align), r.ptr # Null
  PROVE  LaidOut(f, a, r, s, w, s, align)
<1>1. HeapLaid(f[0], a[0], s, w)
  BY DEF Laid
<1>2. PICK t2, u2 : /\ r.free = [f EXCEPT ![0] = t2] /\ r.alloc = [a EXCEPT ![0] = u2]
                    /\ HeapGives(f[0], a[0], t2, u2, s, w, align, r)
  BY <1>1, HeapHands
<1>3. /\ HeapLaid(t2, u2, s, w)
      /\ HandsOut(Range(f[0]), Range(a[0]), Range(t2), Range(u2), r.ptr, r.ptr + s)
      /\ HeapStart <= r.ptr /\ r.ptr + s <= HeapEnd
      /\ Loose(Range(f[0])) => Loose(Range(t2))
      /\ Covered(Range(f[0]) \cup Range(a[0])) /\ Len(f[0]) + 1 < FreeCapacity /\ Len(a[0]) < AllocCapacity =>
           Covered(Range(t2) \cup Range(u2))
      /\ \E b \in Entries : /\ b.align = align /\ b.chunk = r.ptr /\ b.size < s + SplitCutoff
                            /\ Range(u2) \subseteq Range(a[0]) \cup {b}
  BY <1>2 DEF HeapGives
<1>4. r.ptr \in Nat /\ r.ptr + s \in Nat /\ 0 \in Arena
  <2>1. PICK b \in Entries : b.chunk = r.ptr
    BY <1>3
  <2>2. b.chunk \in Nat
    BY Numbers
  <2> QED
    BY <2>1, <2>2, ArenaIs
<1>5. Lo(0) <= r.ptr /\ r.ptr + s <= Hi(0) /\ Hi(0) <= LastAddress + 1 /\ Hi(0) \in Nat /\ LastAddress \in Nat
  BY <1>3, <1>4, ArenaLies, HeapAssumption DEF Lo, Hi
<1> DEFINE zero == 0
           f2 == r.free
           a2 == r.alloc
           l == r.ptr
           h == r.ptr + s
<1>6. /\ zero \in Arena /\ ArenaLaid(t2, u2, zero, s, w) /\ Only(zero, f, a, f2, a2, t2, u2)
      /\ l \in Nat /\ h \in Nat /\ Lo(zero) <= l /\ h <= Hi(zero)
      /\ HandsOut(Range(f[zero]), Range(a[zero]), Range(t2), Range(u2), l, h)
  BY <1>2, <1>3, <1>4, <1>5 DEF ArenaLaid, Only
<1> HIDE DEF zero, f2, a2, l, h
<1>7. Laid(f2, a2, s, w) /\ Given(f, a, f2, a2, l, h)
  BY <1>6, ArenaGives
<1>8. f2[0] = t2 /\ a2[0] = u2
  <2>1. f2[zero] = t2 /\ a2[zero] = u2
    BY <1>6, OnlyIs
  <2> QED
    BY <2>1 DEF zero
<1>9. Draws(f, a, f2, a2, s, align, l)
  BY <1>3, <1>8 DEF Draws, l
<1>10. l + s <= LastAddress + 1 /\ HeapStart <= l
  BY <1>3, <1>4, <1>5 DEF l
<1> QED
  BY <1>6, <1>7, <1>9, <1>10 DEF LaidOut, f2, a2, l, h

\* heap_alloc from a bin, whose slots are aligned.
LEMMA BinLaysOut ==
  ASSUME NEW s, NEW w, NEW f, NEW a, Laid(f, a, s, w), NEW k \in Arena, k # 0,
         NEW align \in Nat \ {0}, MaxAlignment % align = 0, Bins[k].size % align = 0,
         NEW size \in Nat \ {0}, size <= Bins[k].size,
         NEW r, r = AllocBin(f, a, k, align), r.ptr # Null
  PROVE  LaidOut(f, a, r, s, w, size, align)
<1>1. BinLaid(f[k], a[k], k)
  BY DEF Laid
<1>2. PICK t2, u2 : /\ r.free = [f EXCEPT ![k] = t2] /\ r.alloc = [a EXCEPT ![k] = u2]
                    /\ BinGives(f[k], a[k], t2, u2, k, size, r)
  BY <1>1, BinHands
<1>3. /\ BinLaid(t2, u2, k)
      /\ HandsOut(Range(f[k]), Range(a[k]), Range(t2), Range(u2), r.ptr, r.ptr + size)
      /\ Lo(k) <= r.ptr /\ r.ptr + size <= Hi(k)
  BY <1>2 DEF BinGives
<1>4. r.ptr \in Nat /\ r.ptr + size \in Nat
  <2> DEFINE t == f[k]
             e == t[1]
             n == PaddingAt(e.chunk, align)
             block == Entry(e.chunk, e.chunk + n, e.prev, Bins[k].size, Bins[k].size - n, align)
  <2>1. r = IF \/ t = <<>> \/ block.data + block.size > BinEnd(k) \/ Len(a[k]) >= Capacity(k).alloc
            THEN Tables(Null, f, a)
            ELSE Tables(block.data, [f EXCEPT ![k] = Tail(t)],
                        [a EXCEPT ![k] = Added(a[k], block, Capacity(k).alloc)])
    BY DEF AllocBin
  <2>2. block.data = e.chunk + n
    BY DEF Entry
  <2>3. t \in Seq(Entries)
    BY <1>1, NeatIs DEF BinLaid
  <2> HIDE DEF block, t
  <2>4. t # <<>> /\ r.ptr = block.data
    BY <2>1 DEF Tables
  <2>5. 1 \in 1..Len(t)
    BY <2>3, <2>4, TailIs
  <2>6. e.chunk \in Nat
    BY <2>3, <2>5, EntryFields
  <2> DEFINE x == e.chunk
  <2>7. x \in Nat /\ n = PaddingAt(x, align)
    BY <2>6
  <2> HIDE DEF x, n, e
  <2>8. n \in Nat
    BY <2>7, PaddingIs
  <2> QED
    BY <2>2, <2>4, <2>6, <2>8
<1>5. /\ Hi(k) <= LastAddress + 1 /\ Hi(k) \in Nat /\ Lo(k) \in Nat /\ HeapStart <= Lo(k)
      /\ LastAddress \in Nat /\ HeapStart \in Nat
  BY ArenaLies, ArenasApart, HeapAssumption, HeapLies
<1> DEFINE f2 == r.free
           a2 == r.alloc
           l == r.ptr
           h == r.ptr + size
<1>6. /\ ArenaLaid(t2, u2, k, s, w) /\ Only(k, f, a, f2, a2, t2, u2)
      /\ l \in Nat /\ h \in Nat /\ Lo(k) <= l /\ h <= Hi(k)
      /\ HandsOut(Range(f[k]), Range(a[k]), Range(t2), Range(u2), l, h)
  BY <1>2, <1>3, <1>4 DEF ArenaLaid, Only
<1> HIDE DEF f2, a2, l, h
<1>7. Laid(f2, a2, s, w) /\ Given(f, a, f2, a2, l, h)
  BY <1>6, ArenaGives
<1>8. f2[0] = f[0] /\ a2[0] = a[0]
  <2>1. \A j \in Arena : j # k => f2[j] = f[j] /\ a2[j] = a[j]
    BY <1>6, OnlyIs
  <2> QED
    BY <2>1, ArenaIs
<1>9. Draws(f, a, f2, a2, s, align, l)
  BY <1>8 DEF Draws
<1>10. l + size <= LastAddress + 1 /\ HeapStart <= l
  BY <1>3, <1>4, <1>5 DEF l
<1> QED
  BY <1>6, <1>7, <1>9, <1>10 DEF LaidOut, f2, a2, l, h

\* heap_alloc.
LEMMA AllocLaysOut ==
  ASSUME NEW s \in Nat \ {0}, NEW w, NEW f, NEW a, Laid(f, a, s, w), NEW size \in Nat \ {0}, NEW asked,
         Served(f, a, s, w, size, Usable(asked)),
         NEW r, r = HeapAlloc(f, a, size, asked), r.ptr # Null
  PROVE  LaidOut(f, a, r, s, w, size, Usable(asked))
<1> DEFINE align == Usable(asked)
           k == ArenaFor(size)
<1>1. align \in Nat \ {0} /\ MaxAlignment % align = 0
  BY UsableIs
<1>2. r = IF k = 0 THEN AllocHeap(f, a, size, align) ELSE AllocBin(f, a, k, align)
  BY DEF HeapAlloc
<1>3. IF k = 0 THEN size = s /\ Cuttable(f[0], a[0], s, w, align) ELSE Bins[k].size % align = 0
  BY DEF Served
<1>4. k # 0 => k \in Arena /\ size <= Bins[k].size
  BY ArenaForFits
<1> HIDE DEF align, k
<1>5. CASE k = 0
  <2>1. size = s /\ Cuttable(f[0], a[0], s, w, align) /\ r = AllocHeap(f, a, s, align)
    BY <1>2, <1>3, <1>5
  <2>2. LaidOut(f, a, r, s, w, s, align)
    BY <1>1, <2>1, HeapLaysOut
  <2> QED
    BY <2>1, <2>2 DEF align
<1>6. CASE k # 0
  <2>1. LaidOut(f, a, r, s, w, size, align)
    BY <1>1, <1>2, <1>3, <1>4, <1>6, BinLaysOut
  <2> QED
    BY <2>1 DEF align
<1> QED
  BY <1>5, <1>6

\* What heap_free makes of the tables of the heap.
Returns(f, a, f2, a2, p) ==
  /\ Range(a2[0]) \subseteq Range(a[0]) /\ \A x \in Range(a2[0]) : x.chunk # p
  /\ Loose(Range(f[0])) => Loose(Range(f2[0]))
  /\ Covered(Range(f[0]) \cup Range(a[0])) /\ Len(f[0]) < FreeCapacity =>
       Covered(Range(f2[0]) \cup Range(a2[0]))

\* heap_free of the block at p, with the result r.
LaidBack(f, a, r, s, w, p) ==
  /\ Laid(r.free, r.alloc, s, w) /\ TakenBack(f, a, r.free, r.alloc, p)
  /\ Returns(f, a, r.free, r.alloc, p)

\* heap_free, in the heap or in a bin.
LEMMA FreeLaysBack ==
  ASSUME NEW s \in Nat, NEW w, NEW f, NEW a, Laid(f, a, s, w), NEW p \in Nat,
         NEW r, r = HeapFree(f, a, p)
  PROVE  LaidBack(f, a, r, s, w, p)
<1> DEFINE k == ArenaAt(p)
           t == f[k]
           d == a[k]
           i == SearchByPtr(d, p)
           e == d[i]
           g == Added(t, e, Capacity(k).free)
           t2 == IF k = 0 THEN Defragmented(g) ELSE g
           d2 == RemoveAt(d, i)
           F2 == [f EXCEPT ![k] = t2]
           A2 == [a EXCEPT ![k] = d2]
<1>1. k \in Arena /\ (k # 0 => HeapEnd <= p)
  BY ArenaAtLies
<1>2. ArenaLaid(t, d, k, s, w)
  BY <1>1, LaidIs
<1>3. r = IF i = 0 \/ (k # 0 /\ Len(t) >= Capacity(k).free) THEN Tables(Null, f, a)
          ELSE Tables(Null, F2, A2)
  BY DEF HeapFree
<1>4. t \in Seq(Entries) /\ d \in Seq(Entries) /\ Neat(t) /\ Neat(d) /\ Sorted(d) /\ ByData(d)
  <2>1. Neat(t) /\ Neat(d)
    <3>1. CASE k = 0
      BY <1>2, <3>1 DEF ArenaLaid, HeapLaid, Swept
    <3>2. CASE k # 0
      BY <1>2, <3>2 DEF ArenaLaid, BinLaid
    <3> QED
      BY <3>1, <3>2
  <2> HIDE DEF t, d
  <2> QED
    BY <2>1, NeatIs
<1>5. /\ i \in 0..Len(d) /\ (i # 0 => e.data = p)
      /\ \A j \in 1..Len(d) : d[j].data = p => i # 0
  <2> HIDE DEF d
  <2> QED
    BY <1>4, PtrFound
<1>6. \A x \in Range(t) \cup Range(d) : x.data = x.chunk
  <2> HIDE DEF t, d, k
  <2> QED
    BY <1>1, <1>2, ChunksLie
<1>7. \A x \in Range(f[0]) \cup Range(a[0]) : x.chunk \in Nat /\ x.chunk < HeapEnd
  <2> DEFINE zero == 0
  <2>1. zero \in Arena /\ ArenaLaid(f[zero], a[zero], zero, s, w)
    BY ArenaIs, LaidIs
  <2>2. Hi(zero) = HeapEnd /\ HeapEnd \in Nat
    BY HeapLies DEF Hi
  <2> DEFINE t0 == f[zero]
             d0 == a[zero]
  <2>3. ArenaLaid(t0, d0, zero, s, w) /\ t0 = f[0] /\ d0 = a[0]
    BY <2>1
  <2> HIDE DEF zero, t0, d0
  <2>4. \A x \in Range(t0) \cup Range(d0) : x.chunk \in Nat /\ End(x) \in Nat /\ x.chunk < End(x) /\ End(x) <= Hi(zero)
    BY <2>1, <2>3, ChunksLie
  <2> QED
    BY <2>2, <2>3, <2>4
<1>8. k # 0 => \A x \in Range(a[0]) : x.chunk # p
  <2> HIDE DEF k
  <2> QED
    BY <1>1, <1>7, HeapLies
<1>9. CASE i = 0 \/ (k # 0 /\ Len(t) >= Capacity(k).free)
  <2>1. r.free = f /\ r.alloc = a
    <3> HIDE DEF i, t, k, F2, A2
    <3> QED
      BY <1>3, <1>9 DEF Tables
  <2>2. \A x \in Range(a[0]) : x.chunk # p
    <3>1. CASE k # 0
      BY <1>8, <3>1
    <3>2. CASE k = 0
      <4>1. i = 0 /\ d = a[0]
        BY <1>9, <3>2
      <4> HIDE DEF i, d, k, t
      <4>2. \A j \in 1..Len(d) : d[j].data # p
        BY <1>5, <4>1
      <4> SUFFICES ASSUME NEW x \in Range(d) PROVE x.chunk # p
        BY <4>1
      <4>3. PICK j \in 1..Len(d) : d[j] = x
        BY <1>4, InRange
      <4> QED
        BY <1>6, <4>2, <4>3
    <3> QED
      BY <3>1, <3>2
  <2>3. TakenBack(f, a, f, a, p)
    BY DEF TakenBack
  <2>4. Returns(f, a, f, a, p)
    BY <2>2 DEF Returns
  <2> QED
    BY <2>1, <2>3, <2>4 DEF LaidBack
<1>10. CASE ~ (i = 0 \/ (k # 0 /\ Len(t) >= Capacity(k).free))
  <2>1. r.free = F2 /\ r.alloc = A2
    <3> HIDE DEF i, t, k, F2, A2
    <3> QED
      BY <1>3, <1>10 DEF Tables
  <2>2. i \in 1..Len(d) /\ e \in Range(d) /\ e.data = p /\ e.chunk = p
    <3> HIDE DEF i, d, t, k
    <3>1. i \in 1..Len(d) /\ Len(d) \in Nat
      BY <1>4, <1>5, <1>10, EntryFields
    <3>2. e \in Range(d)
      BY <1>4, <3>1, InRange
    <3> QED
      BY <1>5, <1>6, <1>10, <3>1, <3>2
  <2>3. Only(k, f, a, F2, A2, t2, d2)
    BY DEF Only
  <2>4. CASE k = 0
    <3>1. HeapLaid(t, d, s, w) /\ Capacity(k).free = FreeCapacity /\ t2 = Defragmented(g) /\ t = f[0] /\ d = a[0]
      BY <1>2, <2>4 DEF ArenaLaid, Capacity
    <3>2. /\ g = Added(t, d[i], FreeCapacity) /\ t2 = Defragmented(g) /\ d2 = RemoveAt(d, i)
          /\ HeapLaid(t, d, s, w) /\ i \in 1..Len(d)
      BY <2>2, <3>1
    <3> HIDE DEF t, d, i, g, t2, d2, k, F2, A2
    <3>3. HeapTakes(t, d, t2, d2, s, w, d[i])
      BY <3>2, HeapTakesBack
    <3>4. HeapLaid(t2, d2, s, w) /\ Range(d2) = Range(d) \ {d[i]}
      BY <3>3 DEF HeapTakes
    <3>5. /\ Loose(Range(t2))
          /\ Covered(Range(t) \cup Range(d)) /\ Len(t) < FreeCapacity => Covered(Range(t2) \cup Range(d2))
      BY <3>3 DEF HeapTakes
    <3>6. \A m, n \in Nat : m < n /\ m # d[i].chunk /\ Guarded(Range(t), Range(d), m, n) =>
            Guarded(Range(t2), Range(d2), m, n)
      BY <3>3 DEF HeapTakes
    <3>7. \A m, n \in Nat : m < n /\ m # p /\ Guarded(Range(f[k]), Range(a[k]), m, n) =>
            Guarded(Range(t2), Range(d2), m, n)
      BY <2>2, <3>6 DEF t, d, e
    <3>8. ArenaLaid(t2, d2, k, s, w)
      BY <2>4, <3>4 DEF ArenaLaid
    <3>9. Laid(F2, A2, s, w) /\ TakenBack(f, a, F2, A2, p)
      BY <1>1, <2>3, <3>7, <3>8, ArenaTakesBack
    <3>10. F2[0] = t2 /\ A2[0] = d2
      <4>1. F2[k] = t2 /\ A2[k] = d2
        BY <1>1, <2>3, <3>8, OnlyIs
      <4> QED
        BY <2>4, <4>1
    <3>11. \A x \in Range(d2) : x.chunk # p
      <4> SUFFICES ASSUME NEW x \in Range(d2), x.chunk = p PROVE FALSE
        OBVIOUS
      <4>1. x \in Range(d) /\ x # d[i]
        BY <3>4
      <4>2. PICK j \in 1..Len(d) : d[j] = x
        BY <1>4, <4>1, InRange
      <4>3. d[j].data = p /\ d[i].data = p /\ i # j
        BY <1>6, <2>2, <4>1, <4>2 DEF e
      <4>4. i < j \/ j < i
        BY <2>2, <4>3
      <4>5. d[i].data \in Nat /\ d[j].data \in Nat
        BY <4>3
      <4> QED
        BY <1>4, <2>2, <4>3, <4>4 DEF Sorted
    <3>12. Returns(f, a, F2, A2, p)
      BY <3>1, <3>4, <3>5, <3>10, <3>11 DEF Returns
    <3> QED
      BY <2>1, <3>9, <3>12 DEF LaidBack
  <2>5. CASE k # 0
    <3>1. BinLaid(t, d, k) /\ Capacity(k).free = Bins[k].count /\ t2 = g
      BY <1>2, <2>5 DEF ArenaLaid, Capacity
    <3>2. t2 = Added(t, d[i], Bins[k].count) /\ d2 = RemoveAt(d, i) /\ ~ (Len(t) >= Bins[k].count)
      <4> HIDE DEF t, d, i, d2, k
      <4> QED
        BY <1>10, <2>5, <3>1 DEF d2
    <3> HIDE DEF t, d, i, g, t2, d2, k, F2, A2
    <3>3. BinLaid(t2, d2, k)
      BY <1>1, <2>2, <2>5, <3>1, <3>2, BinTakesBack
    <3>4. \A m, n \in Nat : m < n /\ m # d[i].chunk /\ Guarded(Range(t), Range(d), m, n) =>
            Guarded(Range(t2), Range(d2), m, n)
      BY <1>1, <2>2, <2>5, <3>1, <3>2, BinTakesBack
    <3>5. \A m, n \in Nat : m < n /\ m # p /\ Guarded(Range(f[k]), Range(a[k]), m, n) =>
            Guarded(Range(t2), Range(d2), m, n)
      BY <2>2, <3>4 DEF t, d, e
    <3>6. ArenaLaid(t2, d2, k, s, w)
      BY <2>5, <3>3 DEF ArenaLaid
    <3>7. Laid(F2, A2, s, w) /\ TakenBack(f, a, F2, A2, p)
      BY <1>1, <2>3, <3>5, <3>6, ArenaTakesBack
    <3>8. F2[0] = f[0] /\ A2[0] = a[0]
      <4>1. \A j \in Arena : j # k => F2[j] = f[j] /\ A2[j] = a[j]
        BY <1>1, <2>3, <3>6, OnlyIs
      <4> QED
        BY <2>5, <4>1, ArenaIs
    <3>9. Returns(f, a, F2, A2, p)
      BY <1>8, <2>5, <3>8 DEF Returns
    <3> QED
      BY <2>1, <3>7, <3>9 DEF LaidBack
  <2> QED
    BY <2>4, <2>5
<1> QED
  BY <1>9, <1>10

-----------------------------------------------------------------------------
(* Room in the tables of the heap                                           *)

\* A set into which the first n numbers go one by one has n elements or more.
LEMMA EnoughOf ==
  ASSUME NEW n \in Nat, NEW T, IsFiniteSet(T), NEW f \in [1..n -> T],
         \A i, j \in 1..n : f[i] = f[j] => i = j
  PROVE  n <= Cardinality(T)
<1> DEFINE S == 1..n
<1>1. IsFiniteSet(S) /\ Cardinality(S) = n
  BY FS_Interval
<1>2. Cardinality(T) \in Nat
  BY FS_CardinalityType
<1> SUFFICES ASSUME Cardinality(T) < n PROVE FALSE
  BY <1>2
<1>3. f \in [S -> T] /\ Cardinality(T) < Cardinality(S)
  BY <1>1
<1> HIDE DEF S
<1>4. \E x, y \in S : x # y /\ f[x] = f[y]
  BY <1>1, <1>3, FS_PigeonHole
<1> QED
  BY <1>4 DEF S

\* The entries of a neat table lie at different addresses.
LEMMA NeatDiffer ==
  ASSUME NEW t, Neat(t)
  PROVE  /\ \A i, j \in 1..Len(t) : t[i].chunk = t[j].chunk => i = j
         /\ Len(t) \in Nat /\ \A i \in 1..Len(t) : t[i] \in Range(t)
<1>1. Sorted(t) /\ t \in Seq(Entries) /\ \A x \in Range(t) : Plain(x)
  BY NeatIs
<1>2. \A i \in 1..Len(t) : t[i] \in Range(t) /\ t[i].data \in Nat /\ t[i].chunk = t[i].data
  BY <1>1, InRange, EntryFields DEF Plain
<1>3. Len(t) \in Nat
  BY <1>1
<1>4. ASSUME NEW i \in 1..Len(t), NEW j \in 1..Len(t), t[i].chunk = t[j].chunk
      PROVE  i = j
  <2>1. ~ (i < j) /\ ~ (j < i)
    BY <1>1, <1>2, <1>4 DEF Sorted
  <2> QED
    BY <1>3, <2>1
<1> QED
  BY <1>2, <1>3, <1>4

\* Those who hold a block.
HoldersOf(H) == {o \in Owner : H[o] # NoBlock}

\* Each chunk of A starts with the block of one of them.
Used(A, H) == \A x \in A : \E o \in HoldersOf(H) : H[o].ptr = x.chunk

\* There are no more chunks in use than blocks.
LEMMA FewBlocks ==
  ASSUME NEW u, Neat(u), NEW H, IsFiniteSet(HoldersOf(H)), Used(Range(u), H)
  PROVE  Len(u) <= Cardinality(HoldersOf(H))
<1> DEFINE T == HoldersOf(H)
           n == Len(u)
           f == [i \in 1..n |-> CHOOSE o \in T : H[o].ptr = u[i].chunk]
<1>1. /\ \A i, j \in 1..n : u[i].chunk = u[j].chunk => i = j
      /\ n \in Nat /\ \A i \in 1..n : u[i] \in Range(u)
  BY NeatDiffer
<1>2. \A i \in 1..n : \E o \in T : H[o].ptr = u[i].chunk
  BY <1>1 DEF Used
<1>3. \A i \in 1..n : f[i] \in T /\ H[f[i]].ptr = u[i].chunk
  <2> HIDE DEF T
  <2> QED
    BY <1>2
<1>4. f \in [1..n -> T]
  <2>1. f = [i \in 1..n |-> f[i]]
    OBVIOUS
  <2> HIDE DEF f, T
  <2> QED
    BY <1>3, <2>1
<1>5. \A i, j \in 1..n : f[i] = f[j] => i = j
  <2> HIDE DEF f, T
  <2> QED
    BY <1>1, <1>3
<1> HIDE DEF f, T, n
<1>6. IsFiniteSet(T)
  BY DEF T
<1>7. n <= Cardinality(T)
  BY <1>1, <1>4, <1>5, <1>6, EnoughOf
<1> QED
  BY <1>7 DEF n, T

\* As long as no memory was lost and no free chunks touch, there is at most one more of them
\* than of chunks in use: behind each lies one of these, or the end of the heap.
LEMMA FewFree ==
  ASSUME NEW s, NEW w, NEW t, NEW u, HeapLaid(t, u, s, w),
         Covered(Range(t) \cup Range(u)), Loose(Range(t))
  PROVE  Len(t) <= Len(u) + 1
<1> DEFINE S == Range(t) \cup Range(u)
           n == Len(t)
           m == Len(u)
           T == 0..m
           f == [i \in 1..n |-> IF End(t[i]) = HeapEnd THEN 0
                                ELSE CHOOSE j \in 1..m : u[j].chunk = End(t[i])]
<1>1. Neat(t) /\ Neat(u) /\ Sound(S, s, w)
  BY DEF HeapLaid, Swept
<1>2. /\ \A i, j \in 1..n : t[i].chunk = t[j].chunk => i = j
      /\ n \in Nat /\ m \in Nat /\ \A i \in 1..n : t[i] \in Range(t)
  BY <1>1, NeatDiffer
<1>3. u \in Seq(Entries)
  BY <1>1, NeatIs
<1>4. ASSUME NEW i \in 1..n, End(t[i]) # HeapEnd
      PROVE  \E j \in 1..m : u[j].chunk = End(t[i])
  <2>1. t[i] \in S /\ t[i] \in Range(t)
    BY <1>2
  <2>2. PICK y \in S : y.chunk = End(t[i])
    BY <1>4, <2>1 DEF Covered
  <2>3. y \in Range(u)
    BY <2>1, <2>2 DEF Loose
  <2>4. PICK j \in 1..m : u[j] = y
    BY <1>3, <2>3, InRange
  <2> QED
    BY <2>2, <2>4
<1>5. \A i, j \in 1..n : End(t[i]) = End(t[j]) => i = j
  <2> SUFFICES ASSUME NEW i \in 1..n, NEW j \in 1..n, End(t[i]) = End(t[j]), i # j PROVE FALSE
    OBVIOUS
  <2> DEFINE x == t[i]
             y == t[j]
  <2>1. x \in S /\ y \in S /\ x.chunk # y.chunk /\ End(x) = End(y)
    BY <1>2
  <2> HIDE DEF x, y, S
  <2>2. Off(x, y)
    BY <1>1, <2>1 DEF Sound
  <2>3. x.chunk < End(x) /\ y.chunk < End(y) /\ x.chunk \in Nat /\ y.chunk \in Nat /\ End(x) \in Nat
    BY <1>1, <2>1, SoundNumbers
  <2> QED
    BY <2>1, <2>2, <2>3 DEF Off
<1>6. \A i \in 1..n : /\ f[i] \in T /\ (End(t[i]) = HeapEnd => f[i] = 0)
                      /\ (End(t[i]) # HeapEnd => f[i] \in 1..m /\ u[f[i]].chunk = End(t[i]))
  <2> SUFFICES ASSUME NEW i \in 1..n
               PROVE  /\ f[i] \in T /\ (End(t[i]) = HeapEnd => f[i] = 0)
                      /\ (End(t[i]) # HeapEnd => f[i] \in 1..m /\ u[f[i]].chunk = End(t[i]))
    OBVIOUS
  <2>1. CASE End(t[i]) = HeapEnd
    BY <1>2, <2>1
  <2>2. CASE End(t[i]) # HeapEnd
    <3> DEFINE q == CHOOSE j \in 1..m : u[j].chunk = End(t[i])
    <3>1. f[i] = q
      BY <2>2
    <3>2. q \in 1..m /\ u[q].chunk = End(t[i])
      BY <1>4, <2>2
    <3> HIDE DEF q, f
    <3> QED
      BY <1>2, <2>2, <3>1, <3>2
  <2> QED
    BY <2>1, <2>2
<1>7. f \in [1..n -> T]
  <2>1. f = [i \in 1..n |-> f[i]]
    OBVIOUS
  <2> HIDE DEF f, T
  <2> QED
    BY <1>6, <2>1
<1>8. \A i, j \in 1..n : f[i] = f[j] => i = j
  <2> HIDE DEF f, T
  <2> SUFFICES ASSUME NEW i \in 1..n, NEW j \in 1..n, f[i] = f[j] PROVE End(t[i]) = End(t[j])
    BY <1>5
  <2>1. CASE f[i] = 0
    <3>1. ~ (0 \in 1..m)
      OBVIOUS
    <3>2. End(t[i]) = HeapEnd
      BY <1>6, <2>1, <3>1
    <3>3. End(t[j]) = HeapEnd
      BY <1>6, <2>1, <3>1
    <3> QED
      BY <3>2, <3>3
  <2>2. CASE f[i] # 0
    <3>1. End(t[i]) # HeapEnd /\ End(t[j]) # HeapEnd
      BY <1>6, <2>2
    <3>2. u[f[i]].chunk = End(t[i]) /\ u[f[j]].chunk = End(t[j])
      BY <1>6, <3>1
    <3> QED
      BY <3>2
  <2> QED
    BY <2>1, <2>2
<1>9. IsFiniteSet(T) /\ Cardinality(T) = m + 1
  <2>1. 0 \in Int /\ m \in Int /\ ~ (0 > m)
    BY <1>2
  <2> HIDE DEF m
  <2> QED
    BY <2>1, FS_Interval
<1> HIDE DEF f, T, n, m
<1>10. n <= Cardinality(T)
  BY <1>2, <1>7, <1>8, <1>9, EnoughOf
<1> QED
  BY <1>9, <1>10 DEF n, m

-----------------------------------------------------------------------------
(* Regular callers                                                          *)

\* The one size of the blocks in the heap, and the steps at which its chunks lie.
TheSize(c) == CHOOSE s \in Nat \ {0} : HeapSizes(c) \subseteq {s}

\* Without padding, chunks lie at multiples of the size; otherwise, of the cutoff.
Step(c) == IF Uniform(c) THEN TheSize(c) ELSE SplitCutoff

\* A regular caller uses one size in the heap.
LEMMA RegularSize ==
  ASSUME NEW c, IsCaller(c), Regular(c)
  PROVE  /\ TheSize(c) \in Nat \ {0} /\ HeapSizes(c) \subseteq {TheSize(c)}
         /\ c.resizes \subseteq HeapSizes(c) /\ Step(c) \in Nat \ {0}
         /\ \A size \in c.sizes : /\ size \in Nat \ {0}
                                  /\ ArenaFor(size) = 0 => size \in HeapSizes(c)
<1>1. \A s, n \in HeapSizes(c) : s = n
  BY DEF Regular
<1>2. HeapSizes(c) \subseteq Nat \ {0}
  BY DEF HeapSizes, IsCaller
<1>3. \E s \in Nat \ {0} : HeapSizes(c) \subseteq {s}
  <2>1. CASE HeapSizes(c) = {}
    <3>1. 1 \in Nat \ {0}
      OBVIOUS
    <3> QED
      BY <2>1, <3>1
  <2>2. CASE HeapSizes(c) # {}
    <3>1. PICK s \in HeapSizes(c) : TRUE
      BY <2>2
    <3> QED
      BY <1>1, <1>2, <3>1
  <2> QED
    BY <2>1, <2>2
<1>4. TheSize(c) \in Nat \ {0} /\ HeapSizes(c) \subseteq {TheSize(c)}
  BY <1>3 DEF TheSize
<1>5. c.resizes \subseteq HeapSizes(c)
  BY DEF Regular
<1>6. Step(c) \in Nat \ {0}
  BY <1>4, BinsAssumption DEF Step
<1>7. ASSUME NEW size \in c.sizes
      PROVE  size \in Nat \ {0} /\ (ArenaFor(size) = 0 => size \in HeapSizes(c))
  BY DEF IsCaller, HeapSizes
<1> QED
  BY <1>4, <1>5, <1>6, <1>7

\* What lies on steps that are multiples of an alignment is aligned, as the heap is.
LEMMA StepAligned ==
  ASSUME NEW align \in Nat \ {0}, MaxAlignment % align = 0, NEW w \in Nat \ {0}, w % align = 0,
         NEW n \in Nat, HeapStart <= n, OnStep(n, w)
  PROVE  n \in Multiples(align)
<1> DEFINE M == Multiples(align)
           d == n - HeapStart
<1>1. HeapStart \in M /\ w \in M /\ HeapStart \in Nat
  <2>1. MaxAlignment \in Nat
    BY HeapAssumption
  <2> HIDE DEF M
  <2> QED
    BY <2>1, Divided DEF M, HeapStart
<1>2. d \in Multiples(w) /\ n = HeapStart + d
  BY <1>1 DEF OnStep
<1> HIDE DEF d
<1>3. d \in M
  BY <1>1, <1>2, MultiplesOf
<1> HIDE DEF M
<1> QED
  BY <1>1, <1>2, <1>3, MultiplesAre DEF M

\* Blocks of one size and alignment need no padding.
LEMMA UniformPads ==
  ASSUME NEW c, IsCaller(c), Uniform(c), NEW s \in HeapSizes(c), NEW asked \in c.alignments,
         NEW x, HeapChunk(x, s, s)
  PROVE  PaddingAt(x.chunk, Usable(asked)) = 0
<1> DEFINE align == Usable(asked)
           n == x.chunk
<1>1. align \in Nat \ {0} /\ MaxAlignment % align = 0
  BY UsableIs
<1>2. s \in Nat \ {0} /\ s % align = 0
  BY DEF Uniform, Unpadded, IsCaller, HeapSizes
<1>3. n \in Nat /\ HeapStart <= n /\ OnStep(n, s)
  <2>1. x \in Entries /\ HeapStart <= n /\ OnStep(n, s)
    BY DEF HeapChunk, Plain
  <2> QED
    BY <2>1, Numbers
<1> HIDE DEF align, n
<1>4. n \in Multiples(align)
  BY <1>1, <1>2, <1>3, StepAligned
<1>5. PaddingAt(n, align) = 0
  BY <1>1, <1>3, <1>4, AlignedIs
<1> QED
  BY <1>5 DEF n, align

\* So any free chunk can be cut to such a block.
LEMMA UniformServes ==
  ASSUME NEW c, IsCaller(c), Uniform(c), NEW s \in HeapSizes(c), NEW asked \in c.alignments,
         NEW t, NEW u, HeapLaid(t, u, s, s)
  PROVE  Cuttable(t, u, s, s, Usable(asked))
<1> DEFINE S == Range(t) \cup Range(u)
           align == Usable(asked)
<1>1. Neat(t) /\ Sound(S, s, s) /\ s \in Nat \ {0}
  BY DEF HeapLaid, Swept, IsCaller, HeapSizes
<1> SUFFICES ASSUME NEW k \in 1..Len(t)
             PROVE  LET p == PaddingAt(t[k].chunk, align)
                    IN  /\ MayCut(S, t[k], s) /\ p <= s
                        /\ OnStep(t[k].chunk + p, s) /\ OnStep(t[k].chunk + p + s, s)
                        /\ p = 0 \/ (SplitCutoff <= p /\ Len(t) < FreeCapacity)
  BY DEF Cuttable
<1> DEFINE e == t[k]
<1>2. e \in S
  BY <1>1, NeatDiffer
<1> HIDE DEF S, e
<1>3. HeapChunk(e, s, s)
  BY <1>1, <1>2 DEF Sound
<1>4. PaddingAt(e.chunk, align) = 0
  BY <1>3, UniformPads
<1>5. MayCut(S, e, s)
  BY <1>1, <1>2, FitsUniform
<1>6. e.chunk \in Nat /\ OnStep(e.chunk, s)
  <2>1. e \in Entries /\ OnStep(e.chunk, s)
    BY <1>3 DEF HeapChunk, Plain
  <2> QED
    BY <2>1, Numbers
<1>7. OnStep(e.chunk + s, s)
  <2> DEFINE m == e.chunk
  <2>1. s \in Multiples(s) /\ m \in Nat /\ OnStep(m, s)
    BY <1>1, <1>6, MultiplesAre
  <2> HIDE DEF m
  <2>2. OnStep(m + s, s)
    BY <1>1, <2>1, StepsOn
  <2> QED
    BY <2>2 DEF m
<1>8. e.chunk + 0 = e.chunk /\ e.chunk + 0 + s = e.chunk + s /\ 0 <= s
  BY <1>1, <1>6
<1> HIDE DEF align
<1> QED
  BY <1>4, <1>5, <1>6, <1>7, <1>8 DEF e

\* A padding is a number of cutoffs.
LEMMA PaddedServes ==
  ASSUME NEW c, IsCaller(c), Padded(c), NEW s \in HeapSizes(c), NEW asked \in c.alignments,
         NEW t, NEW u, HeapLaid(t, u, s, SplitCutoff),
         Covered(Range(t) \cup Range(u)), Loose(Range(t)), Len(t) < FreeCapacity
  PROVE  Cuttable(t, u, s, SplitCutoff, Usable(asked))
<1> DEFINE w == SplitCutoff
           F == Range(t)
           A == Range(u)
           S == F \cup A
           align == Usable(asked)
<1>1. /\ Neat(t) /\ Sound(S, s, w) /\ s \in Nat \ {0} /\ w \in Nat \ {0}
      /\ \A x \in A : s <= x.size
  BY BinsAssumption DEF HeapLaid, Swept, IsCaller, HeapSizes
<1>2. align \in Nat \ {0} /\ MaxAlignment % align = 0
  BY UsableIs
<1>3. align % w = 0 /\ s % w = 0 /\ align <= s
  BY DEF Padded
<1> SUFFICES ASSUME NEW k \in 1..Len(t)
             PROVE  LET p == PaddingAt(t[k].chunk, align)
                    IN  /\ MayCut(S, t[k], w) /\ p <= s
                        /\ OnStep(t[k].chunk + p, w) /\ OnStep(t[k].chunk + p + s, w)
                        /\ p = 0 \/ (w <= p /\ Len(t) < FreeCapacity)
  BY DEF Cuttable
<1> DEFINE e == t[k]
           n == e.chunk
           p == PaddingAt(n, align)
           M == Multiples(w)
<1>4. e \in F /\ Covered(F \cup A) /\ Loose(F)
  BY <1>1, NeatDiffer
<1> HIDE DEF e, F, A
<1>5. MayCut(S, e, w)
  BY <1>1, <1>4, FitsPadded
<1>6. n \in Nat /\ OnStep(n, w) /\ HeapStart <= n
  <2>1. HeapChunk(e, s, w)
    BY <1>1, <1>4 DEF Sound
  <2>2. e \in Entries /\ OnStep(n, w) /\ HeapStart <= n
    BY <2>1 DEF HeapChunk, Plain
  <2> QED
    BY <2>2, Numbers
<1> HIDE DEF n, align, S, w
<1>7. align \in M /\ s \in M
  <2> HIDE DEF M
  <2> QED
    BY <1>1, <1>2, <1>3, Divided DEF M
<1>8. n \in M
  <2>1. HeapStart \in M
    <3>1. MaxAlignment \in Multiples(align)
      <4>1. MaxAlignment \in Nat
        BY HeapAssumption
      <4> QED
        BY <1>2, <4>1, Divided
    <3>2. MaxAlignment \in M
      BY <1>1, <1>7, <3>1, MultiplesOf
    <3> QED
      BY <3>2 DEF HeapStart
  <2> DEFINE d == n - HeapStart
  <2>2. d \in M /\ n = HeapStart + d
    BY <1>6, HeapLies DEF OnStep
  <2> HIDE DEF d, M
  <2> QED
    BY <1>1, <2>1, <2>2, MultiplesAre DEF M
<1>9. p \in Nat /\ p < align /\ p \in M
  <2> DEFINE q == AlignUp(n, align)
  <2>1. p \in Nat /\ p < align
    BY <1>2, <1>6, PaddingIs
  <2>2. q \in Multiples(align) /\ q = n + p
    BY <1>2, <1>6, AlignedIs
  <2> HIDE DEF q, p
  <2>3. q \in M
    BY <1>1, <1>2, <1>7, <2>2, MultiplesOf
  <2>4. n <= q /\ q - n = p
    BY <1>6, <2>1, <2>2
  <2> HIDE DEF M
  <2>5. q - n \in M
    BY <1>1, <1>8, <2>3, <2>4, MultiplesAre DEF M
  <2> QED
    BY <2>1, <2>4, <2>5
<1> HIDE DEF p
<1>10. p <= s /\ (p = 0 \/ w <= p)
  <2>1. p # 0 => w <= p
    BY <1>1, <1>9, MultiplesAre
  <2> QED
    BY <1>1, <1>2, <1>3, <1>9, <2>1
<1>11. OnStep(n + p, w)
  BY <1>1, <1>6, <1>9, StepsOn
<1>12. OnStep(n + p + s, w)
  <2> DEFINE m == n + p
  <2>1. m \in Nat /\ OnStep(m, w)
    BY <1>6, <1>9, <1>11
  <2> HIDE DEF m
  <2>2. OnStep(m + s, w)
    BY <1>1, <1>7, <2>1, StepsOn
  <2> QED
    BY <2>2 DEF m
<1> QED
  BY <1>5, <1>10, <1>11, <1>12 DEF e, n, p

-----------------------------------------------------------------------------
(* Where blocks lie                                                         *)

\* Two blocks that do not overlap.
Beyond(x, y) == x.ptr + x.len <= y.ptr \/ y.ptr + y.len <= x.ptr

\* A block in the memory of the allocator, in no free chunk, and in none in use but its own.
Lies(x, f, a) ==
  /\ IsBlock(x) /\ x.len # 0 /\ HeapStart <= x.ptr /\ x.ptr + x.len <= LastAddress + 1
  /\ AllGuarded(f, a, x.ptr, x.ptr + x.len)

\* Where the blocks H lie.
BlocksLie(H, f, a) ==
  /\ DOMAIN H = Owner /\ \A o \in HoldersOf(H) : Lies(H[o], f, a)
  /\ \A o, q \in HoldersOf(H) : o # q => Beyond(H[o], H[q])

\* The numbers of a block.
LEMMA LiesIs ==
  ASSUME NEW x, NEW f, NEW a, Lies(x, f, a)
  PROVE  /\ x.ptr \in Nat /\ x.len \in Nat \ {0} /\ x.ptr + x.len \in Nat /\ x.ptr < x.ptr + x.len
         /\ x = Block(x.ptr, x.len) /\ HeapStart <= x.ptr /\ x.ptr + x.len <= LastAddress + 1
         /\ AllGuarded(f, a, x.ptr, x.ptr + x.len)
BY HeapLies DEF Lies, IsBlock

\* A block is not none.
LEMMA BlockIs ==
  ASSUME NEW l \in Nat, NEW n \in Nat
  PROVE  /\ Block(l, n) # NoBlock /\ Block(l, n).ptr = l /\ Block(l, n).len = n /\ IsBlock(Block(l, n))
<1>1. Block(l, n) \in [ptr : Int, len : Int]
  BY DEF Block
<1> QED
  BY <1>1, BytesAssumption DEF Block, IsBlock

\* From H to G only what o holds changes, to x.
Sets(G, H, o, x) == G = [H EXCEPT ![o] = x]

\* The blocks G, of which o has got x.
NowHolds(H, G, f, a, o, x) ==
  /\ BlocksLie(G, f, a) /\ HoldersOf(G) = HoldersOf(H) \cup {o}
  /\ G[o] = x /\ \A q \in Owner : q # o => G[q] = H[q]

\* The blocks G, of which o has given its own back.
NoMoreHolds(H, G, f, a, o) ==
  /\ BlocksLie(G, f, a) /\ HoldersOf(G) = HoldersOf(H) \ {o}
  /\ \A q \in Owner : q # o => G[q] = H[q]

\* H becomes G as a block of n bytes is put at l, where there is room for it.
Puts(H, G, f2, a2, o, l, n) ==
  /\ Sets(G, H, o, Block(l, n))
  /\ l \in Nat /\ n \in Nat \ {0} /\ HeapStart <= l /\ l + n <= LastAddress + 1
  /\ AllGuarded(f2, a2, l, l + n)
  /\ \A q \in HoldersOf(H) \ {o} : /\ AllGuarded(f2, a2, H[q].ptr, H[q].ptr + H[q].len)
                                   /\ Beyond(H[q], Block(l, n))

\* Where blocks lie when the tables change around them, and one is put at o.
LEMMA BlocksPut ==
  ASSUME NEW H, NEW f, NEW a, BlocksLie(H, f, a), NEW f2, NEW a2, NEW o \in Owner, NEW l, NEW n,
         NEW G, Puts(H, G, f2, a2, o, l, n)
  PROVE  NowHolds(H, G, f2, a2, o, Block(l, n))
<1> DEFINE b == Block(l, n)
<1>0. /\ G = [H EXCEPT ![o] = b] /\ l \in Nat /\ n \in Nat \ {0} /\ HeapStart <= l /\ l + n <= LastAddress + 1
      /\ AllGuarded(f2, a2, l, l + n)
      /\ \A q \in HoldersOf(H) \ {o} : /\ AllGuarded(f2, a2, H[q].ptr, H[q].ptr + H[q].len)
                                       /\ Beyond(H[q], b)
  BY DEF Puts, Sets
<1>1. b # NoBlock /\ b.ptr = l /\ b.len = n /\ IsBlock(b)
  BY <1>0, BlockIs
<1> HIDE DEF b
<1>2. /\ DOMAIN H = Owner /\ DOMAIN G = Owner /\ G[o] = b /\ \A q \in Owner : q # o => G[q] = H[q]
  BY <1>0 DEF BlocksLie
<1>3. HoldersOf(G) = HoldersOf(H) \cup {o}
  BY <1>1, <1>2 DEF HoldersOf
<1>4. Lies(b, f2, a2)
  BY <1>0, <1>1 DEF Lies
<1>5. ASSUME NEW q \in HoldersOf(H), q # o
      PROVE  Lies(G[q], f2, a2) /\ Beyond(G[q], b) /\ Beyond(b, G[q])
  <2>1. G[q] = H[q] /\ q \in HoldersOf(H) \ {o}
    BY <1>2, <1>5 DEF HoldersOf
  <2>2. Lies(H[q], f, a)
    BY DEF BlocksLie
  <2>3. Lies(H[q], f2, a2) /\ Beyond(H[q], b)
    BY <1>0, <2>1, <2>2 DEF Lies
  <2> QED
    BY <2>1, <2>3 DEF Beyond
<1>6. \A q, p \in HoldersOf(H) : q # o /\ p # o /\ q # p => Beyond(G[q], G[p])
  BY <1>2 DEF BlocksLie, HoldersOf
<1>7. \A q \in HoldersOf(G) : Lies(G[q], f2, a2)
  BY <1>2, <1>3, <1>4, <1>5
<1>8. \A q, p \in HoldersOf(G) : q # p => Beyond(G[q], G[p])
  BY <1>2, <1>3, <1>5, <1>6
<1>9. BlocksLie(G, f2, a2)
  BY <1>2, <1>7, <1>8 DEF BlocksLie
<1> QED
  BY <1>2, <1>3, <1>9 DEF NowHolds, b

\* heap_alloc.
LEMMA BlockGiven ==
  ASSUME NEW H, NEW f, NEW a, BlocksLie(H, f, a), NEW f2, NEW a2, NEW o \in Owner, H[o] = NoBlock,
         NEW l \in Nat, NEW n \in Nat \ {0},
         HeapStart <= l, l + n <= LastAddress + 1, Given(f, a, f2, a2, l, l + n),
         NEW G, Sets(G, H, o, Block(l, n))
  PROVE  NowHolds(H, G, f2, a2, o, Block(l, n))
<1> DEFINE h == l + n
<1>1. AllGuarded(f2, a2, l, h)
  BY DEF Given
<1>2. ASSUME NEW q \in HoldersOf(H) \ {o}
      PROVE  AllGuarded(f2, a2, H[q].ptr, H[q].ptr + H[q].len) /\ Beyond(H[q], Block(l, n))
  <2> DEFINE x == H[q]
             i == x.ptr
             j == x.ptr + x.len
  <2>1. Lies(x, f, a)
    BY DEF BlocksLie
  <2>2. i \in Nat /\ j \in Nat /\ i < j /\ AllGuarded(f, a, i, j)
    BY <2>1, LiesIs
  <2> HIDE DEF i, j, h
  <2>3. AllGuarded(f2, a2, i, j) /\ (j <= l \/ h <= i)
    BY <2>2 DEF Given, h
  <2>4. Block(l, n).ptr = l /\ Block(l, n).len = n
    BY BlockIs
  <2> QED
    BY <2>3, <2>4 DEF Beyond, i, j, h
<1> DEFINE i == l
           j == n
<1>3. Puts(H, G, f2, a2, o, i, j)
  BY <1>1, <1>2 DEF Puts
<1> HIDE DEF i, j
<1>4. NowHolds(H, G, f2, a2, o, Block(i, j))
  BY <1>3, BlocksPut
<1> QED
  BY <1>4 DEF i, j

\* heap_realloc in place: the block lies in a chunk in use that starts where it does.
LEMMA BlockResized ==
  ASSUME NEW s, NEW w, NEW H, NEW f, NEW a, BlocksLie(H, f, a), Laid(f, a, s, w),
         NEW o \in HoldersOf(H), NEW x \in Range(a[0]), x.chunk = H[o].ptr, NEW n \in Nat \ {0}, n <= x.size,
         NEW l, l = x.chunk, NEW G, Sets(G, H, o, Block(l, n))
  PROVE  /\ NowHolds(H, G, f, a, o, Block(l, n)) /\ HoldersOf(G) = HoldersOf(H)
         /\ l \in Nat /\ HeapStart <= l /\ l + n <= LastAddress + 1
<1> DEFINE F == Range(f[0])
           A == Range(a[0])
           S == F \cup A
           h == l + n
<1>1. HeapLaid(f[0], a[0], s, w)
  BY DEF Laid
<1>2. Sound(S, s, w) /\ F \cap A = {}
  BY <1>1 DEF HeapLaid, Swept
<1>3. x \in S /\ x \in A
  OBVIOUS
<1> HIDE DEF S
<1>4. \A z \in S : /\ z.chunk \in Nat /\ z.size \in Nat /\ End(z) \in Nat /\ End(z) = z.chunk + z.size
                   /\ z.chunk < End(z) /\ HeapStart <= z.chunk /\ End(z) <= HeapEnd
  BY <1>2, SoundNumbers
<1>5. /\ l \in Nat /\ h \in Nat /\ l < h /\ h <= End(x) /\ HeapStart <= l /\ h <= HeapEnd
      /\ HeapEnd <= LastAddress + 1 /\ End(x) \in Nat
  <2>1. /\ x.chunk \in Nat /\ x.size \in Nat /\ End(x) \in Nat /\ End(x) = x.chunk + x.size
        /\ HeapStart <= x.chunk /\ End(x) <= HeapEnd
    BY <1>3, <1>4
  <2> QED
    BY <2>1, HeapLies, Sizes
<1>6. AllGuarded(f, a, l, h)
  <2> SUFFICES ASSUME NEW k \in Arena PROVE Guarded(Range(f[k]), Range(a[k]), l, h)
    BY DEF AllGuarded
  <2>1. CASE k = 0
    <3>1. ASSUME NEW z \in S, z # x
          PROVE  End(z) <= l \/ h <= z.chunk
      <4>1. Off(z, x) /\ z.chunk \in Nat /\ End(z) \in Nat
        BY <1>2, <1>3, <1>4, <3>1 DEF Sound
      <4> QED
        BY <1>5, <4>1 DEF Off
    <3>2. \A z \in F : End(z) <= l \/ h <= z.chunk
      BY <1>2, <1>3, <3>1 DEF S
    <3>3. \A z \in A : End(z) <= l \/ h <= z.chunk \/ (z.chunk = l /\ h <= End(z))
      BY <1>5, <3>1 DEF S
    <3> QED
      BY <2>1, <3>2, <3>3 DEF Guarded, OffArea
  <2>2. CASE k # 0
    <3> DEFINE zero == 0
               t == f[k]
               u == a[k]
    <3>1. zero \in Arena /\ zero # k /\ Lo(zero) <= l /\ h <= Hi(zero) /\ ArenaLaid(t, u, k, s, w)
      BY <1>5, <2>2, ArenaIs, LaidIs DEF Lo, Hi
    <3> HIDE DEF zero, t, u, h
    <3>2. Guarded(Range(t), Range(u), l, h)
      BY <1>5, <3>1, OtherArena
    <3> QED
      BY <3>2 DEF t, u
  <2> QED
    BY <2>1, <2>2
<1>7. ASSUME NEW q \in HoldersOf(H) \ {o}
      PROVE  AllGuarded(f, a, H[q].ptr, H[q].ptr + H[q].len) /\ Beyond(H[q], Block(l, n))
  <2> DEFINE y == H[q]
             i == y.ptr
             j == y.ptr + y.len
  <2>1. i \in Nat /\ j \in Nat /\ i < j /\ AllGuarded(f, a, i, j)
    <3>1. Lies(y, f, a)
      BY DEF BlocksLie
    <3> QED
      BY <3>1, LiesIs
  <2>2. i # l
    <3>1. Lies(H[o], f, a) /\ Lies(H[q], f, a) /\ Beyond(H[o], H[q])
      BY DEF BlocksLie
    <3>2. H[o].ptr \in Nat /\ H[o].ptr < H[o].ptr + H[o].len
      BY <3>1, LiesIs
    <3> HIDE DEF i, j
    <3>3. H[o].ptr + H[o].len \in Nat /\ H[o].ptr = l
      BY <3>1, LiesIs
    <3> QED
      BY <2>1, <3>1, <3>2, <3>3 DEF Beyond, i, j
  <2> HIDE DEF i, j
  <2>3. Guarded(F, A, i, j)
    BY <2>1, ArenaIs DEF AllGuarded
  <2>4. End(x) <= i \/ j <= l
    BY <1>3, <2>2, <2>3 DEF Guarded
  <2>5. j <= l \/ h <= i
    BY <1>5, <2>1, <2>4
  <2>6. Block(l, n).ptr = l /\ Block(l, n).len = n
    BY <1>5, BlockIs
  <2> QED
    BY <2>1, <2>5, <2>6 DEF Beyond, i, j
<1>8. o \in Owner /\ HoldersOf(H) \cup {o} = HoldersOf(H)
  BY DEF HoldersOf
<1>9. l + n <= LastAddress + 1
  BY <1>5, HeapAssumption, HeapLies
<1>10. Puts(H, G, f, a, o, l, n)
  BY <1>5, <1>6, <1>7, <1>9 DEF Puts
<1> DEFINE i == l
           j == n
<1>11. Puts(H, G, f, a, o, i, j)
  BY <1>10
<1> HIDE DEF i, j
<1>12. NowHolds(H, G, f, a, o, Block(i, j))
  BY <1>8, <1>11, BlocksPut
<1>13. NowHolds(H, G, f, a, o, Block(l, n))
  BY <1>12 DEF i, j
<1>14. HoldersOf(G) = HoldersOf(H)
  BY <1>8, <1>13 DEF NowHolds
<1> QED
  BY <1>5, <1>9, <1>13, <1>14

\* heap_free.
LEMMA BlockGone ==
  ASSUME NEW H, NEW f, NEW a, BlocksLie(H, f, a), NEW f2, NEW a2, NEW o \in HoldersOf(H),
         TakenBack(f, a, f2, a2, H[o].ptr), NEW G, Sets(G, H, o, NoBlock)
  PROVE  NoMoreHolds(H, G, f2, a2, o)
<1>1. /\ DOMAIN H = Owner /\ DOMAIN G = Owner /\ G[o] = NoBlock /\ \A q \in Owner : q # o => G[q] = H[q]
  BY DEF BlocksLie, HoldersOf, Sets
<1>2. HoldersOf(G) = HoldersOf(H) \ {o}
  BY <1>1 DEF HoldersOf
<1>3. ASSUME NEW q \in HoldersOf(H), q # o
      PROVE  Lies(G[q], f2, a2)
  <2> DEFINE x == H[q]
             i == x.ptr
             j == x.ptr + x.len
  <2>1. Lies(x, f, a) /\ G[q] = x
    BY <1>1, <1>3 DEF BlocksLie, HoldersOf
  <2>2. i \in Nat /\ j \in Nat /\ i < j /\ AllGuarded(f, a, i, j)
    BY <2>1, LiesIs
  <2>3. i # H[o].ptr
    <3>1. Lies(H[o], f, a) /\ Beyond(H[o], H[q])
      BY <1>3 DEF BlocksLie
    <3>2. H[o].ptr \in Nat /\ H[o].ptr < H[o].ptr + H[o].len /\ H[o].ptr + H[o].len \in Nat
      BY <3>1, LiesIs
    <3> QED
      BY <2>2, <3>1, <3>2 DEF Beyond
  <2> HIDE DEF i, j
  <2>4. AllGuarded(f2, a2, i, j)
    BY <2>2, <2>3 DEF TakenBack
  <2> QED
    BY <2>1, <2>4 DEF Lies, i, j
<1>4. \A q, p \in HoldersOf(G) : q # p => Beyond(G[q], G[p])
  BY <1>1, <1>2 DEF BlocksLie, HoldersOf
<1> QED
  BY <1>1, <1>2, <1>3, <1>4 DEF BlocksLie, NoMoreHolds

-----------------------------------------------------------------------------
(* What they hold                                                           *)

\* Addresses of the memory.
InMemory(p, n) == p \in Nat /\ n \in Nat /\ HeapStart <= p /\ p + n <= LastAddress + 1

\* The bytes of the memory.
IsMemory(b) == DOMAIN b = HeapStart..LastAddress

\* From b to w, the n bytes at p stay those of q.
Keeps(w, b, q, p, n) == Holds(b, q, p, n) => Holds(w, q, p, n)

\* A user stores the bytes from the first on, of len at ptr.
LEMMA Stores ==
  ASSUME NEW b, IsMemory(b), NEW o \in Owner, NEW ptr, NEW len, InMemory(ptr, len), NEW first \in Nat,
         \A i \in 0..(len - 1) : i < first => b[ptr + i] = Stored(o, i),
         NEW w, w = Fill(b, o, ptr, first, len)
  PROVE  /\ IsMemory(w) /\ Holds(w, o, ptr, len)
         /\ \A q \in Owner, p, n \in Nat :
              InMemory(p, n) /\ (p + n <= ptr \/ ptr + len <= p) => Keeps(w, b, q, p, n)
<1>1. /\ ptr \in Nat /\ len \in Nat /\ HeapStart <= ptr /\ ptr + len <= LastAddress + 1
      /\ LastAddress \in Nat /\ HeapStart \in Nat
  BY HeapAssumption, HeapLies DEF InMemory
<1>2. /\ DOMAIN w = DOMAIN b
      /\ \A a \in DOMAIN b : w[a] = IF a \in (ptr + first)..(ptr + len - 1) THEN Stored(o, a - ptr) ELSE b[a]
  BY DEF Fill
<1>3. ASSUME NEW i \in 0..(len - 1)
      PROVE  w[ptr + i] = Stored(o, i)
  <2>1. ptr + i \in DOMAIN b /\ (ptr + i) - ptr = i
    BY <1>1 DEF IsMemory
  <2>2. CASE i < first
    <3>1. ptr + i \notin (ptr + first)..(ptr + len - 1)
      BY <1>1, <2>2
    <3>2. b[ptr + i] = Stored(o, i)
      BY <2>2
    <3> QED
      BY <1>2, <2>1, <3>1, <3>2
  <2>3. CASE ~ (i < first)
    <3>1. ptr + i \in (ptr + first)..(ptr + len - 1)
      BY <1>1, <2>3
    <3> QED
      BY <1>2, <2>1, <3>1
  <2> QED
    BY <2>2, <2>3
<1>4. ASSUME NEW q \in Owner, NEW p \in Nat, NEW n \in Nat, InMemory(p, n), p + n <= ptr \/ ptr + len <= p,
             NEW i \in 0..(n - 1)
      PROVE  w[p + i] = b[p + i]
  <2>1. p + i \in DOMAIN b
    BY <1>1, <1>4 DEF IsMemory, InMemory
  <2>2. p + i \notin (ptr + first)..(ptr + len - 1)
    BY <1>1, <1>4
  <2> QED
    BY <1>2, <2>1, <2>2
<1> QED
  BY <1>2, <1>3, <1>4 DEF Holds, Keeps, IsMemory

\* What one user forgets, the others keep; it keeps the block it has.
LEMMA Forgets ==
  ASSUME NEW b, IsMemory(b), NEW o \in Owner, NEW block, NEW w, w = Forgotten(b, o, block)
  PROVE  /\ IsMemory(w)
         /\ \A q \in Owner, p, n \in Nat : q # o /\ InMemory(p, n) => Keeps(w, b, q, p, n)
         /\ \A p, n \in Nat : block = Block(p, n) /\ block # NoBlock /\ InMemory(p, n) => Keeps(w, b, o, p, n)
<1> DEFINE Out(a) == block = NoBlock \/ a \notin block.ptr..(block.ptr + block.len - 1)
           Mine(a) == \E i \in 0..HeapCapacity : b[a] = Stored(o, i)
<1>1. /\ DOMAIN w = DOMAIN b
      /\ \A a \in DOMAIN b : w[a] = IF Mine(a) /\ Out(a) THEN Junk ELSE b[a]
  BY DEF Forgotten
<1>2. ASSUME NEW q \in Owner, NEW p \in Nat, NEW n \in Nat, InMemory(p, n), NEW i \in 0..(n - 1)
      PROVE  p + i \in DOMAIN b
  BY <1>2, HeapAssumption, HeapLies DEF InMemory, IsMemory
<1>3. ASSUME NEW q \in Owner, NEW p \in Nat, NEW n \in Nat, q # o, InMemory(p, n), Holds(b, q, p, n),
             NEW i \in 0..(n - 1)
      PROVE  w[p + i] = Stored(q, i)
  <2>1. p + i \in DOMAIN b /\ b[p + i] = Stored(q, i) /\ i \in Nat
    BY <1>2, <1>3 DEF Holds
  <2>2. ~ Mine(p + i)
    <3> SUFFICES ASSUME NEW j \in 0..HeapCapacity, Stored(q, i) = Stored(o, j) PROVE FALSE
      BY <2>1
    <3>1. o = q /\ j = i
      BY <2>1, StoredIsOwn
    <3> QED
      BY <1>3, <3>1
  <2> HIDE DEF Mine, Out
  <2> QED
    BY <1>1, <2>1, <2>2
<1>4. ASSUME NEW p \in Nat, NEW n \in Nat, block = Block(p, n), block # NoBlock, InMemory(p, n), Holds(b, o, p, n),
             NEW i \in 0..(n - 1)
      PROVE  w[p + i] = Stored(o, i)
  <2>1. p + i \in DOMAIN b /\ b[p + i] = Stored(o, i)
    BY <1>2, <1>4 DEF Holds
  <2>2. ~ Out(p + i)
    <3>1. block.ptr = p /\ block.len = n
      BY <1>4 DEF Block
    <3>2. p + i \in p..(p + n - 1)
      BY <1>4
    <3> QED
      BY <1>4, <3>1, <3>2
  <2> HIDE DEF Mine, Out
  <2> QED
    BY <1>1, <2>1, <2>2
<1> QED
  <2> HIDE DEF Mine, Out
  <2> QED
    BY <1>1, <1>3, <1>4 DEF Keeps, Holds, IsMemory

\* The blocks H hold what their users stored.
BytesLie(b, H) == IsMemory(b) /\ \A o \in HoldersOf(H) : Holds(b, o, H[o].ptr, H[o].len)

\* o, and no other, has a new block or a new size, and what it stored is there.
LEMMA BytesPut ==
  ASSUME NEW b, NEW H, BytesLie(b, H), NEW G, NEW f, NEW a, BlocksLie(G, f, a), NEW o \in Owner,
         HoldersOf(G) = HoldersOf(H) \cup {o}, \A q \in Owner : q # o => G[q] = H[q],
         NEW w, IsMemory(w), Holds(w, o, G[o].ptr, G[o].len),
         \A q \in Owner, p, n \in Nat : q # o /\ InMemory(p, n)
           /\ (p + n <= G[o].ptr \/ G[o].ptr + G[o].len <= p) => Keeps(w, b, q, p, n)
  PROVE  BytesLie(w, G)
<1> SUFFICES ASSUME NEW q \in HoldersOf(G), q # o PROVE Holds(w, q, G[q].ptr, G[q].len)
  BY DEF BytesLie
<1> DEFINE p == G[q].ptr
           n == G[q].len
<1>1. q \in Owner /\ o \in HoldersOf(G) /\ q \in HoldersOf(H) /\ G[q] = H[q]
  BY DEF HoldersOf
<1>2. Holds(b, q, p, n)
  BY <1>1 DEF BytesLie
<1>3. Lies(G[q], f, a) /\ Beyond(G[q], G[o])
  BY <1>1 DEF BlocksLie
<1>4. p \in Nat /\ n \in Nat /\ HeapStart <= p /\ p + n <= LastAddress + 1
  BY <1>3, LiesIs
<1>5. InMemory(p, n) /\ (p + n <= G[o].ptr \/ G[o].ptr + G[o].len <= p)
  BY <1>3, <1>4 DEF InMemory, Beyond
<1> HIDE DEF p, n
<1>6. Keeps(w, b, q, p, n)
  BY <1>1, <1>4, <1>5
<1> QED
  BY <1>2, <1>6 DEF Keeps, p, n

\* What the bytes b become after a heap_alloc of n bytes at l.
Fills(w, b, o, l, n) == w = Fill(b, o, l, 0, n)

\* The same after a heap_realloc.
Refills(w, b, H, o, l, n) == w = Resized(b, o, H[o], l, n)

\* heap_alloc and what the user stores.
LEMMA BytesGiven ==
  ASSUME NEW b, NEW H, BytesLie(b, H), NEW G, NEW f, NEW a, BlocksLie(G, f, a), NEW o \in Owner,
         HoldersOf(G) = HoldersOf(H) \cup {o}, \A q \in Owner : q # o => G[q] = H[q],
         NEW l \in Nat, NEW n \in Nat, G[o] = Block(l, n), NEW w, Fills(w, b, o, l, n)
  PROVE  BytesLie(w, G)
<1>1. G[o].ptr = l /\ G[o].len = n
  BY BlockIs
<1>2. InMemory(l, n)
  <2>1. Lies(G[o], f, a)
    BY DEF BlocksLie
  <2> QED
    BY <1>1, <2>1, LiesIs DEF InMemory
<1>3. IsMemory(b)
  BY DEF BytesLie
<1> DEFINE zero == 0
           i == l
           j == n
<1>4. /\ zero \in Nat /\ w = Fill(b, o, i, zero, j) /\ InMemory(i, j)
      /\ \A k \in 0..(j - 1) : k < zero => b[i + k] = Stored(o, k)
  BY <1>2 DEF Fills
<1> HIDE DEF zero, i, j
<1>5. /\ IsMemory(w) /\ Holds(w, o, i, j)
      /\ \A q \in Owner, p, m \in Nat :
           InMemory(p, m) /\ (p + m <= i \/ i + j <= p) => Keeps(w, b, q, p, m)
  BY <1>3, <1>4, Stores
<1>6. /\ Holds(w, o, G[o].ptr, G[o].len)
      /\ \A q \in Owner, p, m \in Nat : q # o /\ InMemory(p, m)
           /\ (p + m <= G[o].ptr \/ G[o].ptr + G[o].len <= p) => Keeps(w, b, q, p, m)
  BY <1>1, <1>5 DEF i, j
<1> QED
  BY <1>5, <1>6, BytesPut

\* heap_realloc in place.
LEMMA BytesResized ==
  ASSUME NEW b, NEW H, BytesLie(b, H), NEW G, NEW f, NEW a, BlocksLie(G, f, a), NEW o \in HoldersOf(H),
         HoldersOf(G) = HoldersOf(H), \A q \in Owner : q # o => G[q] = H[q],
         NEW l \in Nat, NEW n \in Nat, G[o] = Block(l, n), H[o].ptr = l, H[o].len \in Nat,
         NEW w, Refills(w, b, H, o, l, n)
  PROVE  BytesLie(w, G)
<1> DEFINE first == Least(H[o].len, n)
           m == H[o].len
           v == Fill(b, o, l, first, n)
           block == Block(l, n)
<1>1. G[o].ptr = l /\ G[o].len = n /\ block # NoBlock /\ o \in Owner
  BY BlockIs DEF HoldersOf
<1>2. InMemory(l, n)
  <2>1. Lies(G[o], f, a)
    BY DEF BlocksLie
  <2> QED
    BY <1>1, <2>1, LiesIs DEF InMemory
<1>3. IsMemory(b) /\ Holds(b, o, l, m)
  BY DEF BytesLie
<1>4. first \in Nat /\ first <= m
  BY DEF Least
<1>5. w = Forgotten(v, o, block)
  BY DEF Refills, Resized
<1> DEFINE i == l
           j == n
<1>6. /\ v = Fill(b, o, i, first, j) /\ InMemory(i, j)
      /\ \A k \in 0..(j - 1) : k < first => b[i + k] = Stored(o, k)
  <2>1. \A k \in 0..(j - 1) : k < first => k \in 0..(m - 1)
    BY <1>4
  <2> HIDE DEF first, m
  <2> QED
    BY <1>2, <1>3, <2>1 DEF Holds
<1> HIDE DEF i, j, v, first, m, block
<1>7. /\ IsMemory(v) /\ Holds(v, o, i, j)
      /\ \A q \in Owner, p, k \in Nat :
           InMemory(p, k) /\ (p + k <= i \/ i + j <= p) => Keeps(v, b, q, p, k)
  BY <1>1, <1>3, <1>4, <1>6, Stores
<1>8. /\ IsMemory(w)
      /\ \A q \in Owner, p, k \in Nat : q # o /\ InMemory(p, k) => Keeps(w, v, q, p, k)
      /\ \A p, k \in Nat : block = Block(p, k) /\ block # NoBlock /\ InMemory(p, k) => Keeps(w, v, o, p, k)
  BY <1>1, <1>5, <1>7, Forgets
<1>9. Holds(w, o, i, j)
  <2>1. block = Block(i, j) /\ i \in Nat /\ j \in Nat
    BY DEF block, i, j
  <2> QED
    BY <1>1, <1>6, <1>7, <1>8, <2>1 DEF Keeps
<1>10. \A q \in Owner, p, k \in Nat : q # o /\ InMemory(p, k) /\ (p + k <= i \/ i + j <= p) => Keeps(w, b, q, p, k)
  BY <1>7, <1>8 DEF Keeps
<1>11. /\ Holds(w, o, G[o].ptr, G[o].len)
       /\ \A q \in Owner, p, k \in Nat : q # o /\ InMemory(p, k)
            /\ (p + k <= G[o].ptr \/ G[o].ptr + G[o].len <= p) => Keeps(w, b, q, p, k)
  BY <1>1, <1>9, <1>10 DEF i, j
<1>12. HoldersOf(G) = HoldersOf(H) \cup {o}
  OBVIOUS
<1> QED
  BY <1>1, <1>8, <1>11, <1>12, BytesPut

\* heap_free.
LEMMA BytesGone ==
  ASSUME NEW b, NEW H, BytesLie(b, H), NEW f, NEW a, BlocksLie(H, f, a), NEW G, NEW o \in Owner,
         HoldersOf(G) = HoldersOf(H) \ {o}, \A q \in Owner : q # o => G[q] = H[q],
         NEW w, w = Forgotten(b, o, NoBlock)
  PROVE  BytesLie(w, G)
<1>1. IsMemory(b)
  BY DEF BytesLie
<1>2. /\ IsMemory(w)
      /\ \A q \in Owner, p, n \in Nat : q # o /\ InMemory(p, n) => Keeps(w, b, q, p, n)
  BY <1>1, Forgets
<1> SUFFICES ASSUME NEW q \in HoldersOf(G) PROVE Holds(w, q, G[q].ptr, G[q].len)
  BY <1>2 DEF BytesLie
<1> DEFINE p == G[q].ptr
           n == G[q].len
<1>3. q \in Owner /\ q # o /\ q \in HoldersOf(H) /\ G[q] = H[q]
  BY DEF HoldersOf
<1>4. Holds(b, q, p, n)
  BY <1>3 DEF BytesLie
<1>5. p \in Nat /\ n \in Nat /\ InMemory(p, n)
  <2>1. Lies(G[q], f, a)
    BY <1>3 DEF BlocksLie
  <2> QED
    BY <2>1, LiesIs DEF InMemory
<1> HIDE DEF p, n
<1>6. Keeps(w, b, q, p, n)
  BY <1>2, <1>3, <1>5
<1> QED
  BY <1>4, <1>6 DEF Keeps, p, n

-----------------------------------------------------------------------------
(* The calls of a regular caller                                            *)

\* The chunks in use of a caller whose blocks need no padding: none can be split again, and
\* all have the alignment asked for.
Alike(c, a) ==
  \A x \in Range(a[0]) : /\ x.size < TheSize(c) + SplitCutoff
                         /\ \A asked \in c.alignments : x.align = Usable(asked)

\* The heap of any other regular caller: its tables have room for every chunk.
Roomy(c, f, a, H) ==
  /\ Covered(Range(f[0]) \cup Range(a[0])) /\ Loose(Range(f[0]))
  /\ Used(Range(a[0]), H) /\ IsFiniteSet(HoldersOf(H)) /\ Cardinality(HoldersOf(H)) <= c.blocks

\* The tables f and a and the blocks H of a regular caller c.
InUse(c, f, a, H) ==
  /\ Laid(f, a, TheSize(c), Step(c)) /\ BlocksLie(H, f, a)
  /\ Uniform(c) /\ HeapSizes(c) # {} => Alike(c, a)
  /\ ~ Uniform(c) => Roomy(c, f, a, H)

\* How full the tables of the heap are.
LEMMA RoomLeft ==
  ASSUME NEW c, IsCaller(c), Padded(c), NEW f, NEW a, Laid(f, a, TheSize(c), Step(c)), NEW H, Roomy(c, f, a, H)
  PROVE  /\ Len(f[0]) < FreeCapacity
         /\ Cardinality(HoldersOf(H)) < c.blocks => Len(f[0]) + 1 < FreeCapacity /\ Len(a[0]) < AllocCapacity
<1> DEFINE t == f[0]
           u == a[0]
           n == Cardinality(HoldersOf(H))
           s == TheSize(c)
           w == Step(c)
<1>1. /\ HeapLaid(t, u, s, w) /\ Neat(t) /\ Neat(u)
      /\ Covered(Range(t) \cup Range(u)) /\ Loose(Range(t))
      /\ Used(Range(u), H) /\ IsFiniteSet(HoldersOf(H)) /\ n <= c.blocks
  BY DEF Laid, HeapLaid, Swept, Roomy
<1>2. n \in Nat
  BY <1>1, FS_CardinalityType
<1>3. Len(u) <= n
  <2> HIDE DEF t, u, s, w
  <2> QED
    BY <1>1, FewBlocks DEF n
<1> HIDE DEF t, u, n, s, w
<1>4. Len(t) <= Len(u) + 1
  BY <1>1, FewFree
<1>5. Len(t) \in Nat /\ Len(u) \in Nat
  BY <1>1, NeatDiffer
<1>6. /\ c.blocks \in Nat /\ FreeCapacity \in Nat /\ AllocCapacity \in Nat
      /\ c.blocks + 2 <= FreeCapacity /\ c.blocks <= AllocCapacity
  BY BinsAssumption DEF IsCaller, Padded
<1>7. Len(t) < FreeCapacity /\ (n < c.blocks => Len(t) + 1 < FreeCapacity /\ Len(u) < AllocCapacity)
  BY <1>1, <1>2, <1>3, <1>4, <1>5, <1>6
<1> QED
  BY <1>7 DEF t, u, n

\* Every call a regular caller makes can be served without padding that gets lost.
LEMMA RegularServes ==
  ASSUME NEW c, IsCaller(c), Regular(c), NEW f, NEW a, NEW H, InUse(c, f, a, H),
         NEW size \in c.sizes, NEW asked \in c.alignments
  PROVE  Served(f, a, TheSize(c), Step(c), size, Usable(asked))
<1> DEFINE s == TheSize(c)
           w == Step(c)
           k == ArenaFor(size)
           t == f[0]
           u == a[0]
<1>1. /\ s \in Nat \ {0} /\ HeapSizes(c) \subseteq {s} /\ size \in Nat \ {0}
      /\ k = 0 => size \in HeapSizes(c)
  BY RegularSize
<1>2. CASE k = 0
  <2>1. size = s /\ s \in HeapSizes(c)
    BY <1>1, <1>2
  <2>2. HeapLaid(t, u, s, w) /\ Laid(f, a, TheSize(c), Step(c))
    BY DEF InUse, Laid
  <2>3. CASE Uniform(c)
    <3>1. w = s
      BY <2>3 DEF Step
    <3> HIDE DEF s, w, t, u
    <3>2. Cuttable(t, u, s, s, Usable(asked))
      BY <2>1, <2>2, <2>3, <3>1, UniformServes
    <3> QED
      BY <1>2, <2>1, <3>1, <3>2 DEF Served, s, w, t, u
  <2>4. CASE ~ Uniform(c)
    <3>1. w = SplitCutoff /\ Padded(c) /\ Roomy(c, f, a, H)
      BY <2>4 DEF Step, Regular, InUse
    <3>2. Len(f[0]) < FreeCapacity
      BY <2>2, <3>1, RoomLeft
    <3>3. Len(t) < FreeCapacity /\ Covered(Range(t) \cup Range(u)) /\ Loose(Range(t))
      BY <3>1, <3>2 DEF Roomy
    <3> HIDE DEF s, w, t, u
    <3>4. Cuttable(t, u, s, SplitCutoff, Usable(asked))
      BY <2>1, <2>2, <3>1, <3>3, PaddedServes
    <3> QED
      BY <1>2, <2>1, <3>1, <3>4 DEF Served, s, w, t, u
  <2> QED
    BY <2>3, <2>4
<1>3. CASE k # 0
  <2>1. k \in DOMAIN Bins
    <3>1. k \in Arena
      BY <1>1, <1>3, ArenaForFits
    <3> QED
      BY <1>3, <3>1, ArenaIs, BinsAssumption DEF Arena
  <2>2. Bins[k].size % Usable(asked) = 0
    BY <2>1 DEF Regular
  <2> QED
    BY <1>3, <2>2 DEF Served
<1> QED
  BY <1>2, <1>3

\* heap_alloc by a regular caller.
LEMMA RegularGiven ==
  ASSUME NEW c, IsCaller(c), Regular(c), NEW f, NEW a, NEW H, InUse(c, f, a, H),
         NEW b, BytesLie(b, H), NEW o \in Owner, H[o] = NoBlock, Cardinality(HoldersOf(H)) < c.blocks,
         NEW size \in c.sizes, NEW asked \in c.alignments,
         NEW r, r = HeapAlloc(f, a, size, asked), r.ptr # Null,
         NEW G, Sets(G, H, o, Block(r.ptr, size)), NEW w, Fills(w, b, o, r.ptr, size)
  PROVE  InUse(c, r.free, r.alloc, G) /\ BytesLie(w, G)
<1> DEFINE s == TheSize(c)
           v == Step(c)
           f2 == r.free
           a2 == r.alloc
           l == r.ptr
           align == Usable(asked)
<1>1. s \in Nat \ {0} /\ HeapSizes(c) \subseteq {s} /\ size \in Nat \ {0}
  BY RegularSize
<1>2. Laid(f, a, s, v) /\ BlocksLie(H, f, a)
  BY DEF InUse
<1>3. Served(f, a, s, v, size, align)
  BY RegularServes
<1>4. LaidOut(f, a, r, s, v, size, align)
  <2> HIDE DEF s, v
  <2> QED
    BY <1>1, <1>2, <1>3, AllocLaysOut
<1>5. /\ Laid(f2, a2, s, v) /\ Given(f, a, f2, a2, l, l + size)
      /\ l \in Nat /\ HeapStart <= l /\ l + size <= LastAddress + 1
      /\ Draws(f, a, f2, a2, s, align, l)
  BY <1>4 DEF LaidOut
<1>6. /\ BlocksLie(G, f2, a2) /\ HoldersOf(G) = HoldersOf(H) \cup {o} /\ o \notin HoldersOf(H)
      /\ G[o] = Block(l, size) /\ \A q \in Owner : q # o => G[q] = H[q]
  <2>1. Sets(G, H, o, Block(l, size))
    OBVIOUS
  <2> HIDE DEF f2, a2, l
  <2>2. /\ l \in Nat /\ size \in Nat \ {0} /\ HeapStart <= l /\ l + size <= LastAddress + 1
        /\ Given(f, a, f2, a2, l, l + size) /\ BlocksLie(H, f, a) /\ o \in Owner /\ H[o] = NoBlock
    BY <1>1, <1>2, <1>5
  <2>3. NowHolds(H, G, f2, a2, o, Block(l, size))
    BY <2>1, <2>2, BlockGiven
  <2> QED
    BY <2>2, <2>3 DEF NowHolds, HoldersOf
<1>7. BytesLie(w, G)
  <2>1. Fills(w, b, o, l, size)
    OBVIOUS
  <2> HIDE DEF f2, a2, l
  <2>2. /\ l \in Nat /\ size \in Nat /\ BytesLie(b, H) /\ BlocksLie(G, f2, a2) /\ o \in Owner
        /\ HoldersOf(G) = HoldersOf(H) \cup {o} /\ G[o] = Block(l, size)
        /\ \A q \in Owner : q # o => G[q] = H[q]
    BY <1>1, <1>5, <1>6
  <2> QED
    BY <2>1, <2>2, BytesGiven, SMTT(30)
<1>8. ASSUME Uniform(c), HeapSizes(c) # {}
      PROVE  Alike(c, a2)
  <2>1. Alike(c, a)
    BY <1>8 DEF InUse
  <2>2. \A asked2 \in c.alignments : Usable(asked2) = align
    <3>1. PICK m \in Alignments : Unpadded(c, m)
      BY <1>8 DEF Uniform
    <3> QED
      BY <1>8, <3>1 DEF Unpadded
  <2>3. \A x \in Range(a2[0]) : x \in Range(a[0]) \/ (x.align = align /\ x.size < s + SplitCutoff)
    BY <1>5 DEF Draws
  <2> QED
    BY <2>1, <2>2, <2>3 DEF Alike
<1>9. ASSUME ~ Uniform(c)
      PROVE  Roomy(c, f2, a2, G)
  <2>1. Padded(c) /\ Roomy(c, f, a, H)
    BY <1>9 DEF Regular, InUse
  <2>2. Len(f[0]) + 1 < FreeCapacity /\ Len(a[0]) < AllocCapacity
    BY <1>2, <2>1, RoomLeft
  <2>3. Covered(Range(f2[0]) \cup Range(a2[0])) /\ Loose(Range(f2[0]))
    BY <1>5, <2>1, <2>2 DEF Draws, Roomy
  <2>4. Used(Range(a2[0]), G)
    <3> SUFFICES ASSUME NEW x \in Range(a2[0])
                 PROVE  \E q \in HoldersOf(G) : G[q].ptr = x.chunk
      BY DEF Used
    <3>1. CASE x \in Range(a[0])
      <4>1. PICK q \in HoldersOf(H) : H[q].ptr = x.chunk
        BY <2>1, <3>1 DEF Roomy, Used
      <4>2. q \in Owner /\ q # o /\ q \in HoldersOf(G)
        BY <1>6, <4>1 DEF HoldersOf
      <4> QED
        BY <1>6, <4>1, <4>2
    <3>2. CASE x.chunk = l
      <4>1. G[o].ptr = l
        BY <1>1, <1>5, <1>6, BlockIs
      <4> QED
        BY <1>6, <3>2, <4>1
    <3> QED
      BY <1>5, <3>1, <3>2 DEF Draws
  <2>5. IsFiniteSet(HoldersOf(G)) /\ Cardinality(HoldersOf(G)) <= c.blocks
    <3>1. /\ IsFiniteSet(HoldersOf(H)) /\ Cardinality(HoldersOf(H)) \in Nat /\ c.blocks \in Nat
      BY <2>1, FS_CardinalityType DEF Roomy, IsCaller
    <3>2. /\ IsFiniteSet(HoldersOf(H) \cup {o})
          /\ Cardinality(HoldersOf(H) \cup {o}) = Cardinality(HoldersOf(H)) + 1
      BY <1>6, <3>1, FS_AddElement
    <3>3. Cardinality(HoldersOf(H)) + 1 <= c.blocks
      BY <3>1
    <3> QED
      BY <1>6, <3>2, <3>3
  <2> QED
    BY <2>3, <2>4, <2>5 DEF Roomy
<1> QED
  BY <1>5, <1>6, <1>7, <1>8, <1>9 DEF InUse

\* heap_free by a regular caller.
LEMMA RegularGone ==
  ASSUME NEW c, IsCaller(c), Regular(c), NEW f, NEW a, NEW H, InUse(c, f, a, H),
         NEW b, BytesLie(b, H), NEW o \in HoldersOf(H),
         NEW r, r = HeapFree(f, a, H[o].ptr), NEW G, Sets(G, H, o, NoBlock),
         NEW w, w = Forgotten(b, o, NoBlock)
  PROVE  InUse(c, r.free, r.alloc, G) /\ BytesLie(w, G)
<1> DEFINE s == TheSize(c)
           v == Step(c)
           f2 == r.free
           a2 == r.alloc
           p == H[o].ptr
<1>1. s \in Nat
  BY RegularSize
<1>2. Laid(f, a, s, v) /\ BlocksLie(H, f, a)
  BY DEF InUse
<1>3. p \in Nat /\ o \in Owner
  BY <1>2, LiesIs DEF BlocksLie, HoldersOf
<1>4. LaidBack(f, a, r, s, v, p)
  <2>1. r = HeapFree(f, a, p)
    OBVIOUS
  <2> HIDE DEF s, v, p
  <2> QED
    BY <1>1, <1>2, <1>3, <2>1, FreeLaysBack
<1>5. Laid(f2, a2, s, v) /\ TakenBack(f, a, f2, a2, p) /\ Returns(f, a, f2, a2, p)
  BY <1>4 DEF LaidBack
<1>6. /\ BlocksLie(G, f2, a2) /\ HoldersOf(G) = HoldersOf(H) \ {o}
      /\ \A q \in Owner : q # o => G[q] = H[q]
  <2>1. TakenBack(f, a, f2, a2, H[o].ptr) /\ BlocksLie(H, f, a) /\ Sets(G, H, o, NoBlock)
    BY <1>2, <1>5
  <2> HIDE DEF f2, a2
  <2>2. NoMoreHolds(H, G, f2, a2, o)
    BY <2>1, BlockGone
  <2> QED
    BY <2>2 DEF NoMoreHolds
<1>7. BytesLie(w, G)
  BY <1>2, <1>3, <1>6, BytesGone
<1>8. ASSUME Uniform(c), HeapSizes(c) # {}
      PROVE  Alike(c, a2)
  <2>1. Alike(c, a)
    BY <1>8 DEF InUse
  <2> QED
    BY <1>5, <2>1 DEF Alike, Returns
<1>9. ASSUME ~ Uniform(c)
      PROVE  Roomy(c, f2, a2, G)
  <2>1. Padded(c) /\ Roomy(c, f, a, H)
    BY <1>9 DEF Regular, InUse
  <2>2. Len(f[0]) < FreeCapacity
    BY <1>2, <2>1, RoomLeft
  <2>3. Covered(Range(f2[0]) \cup Range(a2[0])) /\ Loose(Range(f2[0]))
    BY <1>5, <2>1, <2>2 DEF Returns, Roomy
  <2>4. Used(Range(a2[0]), G)
    <3> SUFFICES ASSUME NEW x \in Range(a2[0])
                 PROVE  \E q \in HoldersOf(G) : G[q].ptr = x.chunk
      BY DEF Used
    <3>1. x \in Range(a[0]) /\ x.chunk # p
      BY <1>5 DEF Returns
    <3>2. PICK q \in HoldersOf(H) : H[q].ptr = x.chunk
      BY <2>1, <3>1 DEF Roomy, Used
    <3>3. q # o /\ q \in HoldersOf(G) /\ G[q] = H[q]
      BY <1>6, <3>1, <3>2 DEF HoldersOf
    <3> QED
      BY <3>2, <3>3
  <2>5. IsFiniteSet(HoldersOf(G)) /\ Cardinality(HoldersOf(G)) <= c.blocks
    <3>1. /\ IsFiniteSet(HoldersOf(H)) /\ Cardinality(HoldersOf(H)) \in Nat /\ c.blocks \in Nat
          /\ Cardinality(HoldersOf(H)) <= c.blocks
      BY <2>1, FS_CardinalityType DEF Roomy, IsCaller
    <3>2. /\ IsFiniteSet(HoldersOf(H) \ {o})
          /\ Cardinality(HoldersOf(H) \ {o}) = Cardinality(HoldersOf(H)) - 1
      BY <3>1, FS_RemoveElement
    <3>3. Cardinality(HoldersOf(H)) - 1 <= c.blocks
      BY <3>1
    <3> QED
      BY <1>6, <3>2, <3>3
  <2> QED
    BY <2>3, <2>4, <2>5 DEF Roomy
<1> QED
  BY <1>5, <1>6, <1>7, <1>8, <1>9 DEF InUse

\* heap_realloc by a regular caller: the block is as long as before, and stays where it is.
LEMMA RegularResized ==
  ASSUME caller \in Callers, Regular(caller), InUse(caller, free, alloc, held), BytesLie(byte, held),
         NEW o \in Owner, NEW size \in caller.resizes, NEW asked \in caller.alignments,
         SegRealloc(o, size, asked)
  PROVE  InUse(caller, free', alloc', held') /\ BytesLie(byte', held')
<1> DEFINE s == TheSize(caller)
           v == Step(caller)
           u == alloc[0]
           p == held[o].ptr
           i == SearchByPtr(u, p)
           x == u[i]
           align == Usable(asked)
<1>1. IsCaller(caller)
  BY CallerIs
<1>2. /\ s \in Nat \ {0} /\ size = s /\ size \in HeapSizes(caller)
  BY <1>1, RegularSize
<1>3. Uniform(caller) /\ Alike(caller, alloc)
  BY <1>2 DEF Regular, Padded, InUse
<1>4. /\ Laid(free, alloc, s, v) /\ BlocksLie(held, free, alloc) /\ Neat(u) /\ \A y \in Range(u) : s <= y.size
  BY DEF InUse, Laid, HeapLaid
<1>5. held[o] # NoBlock /\ i # 0 /\ o \in HoldersOf(held)
  BY DEF SegRealloc, HoldersOf
<1>6. p \in Nat /\ held[o].len \in Nat /\ held[o] = Block(p, held[o].len)
  <2>1. Lies(held[o], free, alloc)
    BY <1>4, <1>5 DEF BlocksLie
  <2> QED
    BY <2>1, LiesIs
<1>7. i \in 1..Len(u) /\ x.data = p /\ x \in Range(u) /\ Plain(x)
  <2>1. u \in Seq(Entries) /\ ByData(u) /\ Len(u) \in Nat
    BY <1>4, NeatIs, NeatDiffer
  <2> HIDE DEF u, p, x
  <2>2. i \in 0..Len(u) /\ (i # 0 => u[i].data = p)
    BY <1>6, <2>1, PtrFound
  <2>3. i \in 1..Len(u)
    BY <1>5, <2>1, <2>2
  <2> HIDE DEF i
  <2>4. u[i] \in Range(u) /\ Plain(u[i])
    BY <1>4, <2>3, NeatDiffer, NeatIs
  <2> QED
    BY <2>2, <2>3, <2>4 DEF x
<1>8. x.chunk = p /\ s <= x.size /\ x.size \in Nat /\ x.size < s + SplitCutoff /\ x.align = align
  <2>1. x.chunk = p /\ x.size \in Nat
    BY <1>7 DEF Plain, Entries
  <2>2. s <= x.size
    BY <1>4, <1>7
  <2>3. x.size < s + SplitCutoff /\ x.align = align
    BY <1>3, <1>7 DEF Alike
  <2> QED
    BY <2>1, <2>2, <2>3
<1>9. ShrinksInPlace(o, i, size)
  <2> HIDE DEF s
  <2> QED
    BY <1>2, <1>8 DEF SegRealloc
<1>10. ~ (x.size - size >= SplitCutoff)
  BY <1>2, <1>8, BinsAssumption
<1>11. /\ free' = free /\ alloc' = alloc
       /\ byte' = Resized(byte, o, held[o], p, size) /\ held' = [held EXCEPT ![o].len = size]
  BY <1>9, <1>10 DEF ShrinksInPlace
<1>12. Sets(held', held, o, Block(p, size)) /\ Refills(byte', byte, held, o, p, size)
  <2>1. [held[o] EXCEPT !.len = size] = Block(p, size)
    BY <1>6 DEF Block
  <2>2. held' = [held EXCEPT ![o] = Block(p, size)]
    BY <1>11, <2>1
  <2> QED
    BY <1>11, <2>2 DEF Sets, Refills
<1>13. NowHolds(held, held', free, alloc, o, Block(p, size)) /\ HoldersOf(held') = HoldersOf(held)
  <2> DEFINE G == held'
             H == held
             f == free
             a == alloc
             n == size
  <2>1. /\ BlocksLie(H, f, a) /\ Laid(f, a, s, v) /\ o \in HoldersOf(H) /\ x \in Range(a[0])
        /\ x.chunk = H[o].ptr /\ n \in Nat \ {0} /\ n <= x.size /\ p = x.chunk /\ Sets(G, H, o, Block(p, n))
    BY <1>2, <1>4, <1>5, <1>7, <1>8, <1>12
  <2> HIDE DEF G, H, f, a, n, s, v, x, p
  <2>2. NowHolds(H, G, f, a, o, Block(p, n)) /\ HoldersOf(G) = HoldersOf(H)
    BY <2>1, BlockResized
  <2> QED
    BY <2>2 DEF G, H, f, a, n
<1>14. BytesLie(byte', held')
  <2> DEFINE G == held'
             H == held
             f == free
             a == alloc
             n == size
             b == byte
             w == byte'
  <2>1. /\ BytesLie(b, H) /\ BlocksLie(G, f, a) /\ o \in HoldersOf(H) /\ HoldersOf(G) = HoldersOf(H)
        /\ (\A q \in Owner : q # o => G[q] = H[q]) /\ p \in Nat /\ n \in Nat /\ G[o] = Block(p, n)
        /\ H[o].ptr = p /\ H[o].len \in Nat /\ Refills(w, b, H, o, p, n)
    BY <1>2, <1>5, <1>6, <1>12, <1>13 DEF NowHolds
  <2> HIDE DEF G, H, f, a, n, b, w, p
  <2>2. BytesLie(w, G)
    BY <2>1, BytesResized
  <2> QED
    BY <2>2 DEF G, w
<1>15. BlocksLie(held', free', alloc') /\ Laid(free', alloc', s, v) /\ Alike(caller, alloc')
  BY <1>3, <1>4, <1>11, <1>13 DEF NowHolds
<1> QED
  BY <1>3, <1>14, <1>15 DEF InUse

\* The calls of a regular caller.
LEMMA RegularStays ==
  ASSUME caller \in Callers, Regular(caller), InUse(caller, free, alloc, held), BytesLie(byte, held), SegNext
  PROVE  InUse(caller, free', alloc', held') /\ BytesLie(byte', held')
<1>1. PICK o \in Owner :
        \/ \E size \in caller.sizes, align \in caller.alignments : SegAlloc(o, size, align)
        \/ \E size \in caller.resizes, align \in caller.alignments : SegRealloc(o, size, align)
        \/ SegFree(o)
  BY DEF SegNext
<1>2. IsCaller(caller)
  BY CallerIs
<1>3. CASE \E size \in caller.sizes, align \in caller.alignments : SegAlloc(o, size, align)
  <2>1. PICK size \in caller.sizes, asked \in caller.alignments : SegAlloc(o, size, asked)
    BY <1>3
  <2> DEFINE r == HeapAlloc(free, alloc, size, asked)
             G == held'
             H == held
             f == free
             a == alloc
             c == caller
             b == byte
             w == byte'
  <2>2. /\ r.ptr # Null /\ free' = r.free /\ alloc' = r.alloc
        /\ Fills(w, b, o, r.ptr, size) /\ Sets(G, H, o, Block(r.ptr, size))
        /\ H[o] = NoBlock /\ Cardinality(HoldersOf(H)) < c.blocks
    BY <2>1 DEF SegAlloc, Becomes, Fills, Sets, MayHoldMore, Holders, HoldersOf
  <2>3. /\ IsCaller(c) /\ Regular(c) /\ InUse(c, f, a, H) /\ BytesLie(b, H)
        /\ size \in c.sizes /\ asked \in c.alignments /\ r = HeapAlloc(f, a, size, asked)
    BY <1>2
  <2> HIDE DEF r, G, H, f, a, c, b, w
  <2>4. InUse(c, r.free, r.alloc, G) /\ BytesLie(w, G)
    BY <2>2, <2>3, RegularGiven
  <2> QED
    BY <2>2, <2>4 DEF c, G, w
<1>4. CASE \E size \in caller.resizes, align \in caller.alignments : SegRealloc(o, size, align)
  BY <1>4, RegularResized
<1>5. CASE SegFree(o)
  <2> DEFINE r == HeapFree(free, alloc, held[o].ptr)
             G == held'
             H == held
             f == free
             a == alloc
             c == caller
             b == byte
             w == byte'
  <2>1. /\ free' = r.free /\ alloc' = r.alloc /\ o \in HoldersOf(H)
        /\ w = Forgotten(b, o, NoBlock) /\ Sets(G, H, o, NoBlock)
    BY <1>5 DEF SegFree, Becomes, Sets, HoldersOf
  <2>2. /\ IsCaller(c) /\ Regular(c) /\ InUse(c, f, a, H) /\ BytesLie(b, H)
        /\ r = HeapFree(f, a, H[o].ptr)
    BY <1>2
  <2> HIDE DEF r, G, H, f, a, c, b, w
  <2>3. InUse(c, r.free, r.alloc, G) /\ BytesLie(w, G)
    BY <2>1, <2>2, RegularGone
  <2> QED
    BY <2>1, <2>3 DEF c, G, w
<1> QED
  BY <1>1, <1>3, <1>4, <1>5

\* init_allocator: nobody holds anything.
LEMMA RegularStarts ==
  ASSUME SegInit, Regular(caller)
  PROVE  InUse(caller, free, alloc, held) /\ BytesLie(byte, held)
<1> DEFINE s == TheSize(caller)
           v == Step(caller)
           e == FreeEntry(HeapStart, Null, HeapCapacity, MaxAlignment)
           t == <<e>>
<1>1. /\ held = [o \in Owner |-> NoBlock] /\ caller \in Callers
      /\ free = [k \in Arena |-> IF k = 0 THEN t ELSE Slots(k)]
      /\ alloc = [k \in Arena |-> <<>>]
      /\ byte = [a \in HeapStart..LastAddress |-> Junk]
  BY DEF SegInit, BlocksInit
<1>2. s \in Nat \ {0} /\ v \in Nat \ {0} /\ IsCaller(caller)
  BY <1>1, CallerIs, RegularSize
<1>3. /\ HeapLaid(t, <<>>, s, v) /\ Covered(Range(t) \cup Range(<<>>)) /\ Loose(Range(t))
  <2>1. e = FreeEntry(HeapStart, Null, HeapCapacity, MaxAlignment) /\ t = <<e>>
    OBVIOUS
  <2> HIDE DEF e, t, s, v
  <2> QED
    BY <1>2, <2>1, HeapStarts
<1> HIDE DEF e, t, s, v
<1>4. /\ DOMAIN free = Arena /\ DOMAIN alloc = Arena /\ 0 \in Arena
      /\ free[0] = t /\ alloc[0] = <<>>
      /\ \A k \in Arena : alloc[k] = <<>> /\ (k # 0 => free[k] = Slots(k))
  BY <1>1, ArenaIs
<1>5. Laid(free, alloc, s, v)
  <2>1. \A k \in Arena : k # 0 => BinLaid(free[k], alloc[k], k)
    <3> SUFFICES ASSUME NEW k \in Arena, k # 0
                 PROVE  BinLaid(free[k], alloc[k], k)
      OBVIOUS
    <3>1. BinLaid(Slots(k), <<>>, k)
      BY SlotsLaid
    <3>2. free[k] = Slots(k) /\ alloc[k] = <<>>
      BY <1>4
    <3> QED
      BY <3>1, <3>2
  <2> QED
    BY <1>3, <1>4, <2>1 DEF Laid
<1>6. HoldersOf(held) = {} /\ DOMAIN held = Owner
  BY <1>1 DEF HoldersOf
<1>7. BlocksLie(held, free, alloc)
  BY <1>6 DEF BlocksLie
<1>8. BytesLie(byte, held)
  BY <1>1, <1>6 DEF BytesLie, IsMemory
<1>9. Range(alloc[0]) = {}
  BY <1>4, EmptyNeat
<1>10. Alike(caller, alloc)
  BY <1>9 DEF Alike
<1>11. Roomy(caller, free, alloc, held)
  <2>1. Covered(Range(free[0]) \cup Range(alloc[0])) /\ Loose(Range(free[0]))
    BY <1>3, <1>4
  <2>2. IsFiniteSet(HoldersOf(held)) /\ Cardinality(HoldersOf(held)) = 0
    BY <1>6, FS_EmptySet
  <2>3. 0 <= caller.blocks
    BY <1>2 DEF IsCaller
  <2> QED
    BY <1>9, <2>1, <2>2, <2>3 DEF Roomy, Used
<1> QED
  BY <1>5, <1>7, <1>8, <1>10, <1>11 DEF InUse, s, v

\* The inductive invariant of the regular callers.
RegularInv == /\ caller \in Callers
              /\ caller.build = "segmented" /\ Regular(caller) =>
                   InUse(caller, free, alloc, held) /\ BytesLie(byte, held)

\* It holds in every state.
LEMMA RegularUse == MemSpec => []RegularInv
<1>1. MemInit => RegularInv
  <2> SUFFICES ASSUME MemInit PROVE RegularInv
    OBVIOUS
  <2>1. CASE InlineInit /\ caller.build = "inline"
    <3>1. caller \in Callers /\ caller.build # "segmented"
      BY <2>1 DEF InlineInit, BlocksInit
    <3> QED
      BY <3>1 DEF RegularInv
  <2>2. CASE SegInit
    <3>1. caller \in Callers
      BY <2>2 DEF SegInit, BlocksInit
    <3> QED
      BY <2>2, <3>1, RegularStarts DEF RegularInv
  <2> QED
    BY <2>1, <2>2 DEF MemInit
<1>2. RegularInv /\ [MemNext]_memVars => RegularInv'
  <2> SUFFICES ASSUME RegularInv, [MemNext]_memVars
               PROVE  RegularInv'
    OBVIOUS
  <2>1. caller' = caller /\ caller \in Callers
    BY CallerStays DEF RegularInv
  <2>2. CASE ~ (caller.build = "segmented" /\ Regular(caller))
    BY <2>1, <2>2 DEF RegularInv
  <2>3. CASE caller.build = "segmented" /\ Regular(caller)
    <3>1. InUse(caller, free, alloc, held) /\ BytesLie(byte, held)
      BY <2>3 DEF RegularInv
    <3>2. CASE SegNext
      <4>1. InUse(caller, free', alloc', held') /\ BytesLie(byte', held')
        BY <2>1, <2>3, <3>1, <3>2, RegularStays
      <4> QED
        BY <2>1, <4>1 DEF RegularInv
    <3>3. CASE UNCHANGED memVars
      <4>1. free' = free /\ alloc' = alloc /\ held' = held /\ byte' = byte
        BY <3>3 DEF memVars
      <4> QED
        BY <2>1, <3>1, <4>1 DEF RegularInv
    <3> QED
      BY <2>3, <3>2, <3>3 DEF MemNext
  <2> QED
    BY <2>2, <2>3
<1> QED
  BY <1>1, <1>2, PTL DEF MemSpec

\* The chunks of an arena do not overlap, and its tables are in their order.
LEMMA ArenaKeepsApart ==
  ASSUME NEW s, NEW w, NEW k \in Arena, NEW t, NEW u, ArenaLaid(t, u, k, s, w)
  PROVE  /\ \A x, y \in Range(t) \cup Range(u) : x # y => Off(x, y)
         /\ Range(t) \cap Range(u) = {}
         /\ \A i, j \in 1..Len(t) : i < j => End(t[i]) <= t[j].chunk
         /\ \A i, j \in 1..Len(u) : i < j => End(u[i]) <= u[j].chunk
<1> DEFINE S == Range(t) \cup Range(u)
<1>1. Neat(t) /\ Neat(u) /\ Range(t) \cap Range(u) = {} /\ \A x, y \in S : x # y => Off(x, y)
  BY DEF ArenaLaid, HeapLaid, Swept, Sound, BinLaid, SlotsLie
<1>2. \A x \in S : x.data = x.chunk /\ x.chunk \in Nat /\ End(x) \in Nat /\ x.chunk < End(x)
  BY ChunksLie
<1>3. ASSUME NEW z, Neat(z), Range(z) \subseteq S, NEW i \in 1..Len(z), NEW j \in 1..Len(z), i < j
      PROVE  End(z[i]) <= z[j].chunk
  <2> DEFINE x == z[i]
             y == z[j]
  <2>1. x \in S /\ y \in S /\ x.data < y.data
    BY <1>3, NeatDiffer DEF Neat, Sorted
  <2> HIDE DEF x, y
  <2>2. x.chunk < y.chunk /\ Off(x, y) /\ y.chunk < End(y) /\ x.chunk < End(x)
        /\ x.chunk \in Nat /\ y.chunk \in Nat /\ End(x) \in Nat /\ End(y) \in Nat
    <3>1. /\ x.data = x.chunk /\ x.chunk \in Nat /\ End(x) \in Nat /\ x.chunk < End(x)
          /\ y.data = y.chunk /\ y.chunk \in Nat /\ End(y) \in Nat /\ y.chunk < End(y)
      BY <1>2, <2>1
    <3>2. x # y
      BY <2>1, <3>1
    <3> QED
      BY <1>1, <2>1, <3>1, <3>2
  <2>3. End(x) <= y.chunk
    BY <2>2 DEF Off
  <2> QED
    BY <2>3 DEF x, y
<1> QED
  BY <1>1, <1>3

-----------------------------------------------------------------------------
(* What a regular caller can rely on                                        *)

\* No address lies in two areas of which one ends where the other starts, or before.
LEMMA AreasApart ==
  ASSUME NEW x \in Int, NEW n \in Int, NEW y \in Int, NEW m \in Int, x + n <= y \/ y + m <= x
  PROVE  Area(x, n) \cap Area(y, m) = {}
BY DEF Area

\* Used regularly, the segmented allocator hands out nothing twice: the chunks of its tables
\* are disjoint, and no block meets a free chunk or another block.
THEOREM RegularApart == MemSpec => []BlocksApart
<1>1. RegularInv => BlocksApart
  <2> SUFFICES ASSUME RegularInv, caller.build = "segmented", Regular(caller)
               PROVE  Apart
    BY DEF BlocksApart
  <2> DEFINE s == TheSize(caller)
             v == Step(caller)
  <2>1. Laid(free, alloc, s, v) /\ BlocksLie(held, free, alloc)
    BY DEF RegularInv, InUse
  <2> HIDE DEF s, v
  <2>2. ASSUME NEW k \in Arena
        PROVE  /\ \A i, j \in DOMAIN free[k] : i < j => free[k][i].chunk + free[k][i].size <= free[k][j].chunk
               /\ \A e \in Range(free[k]), d \in Range(alloc[k]) :
                    Area(e.chunk, e.size) \cap Area(d.chunk, d.size) = {}
               /\ \A i, j \in DOMAIN alloc[k] : i < j => alloc[k][i].chunk + alloc[k][i].size <= alloc[k][j].chunk
               /\ \A e \in Range(free[k]) : e.chunk \in Nat /\ e.size \in Nat /\ End(e) = e.chunk + e.size
    <3> DEFINE t == free[k]
               u == alloc[k]
    <3>1. ArenaLaid(t, u, k, s, v)
      BY <2>1, LaidIs
    <3> HIDE DEF t, u
    <3>2. /\ \A x, y \in Range(t) \cup Range(u) : x # y => Off(x, y)
          /\ Range(t) \cap Range(u) = {}
          /\ \A i, j \in 1..Len(t) : i < j => End(t[i]) <= t[j].chunk
          /\ \A i, j \in 1..Len(u) : i < j => End(u[i]) <= u[j].chunk
      BY <3>1, ArenaKeepsApart
    <3>3. \A x \in Range(t) \cup Range(u) : x.chunk \in Nat /\ x.size \in Nat /\ End(x) = x.chunk + x.size
      BY <3>1, ChunksLie, Numbers
    <3>4. \A e \in Range(t), d \in Range(u) : Area(e.chunk, e.size) \cap Area(d.chunk, d.size) = {}
      <4> SUFFICES ASSUME NEW e \in Range(t), NEW d \in Range(u)
                   PROVE  Area(e.chunk, e.size) \cap Area(d.chunk, d.size) = {}
        OBVIOUS
      <4>1. Off(e, d)
        BY <3>2
      <4>2. /\ e.chunk \in Int /\ e.size \in Int /\ d.chunk \in Int /\ d.size \in Int
            /\ e.chunk + e.size <= d.chunk \/ d.chunk + d.size <= e.chunk
        BY <3>3, <4>1 DEF Off
      <4> QED
        BY <4>2, AreasApart
    <3>5. Neat(t) /\ Neat(u)
      BY <3>1 DEF ArenaLaid, HeapLaid, Swept, BinLaid
    <3>6. ASSUME NEW z, Neat(z)
          PROVE  DOMAIN z = 1..Len(z) /\ \A i \in 1..Len(z) : End(z[i]) = z[i].chunk + z[i].size
      <4>1. z \in Seq(Entries) /\ \A i \in 1..Len(z) : z[i] \in Entries
        BY <3>6, NeatIs, EntryFields
      <4> QED
        BY <4>1, Numbers
    <3>7. /\ \A i, j \in DOMAIN t : i < j => t[i].chunk + t[i].size <= t[j].chunk
          /\ \A i, j \in DOMAIN u : i < j => u[i].chunk + u[i].size <= u[j].chunk
      BY <3>2, <3>5, <3>6
    <3> QED
      BY <3>3, <3>4, <3>7 DEF t, u
  <2>3. ASSUME NEW o \in Holders
        PROVE  /\ held[o].ptr \in Nat /\ held[o].len \in Nat
               /\ AllGuarded(free, alloc, held[o].ptr, held[o].ptr + held[o].len)
    <3>1. Lies(held[o], free, alloc)
      BY <2>1 DEF BlocksLie, Holders, HoldersOf
    <3> QED
      BY <3>1, LiesIs
  <2>4. ASSUME NEW o \in Holders, NEW k \in Arena, NEW e \in Range(free[k])
        PROVE  HeldArea(o) \cap Area(e.chunk, e.size) = {}
    <3> DEFINE p == held[o].ptr
               n == held[o].len
    <3>1. OffArea(Range(free[k]), p, p + n)
      BY <2>3 DEF AllGuarded, Guarded
    <3>2. End(e) <= p \/ p + n <= e.chunk
      BY <3>1 DEF OffArea
    <3>3. /\ p \in Int /\ n \in Int /\ e.chunk \in Int /\ e.size \in Int
          /\ p + n <= e.chunk \/ e.chunk + e.size <= p
      BY <2>2, <2>3, <3>2
    <3> HIDE DEF p, n
    <3>4. Area(p, n) \cap Area(e.chunk, e.size) = {}
      BY <3>3, AreasApart
    <3> QED
      BY <3>4 DEF HeldArea, p, n
  <2>5. ASSUME NEW o \in Holders, NEW q \in Holders, o # q
        PROVE  HeldArea(o) \cap HeldArea(q) = {}
    <3>1. Beyond(held[o], held[q])
      BY <2>1, <2>5 DEF BlocksLie, Holders, HoldersOf
    <3> DEFINE p == held[o].ptr
               n == held[o].len
               l == held[q].ptr
               m == held[q].len
    <3>2. /\ p \in Int /\ n \in Int /\ l \in Int /\ m \in Int
          /\ p + n <= l \/ l + m <= p
      BY <2>3, <3>1 DEF Beyond
    <3> HIDE DEF p, n, l, m
    <3>3. Area(p, n) \cap Area(l, m) = {}
      BY <3>2, AreasApart
    <3> QED
      BY <3>3 DEF HeldArea, p, n, l, m
  <2> QED
    BY <2>2, <2>4, <2>5 DEF Apart
<1> QED
  BY <1>1, RegularUse, PTL

\* Blocks hold what their users stored, whichever allocator was built, the segmented one if
\* it is used regularly.
THEOREM AllKeepBytes == MemSpec => []BytesKept
<1> DEFINE InlineKeeps == caller.build = "inline" => Kept
<1>1. RegularInv /\ InlineKeeps /\ (caller.build = "inline" \/ caller.build = "segmented") => BytesKept
  <2> SUFFICES ASSUME RegularInv, caller.build = "segmented", Regular(caller)
               PROVE  Kept
    BY DEF BytesKept
  <2>1. /\ BlocksLie(held, free, alloc) /\ IsMemory(byte)
        /\ \A o \in HoldersOf(held) : Holds(byte, o, held[o].ptr, held[o].len)
    BY DEF RegularInv, InUse, BytesLie
  <2> SUFFICES ASSUME NEW o \in Holders, NEW i \in 0..(held[o].len - 1)
               PROVE  held[o].ptr + i \in DOMAIN byte /\ byte[held[o].ptr + i] = Stored(o, i)
    BY DEF Kept
  <2>2. o \in HoldersOf(held)
    BY DEF Holders, HoldersOf
  <2> DEFINE p == held[o].ptr
             n == held[o].len
  <2>3. p \in Nat /\ n \in Nat /\ HeapStart <= p /\ p + n <= LastAddress + 1 /\ Holds(byte, o, p, n)
    <3>1. Lies(held[o], free, alloc)
      BY <2>1, <2>2 DEF BlocksLie
    <3> QED
      BY <2>1, <2>2, <3>1, LiesIs
  <2>4. i \in 0..(n - 1)
    OBVIOUS
  <2> HIDE DEF p, n
  <2>5. p + i \in HeapStart..LastAddress
    BY <2>3, <2>4, HeapLies, HeapAssumption
  <2>6. p + i \in DOMAIN byte /\ byte[p + i] = Stored(o, i)
    BY <2>1, <2>3, <2>4, <2>5 DEF IsMemory, Holds
  <2> QED
    BY <2>6 DEF p
<1>2. MemSpec => [](caller.build = "inline" \/ caller.build = "segmented")
  <2> DEFINE Built == caller.build = "inline" \/ caller.build = "segmented"
  <2>1. MemInit => Built
    BY DEF MemInit
  <2>2. Built /\ [MemNext]_memVars => Built'
    BY CallerStays
  <2> QED
    BY <2>1, <2>2, PTL DEF MemSpec
<1>3. MemSpec => []InlineKeeps
  BY InlineKeepsBytes
<1> QED
  BY <1>1, <1>2, <1>3, RegularUse, PTL

\* For blocks of any sizes of which no padding is split off, and for those of one size:
\* whatever happens to the heap, the binary search by size misses a chunk that fits only when
\* one that is too small lies behind it in the table, which is sorted by address.
THEOREM MissesOnlySmallBehind == MemSpec => []FitFound
<1>1. ASSUME free[0] \in Seq(Entries) PROVE FindsFit
  <2> SUFFICES ASSUME NEW size \in HeapSizes(caller), NEW asked \in caller.alignments
               PROVE  LET t == free[0]
                          align == Usable(asked)
                          fits == {k \in DOMAIN t : Suffices(t[k], size, align)}
                          i == SearchBySize(t, size, align)
                      IN  /\ i # 0 => i \in fits
                          /\ SmallerFirst(t, size, align) =>
                               /\ i = 0 => fits = {}
                               /\ BySize(t) => \A k \in fits : t[i].size <= t[k].size
    BY DEF FindsFit
  <2> DEFINE t == free[0]
             align == Usable(asked)
             i == SearchBySize(t, size, align)
  <2>1. t \in Seq(Entries) /\ DOMAIN t = 1..Len(t) /\ Len(t) \in Nat
    BY <1>1, SizesAre, LenProperties
  <2> HIDE DEF t, align
  <2>2. /\ i \in 0..Len(t)
        /\ i # 0 => Suffices(t[i], size, align)
        /\ SmallerFirst(t, size, align) =>
             \A k \in 1..Len(t) : Suffices(t[k], size, align) =>
               i # 0 /\ (BySize(t) => t[i].size <= t[k].size)
    BY <2>1, FitIsFound
  <2> HIDE DEF i
  <2>3. i # 0 => i \in DOMAIN t
    BY <2>1, <2>2
  <2> QED
    BY <2>1, <2>2, <2>3 DEF t, align, i
<1>2. CountInv /\ RegularInv => FitFound
  <2> SUFFICES ASSUME CountInv, RegularInv, caller.build = "segmented",
                      Unsplit(caller) \/ Regular(caller)
               PROVE  free[0] \in Seq(Entries)
    BY <1>1 DEF FitFound
  <2>1. CASE Unsplit(caller)
    BY <2>1 DEF CountInv, Tabled, Whole, Clear
  <2>2. CASE Regular(caller)
    <3>1. HeapLaid(free[0], alloc[0], TheSize(caller), Step(caller))
      BY <2>2 DEF RegularInv, InUse, Laid
    <3>2. Neat(free[0])
      BY <3>1 DEF HeapLaid, Swept
    <3> QED
      BY <3>2, NeatIs
  <2> QED
    BY <2>1, <2>2
<1> QED
  BY <1>2, CountIsKept, RegularUse, PTL
=============================================================================
