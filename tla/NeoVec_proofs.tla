--------------------------- MODULE NeoVec_proofs ---------------------------
(***************************************************************************)
(* Proofs about NeoVec, for any vectors, elements and sizes: no macro ever   *)
(* reads or writes outside an array, none makes an element of a slot that    *)
(* nothing was stored in, and the vectors implement VecPromise.             *)
(***************************************************************************)
EXTENDS NeoVec, SequenceTheorems, TLAPS

\* A vector as the macros want it: the array has capacity slots, the elements fit.
WellFormed(r) ==
  /\ r \in [items    : [0..(r.capacity - 1) -> Elements \cup {Junk}],
            count    : 0..r.capacity,
            capacity : Nat]
  /\ \A i \in Nat : i < r.count => r.items[i] \in Elements

VecInv == /\ VecTypeOK
          /\ \A v \in Vectors : WellFormed(vec[v])

-----------------------------------------------------------------------------
(* The macros                                                               *)

\* The same of the three fields.
LEMMA Fields ==
  ASSUME NEW c \in Nat, NEW n \in 0..c,
         NEW f \in [0..(c - 1) -> Elements \cup {Junk}],
         \A i \in Nat : i < n => f[i] \in Elements
  PROVE  WellFormed(Vector(f, n, c))
<1> DEFINE r == Vector(f, n, c)
<1>1. r.items = f /\ r.count = n /\ r.capacity = c
  BY DEF Vector
<1>2. r \in [items : [0..(c - 1) -> Elements \cup {Junk}], count : 0..c, capacity : Nat]
  BY DEF Vector
<1> HIDE DEF r
<1>3. WellFormed(r)
  BY <1>1, <1>2 DEF WellFormed
<1> QED
  BY <1>3 DEF r

\* realloc keeps what fits.
LEMMA ReallocatedWell ==
  ASSUME NEW r, WellFormed(r), NEW n \in Nat, r.count <= n
  PROVE  /\ WellFormed(Reallocated(r, n))
         /\ Reallocated(r, n).count = r.count
         /\ Reallocated(r, n).capacity = n
<1>1. Realloc(r.items, n) \in [0..(n - 1) -> Elements \cup {Junk}]
  BY DEF Realloc, WellFormed
<1>2. Reallocated(r, n) = Vector(Realloc(r.items, n), r.count, n)
  BY DEF Reallocated
<1>3. ASSUME NEW i \in Nat, i < r.count
      PROVE  Realloc(r.items, n)[i] \in Elements
  BY <1>3 DEF Realloc, WellFormed
<1>4. r.count \in 0..n
  BY DEF WellFormed
<1>5. WellFormed(Vector(Realloc(r.items, n), r.count, n))
  BY <1>1, <1>3, <1>4, Fields
<1>6. Reallocated(r, n).count = r.count /\ Reallocated(r, n).capacity = n
  BY DEF Reallocated, Vector
<1> QED
  BY <1>2, <1>5, <1>6

\* Growing by the rule of neovec_append leaves room for one more.
LEMMA WithRoomWell ==
  ASSUME NEW r, WellFormed(r)
  PROVE  /\ WellFormed(WithRoom(r))
         /\ WithRoom(r).count = r.count
         /\ WithRoom(r).count < WithRoom(r).capacity
<1>1. /\ r.count \in Nat /\ r.capacity \in Nat /\ r.count <= r.capacity
      /\ NewCapacity(r.capacity) \in Nat
      /\ NewCapacity(r.capacity) > r.capacity
  BY DEF WellFormed, NewCapacity
<1>2. CASE r.count >= r.capacity
  BY <1>1, <1>2, ReallocatedWell DEF WithRoom
<1>3. CASE ~ (r.count >= r.capacity)
  BY <1>1, <1>3 DEF WithRoom
<1> QED
  BY <1>2, <1>3

LEMMA AppendedWell ==
  ASSUME NEW r, WellFormed(r), NEW e \in Elements
  PROVE  WellFormed(Appended(r, e))
<1> DEFINE g == WithRoom(r)
<1>1. WellFormed(g) /\ g.count < g.capacity
  BY WithRoomWell
<1> HIDE DEF g
<1> DEFINE f == [g.items EXCEPT ![g.count] = e]
<1>2. /\ g.capacity \in Nat /\ g.count + 1 \in 0..g.capacity
      /\ f \in [0..(g.capacity - 1) -> Elements \cup {Junk}]
      /\ \A i \in Nat : i < g.count + 1 => f[i] \in Elements
  BY <1>1 DEF WellFormed
<1> HIDE DEF f
<1>3. WellFormed(Vector(f, g.count + 1, g.capacity))
  BY <1>2, Fields
<1>4. Appended(r, e) = Vector(f, g.count + 1, g.capacity)
  BY DEF Appended, f, g
<1> QED
  BY <1>3, <1>4

LEMMA WithSetWell ==
  ASSUME NEW r, WellFormed(r), NEW i \in Nat, NEW e \in Elements
  PROVE  WellFormed(WithSet(r, i, e))
<1> DEFINE f == [r.items EXCEPT ![i] = e]
<1>1. CASE i < r.count
  <2>1. /\ r.capacity \in Nat /\ r.count \in 0..r.capacity
        /\ f \in [0..(r.capacity - 1) -> Elements \cup {Junk}]
        /\ \A k \in Nat : k < r.count => f[k] \in Elements
    BY <1>1 DEF WellFormed
  <2>2. WithSet(r, i, e) = Vector(f, r.count, r.capacity)
    BY <1>1 DEF WithSet
  <2> HIDE DEF f
  <2>3. WellFormed(Vector(f, r.count, r.capacity))
    BY <2>1, Fields
  <2> QED
    BY <2>2, <2>3
<1>2. CASE ~ (i < r.count)
  BY <1>2 DEF WithSet
<1> QED
  BY <1>1, <1>2

LEMMA WithoutWell ==
  ASSUME NEW r, WellFormed(r), NEW i \in Nat
  PROVE  WellFormed(Without(r, i))
<1>1. CASE i < r.count
  <2> DEFINE m == Moved(r.items, i, i + 1, r.count - i - 1)
  <2>1. /\ r.count \in Nat /\ r.capacity \in Nat /\ r.count <= r.capacity
        /\ r.items \in [0..(r.capacity - 1) -> Elements \cup {Junk}]
    BY DEF WellFormed
  <2>2. m \in [0..(r.capacity - 1) -> Elements \cup {Junk}]
    <3>1. ASSUME NEW k \in i..(i + (r.count - i - 1) - 1)
          PROVE  k - i + (i + 1) \in 0..(r.capacity - 1)
      BY <1>1, <2>1, <3>1
    <3> QED
      BY <1>1, <2>1, <3>1 DEF Moved
  <2>3. ASSUME NEW k \in Nat, k < r.count - 1
        PROVE  m[k] \in Elements
    BY <1>1, <2>1, <2>3 DEF Moved, WellFormed
  <2>4. Without(r, i) = Vector(m, r.count - 1, r.capacity)
    BY <1>1 DEF Without
  <2>5. r.count - 1 \in 0..r.capacity
    BY <1>1, <2>1
  <2> HIDE DEF m
  <2>6. WellFormed(Vector(m, r.count - 1, r.capacity))
    BY <2>1, <2>2, <2>3, <2>5, Fields
  <2> QED
    BY <2>4, <2>6
<1>2. CASE ~ (i < r.count)
  BY <1>2 DEF Without
<1> QED
  BY <1>1, <1>2

LEMMA WithInsertedWell ==
  ASSUME NEW r, WellFormed(r), NEW i \in Nat, NEW e \in Elements
  PROVE  WellFormed(WithInserted(r, i, e))
<1>1. CASE i <= r.count
  <2> DEFINE g == WithRoom(r)
             m == Moved(g.items, i + 1, i, g.count - i)
             f == [m EXCEPT ![i] = e]
  <2>1. WellFormed(g) /\ g.count < g.capacity /\ g.count = r.count
    BY WithRoomWell
  <2> HIDE DEF g
  <2>2. /\ g.count \in Nat /\ g.capacity \in Nat
        /\ g.items \in [0..(g.capacity - 1) -> Elements \cup {Junk}]
        /\ i <= g.count
    BY <1>1, <2>1 DEF WellFormed
  <2>3. m \in [0..(g.capacity - 1) -> Elements \cup {Junk}]
    BY <2>1, <2>2 DEF Moved
  <2>4. f \in [0..(g.capacity - 1) -> Elements \cup {Junk}]
    BY <2>3
  <2>5. ASSUME NEW k \in Nat, k < g.count + 1
        PROVE  f[k] \in Elements
    <3>1. CASE k = i
      BY <3>1, <2>1, <2>2, <2>3
    <3>2. CASE k # i
      <4>1. f[k] = m[k]
        BY <3>2, <2>1, <2>2, <2>3, <2>5
      <4>2. m[k] \in Elements
        BY <3>2, <2>1, <2>2, <2>5 DEF Moved, WellFormed
      <4> QED
        BY <4>1, <4>2
    <3> QED
      BY <3>1, <3>2
  <2>6. WithInserted(r, i, e) = Vector(f, g.count + 1, g.capacity)
    BY <1>1 DEF WithInserted, g
  <2>7. g.count + 1 \in 0..g.capacity
    BY <2>1, <2>2
  <2> HIDE DEF f
  <2>8. WellFormed(Vector(f, g.count + 1, g.capacity))
    BY <2>2, <2>4, <2>5, <2>7, Fields
  <2> QED
    BY <2>6, <2>8
<1>2. CASE ~ (i <= r.count)
  BY <1>2 DEF WithInserted
<1> QED
  BY <1>1, <1>2

LEMMA ClearedWell ==
  ASSUME NEW r, WellFormed(r)
  PROVE  WellFormed(Cleared(r))
<1>1. /\ r.capacity \in Nat
      /\ r.items \in [0..(r.capacity - 1) -> Elements \cup {Junk}]
  BY DEF WellFormed
<1> QED
  BY <1>1, Fields DEF Cleared

LEMMA NullWell == WellFormed(Null)
<1>1. ASSUME NEW c \in Nat, c = 0
      PROVE  WellFormed(Vector(<<>>, c, c))
  <2>1. <<>> \in [0..(c - 1) -> Elements \cup {Junk}]
    BY <1>1
  <2>2. c \in 0..c /\ \A i \in Nat : i < c => <<>>[i] \in Elements
    BY <1>1
  <2> QED
    BY <2>1, <2>2, Fields
<1> QED
  BY <1>1 DEF Null

\* Shrinking below the count first cuts the elements, then the count.
LEMMA ResizedWell ==
  ASSUME NEW r, WellFormed(r), NEW n \in Nat
  PROVE  WellFormed(Resized(r, n))
<1>1. Realloc(r.items, n) \in [0..(n - 1) -> Elements \cup {Junk}]
  BY DEF Realloc, WellFormed
<1>2. Resized(r, n) = Vector(Realloc(r.items, n), Min2(r.count, n), n)
  BY DEF Resized
<1>3. Min2(r.count, n) \in Nat /\ Min2(r.count, n) <= n /\ Min2(r.count, n) <= r.count
  BY DEF Min2, WellFormed
<1>4. ASSUME NEW i \in Nat, i < Min2(r.count, n)
      PROVE  Realloc(r.items, n)[i] \in Elements
  BY <1>3, <1>4 DEF Realloc, WellFormed
<1>5. Min2(r.count, n) \in 0..n
  BY <1>3
<1>6. WellFormed(Vector(Realloc(r.items, n), Min2(r.count, n), n))
  BY <1>1, <1>4, <1>5, Fields
<1> QED
  BY <1>2, <1>6

LEMMA ReservedWell ==
  ASSUME NEW r, WellFormed(r), NEW n \in Nat
  PROVE  /\ WellFormed(Reserved(r, n))
         /\ Reserved(r, n).capacity >= n
<1>1. r.count \in Nat /\ r.capacity \in Nat /\ r.count <= r.capacity
  BY DEF WellFormed
<1>2. CASE r.capacity < n
  BY <1>1, <1>2, ReallocatedWell DEF Reserved
<1>3. CASE ~ (r.capacity < n)
  BY <1>1, <1>3 DEF Reserved
<1> QED
  BY <1>2, <1>3

LEMMA ShrunkWell ==
  ASSUME NEW r, WellFormed(r)
  PROVE  WellFormed(Shrunk(r))
<1>1. r.count \in Nat /\ r.capacity \in Nat
  BY DEF WellFormed
<1>2. WellFormed(Reallocated(r, IF r.count > 0 THEN r.count ELSE 1))
  BY <1>1, ReallocatedWell
<1> QED
  BY <1>2 DEF Shrunk

LEMMA CopiedWell ==
  ASSUME NEW s, WellFormed(s)
  PROVE  WellFormed(Copied(s))
<1> DEFINE d == Reserved(Null, s.count)
           f == CopiedFrom(d.items, s.items, s.count)
<1>1. s.count \in Nat
  BY DEF WellFormed
<1>2. WellFormed(d) /\ d.capacity >= s.count
  BY <1>1, NullWell, ReservedWell
<1> HIDE DEF d
<1>3. f \in [0..(d.capacity - 1) -> Elements \cup {Junk}]
  BY <1>1, <1>2 DEF CopiedFrom, WellFormed
<1>4. \A i \in Nat : i < s.count => f[i] \in Elements
  BY <1>1, <1>2 DEF CopiedFrom, WellFormed
<1>5. Copied(s) = Vector(f, s.count, d.capacity)
  BY DEF Copied, d, f
<1> HIDE DEF f
<1>6. d.capacity \in Nat /\ s.count \in 0..d.capacity
  BY <1>1, <1>2 DEF WellFormed
<1>7. WellFormed(Vector(f, s.count, d.capacity))
  BY <1>3, <1>4, <1>6, Fields
<1> QED
  BY <1>5, <1>7
-----------------------------------------------------------------------------
(* The program                                                              *)

LEMMA WellFormedInVec ==
  ASSUME NEW r, WellFormed(r), r.capacity <= MaxCapacity
  PROVE  r \in Vec
<1>1. /\ r.capacity \in 0..MaxCapacity /\ r.count \in 0..MaxCapacity
      /\ r.items \in [0..(r.capacity - 1) -> Elements \cup {Junk}]
      /\ r \in [items    : [0..(r.capacity - 1) -> Elements \cup {Junk}],
                count    : 0..r.capacity,
                capacity : Nat]
  BY VecAssumption DEF WellFormed
<1>2. [0..(r.capacity - 1) -> Elements \cup {Junk}] \subseteq Arrays
  BY <1>1 DEF Arrays
<1>3. r.items \in Arrays
  BY <1>1, <1>2
<1>4. r = [items |-> r.items, count |-> r.count, capacity |-> r.capacity]
  BY <1>1
<1> QED
  BY <1>1, <1>3, <1>4 DEF Vec

\* A vector replaced by a well formed one leaves all of them well formed.
LEMMA BecomesWell ==
  ASSUME VecInv, NEW v \in Vectors, NEW r, WellFormed(r), Becomes(v, r)
  PROVE  /\ vec' \in [Vectors -> Vec]
         /\ \A u \in Vectors : WellFormed(vec'[u])
         /\ ended' \in BOOLEAN
<1>1. r \in Vec
  BY WellFormedInVec DEF Becomes
<1>2. vec' = [vec EXCEPT ![v] = r] /\ vec \in [Vectors -> Vec] /\ ended' \in BOOLEAN
  BY DEF Becomes, VecInv, VecTypeOK
<1>3. ASSUME NEW u \in Vectors PROVE WellFormed(vec'[u])
  <2>1. vec'[u] = IF u = v THEN r ELSE vec[u]
    BY <1>2
  <2> QED
    BY <2>1 DEF VecInv
<1> QED
  BY <1>1, <1>2, <1>3

\* The invariant after a macro that makes r of a vector.
LEMMA DoesInv ==
  ASSUME VecInv, NEW v \in Vectors, NEW r, WellFormed(r), Does(v, r)
  PROVE  VecInv'
<1>1. Becomes(v, r) /\ extending' = extending
  BY DEF Does
<1>2. /\ vec' \in [Vectors -> Vec]
      /\ \A u \in Vectors : WellFormed(vec'[u])
      /\ ended' \in BOOLEAN
  BY <1>1, BecomesWell
<1> QED
  BY <1>1, <1>2 DEF VecInv, VecTypeOK, WellFormed

LEMMA CallsInv ==
  ASSUME VecInv, NEW v \in Vectors, MacroCall(v)
  PROVE  VecInv'
<1>0. WellFormed(vec[v]) /\ vec[v].count \in Nat
  BY DEF VecInv, WellFormed
<1>1. CASE AppendCall(v)
  <2>1. PICK e \in Elements : Does(v, Appended(vec[v], e))
    BY <1>1 DEF AppendCall
  <2> QED
    BY <1>0, <2>1, AppendedWell, DoesInv
<1>2. CASE SetCall(v)
  <2>1. PICK i \in 0..vec[v].count, e \in Elements : Does(v, WithSet(vec[v], i, e))
    BY <1>2 DEF SetCall
  <2>2. WellFormed(WithSet(vec[v], i, e))
    BY <1>0, WithSetWell
  <2> QED
    BY <2>1, <2>2, DoesInv
<1>3. CASE InsertCall(v)
  <2>1. PICK i \in 0..(vec[v].count + 1), e \in Elements :
          Does(v, WithInserted(vec[v], i, e))
    BY <1>3 DEF InsertCall
  <2>2. WellFormed(WithInserted(vec[v], i, e))
    BY <1>0, WithInsertedWell
  <2> QED
    BY <2>1, <2>2, DoesInv
<1>4. CASE RemoveCall(v)
  <2>1. PICK i \in 0..vec[v].count : Does(v, Without(vec[v], i))
    BY <1>4 DEF RemoveCall
  <2>2. WellFormed(Without(vec[v], i))
    BY <1>0, WithoutWell
  <2> QED
    BY <2>1, <2>2, DoesInv
<1>5. CASE ClearCall(v)
  BY <1>0, <1>5, ClearedWell, DoesInv DEF ClearCall
<1>6. CASE FreeCall(v)
  BY <1>6, NullWell, DoesInv DEF FreeCall
<1>7. CASE ResizeCall(v)
  <2>1. PICK n \in Sizes : Does(v, Resized(vec[v], n))
    BY <1>7 DEF ResizeCall
  <2>2. WellFormed(Resized(vec[v], n))
    BY <1>0, VecAssumption, ResizedWell
  <2> QED
    BY <2>1, <2>2, DoesInv
<1>8. CASE ReserveCall(v)
  <2>1. PICK n \in Sizes : Does(v, Reserved(vec[v], n))
    BY <1>8 DEF ReserveCall
  <2>2. WellFormed(Reserved(vec[v], n))
    BY <1>0, VecAssumption, ReservedWell
  <2> QED
    BY <2>1, <2>2, DoesInv
<1>9. CASE ShrinkCall(v)
  BY <1>0, <1>9, ShrunkWell, DoesInv DEF ShrinkCall
<1>10. CASE \E s \in Vectors : CopyCall(v, s)
  <2>1. PICK s \in Vectors : Does(v, Copied(vec[s]))
    BY <1>10 DEF CopyCall
  <2>2. WellFormed(Copied(vec[s]))
    BY CopiedWell DEF VecInv
  <2> QED
    BY <2>1, <2>2, DoesInv
<1> QED
  BY <1>1, <1>2, <1>3, <1>4, <1>5, <1>6, <1>7, <1>8, <1>9, <1>10 DEF MacroCall

LEMMA CallExtendInv ==
  ASSUME VecInv, NEW d \in Vectors, NEW s \in Vectors, CallExtend(d, s)
  PROVE  VecInv'
<1> DEFINE x == [dest |-> d, src |-> s, index |-> 0, before |-> SeqOf(vec[d])]
<1>1. extending' = <<x>> /\ vec' = vec /\ ended' = ended
  BY DEF CallExtend
<1>2. SeqOf(vec[d]) \in Seq(Elements)
  <2>1. /\ vec[d].count \in Nat
        /\ \A i \in Nat : i < vec[d].count => vec[d].items[i] \in Elements
    BY DEF VecInv, WellFormed
  <2>2. ASSUME NEW k \in 1..vec[d].count
        PROVE  vec[d].items[k - 1] \in Elements
    BY <2>1
  <2>3. SeqOf(vec[d]) \in [1..vec[d].count -> Elements]
    BY <2>2 DEF SeqOf
  <2> QED
    BY <2>1, <2>3
<1>3. x \in Extension
  BY <1>2 DEF Extension
<1> HIDE DEF x
<1>4. <<x>> \in Seq(Extension) /\ Len(<<x>>) <= 1
  BY <1>3
<1> QED
  BY <1>1, <1>4 DEF VecInv, VecTypeOK, WellFormed

LEMMA ExtendTurnInv ==
  ASSUME VecInv, ExtendTurn
  PROVE  VecInv'
<1> DEFINE x == extending[1]
<1>1. x \in Extension /\ extending # <<>>
  BY DEF VecInv, VecTypeOK, ExtendTurn
<1>2. /\ x.index < vec[x.src].count
      /\ Becomes(x.dest, Appended(vec[x.dest], vec[x.src].items[x.index]))
      /\ extending' = <<[x EXCEPT !.index = @ + 1]>>
  BY DEF ExtendTurn, Turns
<1> HIDE DEF x
<1>3. x.dest \in Vectors /\ x.src \in Vectors /\ x.index \in Nat
  BY <1>1 DEF Extension
<1>4. vec[x.src].items[x.index] \in Elements
  BY <1>2, <1>3 DEF VecInv, WellFormed
<1>5. WellFormed(Appended(vec[x.dest], vec[x.src].items[x.index]))
  BY <1>3, <1>4, AppendedWell DEF VecInv
<1>6. /\ vec' \in [Vectors -> Vec]
      /\ \A u \in Vectors : WellFormed(vec'[u])
      /\ ended' \in BOOLEAN
  BY <1>2, <1>3, <1>5, BecomesWell
<1>7. [x EXCEPT !.index = @ + 1] \in Extension
  BY <1>1 DEF Extension
<1>8. extending' \in Seq(Extension) /\ Len(extending') <= 1
  BY <1>2, <1>7
<1> QED
  BY <1>6, <1>8 DEF VecInv, VecTypeOK, WellFormed

\* The invariant of every behaviour.
THEOREM VecInvariant == VecSpec => []VecInv
<1>1. VecInit => VecInv
  <2> SUFFICES ASSUME VecInit PROVE VecInv
    OBVIOUS
  <2>1. Null.capacity = 0
    BY DEF Null, Vector
  <2>2. Null \in Vec
    BY <2>1, NullWell, VecAssumption, WellFormedInVec
  <2>3. \A v \in Vectors : vec[v] = Null
    BY DEF VecInit
  <2>4. vec \in [Vectors -> Vec]
    BY <2>2 DEF VecInit
  <2>5. \A v \in Vectors : WellFormed(vec[v])
    BY <2>3, NullWell
  <2>6. <<>> \in Seq(Extension) /\ Len(<<>>) <= 1
    OBVIOUS
  <2>7. extending \in Seq(Extension) /\ Len(extending) <= 1 /\ ended \in BOOLEAN
    BY <2>6 DEF VecInit
  <2> QED
    BY <2>4, <2>5, <2>7 DEF VecInv, VecTypeOK
<1>2. VecInv /\ [VecNext]_vecVars => VecInv'
  <2> SUFFICES ASSUME VecInv, [VecNext]_vecVars PROVE VecInv'
    OBVIOUS
  <2>1. ASSUME NEW v \in Vectors, MacroCall(v)
        PROVE  VecInv'
    BY <2>1, CallsInv
  <2>2. ASSUME NEW d \in Vectors, NEW s \in Vectors, CallExtend(d, s)
        PROVE  VecInv'
    BY <2>2, CallExtendInv
  <2>3. CASE ExtendTurn
    BY <2>3, ExtendTurnInv
  <2>4. CASE ExtendReturns
    BY <2>4 DEF ExtendReturns, VecInv, VecTypeOK, WellFormed
  <2>5. CASE OutOfMemory
    BY <2>5 DEF OutOfMemory, VecInv, VecTypeOK, WellFormed
  <2>6. CASE UNCHANGED vecVars
    BY <2>6 DEF vecVars, VecInv, VecTypeOK, WellFormed
  <2>7. CASE VecNext
    BY <2>1, <2>2, <2>3, <2>4, <2>5, <2>7 DEF VecNext
  <2> QED
    BY <2>6, <2>7
<1> QED
  BY <1>1, <1>2, PTL DEF VecSpec

\* Every variable keeps its type.
THEOREM VecTypeCorrect == VecSpec => []VecTypeOK
<1>1. VecInv => VecTypeOK
  BY DEF VecInv
<1> QED
  BY <1>1, VecInvariant, PTL

\* Whatever the order of the calls, the elements of a vector fit in its array, the
\* array is as long as the vector believes, and no element is a slot never stored in.
THEOREM AlwaysFits == VecSpec => []Fits
<1>1. VecInv => Fits
  <2> SUFFICES ASSUME VecInv, NEW v \in Vectors
               PROVE  /\ DOMAIN vec[v].items = 0..(vec[v].capacity - 1)
                      /\ vec[v].count <= vec[v].capacity
                      /\ \A i \in 0..(vec[v].count - 1) : vec[v].items[i] \in Elements
    BY DEF Fits
  <2>1. WellFormed(vec[v])
    BY DEF VecInv
  <2> QED
    BY <2>1 DEF WellFormed
<1> QED
  BY <1>1, VecInvariant, PTL
-----------------------------------------------------------------------------
(* Sequences                                                                *)

\* What InsertAt and RemoveAt of the community modules return.
LEMMA InsertAtFacts ==
  ASSUME NEW S, NEW s \in Seq(S), NEW i \in 1..(Len(s) + 1), NEW e \in S
  PROVE  /\ Promise!InsertAt(s, i, e) \in Seq(S)
         /\ Len(Promise!InsertAt(s, i, e)) = Len(s) + 1
         /\ \A k \in 1..(Len(s) + 1) :
              Promise!InsertAt(s, i, e)[k] =
                IF k < i THEN s[k] ELSE IF k = i THEN e ELSE s[k - 1]
<1> DEFINE a == SubSeq(s, 1, i - 1)
           b == <<e>>
           c == SubSeq(s, i, Len(s))
<1>0. Len(s) \in Nat /\ \A k \in 1..Len(s) : s[k] \in S
  BY LenProperties, ElementOfSeq
<1>1. a \in Seq(S) /\ Len(a) = i - 1 /\ \A k \in 1..(i - 1) : a[k] = s[k]
  <2>1. \A k \in 1..(i - 1) : s[k] \in S
    BY <1>0
  <2> QED
    BY <1>0, <2>1, SubSeqProperties
<1>2. b \in Seq(S) /\ Len(b) = 1 /\ b[1] = e
  OBVIOUS
<1>3. /\ c \in Seq(S) /\ Len(c) = Len(s) - i + 1
      /\ \A k \in 1..(Len(s) - i + 1) : c[k] = s[i + k - 1]
  <2>1. \A k \in i..Len(s) : s[k] \in S
    BY <1>0
  <2> QED
    BY <1>0, <2>1, SubSeqProperties
<1> HIDE DEF a, b, c
<1> DEFINE ab == a \o b
<1>4. /\ ab \in Seq(S) /\ Len(ab) = Len(a) + Len(b)
      /\ \A k \in 1..(Len(a) + Len(b)) :
           ab[k] = IF k <= Len(a) THEN a[k] ELSE b[k - Len(a)]
  BY <1>1, <1>2, ConcatProperties
<1> HIDE DEF ab
<1>5. /\ ab \in Seq(S) /\ Len(ab) = i
      /\ \A k \in 1..i : ab[k] = IF k < i THEN s[k] ELSE e
  <2>1. Len(a) + Len(b) = i
    BY <1>0, <1>1, <1>2
  <2>2. ASSUME NEW k \in 1..i
        PROVE  ab[k] = IF k < i THEN s[k] ELSE e
    <3>1. ab[k] = IF k <= i - 1 THEN a[k] ELSE b[k - (i - 1)]
      BY <1>1, <1>4, <2>1
    <3>2. CASE k < i
      BY <1>0, <1>1, <3>1, <3>2
    <3>3. CASE k = i
      BY <1>0, <1>2, <3>1, <3>3
    <3> QED
      BY <1>0, <3>2, <3>3
  <2> QED
    BY <1>4, <2>1, <2>2
<1>6. /\ ab \o c \in Seq(S) /\ Len(ab \o c) = Len(s) + 1
      /\ \A k \in 1..(Len(s) + 1) : (ab \o c)[k] = IF k <= i THEN ab[k] ELSE c[k - i]
  <2>1. /\ ab \o c \in Seq(S) /\ Len(ab \o c) = Len(ab) + Len(c)
        /\ \A k \in 1..(Len(ab) + Len(c)) :
             (ab \o c)[k] = IF k <= Len(ab) THEN ab[k] ELSE c[k - Len(ab)]
    BY <1>3, <1>5, ConcatProperties
  <2>2. Len(ab) + Len(c) = Len(s) + 1
    BY <1>0, <1>3, <1>5
  <2> QED
    BY <1>5, <2>1, <2>2
<1>7. Promise!InsertAt(s, i, e) = ab \o c
  BY DEF Promise!InsertAt, ab, a, b, c
<1>8. ASSUME NEW k \in 1..(Len(s) + 1)
      PROVE  (ab \o c)[k] = IF k < i THEN s[k] ELSE IF k = i THEN e ELSE s[k - 1]
  <2>1. CASE k <= i
    BY <1>5, <1>6, <2>1
  <2>2. CASE k > i
    <3>1. k - i \in 1..(Len(s) - i + 1) /\ i + (k - i) - 1 = k - 1
      BY <1>0, <2>2
    <3>2. c[k - i] = s[k - 1]
      BY <1>3, <3>1
    <3> QED
      BY <1>6, <2>2, <3>2
  <2>3. k <= i \/ k > i
    BY <1>0
  <2> QED
    BY <2>1, <2>2, <2>3, Zenon
<1> QED
  BY <1>6, <1>7, <1>8

LEMMA RemoveAtFacts ==
  ASSUME NEW S, NEW s \in Seq(S), NEW i \in 1..Len(s)
  PROVE  /\ Promise!RemoveAt(s, i) \in Seq(S)
         /\ Len(Promise!RemoveAt(s, i)) = Len(s) - 1
         /\ \A k \in 1..(Len(s) - 1) :
              Promise!RemoveAt(s, i)[k] = IF k < i THEN s[k] ELSE s[k + 1]
<1> DEFINE a == SubSeq(s, 1, i - 1)
           c == SubSeq(s, i + 1, Len(s))
<1>0. Len(s) \in Nat /\ \A k \in 1..Len(s) : s[k] \in S
  BY LenProperties, ElementOfSeq
<1>1. a \in Seq(S) /\ Len(a) = i - 1 /\ \A k \in 1..(i - 1) : a[k] = s[k]
  <2>1. \A k \in 1..(i - 1) : s[k] \in S
    BY <1>0
  <2> QED
    BY <1>0, <2>1, SubSeqProperties
<1>3. /\ c \in Seq(S) /\ Len(c) = Len(s) - i
      /\ \A k \in 1..(Len(s) - i) : c[k] = s[i + k]
  <2>1. \A k \in (i + 1)..Len(s) : s[k] \in S
    BY <1>0
  <2>2. /\ c \in Seq(S)
        /\ Len(c) = IF i + 1 <= Len(s) THEN Len(s) - (i + 1) + 1 ELSE 0
        /\ \A k \in 1..(Len(s) - (i + 1) + 1) : c[k] = s[(i + 1) + k - 1]
    BY <1>0, <2>1, SubSeqProperties
  <2> QED
    BY <1>0, <2>2
<1> HIDE DEF a, c
<1>4. /\ a \o c \in Seq(S) /\ Len(a \o c) = Len(s) - 1
      /\ \A k \in 1..(Len(s) - 1) : (a \o c)[k] = IF k <= i - 1 THEN a[k] ELSE c[k - (i - 1)]
  <2>1. /\ a \o c \in Seq(S) /\ Len(a \o c) = Len(a) + Len(c)
        /\ \A k \in 1..(Len(a) + Len(c)) :
             (a \o c)[k] = IF k <= Len(a) THEN a[k] ELSE c[k - Len(a)]
    BY <1>1, <1>3, ConcatProperties
  <2>2. Len(a) + Len(c) = Len(s) - 1
    BY <1>0, <1>1, <1>3
  <2> QED
    BY <1>1, <2>1, <2>2
<1>5. Promise!RemoveAt(s, i) = a \o c
  BY DEF Promise!RemoveAt, a, c
<1>6. ASSUME NEW k \in 1..(Len(s) - 1)
      PROVE  (a \o c)[k] = IF k < i THEN s[k] ELSE s[k + 1]
  <2>1. CASE k < i
    BY <1>0, <1>1, <1>4, <2>1
  <2>2. CASE k >= i
    <3>1. k - (i - 1) \in 1..(Len(s) - i) /\ i + (k - (i - 1)) = k + 1
      BY <1>0, <2>2
    <3>2. c[k - (i - 1)] = s[k + 1]
      BY <1>3, <3>1
    <3>3. ~ (k <= i - 1) /\ ~ (k < i)
      BY <1>0, <2>2
    <3>4. (a \o c)[k] = c[k - (i - 1)]
      BY <1>4, <3>3, Zenon
    <3> QED
      BY <3>2, <3>3, <3>4, Zenon
  <2>3. k < i \/ k >= i
    BY <1>0
  <2> QED
    BY <2>1, <2>2, <2>3, Zenon
<1> QED
  BY <1>4, <1>5, <1>6

\* The sequence of a well formed vector.
LEMMA SeqOfFacts ==
  ASSUME NEW r, WellFormed(r)
  PROVE  /\ r.count \in Nat
         /\ SeqOf(r) \in Seq(Elements)
         /\ Len(SeqOf(r)) = r.count
         /\ \A k \in 1..r.count : SeqOf(r)[k] = r.items[k - 1]
<1>1. r.count \in Nat /\ \A i \in Nat : i < r.count => r.items[i] \in Elements
  BY DEF WellFormed
<1>2. ASSUME NEW k \in 1..r.count PROVE r.items[k - 1] \in Elements
  BY <1>1
<1>3. SeqOf(r) \in [1..r.count -> Elements]
  BY <1>2 DEF SeqOf
<1> QED
  BY <1>1, <1>3 DEF SeqOf

-----------------------------------------------------------------------------
(* What each macro does to the sequence                                     *)

\* Growing keeps the elements.
LEMMA WithRoomKeeps ==
  ASSUME NEW r, WellFormed(r), NEW i \in Nat, i < r.count
  PROVE  WithRoom(r).items[i] = r.items[i]
<1>1. /\ r.count \in Nat /\ r.capacity \in Nat /\ r.count <= r.capacity
      /\ DOMAIN r.items = 0..(r.capacity - 1)
      /\ NewCapacity(r.capacity) \in Nat
      /\ NewCapacity(r.capacity) > r.capacity
  BY DEF WellFormed, NewCapacity
<1>2. Reallocated(r, NewCapacity(r.capacity)).items[i] = r.items[i]
  BY <1>1 DEF Reallocated, Realloc, Vector
<1> QED
  BY <1>2 DEF WithRoom

LEMMA WithInsertedSeq ==
  ASSUME NEW r, WellFormed(r), NEW i \in Nat, i <= r.count, NEW e \in Elements
  PROVE  SeqOf(WithInserted(r, i, e)) = Promise!InsertAt(SeqOf(r), i + 1, e)
<1> DEFINE q == WithInserted(r, i, e)
           s == SeqOf(r)
           t == Promise!InsertAt(s, i + 1, e)
           g == WithRoom(r)
<1>1. r.count \in Nat /\ s \in Seq(Elements) /\ Len(s) = r.count
      /\ \A k \in 1..r.count : s[k] = r.items[k - 1]
  BY SeqOfFacts
<1>2. WellFormed(q) /\ q.count = r.count + 1
  BY WithInsertedWell, WithRoomWell DEF WithInserted, Vector
<1>3. SeqOf(q) \in Seq(Elements) /\ Len(SeqOf(q)) = r.count + 1
      /\ \A k \in 1..(r.count + 1) : SeqOf(q)[k] = q.items[k - 1]
  BY <1>2, SeqOfFacts
<1> HIDE DEF s
<1>4. /\ t \in Seq(Elements) /\ Len(t) = r.count + 1
      /\ \A k \in 1..(r.count + 1) :
           t[k] = IF k < i + 1 THEN s[k] ELSE IF k = i + 1 THEN e ELSE s[k - 1]
  <2>1. i + 1 \in 1..(Len(s) + 1)
    BY <1>1
  <2>2. /\ t \in Seq(Elements) /\ Len(t) = Len(s) + 1
        /\ \A k \in 1..(Len(s) + 1) :
             t[k] = IF k < i + 1 THEN s[k] ELSE IF k = i + 1 THEN e ELSE s[k - 1]
    BY <1>1, <2>1, InsertAtFacts
  <2> QED
    BY <1>1, <2>2
<1>5. ASSUME NEW k \in 1..(r.count + 1)
      PROVE  q.items[k - 1] = IF k < i + 1 THEN s[k] ELSE IF k = i + 1 THEN e ELSE s[k - 1]
  <2> DEFINE m == Moved(g.items, i + 1, i, g.count - i)
  <2>1. /\ WellFormed(g) /\ g.count = r.count /\ g.count < g.capacity
        /\ DOMAIN g.items = 0..(g.capacity - 1)
    BY WithRoomWell DEF WellFormed
  <2>2. g.capacity \in Nat
    BY <2>1 DEF WellFormed
  <2>3. q.items = [m EXCEPT ![i] = e] /\ DOMAIN m = 0..(g.capacity - 1)
    BY <2>1 DEF WithInserted, Vector, Moved
  <2>4. \A j \in Nat : j < r.count => g.items[j] = r.items[j]
    BY WithRoomKeeps
  <2> HIDE DEF g, q
  <2>5. m[k - 1] = IF k - 1 > i THEN g.items[k - 2] ELSE g.items[k - 1]
    <3>1. k - 1 \in DOMAIN g.items
      BY <1>1, <2>1, <2>2
    <3>2. k - 1 \in (i + 1)..(i + 1 + (g.count - i) - 1) <=> k - 1 > i
      BY <1>1, <2>1
    <3>3. k - 1 - (i + 1) + i = k - 2
      OBVIOUS
    <3> QED
      BY <3>1, <3>2, <3>3 DEF Moved
  <2>6. q.items[k - 1] = IF k - 1 = i THEN e ELSE m[k - 1]
    BY <1>1, <2>1, <2>2, <2>3
  <2> HIDE DEF m
  <2>7. CASE k < i + 1
    <3>1. k - 1 < r.count /\ k - 1 \in Nat /\ k \in 1..r.count
      BY <2>7, <1>1
    <3>2. q.items[k - 1] = g.items[k - 1]
      BY <2>5, <2>6, <2>7
    <3> QED
      BY <1>1, <2>4, <2>7, <3>1, <3>2
  <2>8. CASE k = i + 1
    BY <2>6, <2>8
  <2>9. CASE k > i + 1
    <3>1. k - 2 < r.count /\ k - 2 \in Nat /\ k - 1 \in 1..r.count /\ (k - 1) - 1 = k - 2
      BY <2>9, <1>1
    <3>2. q.items[k - 1] = g.items[k - 2]
      BY <2>5, <2>6, <2>9
    <3>3. s[k - 1] = r.items[k - 2]
      BY <1>1, <3>1
    <3> QED
      BY <2>4, <2>9, <3>1, <3>2, <3>3
  <2> QED
    BY <2>7, <2>8, <2>9
<1> HIDE DEF q, t
<1>6. \A k \in 1..(r.count + 1) : SeqOf(q)[k] = t[k]
  BY <1>1, <1>3, <1>4, <1>5
<1>7. SeqOf(q) = t
  BY <1>3, <1>4, <1>6, SeqEqual
<1> QED
  BY <1>7 DEF q, t, s

\* Appending is inserting at the end.
LEMMA AppendedSeq ==
  ASSUME NEW r, WellFormed(r), NEW e \in Elements
  PROVE  SeqOf(Appended(r, e)) = Promise!InsertAt(SeqOf(r), r.count + 1, e)
<1> DEFINE g == WithRoom(r)
           m == Moved(g.items, r.count + 1, r.count, g.count - r.count)
<1>1. /\ r.count \in Nat /\ g.count = r.count
      /\ g.items \in [0..(g.capacity - 1) -> Elements \cup {Junk}]
  BY WithRoomWell, SeqOfFacts DEF WellFormed
<1>2. m = g.items
  <2>1. (r.count + 1)..(r.count + 1 + (g.count - r.count) - 1) = {}
    BY <1>1
  <2>2. m = [k \in DOMAIN g.items |-> g.items[k]]
    BY <2>1 DEF Moved
  <2> QED
    BY <1>1, <2>2
<1>3. Appended(r, e) = WithInserted(r, r.count, e)
  <2>1. r.count <= r.count
    BY <1>1
  <2>2. WithInserted(r, r.count, e) =
          Vector([m EXCEPT ![r.count] = e], g.count + 1, g.capacity)
    BY <2>1 DEF WithInserted
  <2> QED
    BY <1>1, <1>2, <2>2 DEF Appended
<1> QED
  BY <1>1, <1>3, WithInsertedSeq

LEMMA WithoutSeq ==
  ASSUME NEW r, WellFormed(r), NEW i \in Nat, i < r.count
  PROVE  SeqOf(Without(r, i)) = Promise!RemoveAt(SeqOf(r), i + 1)
<1> DEFINE q == Without(r, i)
           s == SeqOf(r)
           t == Promise!RemoveAt(s, i + 1)
<1>1. r.count \in Nat /\ s \in Seq(Elements) /\ Len(s) = r.count
      /\ \A k \in 1..r.count : s[k] = r.items[k - 1]
  BY SeqOfFacts
<1>2. WellFormed(q) /\ q.count = r.count - 1
  BY WithoutWell DEF Without, Vector
<1>3. SeqOf(q) \in Seq(Elements) /\ Len(SeqOf(q)) = r.count - 1
      /\ \A k \in 1..(r.count - 1) : SeqOf(q)[k] = q.items[k - 1]
  BY <1>2, SeqOfFacts
<1> HIDE DEF s
<1>4. /\ t \in Seq(Elements) /\ Len(t) = r.count - 1
      /\ \A k \in 1..(r.count - 1) : t[k] = IF k < i + 1 THEN s[k] ELSE s[k + 1]
  <2>1. i + 1 \in 1..Len(s)
    BY <1>1
  <2>2. /\ t \in Seq(Elements) /\ Len(t) = Len(s) - 1
        /\ \A k \in 1..(Len(s) - 1) : t[k] = IF k < i + 1 THEN s[k] ELSE s[k + 1]
    BY <1>1, <2>1, RemoveAtFacts
  <2> QED
    BY <1>1, <2>2
<1>5. ASSUME NEW k \in 1..(r.count - 1)
      PROVE  q.items[k - 1] = IF k < i + 1 THEN s[k] ELSE s[k + 1]
  <2>1. r.capacity \in Nat /\ r.count <= r.capacity /\ DOMAIN r.items = 0..(r.capacity - 1)
    BY DEF WellFormed
  <2>2. q.items = Moved(r.items, i, i + 1, r.count - i - 1)
    BY DEF Without, Vector
  <2>3. k - 1 \in DOMAIN r.items
    BY <1>1, <2>1
  <2>4. k - 1 \in i..(i + (r.count - i - 1) - 1) <=> k - 1 >= i
    BY <1>1
  <2>5. k - 1 - i + (i + 1) = k
    OBVIOUS
  <2>6. q.items[k - 1] = IF k - 1 >= i THEN r.items[k] ELSE r.items[k - 1]
    BY <2>2, <2>3, <2>4, <2>5 DEF Moved
  <2>7. s[k] = r.items[k - 1] /\ s[k + 1] = r.items[k]
    BY <1>1
  <2> HIDE DEF q
  <2> QED
    BY <2>6, <2>7
<1> HIDE DEF q, t
<1>6. \A k \in 1..(r.count - 1) : SeqOf(q)[k] = t[k]
  BY <1>3, <1>4, <1>5
<1>7. SeqOf(q) = t
  BY <1>3, <1>4, <1>6, SeqEqual
<1> QED
  BY <1>7 DEF q, t, s

LEMMA WithSetSeq ==
  ASSUME NEW r, WellFormed(r), NEW i \in Nat, i < r.count, NEW e \in Elements
  PROVE  SeqOf(WithSet(r, i, e)) = Promise!ReplaceAt(SeqOf(r), i + 1, e)
<1> DEFINE q == WithSet(r, i, e)
           s == SeqOf(r)
           t == Promise!ReplaceAt(s, i + 1, e)
<1>1. r.count \in Nat /\ s \in Seq(Elements) /\ Len(s) = r.count
      /\ \A k \in 1..r.count : s[k] = r.items[k - 1]
  BY SeqOfFacts
<1>2. WellFormed(q) /\ q.count = r.count /\ q.items = [r.items EXCEPT ![i] = e]
  BY WithSetWell DEF WithSet, Vector
<1>3. SeqOf(q) \in Seq(Elements) /\ Len(SeqOf(q)) = r.count
      /\ \A k \in 1..r.count : SeqOf(q)[k] = q.items[k - 1]
  BY <1>2, SeqOfFacts
<1> HIDE DEF s
<1>4. /\ t \in Seq(Elements) /\ Len(t) = r.count
      /\ \A k \in 1..r.count : t[k] = IF k = i + 1 THEN e ELSE s[k]
  BY <1>1, ExceptSeq DEF Promise!ReplaceAt
<1>5. r.capacity \in Nat /\ r.count <= r.capacity /\ DOMAIN r.items = 0..(r.capacity - 1)
  BY DEF WellFormed
<1> HIDE DEF q, t
<1>6. ASSUME NEW k \in 1..r.count PROVE SeqOf(q)[k] = t[k]
  <2>1. q.items[k - 1] = IF k - 1 = i THEN e ELSE r.items[k - 1]
    BY <1>1, <1>2, <1>5
  <2> QED
    BY <1>1, <1>3, <1>4, <2>1
<1>7. SeqOf(q) = t
  BY <1>3, <1>4, <1>6, SeqEqual
<1> QED
  BY <1>7 DEF q, t, s

\* A well formed vector with the first elements of another is a beginning of it.
LEMMA PrefixSeq ==
  ASSUME NEW r, WellFormed(r), NEW q, WellFormed(q), q.count <= r.count,
         \A i \in Nat : i < q.count => q.items[i] = r.items[i]
  PROVE  SeqOf(q) = SubSeq(SeqOf(r), 1, q.count)
<1> DEFINE s == SeqOf(r)
           t == SubSeq(s, 1, q.count)
<1>1. /\ r.count \in Nat /\ s \in Seq(Elements) /\ Len(s) = r.count
      /\ \A k \in 1..r.count : s[k] = r.items[k - 1]
  BY SeqOfFacts
<1>2. /\ q.count \in Nat /\ SeqOf(q) \in Seq(Elements) /\ Len(SeqOf(q)) = q.count
      /\ \A k \in 1..q.count : SeqOf(q)[k] = q.items[k - 1]
  BY SeqOfFacts
<1> HIDE DEF s
<1>3. t \in Seq(Elements) /\ Len(t) = q.count /\ \A k \in 1..q.count : t[k] = s[k]
  <2>1. \A k \in 1..q.count : s[k] \in Elements
    BY <1>1, <1>2, ElementOfSeq
  <2>2. /\ t \in Seq(Elements)
        /\ Len(t) = IF 1 <= q.count THEN q.count - 1 + 1 ELSE 0
        /\ \A k \in 1..(q.count - 1 + 1) : t[k] = s[1 + k - 1]
    BY <1>1, <1>2, <2>1, SubSeqProperties
  <2> QED
    BY <1>2, <2>2
<1> HIDE DEF t
<1>4. ASSUME NEW k \in 1..q.count PROVE SeqOf(q)[k] = t[k]
  <2>1. k - 1 \in Nat /\ k - 1 < q.count /\ k \in 1..r.count
    BY <1>1, <1>2
  <2> QED
    BY <1>1, <1>2, <1>3, <2>1
<1>5. SeqOf(q) = t
  BY <1>2, <1>3, <1>4, SeqEqual
<1> QED
  BY <1>5 DEF t, s

\* The same elements make the same sequence.
LEMMA SameSeq ==
  ASSUME NEW r, WellFormed(r), NEW q, WellFormed(q), q.count = r.count,
         \A i \in Nat : i < r.count => q.items[i] = r.items[i]
  PROVE  SeqOf(q) = SeqOf(r)
<1>1. /\ r.count \in Nat /\ SeqOf(r) \in Seq(Elements) /\ Len(SeqOf(r)) = r.count
      /\ \A k \in 1..r.count : SeqOf(r)[k] = r.items[k - 1]
  BY SeqOfFacts
<1>2. /\ SeqOf(q) \in Seq(Elements) /\ Len(SeqOf(q)) = r.count
      /\ \A k \in 1..r.count : SeqOf(q)[k] = q.items[k - 1]
  BY SeqOfFacts
<1>3. ASSUME NEW k \in 1..r.count PROVE SeqOf(q)[k] = SeqOf(r)[k]
  <2>1. k - 1 \in Nat /\ k - 1 < r.count
    BY <1>1
  <2> QED
    BY <1>1, <1>2, <2>1
<1> QED
  BY <1>1, <1>2, <1>3, SeqEqual

LEMMA ReallocatedSeq ==
  ASSUME NEW r, WellFormed(r), NEW n \in Nat, r.count <= n
  PROVE  SeqOf(Reallocated(r, n)) = SeqOf(r)
<1> DEFINE q == Reallocated(r, n)
<1>1. WellFormed(q) /\ q.count = r.count
  BY ReallocatedWell
<1>2. ASSUME NEW i \in Nat, i < r.count PROVE q.items[i] = r.items[i]
  BY <1>2 DEF Reallocated, Realloc, Vector, WellFormed
<1> HIDE DEF q
<1>3. SeqOf(q) = SeqOf(r)
  BY <1>1, <1>2, SameSeq
<1> QED
  BY <1>3 DEF q

LEMMA ReservedSeq ==
  ASSUME NEW r, WellFormed(r), NEW n \in Nat
  PROVE  SeqOf(Reserved(r, n)) = SeqOf(r)
<1>1. r.count \in Nat /\ r.capacity \in Nat /\ r.count <= r.capacity
  BY DEF WellFormed
<1>2. CASE r.capacity < n
  BY <1>1, <1>2, ReallocatedSeq DEF Reserved
<1>3. CASE ~ (r.capacity < n)
  BY <1>3 DEF Reserved
<1> QED
  BY <1>2, <1>3

LEMMA ShrunkSeq ==
  ASSUME NEW r, WellFormed(r)
  PROVE  SeqOf(Shrunk(r)) = SeqOf(r)
<1>1. r.count \in Nat /\ r.capacity \in Nat
  BY DEF WellFormed
<1>2. SeqOf(Reallocated(r, IF r.count > 0 THEN r.count ELSE 1)) = SeqOf(r)
  BY <1>1, ReallocatedSeq
<1> QED
  BY <1>2 DEF Shrunk

LEMMA ResizedSeq ==
  ASSUME NEW r, WellFormed(r), NEW n \in Nat
  PROVE  SeqOf(Resized(r, n)) = SubSeq(SeqOf(r), 1, Min2(r.count, n))
<1> DEFINE q == Resized(r, n)
<1>1. WellFormed(q) /\ q.count = Min2(r.count, n)
  BY ResizedWell DEF Resized, Vector
<1>2. r.count \in Nat /\ Min2(r.count, n) <= r.count /\ Min2(r.count, n) <= n
  BY DEF WellFormed, Min2
<1>3. ASSUME NEW i \in Nat, i < q.count PROVE q.items[i] = r.items[i]
  <2>1. i < r.count /\ i < n
    BY <1>1, <1>2, <1>3 DEF Min2
  <2>2. i \in 0..(n - 1) /\ i \in DOMAIN r.items
    BY <2>1 DEF WellFormed
  <2> QED
    BY <2>2 DEF Resized, Realloc, Vector
<1> HIDE DEF q
<1>4. SeqOf(q) = SubSeq(SeqOf(r), 1, q.count)
  BY <1>1, <1>2, <1>3, PrefixSeq
<1> QED
  BY <1>1, <1>4 DEF q

LEMMA ClearedSeq ==
  ASSUME NEW r, WellFormed(r)
  PROVE  SeqOf(Cleared(r)) = SubSeq(SeqOf(r), 1, 0)
<1>1. WellFormed(Cleared(r)) /\ Cleared(r).count = 0 /\ 0 <= r.count
  BY ClearedWell DEF Cleared, Vector, WellFormed
<1>2. \A i \in Nat : i < 0 => Cleared(r).items[i] = r.items[i]
  OBVIOUS
<1> QED
  BY <1>1, <1>2, PrefixSeq

LEMMA NullSeq ==
  ASSUME NEW r, WellFormed(r)
  PROVE  SeqOf(Null) = SubSeq(SeqOf(r), 1, 0)
<1>1. WellFormed(Null) /\ Null.count = 0 /\ 0 <= r.count
  BY NullWell DEF Null, Vector, WellFormed
<1>2. \A i \in Nat : i < 0 => Null.items[i] = r.items[i]
  OBVIOUS
<1> QED
  BY <1>1, <1>2, PrefixSeq

LEMMA CopiedSeq ==
  ASSUME NEW s, WellFormed(s)
  PROVE  SeqOf(Copied(s)) = SeqOf(s)
<1> DEFINE d == Reserved(Null, s.count)
           q == Copied(s)
<1>1. s.count \in Nat
  BY DEF WellFormed
<1>2. WellFormed(d) /\ d.capacity >= s.count
  BY <1>1, NullWell, ReservedWell
<1>3. q.items = CopiedFrom(d.items, s.items, s.count) /\ q.count = s.count
  BY DEF Copied, Vector
<1>4. WellFormed(q)
  BY CopiedWell
<1> HIDE DEF d, q
<1>5. ASSUME NEW i \in Nat, i < s.count PROVE q.items[i] = s.items[i]
  BY <1>1, <1>2, <1>3, <1>5 DEF CopiedFrom, WellFormed
<1>6. SeqOf(q) = SeqOf(s)
  BY <1>3, <1>4, <1>5, SameSeq
<1> QED
  BY <1>6 DEF q

-----------------------------------------------------------------------------
(* The promise                                                              *)

\* Between two macros each vector shows its own elements.
LEMMA ShownIdle ==
  ASSUME extending = <<>>
  PROVE  Shown = [v \in Vectors |-> SeqOf(vec[v])]
BY DEF Shown

\* A macro that makes r of v shows the sequence of r.
LEMMA DoesShown ==
  ASSUME VecInv, NEW v \in Vectors, NEW r, WellFormed(r), Does(v, r)
  PROVE  /\ Promise!Becomes(v, SeqOf(r))
         /\ \A u \in Vectors : Shown[u] = SeqOf(vec[u])
         /\ Shown' = Shown \/ SeqOf(r) # SeqOf(vec[v])
         /\ ~ ended /\ UNCHANGED ended
<1>1. /\ extending = <<>> /\ extending' = <<>> /\ ~ ended /\ ended' = ended
      /\ vec' = [vec EXCEPT ![v] = r] /\ vec \in [Vectors -> Vec]
  BY DEF Does, Idle, Becomes, VecInv, VecTypeOK
<1>2. Shown = [u \in Vectors |-> SeqOf(vec[u])]
  BY <1>1, ShownIdle
<1>3. Shown' = [u \in Vectors |-> SeqOf(vec'[u])]
  BY <1>1 DEF Shown, SeqOf
<1>4. \A u \in Vectors : vec'[u] = IF u = v THEN r ELSE vec[u]
  BY <1>1
<1>5. \A u \in Vectors : SeqOf(vec'[u]) = IF u = v THEN SeqOf(r) ELSE SeqOf(vec[u])
  BY <1>4
<1>6. Shown' = [Shown EXCEPT ![v] = SeqOf(r)]
  BY <1>2, <1>3, <1>5
<1>7. SeqOf(r) = SeqOf(vec[v]) => Shown' = Shown
  BY <1>2, <1>6
<1> QED
  BY <1>1, <1>2, <1>6, <1>7 DEF Promise!Becomes

\* Every macro but neovec_extend is an operation of the promise, or shows nothing.
LEMMA MacroRefines ==
  ASSUME VecInv, NEW v \in Vectors, MacroCall(v)
  PROVE  [Promise!Next]_(Promise!vars)
<1> DEFINE Fine == [Promise!Next]_(Promise!vars)
<1>0. WellFormed(vec[v]) /\ vec[v].count \in Nat /\ Len(SeqOf(vec[v])) = vec[v].count
  BY SeqOfFacts DEF VecInv
<1>a. ASSUME NEW r, WellFormed(r), Does(v, r), SeqOf(r) = SeqOf(vec[v])
      PROVE  Fine
  BY <1>a, DoesShown DEF Promise!vars
<1>b. ASSUME NEW r, WellFormed(r), Does(v, r), ~ ended => Promise!Change
      PROVE  Fine
  BY <1>b, DoesShown DEF Promise!Next
<1>c. ASSUME NEW r, WellFormed(r), Does(v, r), NEW n \in 0..vec[v].count,
             SeqOf(r) = SubSeq(SeqOf(vec[v]), 1, n)
      PROVE  Fine
  <2>1. Promise!Becomes(v, SeqOf(r)) /\ Shown[v] = SeqOf(vec[v])
    BY <1>c, DoesShown
  <2>2. n \in 0..Len(Shown[v]) /\ Promise!Truncate(v, n)
    BY <1>0, <1>c, <2>1 DEF Promise!Truncate
  <2>3. Promise!Change
    BY <2>2 DEF Promise!Change
  <2> QED
    BY <1>b, <1>c, <2>3
<1>1. CASE AppendCall(v)
  <2>1. PICK e \in Elements : Does(v, Appended(vec[v], e))
    BY <1>1 DEF AppendCall
  <2> DEFINE r == Appended(vec[v], e)
             n == vec[v].count
  <2>2. WellFormed(r) /\ SeqOf(r) = Promise!InsertAt(SeqOf(vec[v]), n + 1, e)
    BY <1>0, AppendedWell, AppendedSeq
  <2>3. Promise!Becomes(v, SeqOf(r)) /\ Shown[v] = SeqOf(vec[v])
    BY <2>1, <2>2, DoesShown
  <2> HIDE DEF r
  <2>4. n \in 0..Len(Shown[v]) /\ Promise!Insert(v, n, e)
    BY <1>0, <2>2, <2>3 DEF Promise!Insert
  <2>5. Promise!Change
    BY <2>4 DEF Promise!Change
  <2> QED
    BY <1>b, <2>1, <2>2, <2>5 DEF r
<1>2. CASE SetCall(v)
  <2>1. PICK i \in 0..vec[v].count, e \in Elements : Does(v, WithSet(vec[v], i, e))
    BY <1>2 DEF SetCall
  <2> DEFINE r == WithSet(vec[v], i, e)
  <2>2. WellFormed(r)
    BY <1>0, WithSetWell
  <2>3. CASE i < vec[v].count
    <3>1. SeqOf(r) = Promise!ReplaceAt(SeqOf(vec[v]), i + 1, e)
      BY <1>0, <2>3, WithSetSeq
    <3>2. Promise!Becomes(v, SeqOf(r)) /\ Shown[v] = SeqOf(vec[v])
      BY <2>1, <2>2, DoesShown
    <3> HIDE DEF r
    <3>3. i \in 0..Len(Shown[v]) /\ Promise!Put(v, i, e)
      BY <1>0, <2>3, <3>1, <3>2 DEF Promise!Put
    <3>4. Promise!Change
      BY <3>3 DEF Promise!Change
    <3> QED
      BY <1>b, <2>1, <2>2, <3>4 DEF r
  <2>4. CASE ~ (i < vec[v].count)
    BY <1>a, <2>1, <2>2, <2>4 DEF WithSet
  <2> QED
    BY <2>3, <2>4
<1>3. CASE InsertCall(v)
  <2>1. PICK i \in 0..(vec[v].count + 1), e \in Elements :
          Does(v, WithInserted(vec[v], i, e))
    BY <1>3 DEF InsertCall
  <2> DEFINE r == WithInserted(vec[v], i, e)
  <2>2. WellFormed(r)
    BY <1>0, WithInsertedWell
  <2>3. CASE i <= vec[v].count
    <3>1. SeqOf(r) = Promise!InsertAt(SeqOf(vec[v]), i + 1, e)
      BY <1>0, <2>3, WithInsertedSeq
    <3>2. Promise!Becomes(v, SeqOf(r)) /\ Shown[v] = SeqOf(vec[v])
      BY <2>1, <2>2, DoesShown
    <3> HIDE DEF r
    <3>3. i \in 0..Len(Shown[v]) /\ Promise!Insert(v, i, e)
      BY <1>0, <2>3, <3>1, <3>2 DEF Promise!Insert
    <3>4. Promise!Change
      BY <3>3 DEF Promise!Change
    <3> QED
      BY <1>b, <2>1, <2>2, <3>4 DEF r
  <2>4. CASE ~ (i <= vec[v].count)
    BY <1>a, <2>1, <2>2, <2>4 DEF WithInserted
  <2> QED
    BY <2>3, <2>4
<1>4. CASE RemoveCall(v)
  <2>1. PICK i \in 0..vec[v].count : Does(v, Without(vec[v], i))
    BY <1>4 DEF RemoveCall
  <2> DEFINE r == Without(vec[v], i)
  <2>2. WellFormed(r)
    BY <1>0, WithoutWell
  <2>3. CASE i < vec[v].count
    <3>1. SeqOf(r) = Promise!RemoveAt(SeqOf(vec[v]), i + 1)
      BY <1>0, <2>3, WithoutSeq
    <3>2. Promise!Becomes(v, SeqOf(r)) /\ Shown[v] = SeqOf(vec[v])
      BY <2>1, <2>2, DoesShown
    <3> HIDE DEF r
    <3>3. i \in 0..Len(Shown[v]) /\ Promise!Delete(v, i)
      BY <1>0, <2>3, <3>1, <3>2 DEF Promise!Delete
    <3>4. Promise!Change
      BY <3>3 DEF Promise!Change
    <3> QED
      BY <1>b, <2>1, <2>2, <3>4 DEF r
  <2>4. CASE ~ (i < vec[v].count)
    BY <1>a, <2>1, <2>2, <2>4 DEF Without
  <2> QED
    BY <2>3, <2>4
<1>5. CASE ClearCall(v)
  <2>1. 0 \in 0..vec[v].count
    BY <1>0
  <2> QED
    BY <1>0, <1>5, <1>c, <2>1, ClearedWell, ClearedSeq DEF ClearCall
<1>6. CASE FreeCall(v)
  <2>1. 0 \in 0..vec[v].count
    BY <1>0
  <2> QED
    BY <1>0, <1>6, <1>c, <2>1, NullWell, NullSeq DEF FreeCall
<1>7. CASE ResizeCall(v)
  <2>1. PICK n \in Sizes : Does(v, Resized(vec[v], n))
    BY <1>7 DEF ResizeCall
  <2>2. n \in Nat
    BY VecAssumption
  <2>3. /\ WellFormed(Resized(vec[v], n))
        /\ SeqOf(Resized(vec[v], n)) = SubSeq(SeqOf(vec[v]), 1, Min2(vec[v].count, n))
    BY <1>0, <2>2, ResizedWell, ResizedSeq
  <2>4. Min2(vec[v].count, n) \in 0..vec[v].count
    BY <1>0, <2>2 DEF Min2
  <2> QED
    BY <1>c, <2>1, <2>3, <2>4
<1>8. CASE ReserveCall(v)
  <2>1. PICK n \in Sizes : Does(v, Reserved(vec[v], n))
    BY <1>8 DEF ReserveCall
  <2>2. WellFormed(Reserved(vec[v], n)) /\ SeqOf(Reserved(vec[v], n)) = SeqOf(vec[v])
    BY <1>0, VecAssumption, ReservedWell, ReservedSeq
  <2> QED
    BY <1>a, <2>1, <2>2
<1>9. CASE ShrinkCall(v)
  BY <1>0, <1>9, <1>a, ShrunkWell, ShrunkSeq DEF ShrinkCall
<1>10. CASE \E s \in Vectors : CopyCall(v, s)
  <2>1. PICK s \in Vectors : v # s /\ Does(v, Copied(vec[s]))
    BY <1>10 DEF CopyCall
  <2>2. WellFormed(Copied(vec[s])) /\ SeqOf(Copied(vec[s])) = SeqOf(vec[s])
    BY CopiedWell, CopiedSeq DEF VecInv
  <2>3. Promise!Becomes(v, SeqOf(Copied(vec[s]))) /\ Shown[s] = SeqOf(vec[s])
    BY <2>1, <2>2, DoesShown
  <2>4. Promise!Copy(v, s)
    BY <2>1, <2>2, <2>3 DEF Promise!Copy
  <2>5. Promise!Change
    BY <2>4 DEF Promise!Change
  <2> QED
    BY <1>b, <2>1, <2>2, <2>5
<1> QED
  BY <1>1, <1>2, <1>3, <1>4, <1>5, <1>6, <1>7, <1>8, <1>9, <1>10 DEF MacroCall

-----------------------------------------------------------------------------
(* neovec_extend                                                            *)

\* After index turns, an extension has appended the first index elements of its
\* source; of a vector by itself, the source has grown by as much, so that the loop
\* is never over unless the vector was empty.
Halfway(x, f) ==
  /\ x.dest # x.src =>
       /\ x.index <= f[x.src].count
       /\ SeqOf(f[x.dest]) = x.before \o SubSeq(SeqOf(f[x.src]), 1, x.index)
  /\ x.dest = x.src =>
       /\ f[x.dest].count = Len(x.before) + x.index
       /\ x.before = <<>> => x.index = 0

ExtendInv == VecInv /\ (extending # <<>> => Halfway(extending[1], vec))

\* Appending adds the element at the end.
LEMMA AppendedAppends ==
  ASSUME NEW r, WellFormed(r), NEW e \in Elements
  PROVE  SeqOf(Appended(r, e)) = Append(SeqOf(r), e)
<1> DEFINE s == SeqOf(r)
           t == Promise!InsertAt(s, r.count + 1, e)
<1>1. r.count \in Nat /\ s \in Seq(Elements) /\ Len(s) = r.count
  BY SeqOfFacts
<1>2. SeqOf(Appended(r, e)) = t
  BY AppendedSeq
<1> HIDE DEF s
<1>3. /\ t \in Seq(Elements) /\ Len(t) = Len(s) + 1
      /\ \A k \in 1..(Len(s) + 1) :
           t[k] = IF k < r.count + 1 THEN s[k] ELSE IF k = r.count + 1 THEN e ELSE s[k - 1]
  <2> DEFINE i == r.count + 1
  <2>1. i \in 1..(Len(s) + 1)
    BY <1>1
  <2> HIDE DEF i
  <2>2. /\ Promise!InsertAt(s, i, e) \in Seq(Elements)
        /\ Len(Promise!InsertAt(s, i, e)) = Len(s) + 1
        /\ \A k \in 1..(Len(s) + 1) :
             Promise!InsertAt(s, i, e)[k] =
               IF k < i THEN s[k] ELSE IF k = i THEN e ELSE s[k - 1]
    BY <1>1, <2>1, InsertAtFacts, SMTT(30)
  <2> QED
    BY <2>2, Zenon DEF i
<1> HIDE DEF t
<1>4. /\ Append(s, e) \in Seq(Elements) /\ Len(Append(s, e)) = Len(s) + 1
      /\ \A k \in 1..Len(s) : Append(s, e)[k] = s[k]
      /\ Append(s, e)[Len(s) + 1] = e
  BY <1>1, AppendProperties
<1>5. ASSUME NEW k \in 1..(Len(s) + 1) PROVE t[k] = Append(s, e)[k]
  <2>1. CASE k \in 1..Len(s)
    BY <1>1, <1>3, <1>4, <2>1
  <2>2. CASE k = Len(s) + 1
    BY <1>1, <1>3, <1>4, <2>2
  <2>3. k \in 1..Len(s) \/ k = Len(s) + 1
    BY <1>1
  <2> QED
    BY <2>1, <2>2, <2>3, Zenon
<1>6. t = Append(s, e)
  BY <1>1, <1>3, <1>4, <1>5, SeqEqual
<1> QED
  BY <1>2, <1>6 DEF s

\* The beginning of a sequence, as long as the index.
LEMMA BeginFacts ==
  ASSUME NEW S, NEW s \in Seq(S), NEW i \in 0..Len(s)
  PROVE  /\ SubSeq(s, 1, i) \in Seq(S)
         /\ Len(SubSeq(s, 1, i)) = i
         /\ \A k \in 1..i : SubSeq(s, 1, i)[k] = s[k]
<1>1. Len(s) \in Nat /\ \A k \in 1..Len(s) : s[k] \in S
  BY LenProperties, ElementOfSeq
<1>2. \A k \in 1..i : s[k] \in S
  BY <1>1
<1>3. /\ SubSeq(s, 1, i) \in Seq(S)
      /\ Len(SubSeq(s, 1, i)) = IF 1 <= i THEN i - 1 + 1 ELSE 0
      /\ \A k \in 1..(i - 1 + 1) : SubSeq(s, 1, i)[k] = s[1 + k - 1]
  BY <1>1, <1>2, SubSeqProperties
<1> QED
  BY <1>1, <1>3

\* One turn more.
LEMMA OneMore ==
  ASSUME NEW S, NEW b \in Seq(S), NEW s \in Seq(S), NEW i \in Nat, i < Len(s)
  PROVE  Append(b \o SubSeq(s, 1, i), s[i + 1]) = b \o SubSeq(s, 1, i + 1)
<1> DEFINE p == SubSeq(s, 1, i)
           q == SubSeq(s, 1, i + 1)
           l == b \o p
           m == Append(l, s[i + 1])
           n == b \o q
<1>0. Len(s) \in Nat /\ Len(b) \in Nat /\ s[i + 1] \in S
  BY LenProperties, ElementOfSeq
<1>1. p \in Seq(S) /\ Len(p) = i /\ \A k \in 1..i : p[k] = s[k]
  BY <1>0, BeginFacts
<1>2. q \in Seq(S) /\ Len(q) = i + 1 /\ \A k \in 1..(i + 1) : q[k] = s[k]
  BY <1>0, BeginFacts
<1> HIDE DEF p, q
<1>3. /\ l \in Seq(S) /\ Len(l) = Len(b) + i
      /\ \A k \in 1..(Len(b) + i) : l[k] = IF k <= Len(b) THEN b[k] ELSE p[k - Len(b)]
  BY <1>1, ConcatProperties
<1>4. /\ n \in Seq(S) /\ Len(n) = Len(b) + i + 1
      /\ \A k \in 1..(Len(b) + i + 1) :
           n[k] = IF k <= Len(b) THEN b[k] ELSE q[k - Len(b)]
  <2>1. /\ n \in Seq(S) /\ Len(n) = Len(b) + Len(q)
        /\ \A k \in 1..(Len(b) + Len(q)) :
             n[k] = IF k <= Len(b) THEN b[k] ELSE q[k - Len(b)]
    BY <1>2, ConcatProperties
  <2>2. Len(b) + Len(q) = Len(b) + i + 1
    BY <1>0, <1>2
  <2> QED
    BY <2>1, <2>2
<1> HIDE DEF l, n
<1>5. /\ m \in Seq(S) /\ Len(m) = Len(b) + i + 1
      /\ \A k \in 1..(Len(b) + i) : m[k] = l[k]
      /\ m[Len(b) + i + 1] = s[i + 1]
  <2>1. /\ m \in Seq(S) /\ Len(m) = Len(l) + 1
        /\ \A k \in 1..Len(l) : m[k] = l[k]
        /\ m[Len(l) + 1] = s[i + 1]
    BY <1>0, <1>3, AppendProperties, ZenonT(30)
  <2> HIDE DEF m
  <2>2. ASSUME NEW k \in 1..(Len(b) + i) PROVE m[k] = l[k]
    BY <1>3, <2>1
  <2>3. Len(m) = Len(b) + i + 1 /\ m[Len(b) + i + 1] = s[i + 1]
    BY <1>3, <2>1
  <2> QED
    BY <2>1, <2>2, <2>3
<1> HIDE DEF m
<1>6. ASSUME NEW k \in 1..(Len(b) + i + 1) PROVE m[k] = n[k]
  <2>1. CASE k <= Len(b)
    <3>1. k \in 1..(Len(b) + i)
      BY <1>0, <2>1
    <3>2. m[k] = b[k]
      BY <1>3, <1>5, <2>1, <3>1
    <3> QED
      BY <1>4, <2>1, <3>2
  <2>2. CASE k > Len(b) /\ k <= Len(b) + i
    <3>1. /\ k - Len(b) \in 1..i /\ k - Len(b) \in 1..(i + 1)
          /\ k \in 1..(Len(b) + i) /\ ~ (k <= Len(b))
      BY <1>0, <2>2
    <3>2. m[k] = s[k - Len(b)]
      BY <1>1, <1>3, <1>5, <3>1
    <3>3. n[k] = s[k - Len(b)]
      BY <1>2, <1>4, <3>1
    <3> QED
      BY <3>2, <3>3
  <2>3. CASE k = Len(b) + i + 1
    <3>1. k - Len(b) = i + 1 /\ i + 1 \in 1..(i + 1) /\ ~ (k <= Len(b))
      BY <1>0, <2>3
    <3>2. n[k] = s[i + 1]
      BY <1>0, <1>2, <1>4, <3>1
    <3> QED
      BY <1>5, <2>3, <3>2
  <2>4. k <= Len(b) \/ (k > Len(b) /\ k <= Len(b) + i) \/ k = Len(b) + i + 1
    BY <1>0
  <2> QED
    BY <2>1, <2>2, <2>3, <2>4, Zenon
<1>7. m = n
  <2>1. Len(m) = Len(n) /\ \A k \in 1..Len(m) : m[k] = n[k]
    BY <1>4, <1>5, <1>6
  <2> QED
    BY <1>4, <1>5, <2>1, SeqEqual
<1> QED
  BY <1>7 DEF m, n, l, p, q

\* An extension that has shown nothing yet.
LEMMA ExtendShows ==
  ASSUME ExtendInv, extending # <<>>
  PROVE  /\ extending[1] \in Extension
         /\ extending = <<extending[1]>>
         /\ Shown = [v \in Vectors |-> IF v = extending[1].dest THEN extending[1].before
                                       ELSE SeqOf(vec[v])]
<1>1. extending \in Seq(Extension) /\ Len(extending) = 1
  <2>1. extending \in Seq(Extension) /\ Len(extending) <= 1
    BY DEF ExtendInv, VecInv, VecTypeOK
  <2>2. Len(extending) \in Nat /\ Len(extending) # 0
    BY <2>1, EmptySeq, LenProperties
  <2> QED
    BY <2>1, <2>2
<1>2. extending[1] \in Extension /\ DOMAIN extending = {1} /\ extending = <<extending[1]>>
  BY <1>1
<1>3. \A v \in Vectors : (\E k \in DOMAIN extending : extending[k].dest = v)
                            <=> v = extending[1].dest
  BY <1>2
<1> QED
  BY <1>2, <1>3 DEF Shown

LEMMA CallExtendKeeps ==
  ASSUME ExtendInv, NEW d \in Vectors, NEW s \in Vectors, CallExtend(d, s)
  PROVE  ExtendInv' /\ UNCHANGED <<Shown, ended>>
<1> DEFINE x == [dest |-> d, src |-> s, index |-> 0, before |-> SeqOf(vec[d])]
<1>1. /\ extending = <<>> /\ extending' = <<x>> /\ vec' = vec /\ ended' = ended
      /\ VecInv
  BY DEF CallExtend, Idle, ExtendInv
<1>2. VecInv'
  BY <1>1, CallExtendInv
<1>3. \A v \in Vectors : /\ vec[v].count \in Nat /\ SeqOf(vec[v]) \in Seq(Elements)
                         /\ Len(SeqOf(vec[v])) = vec[v].count
  BY <1>1, SeqOfFacts DEF VecInv
<1>4. x.dest = d /\ x.src = s /\ x.index = 0 /\ x.before = SeqOf(vec[d])
  OBVIOUS
<1> HIDE DEF x
<1>5. extending'[1] = x /\ DOMAIN extending' = {1}
  BY <1>1
<1>6. SeqOf(vec[d]) = SeqOf(vec[d]) \o SubSeq(SeqOf(vec[s]), 1, 0)
  <2>1. SubSeq(SeqOf(vec[s]), 1, 0) = <<>>
    BY <1>3
  <2> QED
    BY <1>3, <2>1
<1>7. Halfway(x, vec)
  BY <1>3, <1>4, <1>6 DEF Halfway
<1>8. ExtendInv'
  BY <1>1, <1>2, <1>5, <1>7 DEF ExtendInv
<1>9. Shown' = Shown
  <2>1. Shown = [v \in Vectors |-> SeqOf(vec[v])]
    BY <1>1, ShownIdle
  <2>2. Shown' = [v \in Vectors |-> IF v = d THEN SeqOf(vec[d]) ELSE SeqOf(vec[v])]
    <3>1. \A v \in Vectors : (\E k \in DOMAIN extending' : extending'[k].dest = v) <=> v = d
      BY <1>4, <1>5
    <3>2. extending'[1].before = SeqOf(vec[d])
      BY <1>4, <1>5
    <3> QED
      BY <1>1, <3>1, <3>2 DEF Shown
  <2> QED
    BY <2>1, <2>2
<1> QED
  BY <1>1, <1>8, <1>9

LEMMA ExtendTurnKeeps ==
  ASSUME ExtendInv, ExtendTurn
  PROVE  ExtendInv' /\ UNCHANGED <<Shown, ended>>
<1> DEFINE x == extending[1]
           y == [x EXCEPT !.index = @ + 1]
           e == vec[x.src].items[x.index]
           r == Appended(vec[x.dest], e)
<1>1. /\ x \in Extension /\ extending = <<x>> /\ VecInv /\ Halfway(x, vec)
      /\ Shown = [v \in Vectors |-> IF v = x.dest THEN x.before ELSE SeqOf(vec[v])]
  BY ExtendShows DEF ExtendInv, ExtendTurn
<1>2. /\ x.index < vec[x.src].count
      /\ Becomes(x.dest, r)
      /\ extending' = <<y>>
  BY DEF ExtendTurn, Turns
<1>3. VecInv'
  BY <1>1, ExtendTurnInv
<1> HIDE DEF x
<1>4. /\ x.dest \in Vectors /\ x.src \in Vectors /\ x.index \in Nat
      /\ x.before \in Seq(Elements)
      /\ y.dest = x.dest /\ y.src = x.src /\ y.index = x.index + 1 /\ y.before = x.before
  BY <1>1 DEF Extension
<1>5. \A v \in Vectors : WellFormed(vec[v])
  BY <1>1 DEF VecInv
<1>6. e \in Elements /\ e = SeqOf(vec[x.src])[x.index + 1]
  <2>1. vec[x.src].count \in Nat
    BY <1>4, <1>5 DEF WellFormed
  <2>2. e \in Elements
    BY <1>2, <1>4, <1>5 DEF WellFormed
  <2>3. x.index + 1 \in 1..vec[x.src].count /\ (x.index + 1) - 1 = x.index
    BY <1>2, <1>4, <2>1
  <2> QED
    BY <2>2, <2>3 DEF SeqOf
<1> HIDE DEF e, y
<1>7. WellFormed(r) /\ SeqOf(r) = Append(SeqOf(vec[x.dest]), e)
      /\ r.count = vec[x.dest].count + 1
  BY <1>4, <1>5, <1>6, AppendedWell, AppendedAppends, WithRoomWell DEF Appended, Vector
<1> HIDE DEF r
<1>8. /\ \A v \in Vectors : vec'[v] = IF v = x.dest THEN r ELSE vec[v]
      /\ ended' = ended
  BY <1>1, <1>2, <1>4 DEF Becomes, VecInv, VecTypeOK
<1>9. extending'[1] = y /\ DOMAIN extending' = {1}
  BY <1>2
<1>10. Shown' = Shown
  <2>1. Shown' = [v \in Vectors |-> IF v = x.dest THEN x.before ELSE SeqOf(vec'[v])]
    BY <1>4, <1>9 DEF Shown, SeqOf
  <2>2. \A v \in Vectors : v # x.dest => SeqOf(vec'[v]) = SeqOf(vec[v])
    BY <1>8
  <2> QED
    BY <1>1, <2>1, <2>2
<1>11. CASE x.dest # x.src
  <2> DEFINE s == SeqOf(vec[x.src])
  <2>1. s \in Seq(Elements) /\ Len(s) = vec[x.src].count /\ vec[x.src].count \in Nat
    BY <1>4, <1>5, SeqOfFacts
  <2>2. SeqOf(vec[x.dest]) = x.before \o SubSeq(s, 1, x.index)
    BY <1>1, <1>11 DEF Halfway
  <2> HIDE DEF s
  <2>3. Append(x.before \o SubSeq(s, 1, x.index), s[x.index + 1])
          = x.before \o SubSeq(s, 1, x.index + 1)
    BY <1>2, <1>4, <2>1, OneMore
  <2>4. SeqOf(r) = x.before \o SubSeq(s, 1, x.index + 1)
    BY <1>6, <1>7, <2>2, <2>3 DEF s
  <2>5. vec'[x.src] = vec[x.src] /\ vec'[x.dest] = r
    BY <1>4, <1>8, <1>11
  <2>6. x.index + 1 <= vec[x.src].count
    BY <1>2, <1>4, <2>1
  <2>7. /\ x.index + 1 <= vec'[x.src].count
        /\ SeqOf(vec'[x.dest]) = x.before \o SubSeq(SeqOf(vec'[x.src]), 1, x.index + 1)
    BY <2>4, <2>5, <2>6 DEF s
  <2>8. Halfway(y, vec')
    BY <1>4, <1>11, <2>7 DEF Halfway
  <2> QED
    BY <1>3, <1>8, <1>9, <1>10, <2>8 DEF ExtendInv
<1>12. CASE x.dest = x.src
  <2>1. /\ vec[x.dest].count = Len(x.before) + x.index
        /\ x.before = <<>> => x.index = 0
    BY <1>1, <1>12 DEF Halfway
  <2>2. Len(x.before) \in Nat
    BY <1>4, LenProperties
  <2>3. x.before # <<>>
    BY <1>2, <1>4, <1>12, <2>1, <2>2
  <2>4. vec'[x.dest].count = Len(x.before) + (x.index + 1)
    BY <1>4, <1>7, <1>8, <2>1, <2>2
  <2>5. /\ y.dest = y.src
        /\ vec'[y.dest].count = Len(y.before) + y.index
        /\ y.before # <<>>
    BY <1>4, <1>12, <2>3, <2>4
  <2>6. Halfway(y, vec')
    BY <2>5 DEF Halfway
  <2> QED
    BY <1>3, <1>8, <1>9, <1>10, <2>6 DEF ExtendInv
<1> QED
  BY <1>11, <1>12

\* When an extension returns, it shows its source at the end of its destination.
LEMMA ExtendReturnsRefines ==
  ASSUME ExtendInv, ExtendReturns
  PROVE  [Promise!Next]_(Promise!vars)
<1> DEFINE x == extending[1]
<1>1. /\ x \in Extension /\ extending = <<x>> /\ VecInv /\ Halfway(x, vec)
      /\ Shown = [v \in Vectors |-> IF v = x.dest THEN x.before ELSE SeqOf(vec[v])]
  BY ExtendShows DEF ExtendInv, ExtendReturns
<1>2. /\ ~ (x.index < vec[x.src].count)
      /\ extending' = <<>> /\ vec' = vec /\ ended' = ended /\ ~ ended
  BY DEF ExtendReturns, Turns
<1> HIDE DEF x
<1>3. /\ x.dest \in Vectors /\ x.src \in Vectors /\ x.index \in Nat
      /\ x.before \in Seq(Elements)
  BY <1>1 DEF Extension
<1>4. \A v \in Vectors : /\ vec[v].count \in Nat /\ SeqOf(vec[v]) \in Seq(Elements)
                         /\ Len(SeqOf(vec[v])) = vec[v].count
  BY <1>1, SeqOfFacts DEF VecInv
<1>5. Shown' = [v \in Vectors |-> SeqOf(vec[v])]
  BY <1>2 DEF Shown, SeqOf
<1>6. CASE x.dest # x.src
  <2> DEFINE s == SeqOf(vec[x.src])
  <2>1. /\ x.index = Len(s) /\ s \in Seq(Elements)
        /\ SeqOf(vec[x.dest]) = x.before \o SubSeq(s, 1, x.index)
    <3>1. /\ x.index <= vec[x.src].count
          /\ SeqOf(vec[x.dest]) = x.before \o SubSeq(s, 1, x.index)
      BY <1>1, <1>6 DEF Halfway
    <3> QED
      BY <1>2, <1>3, <1>4, <3>1
  <2> HIDE DEF s
  <2>2. SubSeq(s, 1, x.index) = s
    <3> DEFINE t == SubSeq(s, 1, x.index)
    <3>1. t \in Seq(Elements) /\ Len(t) = x.index /\ \A k \in 1..x.index : t[k] = s[k]
      BY <1>3, <2>1, BeginFacts
    <3> HIDE DEF t
    <3>2. t = s
      BY <2>1, <3>1, SeqEqual
    <3> QED
      BY <3>2 DEF t
  <2>3. SeqOf(vec[x.dest]) = x.before \o s
    BY <2>1, <2>2
  <2>4. Shown[x.dest] = x.before /\ Shown[x.src] = s
    BY <1>1, <1>3, <1>6 DEF s
  <2>5. Shown' = [Shown EXCEPT ![x.dest] = x.before \o s]
    BY <1>1, <1>3, <1>5, <2>3
  <2>6. Promise!Extend(x.dest, x.src)
    BY <1>6, <2>4, <2>5 DEF Promise!Extend, Promise!Becomes
  <2>7. Promise!Change
    BY <1>3, <2>6 DEF Promise!Change
  <2> QED
    BY <1>2, <2>7 DEF Promise!Next
<1>7. CASE x.dest = x.src
  <2>1. /\ vec[x.dest].count = Len(x.before) + x.index
        /\ x.before = <<>> => x.index = 0
    BY <1>1, <1>7 DEF Halfway
  <2>2. Len(x.before) \in Nat /\ (Len(x.before) = 0 => x.before = <<>>)
    BY <1>3, EmptySeq, LenProperties
  <2>3. x.before = <<>> /\ vec[x.dest].count = 0
    BY <1>2, <1>3, <1>7, <2>1, <2>2
  <2>4. SeqOf(vec[x.dest]) = <<>>
    BY <1>3, <1>4, <2>3, EmptySeq
  <2>5. Shown' = Shown
    BY <1>1, <1>3, <1>5, <2>3, <2>4
  <2> QED
    BY <1>2, <2>5 DEF Promise!vars
<1> QED
  BY <1>6, <1>7

THEOREM ExtendInvariant == VecSpec => []ExtendInv
<1>1. VecInit /\ VecInv => ExtendInv
  BY DEF VecInit, ExtendInv
<1>2. ExtendInv /\ VecInv' /\ [VecNext]_vecVars => ExtendInv'
  <2> SUFFICES ASSUME ExtendInv, VecInv', [VecNext]_vecVars PROVE ExtendInv'
    OBVIOUS
  <2>1. ASSUME NEW v \in Vectors, MacroCall(v)
        PROVE  extending' = <<>>
    BY <2>1 DEF MacroCall, AppendCall, SetCall, InsertCall, RemoveCall, ClearCall,
                FreeCall, ResizeCall, ReserveCall, ShrinkCall, CopyCall, Does, Idle
  <2>2. ASSUME NEW d \in Vectors, NEW s \in Vectors, CallExtend(d, s)
        PROVE  ExtendInv'
    BY <2>2, CallExtendKeeps
  <2>3. CASE ExtendTurn
    BY <2>3, ExtendTurnKeeps
  <2>4. CASE ExtendReturns
    BY <2>4 DEF ExtendReturns, ExtendInv
  <2>5. CASE OutOfMemory
    BY <2>5 DEF OutOfMemory, ExtendInv
  <2>6. CASE UNCHANGED vecVars
    BY <2>6 DEF vecVars, ExtendInv
  <2>7. CASE \E v \in Vectors : MacroCall(v)
    BY <2>1, <2>7 DEF ExtendInv
  <2> QED
    BY <2>2, <2>3, <2>4, <2>5, <2>6, <2>7 DEF VecNext
<1> QED
  BY <1>1, <1>2, VecInvariant, PTL DEF VecSpec

\* Every macro does to the sequence of elements what its name promises, whatever the
\* capacity it finds: the vectors implement VecPromise.
THEOREM SequencesKept == VecSpec => KeepsSequences
<1>1. VecInit => Promise!Init
  <2> SUFFICES ASSUME VecInit PROVE Promise!Init
    OBVIOUS
  <2>1. Shown = [v \in Vectors |-> SeqOf(vec[v])] /\ ended = FALSE
    BY ShownIdle DEF VecInit
  <2>2. SeqOf(Null) = <<>>
    <3>1. SeqOf(Null) \in Seq(Elements) /\ Len(SeqOf(Null)) = 0
      BY NullWell, SeqOfFacts DEF Null, Vector
    <3> QED
      BY <3>1, EmptySeq
  <2>3. Shown = [v \in Vectors |-> <<>>]
    BY <2>1, <2>2 DEF VecInit
  <2> QED
    BY <2>1, <2>3 DEF Promise!Init
<1>2. ExtendInv /\ [VecNext]_vecVars => [Promise!Next]_(Promise!vars)
  <2> SUFFICES ASSUME ExtendInv, [VecNext]_vecVars
               PROVE  [Promise!Next]_(Promise!vars)
    OBVIOUS
  <2>0. VecInv
    BY DEF ExtendInv
  <2>1. ASSUME NEW v \in Vectors, MacroCall(v)
        PROVE  [Promise!Next]_(Promise!vars)
    BY <2>0, <2>1, MacroRefines
  <2>2. ASSUME NEW d \in Vectors, NEW s \in Vectors, CallExtend(d, s)
        PROVE  UNCHANGED Promise!vars
    BY <2>2, CallExtendKeeps DEF Promise!vars
  <2>3. ASSUME ExtendTurn
        PROVE  UNCHANGED Promise!vars
    BY <2>3, ExtendTurnKeeps DEF Promise!vars
  <2>4. CASE ExtendReturns
    BY <2>4, ExtendReturnsRefines
  <2>5. ASSUME OutOfMemory
        PROVE  Promise!Next
    <3>1. ~ ended /\ ended' = TRUE /\ vec' = vec /\ extending' = extending
      BY <2>5 DEF OutOfMemory
    <3>2. Shown' = Shown
      BY <3>1 DEF Shown
    <3> QED
      BY <3>1, <3>2 DEF Promise!Next
  <2>6. ASSUME UNCHANGED vecVars
        PROVE  UNCHANGED Promise!vars
    BY <2>6 DEF vecVars, Promise!vars, Shown
  <2> QED
    BY <2>1, <2>2, <2>3, <2>4, <2>5, <2>6 DEF VecNext
<1> QED
  BY <1>1, <1>2, ExtendInvariant, PTL DEF VecSpec, KeepsSequences, Promise!Spec

\* A vector with elements that is extended by itself is extended until memory runs
\* out: the loop bound is the count that the loop raises.
THEOREM SelfExtendIsForever == VecSpec => SelfExtendNeverReturns
<1> DEFINE A == \A k \in DOMAIN extending :
                  /\ extending[k].dest = extending[k].src
                  /\ extending[k].before # <<>>
                  => extending' # <<>>
<1>1. ExtendInv /\ [VecNext]_vecVars => [A]_vecVars
  <2> SUFFICES ASSUME ExtendInv, VecNext, NEW k \in DOMAIN extending,
                      extending[k].dest = extending[k].src,
                      extending[k].before # <<>>, extending' = <<>>
               PROVE  FALSE
    OBVIOUS
  <2>0. extending # <<>> /\ k = 1
    <3>1. extending # <<>>
      OBVIOUS
    <3>2. DOMAIN extending = {1}
      BY <3>1, ExtendShows
    <3> QED
      BY <3>1, <3>2
  <2>1. ExtendReturns
    <3>1. ASSUME NEW v \in Vectors PROVE ~ MacroCall(v)
      BY <2>0 DEF MacroCall, AppendCall, SetCall, InsertCall, RemoveCall, ClearCall,
             FreeCall, ResizeCall, ReserveCall, ShrinkCall, CopyCall, Does, Idle
    <3>2. ASSUME NEW d \in Vectors, NEW s \in Vectors PROVE ~ CallExtend(d, s)
      BY <2>0 DEF CallExtend, Idle
    <3>3. ~ ExtendTurn /\ ~ OutOfMemory
      BY <2>0 DEF ExtendTurn, OutOfMemory
    <3> QED
      BY <3>1, <3>2, <3>3 DEF VecNext
  <2> DEFINE x == extending[1]
  <2>2. x \in Extension /\ Halfway(x, vec) /\ ~ (x.index < vec[x.src].count)
    BY <2>0, <2>1, ExtendShows DEF ExtendReturns, Turns, ExtendInv
  <2>3. x.before \in Seq(Elements) /\ x.index \in Nat
    BY <2>2 DEF Extension
  <2>4. vec[x.src].count = Len(x.before) + x.index
    BY <2>0, <2>2 DEF Halfway
  <2>5. Len(x.before) \in Nat /\ Len(x.before) # 0
    BY <2>0, <2>3, EmptySeq, LenProperties
  <2> QED
    BY <2>2, <2>3, <2>4, <2>5
<1> QED
  BY <1>1, ExtendInvariant, PTL DEF VecSpec, SelfExtendNeverReturns
=============================================================================
