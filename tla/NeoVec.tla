------------------------------- MODULE NeoVec -------------------------------
(***************************************************************************)
(* The vector macros of neovec.h: count elements at the front of an array   *)
(* of capacity slots, which realloc makes longer and shorter.  A slot that   *)
(* nothing was stored in holds Junk.  Memory may run out, which ends the     *)
(* program.                                                                 *)
(***************************************************************************)
EXTENDS Naturals, Sequences

CONSTANTS Vectors, Elements,
          Junk,
          Sizes,        \* capacities the program asks for
          MaxCapacity   \* bound: no memory for more slots than this

ASSUME VecAssumption == /\ Junk \notin Elements
                        /\ Sizes \subseteq Nat
                        /\ MaxCapacity \in Nat

VARIABLES vec,
          extending,    \* the call of neovec_extend in progress, <<>> for none
          ended         \* exit(EXIT_FAILURE) was called

vecVars == <<vec, extending, ended>>

Min2(a, b) == IF a < b THEN a ELSE b

Arrays == UNION {[0..(n - 1) -> Elements \cup {Junk}] : n \in 0..MaxCapacity}
Vec == [items : Arrays, count : 0..MaxCapacity, capacity : 0..MaxCapacity]
Extension == [dest : Vectors, src : Vectors, index : Nat, before : Seq(Elements)]

VecTypeOK == /\ vec \in [Vectors -> Vec]
             /\ extending \in Seq(Extension) /\ Len(extending) <= 1
             /\ ended \in BOOLEAN

-----------------------------------------------------------------------------
(* Memory                                                                   *)

Realloc(f, n) == [i \in 0..(n - 1) |-> IF i \in DOMAIN f THEN f[i] ELSE Junk]

\* memmove of n slots within f, or memcpy of n slots of g to the front of f.
Moved(f, to, from, n) ==
  [i \in DOMAIN f |-> IF i \in to..(to + n - 1) THEN f[i - to + from] ELSE f[i]]
CopiedFrom(f, g, n) == [i \in DOMAIN f |-> IF i < n THEN g[i] ELSE f[i]]

Vector(f, n, c) == [items |-> f, count |-> n, capacity |-> c]

Null == Vector(<<>>, 0, 0)

Reallocated(r, n) == Vector(Realloc(r.items, n), r.count, n)

-----------------------------------------------------------------------------
(* What each macro makes of a vector r                                      *)

NewCapacity(c) == IF c = 0 THEN 1 ELSE c * 2

WithRoom(r) == IF r.count >= r.capacity THEN Reallocated(r, NewCapacity(r.capacity)) ELSE r

Appended(r, e) ==
  LET g == WithRoom(r)
  IN  Vector([g.items EXCEPT ![g.count] = e], g.count + 1, g.capacity)

WithSet(r, i, e) ==
  IF i < r.count THEN Vector([r.items EXCEPT ![i] = e], r.count, r.capacity) ELSE r

\* Mutants: any index is removed; one slot too few is moved.
MutWithoutCheck(r, i) ==
  Vector(Moved(r.items, i, i + 1, r.count - i - 1), r.count - 1, r.capacity)
MutWithout(r, i) ==
  IF i < r.count
    THEN LET n == IF r.count - i > 2 THEN r.count - i - 2 ELSE 0
         IN  Vector(Moved(r.items, i, i + 1, n), r.count - 1, r.capacity)
    ELSE r

Without(r, i) ==
  IF i < r.count
    THEN Vector(Moved(r.items, i, i + 1, r.count - i - 1), r.count - 1, r.capacity)
    ELSE r

WithInserted(r, i, e) ==
  IF i <= r.count
    THEN LET g == WithRoom(r)
         IN  Vector([Moved(g.items, i + 1, i, g.count - i) EXCEPT ![i] = e],
                    g.count + 1, g.capacity)
    ELSE r

Cleared(r) == Vector(r.items, 0, r.capacity)

\* Mutant: the count is left alone.
MutResized(r, n) == Reallocated(r, n)

\* realloc to 0 slots frees the array.
Resized(r, n) == Vector(Realloc(r.items, n), Min2(r.count, n), n)

Reserved(r, n) == IF r.capacity < n THEN Reallocated(r, n) ELSE r

Shrunk(r) ==
  IF r.count < r.capacity
    THEN Reallocated(r, IF r.count > 0 THEN r.count ELSE 1)
    ELSE r

Copied(s) ==
  LET d == Reserved(Null, s.count)
  IN  Vector(CopiedFrom(d.items, s.items, s.count), s.count, d.capacity)

-----------------------------------------------------------------------------
(* The program's calls                                                      *)

Idle == ~ ended /\ extending = <<>>

Becomes(v, r) == /\ r.capacity <= MaxCapacity
                 /\ vec' = [vec EXCEPT ![v] = r]
                 /\ UNCHANGED ended

VecInit == /\ vec = [v \in Vectors |-> Null]
           /\ extending = <<>> /\ ended = FALSE

\* One macro, which makes r of vector v.
Does(v, r) == Idle /\ Becomes(v, r) /\ UNCHANGED extending

AppendCall(v) == \E e \in Elements : Does(v, Appended(vec[v], e))
SetCall(v) == \E i \in 0..vec[v].count, e \in Elements : Does(v, WithSet(vec[v], i, e))
InsertCall(v) ==
  \E i \in 0..(vec[v].count + 1), e \in Elements : Does(v, WithInserted(vec[v], i, e))
RemoveCall(v) == \E i \in 0..vec[v].count : Does(v, Without(vec[v], i))
ClearCall(v) == Does(v, Cleared(vec[v]))
FreeCall(v) == Does(v, Null)
ResizeCall(v) == \E n \in Sizes : Does(v, Resized(vec[v], n))
ReserveCall(v) == \E n \in Sizes : Does(v, Reserved(vec[v], n))
ShrinkCall(v) == Does(v, Shrunk(vec[v]))

\* Into a vector other than its source ("creates a new vector").
CopyCall(d, s) == d # s /\ Does(d, Copied(vec[s]))

\* neovec_extend, whose loop reads the source's count and items at every turn, and
\* which may be called with one vector twice.  before is history.
SeqOf(r) == [k \in 1..r.count |-> r.items[k - 1]]

CallExtend(d, s) ==
  /\ Idle
  /\ extending' = <<[dest |-> d, src |-> s, index |-> 0, before |-> SeqOf(vec[d])]>>
  /\ UNCHANGED <<vec, ended>>

\* Mutant: the loop leaves out what it has appended itself.
MutTurns(x) == /\ x.index < vec[x.src].count
               /\ x.dest = x.src => x.index < Len(x.before)

Turns(x) == x.index < vec[x.src].count

ExtendTurn ==
  /\ ~ ended /\ extending # <<>>
  /\ LET x == extending[1]
     IN  /\ Turns(x)
         /\ Becomes(x.dest, Appended(vec[x.dest], vec[x.src].items[x.index]))
         /\ extending' = <<[x EXCEPT !.index = @ + 1]>>

ExtendReturns ==
  /\ ~ ended /\ extending # <<>>
  /\ ~ Turns(extending[1])
  /\ extending' = <<>>
  /\ UNCHANGED <<vec, ended>>

\* realloc gives NULL.  In neovec_extend this can only be when the vector is full.
OutOfMemory ==
  /\ ~ ended
  /\ \A k \in DOMAIN extending :
       LET d == vec[extending[k].dest]
       IN  Turns(extending[k]) /\ d.count >= d.capacity
  /\ ended' = TRUE
  /\ UNCHANGED <<vec, extending>>

MacroCall(v) == \/ AppendCall(v) \/ SetCall(v) \/ InsertCall(v) \/ RemoveCall(v)
                \/ ClearCall(v) \/ FreeCall(v)
                \/ ResizeCall(v) \/ ReserveCall(v) \/ ShrinkCall(v)
                \/ \E s \in Vectors : CopyCall(v, s)

VecNext == \/ \E v \in Vectors : MacroCall(v)
           \/ \E d, s \in Vectors : CallExtend(d, s)
           \/ ExtendTurn \/ ExtendReturns \/ OutOfMemory

VecSpec == VecInit /\ [][VecNext]_vecVars

-----------------------------------------------------------------------------
(* Safety                                                                   *)

\* The array has as many slots as the vector believes, the elements fit in it, and
\* none of them is a slot that nothing was stored in.
Fits == \A v \in Vectors :
          /\ DOMAIN vec[v].items = 0..(vec[v].capacity - 1)
          /\ vec[v].count <= vec[v].capacity
          /\ \A i \in 0..(vec[v].count - 1) : vec[v].items[i] \in Elements

\* An extension of a vector by itself that has anything to do never returns: it
\* goes on until memory is exhausted, because it reads the count that it raises.
SelfExtendNeverReturns ==
  [][\A k \in DOMAIN extending :
       /\ extending[k].dest = extending[k].src
       /\ extending[k].before # <<>>
       => extending' # <<>>]_vecVars

\* The vectors implement VecPromise: every macro does to the sequence of the
\* elements what its name says, whatever capacity it finds.  An extension shows when
\* it returns.
Shown == [v \in Vectors |->
            IF \E k \in DOMAIN extending : extending[k].dest = v
              THEN extending[1].before
              ELSE SeqOf(vec[v])]
Promise == INSTANCE VecPromise WITH seq <- Shown
KeepsSequences == Promise!Spec
=============================================================================
