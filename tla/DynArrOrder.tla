----------------------------- MODULE DynArrOrder -----------------------------
(***************************************************************************)
(* dyn_arr_sort, dyn_arr_max and dyn_arr_min, which neobuild never calls, on *)
(* the arrays that its commands make.                                       *)
(*                                                                          *)
(* A comparison is given by ranks.  It says that an item comes before those  *)
(* of a higher rank, and, unless it is strict, those of the same rank.       *)
(***************************************************************************)
EXTENDS DynArr, Sequences

CONSTANTS Ranks,     \* functions on the items and Junk
          NoNode     \* what stands for an item whose node is not there

ASSUME OrderAssumption == /\ NoNode \notin Items \cup {Junk}
                          /\ \A rank \in Ranks : rank \in [Items \cup {Junk} -> Nat]

Before(rank, strict, x, y) == rank[x] < rank[y] \/ (~ strict /\ rank[x] = rank[y])

\* The items from a to b.
RangeOf(a, b) == [k \in 1..(b - a + 1) |-> IF Readable(a + k - 1) THEN cell[a + k - 1] ELSE NoNode]

HasHoles(s) == \E k \in DOMAIN s : s[k] = NoNode

\* What a sort returns, the items it leaves, and how many of them, from the first on,
\* lie at or below the highest that was set.
Outcome(ok, items, set) == [ok |-> ok, items |-> items, set |-> set]

\* Whether the merge, with m.l items of x and m.r of y taken, takes one of x.
\* Mutant: the items are compared the wrong way round.
MutTakesLeft(m, x, y, rank, strict) ==
  m.r = Len(y) \/ (m.l < Len(x) /\ Before(rank, strict, y[m.r + 1], x[m.l + 1]))

TakesLeft(m, x, y, rank, strict) ==
  m.r = Len(y) \/ (m.l < Len(x) /\ Before(rank, strict, x[m.l + 1], y[m.r + 1]))

\* One turn of its loops.
MergeTurn(m, x, y, rank, strict) ==
  IF TakesLeft(m, x, y, rank, strict)
  THEN [l |-> m.l + 1, r |-> m.r, items |-> Append(m.items, x[m.l + 1])]
  ELSE [l |-> m.l, r |-> m.r + 1, items |-> Append(m.items, y[m.r + 1])]

\* What the loops make of two halves.
Merged(x, y, rank, strict) ==
  LET merging[k \in 0..(Len(x) + Len(y))] ==
        IF k = 0 THEN [l |-> 0, r |-> 0, items |-> <<>>]
        ELSE MergeTurn(merging[k - 1], x, y, rank, strict)
  IN  merging[Len(x) + Len(y)].items

\* The middle of a range.
Mid(a, b) == a + (b - a) \div 2

\* The outcomes of dyn_arr_sort of the items of s from a to b, when those of both halves
\* are known: the left one fails, or the right one, or there is no memory for the merge or
\* an item that cannot be read, or the halves are merged.
SortFrom(s, a, b, left, right, rank, strict) ==
  LET holes == HasHoles(SubSeq(s, a, b))
      Set(l, r) == IF r.set > 0 THEN Mid(a, b) - a + 1 + r.set ELSE l.set
  IN  {Outcome(FALSE, l.items \o SubSeq(s, Mid(a, b) + 1, b), l.set) : l \in {o \in left : ~ o.ok}}
      \cup {Outcome(FALSE, h[1].items \o h[2].items, Set(h[1], h[2])) :
              h \in {p \in left \X right : p[1].ok /\ (AllocFails \/ holes \/ ~ p[2].ok)}}
      \cup {Outcome(TRUE, Merged(h[1].items, h[2].items, rank, strict), b - a + 1) :
              h \in {p \in left \X right : p[1].ok /\ p[2].ok /\ ~ holes}}

\* dyn_arr_sort of the items of s from a to b; sort holds the outcomes of smaller ranges.
SortStep(sort, s, a, b, rank, strict) ==
  IF a > b THEN {Outcome(FALSE, <<>>, 0)}
  ELSE IF a = b THEN {Outcome(TRUE, <<s[a]>>, 0)}
  ELSE SortFrom(s, a, b, sort[<<a, Mid(a, b)>>], sort[<<Mid(a, b) + 1, b>>], rank, strict)

SortOutcomes(s, rank, strict) ==
  LET sort[range \in (1..Len(s)) \X (1..Len(s))] ==
        SortStep(sort, s, range[1], range[2], rank, strict)
  IN  sort[<<1, Len(s)>>]

\* last_index after a sort from a on.
LastAfter(a, outcome) ==
  IF outcome.set > 0 /\ a + outcome.set - 1 > last THEN a + outcome.set - 1 ELSE last

\* is_empty after a sort.
EmptyAfter(outcome) == isEmpty /\ outcome.set = 0

\* Whether x is more than y, or less.
Beats(x, y, rank, highest) == IF highest THEN Before(rank, TRUE, y, x)
                              ELSE Before(rank, TRUE, x, y)

\* dyn_arr_max and dyn_arr_min, NoNode when they return false: an item that cannot be
\* read is passed over, unless it is the first.
Extreme(s, rank, highest) ==
  LET best[k \in 1..Len(s)] ==
        IF k = 1 THEN s[1]
        ELSE IF s[k] # NoNode /\ Beats(s[k], best[k - 1], rank, highest) THEN s[k]
        ELSE best[k - 1]
  IN  IF s[1] = NoNode THEN NoNode ELSE best[Len(s)]

MaxItem(s, rank) == Extreme(s, rank, TRUE)
MinItem(s, rank) == Extreme(s, rank, FALSE)

-----------------------------------------------------------------------------
InOrder(s, rank) == \A i, j \in DOMAIN s : i < j => rank[s[i]] <= rank[s[j]]

\* The ways in which n things can be ordered.
Orders(n) == {p \in [1..n -> 1..n] : \A w \in 1..n : \E v \in 1..n : p[v] = w}

\* t is s in another order, in which items of one rank stay as they were if stable.
Reorders(t, s, rank, stable) ==
  \E p \in Orders(Len(s)) :
    /\ t = [k \in 1..Len(s) |-> s[p[k]]]
    /\ stable => \A i, j \in 1..Len(s) :
                   i < j /\ NoNode \notin {t[i], t[j]} /\ rank[t[i]] = rank[t[j]] => p[i] < p[j]

\* Wherever memory runs out, or a node is missing, a sort neither loses nor doubles an
\* item, and items of one rank keep their order if the comparison says so of equals; it
\* returns true only for a sorted range, and sorting what the array counts does not make
\* it count more.
SortsRight(s, rank, strict) ==
  \A o \in SortOutcomes(s, rank, strict) :
    /\ Reorders(o.items, s, rank, ~ strict)
    /\ o.ok /\ Len(s) > 1 => ~ HasHoles(s) /\ InOrder(o.items, rank)
    /\ o.set <= Len(s)

\* x is the first of the items of s that have the highest, or the lowest, rank.
FirstHighest(x, s, rank) ==
  \E k \in DOMAIN s : /\ s[k] = x /\ x # NoNode
                      /\ \A h \in DOMAIN s : s[h] # NoNode => rank[s[h]] <= rank[x]
                      /\ \A h \in 1..(k - 1) : s[h] # NoNode => rank[s[h]] < rank[x]
FirstLowest(x, s, rank) ==
  \E k \in DOMAIN s : /\ s[k] = x /\ x # NoNode
                      /\ \A h \in DOMAIN s : s[h] # NoNode => rank[x] <= rank[s[h]]
                      /\ \A h \in 1..(k - 1) : s[h] # NoNode => rank[x] < rank[s[h]]

\* A sort loses no item and doubles none, wherever it stops, and max and min return the
\* first of the extreme items, if the first item can be read.
OrderExact ==
  \A a, b \in Index : a <= b =>
    LET s == RangeOf(a, b)
    IN  \A rank \in Ranks :
          /\ \A strict \in BOOLEAN :
               /\ SortsRight(s, rank, strict)
               /\ b <= last => \A o \in SortOutcomes(s, rank, strict) :
                                 LastAfter(a, o) = last /\ EmptyAfter(o) = isEmpty
          /\ s[1] # NoNode =>
               /\ FirstHighest(MaxItem(s, rank), s, rank)
               /\ FirstLowest(MinItem(s, rank), s, rank)
=============================================================================
