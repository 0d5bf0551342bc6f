----------------------------- MODULE StrixSearch -----------------------------
(***************************************************************************)
(* The Knuth-Morris-Pratt searches of string_search.c.  A string is a         *)
(* sequence of characters; the positions of the code count from 0.            *)
(*                                                                         *)
(* The code reads one character at a time and carries j, the length of the   *)
(* part of the pattern it has just seen; the tables below hold j after each   *)
(* character.                                                               *)
(***************************************************************************)
EXTENDS Integers, Sequences, FiniteSets

\* Mutant: the part seen starts again from nothing instead of falling back.
MutSeen(p, lps, j, c) == IF p[j + 1] = c THEN j + 1
                         ELSE IF p[1] = c THEN 1 ELSE 0

\* j after the character c: one turn of a loop, and its turns that only fall back.
Seen(p, lps, j, c) ==
  LET seen[k \in 0..j] == IF p[k + 1] = c THEN k + 1
                        ELSE IF k > 0 THEN seen[lps[k]]
                        ELSE 0
  IN  seen[j]

\* The longest proper prefix of p that ends at each of its characters.
Lps(p) ==
  LET upTo[i \in 1..Len(p)] ==
        IF i = 1 THEN <<0>>
        ELSE LET lps == upTo[i - 1] IN Append(lps, Seen(p, lps, lps[i - 1], p[i]))
  IN  IF p = <<>> THEN <<>> ELSE upTo[Len(p)]

\* j after each character of s; Len(p) where an occurrence of p ends, after which
\* the search goes on with the longest prefix that ends there as well.
Progress(p, s) ==
  LET lps == Lps(p)
      upTo[i \in 0..Len(s)] ==
        IF i = 0 THEN <<>>
        ELSE LET seen == upTo[i - 1]
                 j == IF i = 1 THEN 0 ELSE seen[i - 1]
             IN  Append(seen, Seen(p, lps, IF j = Len(p) THEN lps[j] ELSE j, s[i]))
  IN  upTo[Len(s)]

\* The positions of S, which are at most n, one after another as they are met.
Ascending(S, n) ==
  LET upTo[i \in 0..n] == IF i = 0 THEN <<>>
                          ELSE IF i \in S THEN Append(upTo[i - 1], i)
                          ELSE upTo[i - 1]
  IN  upTo[n]

\* The elements of s at the positions of S, in order.
ElementsAt(s, S) == LET at == Ascending(S, Len(s)) IN [k \in DOMAIN at |-> s[at[k]]]

\* Where occurrences end.  In the empty pattern the code compares the characters
\* with its terminating zero, so it finds nothing.
MatchEnds(p, s) ==
  LET j == IF p = <<>> THEN <<>> ELSE Progress(p, s)
  IN  Ascending({i \in DOMAIN j : j[i] = Len(p)}, Len(s))

NotFound == -2

\* kmp_search: where the first occurrence ends, less the prefix that ends there as
\* well, less one.
KmpSearch(p, s) ==
  LET ends == MatchEnds(p, s)
  IN  IF ends = <<>> THEN NotFound ELSE ends[1] - Lps(p)[Len(p)] - 1

KmpSearchAllLen(p, s) == Len(MatchEnds(p, s))

\* A position_t; the NULL pointer has a len that no search stores.
Positions(len, pos) == [len |-> len, pos |-> pos]
NoPositions == Positions(-1, <<>>)

\* kmp_search_all, whose array grows as it must.
KmpSearchAll(p, s) ==
  LET ends == MatchEnds(p, s)
  IN  IF p = <<>> \/ Len(p) > Len(s) THEN NoPositions
      ELSE IF ends = <<>> THEN Positions(NotFound, <<>>)
      ELSE Positions(Len(ends), [k \in DOMAIN ends |-> ends[k] - Len(p)])

-----------------------------------------------------------------------------
\* What a search means: p stands in s at position k.
OccursAt(p, s, k) == /\ k + Len(p) <= Len(s)
                     /\ \A i \in DOMAIN p : s[k + i] = p[i]

Occurrences(p, s) == IF p = <<>> THEN {} ELSE {k \in 0..(Len(s) - 1) : OccursAt(p, s, k)}
=============================================================================
