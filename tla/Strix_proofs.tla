---------------------------- MODULE Strix_proofs ----------------------------
(***************************************************************************)
(* Proofs about strix, for any strings: what the Knuth-Morris-Pratt tables    *)
(* hold and that the searches find all occurrences and nothing else, what the *)
(* edits leave, what the conversions to numbers return, where a split cuts,    *)
(* what a join gives back, and what the configuration parser makes of a file. *)
(***************************************************************************)
EXTENDS NeoConfig, SequenceTheorems, FiniteSetTheorems, WellFoundedInduction, TLAPS

-----------------------------------------------------------------------------
(* Numbers: what stands for induction                                       *)

\* Of some numbers, one is the first.
LEMMA FirstOf ==
  ASSUME NEW S \in SUBSET Nat, S # {}
  PROVE  \E h \in S : \A k \in S : h <= k
<1>1. IsWellFoundedOn(OpToRel(<, Nat), Nat)
  BY NatLessThanWellFounded
<1>2. PICK h \in S : \A k \in S : ~ (<<k, h>> \in OpToRel(<, Nat))
  BY <1>1, WFMin
<1>3. \A k \in S : ~ (k < h)
  BY <1>2 DEF OpToRel
<1> QED
  BY <1>3

\* Of some numbers up to n, one is the last.
LEMMA LastOf ==
  ASSUME NEW n \in Nat, NEW S \in SUBSET (0..n), S # {}
  PROVE  \E h \in S : \A k \in S : k <= h
<1> DEFINE T == {m \in Nat : m <= n /\ n - m \in S}
<1>1. T \in SUBSET Nat /\ T # {}
  <2>1. PICK k \in S : TRUE
    OBVIOUS
  <2>2. n - k \in T
    BY <2>1
  <2> QED
    BY <2>2
<1> HIDE DEF T
<1>2. PICK m \in T : \A k \in T : m <= k
  BY <1>1, FirstOf
<1>3. n - m \in S
  BY <1>2 DEF T
<1>4. \A k \in S : n - k \in T
  BY DEF T
<1>5. \A k \in S : k <= n - m
  BY <1>1, <1>2, <1>4
<1> QED
  BY <1>3, <1>5

-----------------------------------------------------------------------------
(* The Knuth-Morris-Pratt tables                                            *)

\* The first m characters of p end at position n of s.
Ends(p, s, n, m) == /\ m \in 0..n /\ m <= Len(p)
                    /\ \A i \in 1..m : p[i] = s[n - m + i]

\* Of the beginnings of p of at most max characters, that of r is the longest that does.
Longest(p, s, n, max, r) == /\ r \in 0..max /\ Ends(p, s, n, r)
                            /\ \A m \in 0..max : Ends(p, s, n, m) => m <= r

\* What is seen after c: the longest beginning of p that ends at j of p can be
\* continued by c.
Continued(p, j, c, r) ==
  /\ r \in 0..(j + 1)
  /\ r # 0 => Ends(p, p, j, r - 1) /\ p[r] = c
  /\ \A m \in 0..j : Ends(p, p, j, m) /\ p[m + 1] = c => m < r

\* Where a longer beginning of p ends, a shorter one does if the longer one ends with it.
LEMMA Nested ==
  ASSUME NEW p, NEW s, Len(p) \in Nat, NEW n \in Nat, NEW k \in Nat, NEW m \in 0..k,
         Ends(p, s, n, k)
  PROVE  Ends(p, s, n, m) <=> Ends(p, p, k, m)
<1>1. \A i \in 1..m : k - m + i \in 1..k /\ n - k + (k - m + i) = n - m + i
  OBVIOUS
<1>2. \A i \in 1..m : p[k - m + i] = s[n - m + i]
  BY <1>1 DEF Ends
<1> QED
  BY <1>2 DEF Ends

\* A beginning of p ends where the one before it ends, if the next characters agree.
LEMMA OneMore ==
  ASSUME NEW p, NEW s, Len(p) \in Nat, NEW n \in Nat \ {0}, NEW m \in Nat \ {0}
  PROVE  Ends(p, s, n, m) <=> Ends(p, s, n - 1, m - 1) /\ m <= Len(p) /\ p[m] = s[n]
<1>1. \A i \in Int : n - 1 - (m - 1) + i = n - m + i
  OBVIOUS
<1>2. n - m + m = n /\ m \in 1..m /\ 1..(m - 1) \subseteq 1..m
  OBVIOUS
<1>3. m \in 0..n /\ m <= Len(p) <=> m - 1 \in 0..(n - 1) /\ m - 1 <= Len(p) /\ m <= Len(p)
  OBVIOUS
<1>4. \A i \in 1..m : i \in 1..(m - 1) \/ i = m
  OBVIOUS
<1>5. (\A i \in 1..m : p[i] = s[n - m + i])
        <=> (\A i \in 1..(m - 1) : p[i] = s[n - 1 - (m - 1) + i]) /\ p[m] = s[n]
  <2>1. (\A i \in 1..m : p[i] = s[n - m + i])
          <=> (\A i \in 1..(m - 1) : p[i] = s[n - m + i]) /\ p[m] = s[n]
    <3> DEFINE Same(i) == p[i] = s[n - m + i]
    <3>1. Same(m) <=> p[m] = s[n]
      BY <1>2
    <3> HIDE DEF Same
    <3>2. (\A i \in 1..m : Same(i)) <=> (\A i \in 1..(m - 1) : Same(i)) /\ Same(m)
      BY <1>2, <1>4
    <3> QED
      BY <3>1, <3>2 DEF Same
  <2>2. \A i \in 1..(m - 1) : s[n - 1 - (m - 1) + i] = s[n - m + i]
    BY <1>1
  <2> QED
    BY <2>1, <2>2
<1> QED
  BY <1>3, <1>5 DEF Ends

\* Falling back along the table, the loop stops at the longest beginning that c continues.
LEMMA SeenContinues ==
  ASSUME NEW p, Len(p) \in Nat, NEW j \in Nat, j < Len(p), NEW lps, NEW c,
         \A k \in 1..j : Longest(p, p, k, k - 1, lps[k])
  PROVE  Continued(p, j, c, Seen(p, lps, j, c))
<1> DEFINE G(f) == [k \in 0..j |-> IF p[k + 1] = c THEN k + 1
                                   ELSE IF k > 0 THEN f[lps[k]] ELSE 0]
           f0 == CHOOSE f : f = G(f)
           Right(k, r) == Continued(p, k, c, r)
           g == [k \in 0..j |-> CHOOSE r \in 0..(k + 1) : Right(k, r)]
<1>1. Seen(p, lps, j, c) = f0[j]
  BY DEF Seen
<1>2. \A k \in 0..j : p[k + 1] = c => Right(k, k + 1)
  <2>1. \A k \in 0..j : Ends(p, p, k, k)
    BY DEF Ends
  <2> QED
    BY <2>1 DEF Continued
<1>3. p[1] # c => Right(0, 0)
  BY DEF Continued
<1>4. \A k \in 1..j, r \in Int :
        p[k + 1] # c => lps[k] \in 0..(k - 1) /\ (Right(k, r) <=> Right(lps[k], r))
  <2> SUFFICES ASSUME NEW k \in 1..j, NEW r \in Int, p[k + 1] # c
               PROVE  lps[k] \in 0..(k - 1) /\ (Right(k, r) <=> Right(lps[k], r))
    OBVIOUS
  <2>1. /\ lps[k] \in 0..(k - 1) /\ Ends(p, p, k, lps[k])
        /\ \A m \in 0..(k - 1) : Ends(p, p, k, m) => m <= lps[k]
    BY DEF Longest
  <2>2. \A m \in 0..lps[k] : Ends(p, p, k, m) <=> Ends(p, p, lps[k], m)
    BY <2>1, Nested
  <2>3. \A m \in 0..k : Ends(p, p, k, m) /\ p[m + 1] = c => m \in 0..lps[k]
    BY <2>1
  <2>4. \A m \in 0..k : (Ends(p, p, k, m) /\ p[m + 1] = c)
                        <=> (m \in 0..lps[k] /\ Ends(p, p, lps[k], m) /\ p[m + 1] = c)
    BY <2>2, <2>3
  <2>5. r \in 1..(k + 1) => ((Ends(p, p, k, r - 1) /\ p[r] = c)
            <=> (r \in 1..(lps[k] + 1) /\ Ends(p, p, lps[k], r - 1) /\ p[r] = c))
    <3> SUFFICES ASSUME r \in 1..(k + 1)
                 PROVE  (Ends(p, p, k, r - 1) /\ p[r] = c)
            <=> (r \in 1..(lps[k] + 1) /\ Ends(p, p, lps[k], r - 1) /\ p[r] = c)
      OBVIOUS
    <3>1. r - 1 \in 0..k /\ r - 1 + 1 = r /\ (r - 1 \in 0..lps[k] <=> r \in 1..(lps[k] + 1))
      BY <2>1
    <3> QED
      BY <3>1, <2>4
  <2>6. Right(k, r) => Right(lps[k], r)
    BY <2>1, <2>4, <2>5 DEF Continued
  <2>7. Right(lps[k], r) => Right(k, r)
    BY <2>1, <2>4, <2>5 DEF Continued
  <2> QED
    BY <2>1, <2>6, <2>7
<1> HIDE DEF Right
<1>5. \A k \in 0..j : \E r \in 0..(k + 1) : Right(k, r)
  <2>1. \A k \in 0..j : \A r \in Int : Right(k, r) => r \in 0..(k + 1)
    BY DEF Right, Continued
  <2> DEFINE S == {k \in 0..j : ~ \E r \in 0..(k + 1) : Right(k, r)}
  <2> SUFFICES ASSUME S # {} PROVE FALSE
    OBVIOUS
  <2>a. S \in SUBSET Nat
    OBVIOUS
  <2>2. PICK k \in S : \A h \in S : k <= h
    <3> HIDE DEF S
    <3> QED
      BY <2>a, FirstOf
  <2>3. k # 0 /\ p[k + 1] # c
    BY <1>2, <1>3, <2>2
  <2>4. lps[k] \in 0..(k - 1) /\ lps[k] \notin S /\ lps[k] \in 0..j
    BY <1>4, <2>2, <2>3
  <2>5. PICK r \in 0..(lps[k] + 1) : Right(lps[k], r)
    BY <2>4
  <2>6. Right(k, r)
    BY <1>4, <2>2, <2>3, <2>4, <2>5
  <2> QED
    BY <2>1, <2>2, <2>4, <2>5, <2>6
<1>6. \A k \in 0..j : \A r, q \in Int : Right(k, r) /\ Right(k, q) => r = q
  <2>1. \A k \in 0..j : \A r, q \in Int : Right(k, r) /\ Right(k, q) => r <= q
    <3> SUFFICES ASSUME NEW k \in 0..j, NEW r \in Int, NEW q \in Int, Right(k, r), Right(k, q)
                 PROVE  r <= q
      OBVIOUS
    <3>1. CASE r = 0
      BY <3>1 DEF Right, Continued
    <3>2. CASE r # 0
      <4>1. r - 1 \in 0..k /\ r - 1 + 1 = r
        BY <3>2 DEF Right, Continued
      <4> QED
        BY <3>2, <4>1 DEF Right, Continued
    <3> QED
      BY <3>1, <3>2
  <2>2. \A r, q \in Int : r <= q /\ q <= r => r = q
    OBVIOUS
  <2> QED
    BY <2>1, <2>2
<1>7. \A k \in 0..j : g[k] \in 0..(k + 1) /\ Right(k, g[k])
  BY <1>5
<1>8. g = G(g)
  <2>1. \A k \in 0..j : g[k] = IF p[k + 1] = c THEN k + 1
                               ELSE IF k > 0 THEN g[lps[k]] ELSE 0
    <3> SUFFICES ASSUME NEW k \in 0..j
                 PROVE  g[k] = IF p[k + 1] = c THEN k + 1
                               ELSE IF k > 0 THEN g[lps[k]] ELSE 0
      OBVIOUS
    <3> HIDE DEF g
    <3>1. CASE p[k + 1] = c
      BY <1>2, <1>6, <1>7, <3>1
    <3>2. CASE p[k + 1] # c /\ k > 0
      <4>1. lps[k] \in 0..j /\ k \in 1..j
        BY <1>4, <3>2
      <4>2. g[lps[k]] \in Int /\ g[k] \in Int /\ Right(lps[k], g[lps[k]])
        BY <1>7, <4>1
      <4>3. Right(k, g[lps[k]])
        BY <1>4, <3>2, <4>1, <4>2
      <4> QED
        BY <1>6, <1>7, <3>2, <4>1, <4>2, <4>3
    <3>3. CASE p[k + 1] # c /\ k = 0
      BY <1>3, <1>6, <1>7, <3>3
    <3> QED
      BY <3>1, <3>2, <3>3
  <2>2. g = [k \in 0..j |-> g[k]]
    OBVIOUS
  <2> HIDE DEF g
  <2> QED
    BY <2>1, <2>2
<1>9. f0 = G(f0)
  BY <1>8
<1> HIDE DEF f0
<1>10. \A k \in 0..j : f0[k] = IF p[k + 1] = c THEN k + 1
                              ELSE IF k > 0 THEN f0[lps[k]] ELSE 0
  BY <1>9
<1>11. \A k \in 0..j : Right(k, f0[k]) /\ f0[k] \in Int
  <2> DEFINE S == {k \in 0..j : ~ (Right(k, f0[k]) /\ f0[k] \in Int)}
  <2> SUFFICES ASSUME S # {} PROVE FALSE
    OBVIOUS
  <2>a. S \in SUBSET Nat
    OBVIOUS
  <2>1. PICK k \in S : \A h \in S : k <= h
    <3> HIDE DEF S
    <3> QED
      BY <2>a, FirstOf
  <2>2. k # 0 /\ p[k + 1] # c
    BY <1>2, <1>3, <1>10, <2>1
  <2>3. lps[k] \in 0..(k - 1) /\ lps[k] \notin S /\ lps[k] \in 0..j
    BY <1>4, <2>1, <2>2
  <2>4. f0[k] = f0[lps[k]]
    BY <1>10, <2>1, <2>2
  <2> QED
    BY <1>4, <2>1, <2>2, <2>3, <2>4
<1> QED
  BY <1>1, <1>11 DEF Right

\* Of the beginnings of at most max characters that end at n, one is the longest.
LEMMA LongestExists ==
  ASSUME NEW p, NEW s, Len(p) \in Nat, NEW n \in Nat, NEW max \in Nat
  PROVE  /\ \E r \in 0..max : Longest(p, s, n, max, r)
         /\ \A r, q : Longest(p, s, n, max, r) /\ Longest(p, s, n, max, q) => r = q
<1> DEFINE M == {m \in 0..max : Ends(p, s, n, m)}
<1>1. M \in SUBSET (0..max) /\ 0 \in M
  BY DEF Ends
<1>2. PICK r \in M : \A m \in M : m <= r
  <2> HIDE DEF M
  <2> QED
    BY <1>1, LastOf
<1>3. Longest(p, s, n, max, r)
  BY <1>2 DEF Longest
<1>4. \A q, h : Longest(p, s, n, max, q) /\ Longest(p, s, n, max, h) => q = h
  BY DEF Longest
<1> QED
  BY <1>2, <1>3, <1>4

\* The table lps has the longest proper beginning that ends at each character of p.
LEMMA LpsLongest ==
  ASSUME NEW p, Len(p) \in Nat, Len(p) > 0, p # <<>>
  PROVE  /\ DOMAIN Lps(p) = 1..Len(p)
         /\ \A k \in 1..Len(p) : Longest(p, p, k, k - 1, Lps(p)[k])
<1> DEFINE N == Len(p)
           G(f) == [i \in 1..N |->
                      IF i = 1 THEN <<0>>
                      ELSE LET lps == f[i - 1] IN Append(lps, Seen(p, lps, lps[i - 1], p[i]))]
           f0 == CHOOSE f : f = G(f)
           L == [k \in 1..N |-> CHOOSE r \in 0..(k - 1) : Longest(p, p, k, k - 1, r)]
           g == [i \in 1..N |-> [k \in 1..i |-> L[k]]]
<1>1. Lps(p) = f0[N]
  BY DEF Lps
<1>2. \A k \in 1..N : Longest(p, p, k, k - 1, L[k])
  BY LongestExists
<1>3. \A k \in 1..N : L[k] \in 0..(k - 1)
  BY <1>2 DEF Longest
<1> HIDE DEF L
<1>4. ASSUME NEW i \in 2..N, NEW lps, \A k \in 1..(i - 1) : lps[k] = L[k]
      PROVE  Seen(p, lps, lps[i - 1], p[i]) = L[i]
  <2> DEFINE j == L[i - 1]
             r == Seen(p, lps, j, p[i])
  <2>1. j \in 0..(i - 2) /\ j < N /\ i - 1 \in 1..N /\ i \in 1..N /\ i - 1 - 1 = i - 2
    BY <1>3
  <2>2. Continued(p, j, p[i], r)
    <3>1. \A k \in 1..j : Longest(p, p, k, k - 1, lps[k])
      BY <1>2, <1>4, <2>1
    <3> QED
      BY <2>1, <3>1, SeenContinues
  <2> HIDE DEF r
  <2>3. Ends(p, p, i - 1, j) /\ \A m \in 0..(i - 2) : Ends(p, p, i - 1, m) => m <= j
    <3>1. Longest(p, p, i - 1, i - 2, j)
      BY <1>2, <2>1
    <3> QED
      BY <3>1 DEF Longest
  <2> HIDE DEF j
  <2>4. \A m \in 0..j : Ends(p, p, i - 1, m) <=> Ends(p, p, j, m)
    BY <2>1, <2>3, Nested
  <2>5. \A m \in 1..(j + 1) : Ends(p, p, i, m) <=> Ends(p, p, j, m - 1) /\ p[m] = p[i]
    <3> SUFFICES ASSUME NEW m \in 1..(j + 1)
                 PROVE  Ends(p, p, i, m) <=> Ends(p, p, j, m - 1) /\ p[m] = p[i]
      OBVIOUS
    <3>1. i \in Nat \ {0} /\ m \in Nat \ {0} /\ m <= Len(p) /\ m - 1 \in 0..j
      BY <2>1
    <3>2. Ends(p, p, i, m) <=> Ends(p, p, i - 1, m - 1) /\ p[m] = p[i]
      BY <3>1, OneMore
    <3> QED
      BY <2>4, <3>1, <3>2
  <2>6. r \in 0..(i - 1) /\ Ends(p, p, i, r)
    <3>1. CASE r = 0
      BY <2>1, <3>1 DEF Ends
    <3>2. CASE r # 0
      <4>1. r \in 1..(j + 1) /\ r \in 0..(i - 1)
        BY <2>1, <2>2, <3>2 DEF Continued
      <4> QED
        BY <2>2, <2>5, <3>2, <4>1 DEF Continued
    <3> QED
      BY <3>1, <3>2
  <2>7. \A m \in 0..(i - 1) : Ends(p, p, i, m) => m <= r
    <3> SUFFICES ASSUME NEW m \in 0..(i - 1), Ends(p, p, i, m), m # 0
                 PROVE  m <= r
      BY <2>6
    <3>1. m - 1 \in 0..(i - 2) /\ m - 1 + 1 = m /\ i \in Nat \ {0} /\ m \in Nat \ {0}
      BY <2>1
    <3>2. Ends(p, p, i - 1, m - 1)
      BY <3>1, OneMore
    <3>3. m - 1 \in 0..j /\ m \in 1..(j + 1)
      BY <2>1, <2>3, <3>1, <3>2
    <3>4. m - 1 < r
      <4>1. Ends(p, p, j, m - 1) /\ p[m - 1 + 1] = p[i]
        BY <2>5, <3>1, <3>3
      <4> QED
        BY <2>2, <3>3, <4>1 DEF Continued
    <3> QED
      BY <2>6, <3>1, <3>4
  <2>8. Longest(p, p, i, i - 1, r)
    BY <2>6, <2>7 DEF Longest
  <2>9. r = L[i]
    BY <1>2, <2>1, <2>8, LongestExists
  <2> QED
    BY <1>4, <2>1, <2>9 DEF r, j
<1>5. ASSUME NEW i \in 2..N
      PROVE  Append([k \in 1..(i - 1) |-> L[k]], L[i]) = [k \in 1..i |-> L[k]]
  <2>1. [k \in 1..(i - 1) |-> L[k]] \in Seq(Int) /\ L[i] \in Int
        /\ Len([k \in 1..(i - 1) |-> L[k]]) = i - 1
    BY <1>3
  <2> QED
    BY <2>1
<1>6. g = G(g)
  <2>1. ASSUME NEW i \in 1..N
        PROVE  g[i] = IF i = 1 THEN <<0>>
                      ELSE LET lps == g[i - 1] IN Append(lps, Seen(p, lps, lps[i - 1], p[i]))
    <3>1. CASE i = 1
      <4>1. L[1] = 0 /\ g[1] = [k \in 1..1 |-> L[k]]
        BY <1>3
      <4> QED
        BY <3>1, <4>1
    <3>2. CASE i # 1
      <4>1. i \in 2..N /\ i - 1 \in 1..N
        BY <3>2
      <4>2. g[i] = [k \in 1..i |-> L[k]] /\ g[i - 1] = [k \in 1..(i - 1) |-> L[k]]
        BY <4>1
      <4>3. \A k \in 1..(i - 1) : g[i - 1][k] = L[k]
        BY <4>2
      <4> HIDE DEF g
      <4>4. Seen(p, g[i - 1], g[i - 1][i - 1], p[i]) = L[i]
        BY <1>4, <4>1, <4>3
      <4> QED
        BY <1>5, <3>2, <4>1, <4>2, <4>4
    <3> QED
      BY <3>1, <3>2
  <2>2. g = [i \in 1..N |-> g[i]]
    OBVIOUS
  <2> HIDE DEF g
  <2> QED
    BY <2>1, <2>2
<1>7. f0 = G(f0)
  BY <1>6
<1> HIDE DEF f0
<1>8. /\ f0[1] = <<0>>
      /\ \A i \in 2..N : f0[i] = Append(f0[i - 1], Seen(p, f0[i - 1], f0[i - 1][i - 1], p[i]))
  <2>1. 1 \in 1..N /\ \A i \in 2..N : i \in 1..N /\ i # 1
    OBVIOUS
  <2>2. \A i \in 1..N :
          f0[i] = IF i = 1 THEN <<0>>
                  ELSE LET lps == f0[i - 1] IN Append(lps, Seen(p, lps, lps[i - 1], p[i]))
    BY <1>7
  <2> QED
    BY <2>1, <2>2
<1>9. \A i \in 1..N : f0[i] = [k \in 1..i |-> L[k]]
  <2> DEFINE S == {i \in 1..N : f0[i] # [k \in 1..i |-> L[k]]}
  <2> SUFFICES ASSUME S # {} PROVE FALSE
    OBVIOUS
  <2>1. S \in SUBSET Nat
    OBVIOUS
  <2>2. PICK i \in S : \A h \in S : i <= h
    <3> HIDE DEF S
    <3> QED
      BY <2>1, FirstOf
  <2>3. i # 1
    <3>1. L[1] = 0
      BY <1>3
    <3>2. [k \in 1..1 |-> L[k]] = <<0>>
      BY <3>1
    <3> QED
      BY <1>8, <2>2, <3>2
  <2>4. i \in 2..N /\ i - 1 \in 1..N /\ i - 1 \notin S
    BY <2>2, <2>3
  <2>5. f0[i - 1] = [k \in 1..(i - 1) |-> L[k]]
    BY <2>4
  <2>6. \A k \in 1..(i - 1) : f0[i - 1][k] = L[k]
    BY <2>5
  <2>7. Seen(p, f0[i - 1], f0[i - 1][i - 1], p[i]) = L[i]
    BY <1>4, <2>4, <2>6
  <2>8. f0[i] = [k \in 1..i |-> L[k]]
    BY <1>5, <1>8, <2>4, <2>5, <2>7
  <2> QED
    BY <2>2, <2>8
<1>10. N \in 1..N
  OBVIOUS
<1>11. Lps(p) = [k \in 1..N |-> L[k]]
  BY <1>1, <1>9, <1>10
<1> QED
  BY <1>2, <1>11

\* What the search has seen after each character of s is the longest beginning of p
\* that ends there.
LEMMA ProgressLongest ==
  ASSUME NEW p, Len(p) \in Nat, Len(p) > 0, p # <<>>, NEW s, Len(s) \in Nat
  PROVE  /\ DOMAIN Progress(p, s) = 1..Len(s)
         /\ \A n \in 1..Len(s) : Longest(p, s, n, Len(p), Progress(p, s)[n])
<1> DEFINE N == Len(s)
           M == Len(p)
           lps == Lps(p)
           From(j) == IF j = M THEN lps[j] ELSE j
           G(f) == [i \in 0..N |->
                      IF i = 0 THEN <<>>
                      ELSE LET seen == f[i - 1]
                               j == IF i = 1 THEN 0 ELSE seen[i - 1]
                           IN  Append(seen, Seen(p, lps, IF j = M THEN lps[j] ELSE j, s[i]))]
           f0 == CHOOSE f : f = G(f)
           L == [k \in 0..N |-> CHOOSE r \in 0..M : Longest(p, s, k, M, r)]
           g == [i \in 0..N |-> [k \in 1..i |-> L[k]]]
<1>1. Progress(p, s) = f0[N]
  BY DEF Progress
<1>2. \A k \in 0..N : Longest(p, s, k, M, L[k])
  BY LongestExists
<1>3. \A k \in 0..N : L[k] \in 0..M
  BY <1>2 DEF Longest
<1>4. L[0] = 0
  BY <1>2, <1>3 DEF Longest, Ends
<1> HIDE DEF L
<1>5. \A k \in 1..M : Longest(p, p, k, k - 1, lps[k])
  BY LpsLongest
<1> HIDE DEF lps
<1>6. ASSUME NEW i \in 1..N
      PROVE  Seen(p, lps, From(L[i - 1]), s[i]) = L[i]
  <2> DEFINE j == From(L[i - 1])
             r == Seen(p, lps, j, s[i])
  <2>1. i - 1 \in 0..N /\ i \in 0..N /\ L[i - 1] \in 0..M /\ i - 1 \in Nat
    BY <1>3
  <2>2. j \in 0..(M - 1) /\ Ends(p, s, i - 1, j)
        /\ \A m \in 0..(M - 1) : Ends(p, s, i - 1, m) => m <= j
    <3>1. Ends(p, s, i - 1, L[i - 1]) /\ \A m \in 0..M : Ends(p, s, i - 1, m) => m <= L[i - 1]
      BY <1>2, <2>1 DEF Longest
    <3>2. CASE L[i - 1] # M
      BY <2>1, <3>1, <3>2
    <3>3. CASE L[i - 1] = M
      <4>1. j = lps[M] /\ M \in 1..M
        BY <3>3
      <4>2. /\ lps[M] \in 0..(M - 1) /\ Ends(p, p, M, lps[M])
            /\ \A m \in 0..(M - 1) : Ends(p, p, M, m) => m <= lps[M]
        BY <1>5, <4>1 DEF Longest
      <4>3. Ends(p, s, i - 1, M)
        BY <3>1, <3>3
      <4>4. \A m \in 0..M : Ends(p, s, i - 1, m) <=> Ends(p, p, M, m)
        BY <2>1, <4>3, Nested
      <4> QED
        BY <4>1, <4>2, <4>4
    <3> QED
      BY <3>2, <3>3
  <2>3. Continued(p, j, s[i], r)
    <3>1. \A k \in 1..j : Longest(p, p, k, k - 1, lps[k])
      BY <1>5, <2>2
    <3> HIDE DEF j
    <3> QED
      BY <2>2, <3>1, SeenContinues
  <2> HIDE DEF r, j
  <2>4. \A m \in 0..j : Ends(p, s, i - 1, m) <=> Ends(p, p, j, m)
    BY <2>1, <2>2, Nested
  <2>5. \A m \in 1..(j + 1) : Ends(p, s, i, m) <=> Ends(p, p, j, m - 1) /\ p[m] = s[i]
    <3> SUFFICES ASSUME NEW m \in 1..(j + 1)
                 PROVE  Ends(p, s, i, m) <=> Ends(p, p, j, m - 1) /\ p[m] = s[i]
      OBVIOUS
    <3>1. i \in Nat \ {0} /\ m \in Nat \ {0} /\ m <= Len(p) /\ m - 1 \in 0..j
      BY <2>2
    <3>2. Ends(p, s, i, m) <=> Ends(p, s, i - 1, m - 1) /\ p[m] = s[i]
      BY <3>1, OneMore
    <3> QED
      BY <2>4, <3>1, <3>2
  <2>6. r \in 0..M /\ Ends(p, s, i, r)
    <3>1. CASE r = 0
      BY <2>1, <3>1 DEF Ends
    <3>2. CASE r # 0
      <4>1. r \in 1..(j + 1) /\ r \in 0..M
        BY <2>2, <2>3, <3>2 DEF Continued
      <4> QED
        BY <2>3, <2>5, <3>2, <4>1 DEF Continued
    <3> QED
      BY <3>1, <3>2
  <2>7. \A m \in 0..M : Ends(p, s, i, m) => m <= r
    <3> SUFFICES ASSUME NEW m \in 0..M, Ends(p, s, i, m), m # 0
                 PROVE  m <= r
      BY <2>6
    <3>1. m - 1 \in 0..(M - 1) /\ m - 1 + 1 = m /\ i \in Nat \ {0} /\ m \in Nat \ {0}
      OBVIOUS
    <3>2. Ends(p, s, i - 1, m - 1)
      BY <3>1, OneMore
    <3>3. m - 1 \in 0..j /\ m \in 1..(j + 1)
      BY <2>2, <3>1, <3>2
    <3>4. m - 1 < r
      <4>1. Ends(p, p, j, m - 1) /\ p[m - 1 + 1] = s[i]
        BY <2>5, <3>1, <3>3
      <4> QED
        BY <2>3, <3>3, <4>1 DEF Continued
    <3> QED
      BY <2>6, <3>1, <3>4
  <2>8. Longest(p, s, i, M, r)
    BY <2>6, <2>7 DEF Longest
  <2>9. r = L[i]
    BY <1>2, <2>1, <2>8, LongestExists
  <2> QED
    BY <2>9 DEF r, j
<1>7. ASSUME NEW i \in 1..N
      PROVE  Append([k \in 1..(i - 1) |-> L[k]], L[i]) = [k \in 1..i |-> L[k]]
  <2>1. [k \in 1..(i - 1) |-> L[k]] \in Seq(Int) /\ L[i] \in Int
        /\ Len([k \in 1..(i - 1) |-> L[k]]) = i - 1
    BY <1>3
  <2> QED
    BY <2>1
<1>8. [k \in 1..0 |-> L[k]] = <<>>
  <2>1. [k \in 1..0 |-> L[k]] \in Seq(Int) /\ Len([k \in 1..0 |-> L[k]]) = 0
    BY <1>3
  <2> QED
    BY <2>1, EmptySeq
<1>9. ASSUME NEW i \in 1..N, NEW seen, seen = [k \in 1..(i - 1) |-> L[k]]
      PROVE  LET j == IF i = 1 THEN 0 ELSE seen[i - 1]
             IN  Append(seen, Seen(p, lps, IF j = M THEN lps[j] ELSE j, s[i])) = [k \in 1..i |-> L[k]]
  <2>1. (IF i = 1 THEN 0 ELSE seen[i - 1]) = L[i - 1]
    BY <1>4, <1>9
  <2> QED
    BY <1>6, <1>7, <1>9, <2>1
<1>10. g = G(g)
  <2>1. ASSUME NEW i \in 0..N
        PROVE  g[i] = IF i = 0 THEN <<>>
                      ELSE LET seen == g[i - 1]
                               j == IF i = 1 THEN 0 ELSE seen[i - 1]
                           IN  Append(seen, Seen(p, lps, IF j = M THEN lps[j] ELSE j, s[i]))
    <3>1. CASE i = 0
      BY <1>8, <3>1
    <3>2. CASE i # 0
      <4>1. i \in 1..N /\ i - 1 \in 0..N
        BY <3>2
      <4>2. g[i] = [k \in 1..i |-> L[k]] /\ g[i - 1] = [k \in 1..(i - 1) |-> L[k]]
        BY <4>1
      <4> HIDE DEF g
      <4> QED
        BY <1>9, <3>2, <4>1, <4>2
    <3> QED
      BY <3>1, <3>2
  <2>2. g = [i \in 0..N |-> g[i]]
    OBVIOUS
  <2> HIDE DEF g
  <2> QED
    BY <2>1, <2>2
<1>11. f0 = G(f0)
  BY <1>10
<1> HIDE DEF f0
<1>12. \A i \in 0..N :
         f0[i] = IF i = 0 THEN <<>>
                 ELSE LET seen == f0[i - 1]
                          j == IF i = 1 THEN 0 ELSE seen[i - 1]
                      IN  Append(seen, Seen(p, lps, IF j = M THEN lps[j] ELSE j, s[i]))
  BY <1>11
<1>13. \A i \in 0..N : f0[i] = [k \in 1..i |-> L[k]]
  <2> DEFINE S == {i \in 0..N : f0[i] # [k \in 1..i |-> L[k]]}
  <2> SUFFICES ASSUME S # {} PROVE FALSE
    OBVIOUS
  <2>1. S \in SUBSET Nat
    OBVIOUS
  <2>2. PICK i \in S : \A h \in S : i <= h
    <3> HIDE DEF S
    <3> QED
      BY <2>1, FirstOf
  <2>3. i # 0
    BY <1>8, <1>12, <2>2
  <2>4. i \in 1..N /\ i - 1 \in 0..N /\ i - 1 \notin S
    BY <2>2, <2>3
  <2>5. f0[i - 1] = [k \in 1..(i - 1) |-> L[k]]
    BY <2>4
  <2>6. f0[i] = [k \in 1..i |-> L[k]]
    BY <1>9, <1>12, <2>3, <2>4, <2>5
  <2> QED
    BY <2>2, <2>6
<1>14. N \in 0..N
  OBVIOUS
<1>15. Progress(p, s) = [k \in 1..N |-> L[k]]
  BY <1>1, <1>13, <1>14
<1> QED
  BY <1>2, <1>15

-----------------------------------------------------------------------------
(* The positions that are stored                                            *)

\* g has a value for each number up to n: v0, and then each from the one before.
Recurs(g, V, v0, F, n) == /\ g \in [0..n -> V] /\ g[0] = v0
                          /\ \A i \in 1..n : g[i] = F[<<i, g[i - 1]>>]

\* There is such a g.
LEMMA Recursion ==
  ASSUME NEW V, NEW v0 \in V, NEW F \in [Nat \X V -> V], NEW n \in Nat
  PROVE  \E g : Recurs(g, V, v0, F, n)
<1> DEFINE S == {m \in Nat : ~ \E g : Recurs(g, V, v0, F, m)}
<1> SUFFICES ASSUME S # {} PROVE FALSE
  OBVIOUS
<1>1. S \in SUBSET Nat
  OBVIOUS
<1>2. PICK m \in S : \A k \in S : m <= k
  <2> HIDE DEF S
  <2> QED
    BY <1>1, FirstOf
<1>3. m # 0
  <2>1. Recurs([i \in 0..0 |-> v0], V, v0, F, 0)
    BY DEF Recurs
  <2> QED
    BY <1>2, <2>1
<1>4. m - 1 \in Nat /\ m - 1 \notin S
  BY <1>2, <1>3
<1>5. PICK g : Recurs(g, V, v0, F, m - 1)
  BY <1>4
<1> DEFINE h == [i \in 0..m |-> IF i = m THEN F[<<m, g[m - 1]>>] ELSE g[i]]
<1>6. m \in Nat /\ m - 1 \in 0..(m - 1) /\ 0 \in 0..(m - 1)
  BY <1>2, <1>4
<1>7. h \in [0..m -> V]
  BY <1>5, <1>6 DEF Recurs
<1>8. \A i \in 1..m : h[i] = F[<<i, h[i - 1]>>]
  <2> SUFFICES ASSUME NEW i \in 1..m PROVE h[i] = F[<<i, h[i - 1]>>]
    OBVIOUS
  <2>1. h[i - 1] = g[i - 1]
    BY <1>6
  <2>2. CASE i = m
    BY <1>6, <2>1, <2>2
  <2>3. CASE i # m
    <3>1. i \in 1..(m - 1) /\ h[i] = g[i]
      BY <1>6, <2>3
    <3> QED
      BY <1>5, <2>1, <3>1 DEF Recurs
  <2> QED
    BY <2>2, <2>3
<1>9. h[0] = v0
  BY <1>3, <1>5, <1>6 DEF Recurs
<1> HIDE DEF h
<1>10. Recurs(h, V, v0, F, m)
  BY <1>7, <1>8, <1>9 DEF Recurs
<1> QED
  BY <1>2, <1>10

\* Ascending(S, n) has each member of S once, one after another.
LEMMA AscendingExact ==
  ASSUME NEW n \in Nat, NEW S \in SUBSET (1..n)
  PROVE  /\ Ascending(S, n) \in Seq(S)
         /\ \A x \in S : \E k \in 1..Len(Ascending(S, n)) : Ascending(S, n)[k] = x
         /\ \A k, h \in 1..Len(Ascending(S, n)) :
              k < h => Ascending(S, n)[k] < Ascending(S, n)[h]
         /\ Len(Ascending(S, n)) = Cardinality(S)
<1> DEFINE G(f) == [i \in 0..n |-> IF i = 0 THEN <<>>
                                   ELSE IF i \in S THEN Append(f[i - 1], i)
                                   ELSE f[i - 1]]
           f0 == CHOOSE f : f = G(f)
           F == [x \in Nat \X Seq(Nat) |-> IF x[1] \in S THEN Append(x[2], x[1]) ELSE x[2]]
           Right(i, q) == /\ q \in Seq(S)
                          /\ \A x \in S : x <= i => \E k \in 1..Len(q) : q[k] = x
                          /\ \A k \in 1..Len(q) : q[k] <= i
                          /\ \A k, h \in 1..Len(q) : k < h => q[k] < q[h]
<1>1. Ascending(S, n) = f0[n]
  BY DEF Ascending
<1>2. F \in [Nat \X Seq(Nat) -> Seq(Nat)] /\ <<>> \in Seq(Nat)
  OBVIOUS
<1>3. PICK g : Recurs(g, Seq(Nat), <<>>, F, n)
  <2> HIDE DEF F
  <2> QED
    BY <1>2, Recursion
<1>4. \A i \in 1..n : F[<<i, g[i - 1]>>] = IF i \in S THEN Append(g[i - 1], i) ELSE g[i - 1]
  <2>1. \A i \in 1..n : g[i - 1] \in Seq(Nat) /\ i \in Nat
    BY <1>3 DEF Recurs
  <2> QED
    BY <2>1
<1> HIDE DEF F
<1>5. g = G(g)
  <2>1. \A i \in 0..n : g[i] = IF i = 0 THEN <<>>
                                ELSE IF i \in S THEN Append(g[i - 1], i)
                                ELSE g[i - 1]
    <3>1. \A i \in 0..n : i # 0 => i \in 1..n
      OBVIOUS
    <3> QED
      BY <1>3, <1>4, <3>1 DEF Recurs
  <2>2. g = [i \in 0..n |-> g[i]]
    BY <1>3 DEF Recurs
  <2> QED
    BY <2>1, <2>2
<1>6. f0 = G(f0)
  BY <1>5
<1> HIDE DEF f0
<1>7. \A i \in 0..n : f0[i] = IF i = 0 THEN <<>>
                               ELSE IF i \in S THEN Append(f0[i - 1], i)
                               ELSE f0[i - 1]
  BY <1>6
<1>8. \A i \in 0..n : Right(i, f0[i])
  <2> DEFINE T == {i \in 0..n : ~ Right(i, f0[i])}
  <2> SUFFICES ASSUME T # {} PROVE FALSE
    OBVIOUS
  <2>1. T \in SUBSET Nat
    OBVIOUS
  <2>2. PICK i \in T : \A h \in T : i <= h
    <3> HIDE DEF T
    <3> QED
      BY <2>1, FirstOf
  <2>3. Right(0, <<>>)
    OBVIOUS
  <2>4. i # 0
    BY <1>7, <2>2, <2>3
  <2>5. i \in 1..n /\ i - 1 \in 0..n /\ i - 1 \notin T
    BY <2>2, <2>4
  <2> DEFINE q == f0[i - 1]
  <2>6. Right(i - 1, q)
    BY <2>5
  <2>7. f0[i] = IF i \in S THEN Append(q, i) ELSE q
    BY <1>7, <2>4, <2>5
  <2> HIDE DEF q
  <2>8. CASE i \notin S
    <3>1. \A x \in S : x <= i => x <= i - 1
      <4>1. \A x \in S : x \in Int /\ x # i
        BY <2>8
      <4> QED
        BY <2>5, <4>1
    <3>2. \A k \in 1..Len(q) : q[k] \in S /\ q[k] <= i - 1
      BY <2>6, ElementOfSeq
    <3>3. \A k \in 1..Len(q) : q[k] <= i
      <4>1. \A x \in S : x <= i - 1 => x <= i
        BY <2>5
      <4> QED
        BY <3>2, <4>1
    <3>4. Right(i, q)
      BY <2>6, <3>1, <3>3
    <3> QED
      BY <2>2, <2>7, <2>8, <3>4
  <2>9. CASE i \in S
    <3> DEFINE a == Append(q, i)
    <3>1. q \in Seq(S) /\ Len(q) \in Nat
      BY <2>6
    <3>2. /\ a \in Seq(S) /\ Len(a) = Len(q) + 1 /\ a[Len(q) + 1] = i
          /\ \A k \in 1..Len(q) : a[k] = q[k]
      BY <2>9, <3>1, AppendProperties
    <3> HIDE DEF a
    <3>3. \A k \in 1..Len(a) : k \in 1..Len(q) \/ k = Len(q) + 1
      BY <3>1, <3>2
    <3>4. \A k \in 1..Len(q) : a[k] \in Int /\ a[k] <= i - 1
      <4>1. \A k \in 1..Len(q) : q[k] \in S /\ q[k] <= i - 1
        BY <2>6, ElementOfSeq
      <4>2. \A x \in S : x \in Int
        OBVIOUS
      <4> QED
        BY <3>2, <4>1, <4>2
    <3>5. \A x \in S : x <= i => \E k \in 1..Len(a) : a[k] = x
      <4> SUFFICES ASSUME NEW x \in S, x <= i
                   PROVE  \E k \in 1..Len(a) : a[k] = x
        OBVIOUS
      <4>1. CASE x = i
        <5>1. Len(q) + 1 \in 1..Len(a)
          BY <3>1, <3>2
        <5> QED
          BY <3>2, <4>1, <5>1
      <4>2. CASE x # i
        <5>1. x <= i - 1
          BY <2>5, <4>2
        <5>2. PICK k \in 1..Len(q) : q[k] = x
          BY <2>6, <5>1
        <5> QED
          BY <3>1, <3>2, <5>2
      <4> QED
        BY <4>1, <4>2
    <3>6. \A k \in 1..Len(a) : a[k] <= i
      <4>1. i <= i /\ \A k \in 1..Len(q) : a[k] <= i
        BY <2>5, <3>4
      <4> QED
        BY <3>2, <3>3, <4>1
    <3>7. \A k, h \in 1..Len(a) : k < h => a[k] < a[h]
      <4> SUFFICES ASSUME NEW k \in 1..Len(a), NEW h \in 1..Len(a), k < h
                   PROVE  a[k] < a[h]
        OBVIOUS
      <4>1. k \in 1..Len(q)
        BY <3>1, <3>2, <3>3
      <4>2. CASE h = Len(q) + 1
        BY <2>5, <3>2, <3>4, <4>1, <4>2
      <4>3. CASE h \in 1..Len(q)
        BY <2>6, <3>2, <4>1, <4>3
      <4> QED
        BY <3>3, <4>2, <4>3
    <3>8. Right(i, a)
      BY <3>2, <3>5, <3>6, <3>7
    <3> QED
      BY <2>2, <2>7, <2>9, <3>8 DEF a
  <2> QED
    BY <2>8, <2>9
<1>9. Right(n, Ascending(S, n))
  BY <1>1, <1>8
<1> DEFINE A == Ascending(S, n)
<1> HIDE DEF A
<1>10. Right(n, A)
  BY <1>9 DEF A
<1>11. \A x \in S : \E k \in 1..Len(A) : A[k] = x
  BY <1>10
<1>12. Len(A) = Cardinality(S)
  <2>1. Len(A) \in Nat /\ A \in [1..Len(A) -> S]
    BY <1>10
  <2>2. \A k, h \in 1..Len(A) : A[k] = A[h] => k = h
    <3>1. \A k \in 1..Len(A) : A[k] \in Int
      <4>1. \A x \in S : x \in Int
        OBVIOUS
      <4> QED
        BY <2>1, <4>1
    <3>2. \A k, h \in 1..Len(A) : k < h => A[k] < A[h]
      BY <1>10
    <3> QED
      BY <2>1, <3>1, <3>2
  <2>3. A \in Bijection(1..Len(A), S)
    BY <1>11, <2>1, <2>2 DEF Bijection, Injection, Surjection, IsInjective
  <2>4. ExistsBijection(1..Len(A), S)
    BY <2>3 DEF ExistsBijection
  <2> QED
    BY <2>1, <2>4, FS_CountingElements
<1> QED
  BY <1>10, <1>11, <1>12 DEF A

-----------------------------------------------------------------------------
(* What the searches return                                                 *)

\* The whole of p ends where an occurrence of p ends.
LEMMA WholeEnds ==
  ASSUME NEW C, NEW p \in Seq(C), p # <<>>, NEW s \in Seq(C), NEW i \in 1..Len(s)
  PROVE  Ends(p, s, i, Len(p)) <=> i - Len(p) \in Occurrences(p, s)
<1> DEFINE k == i - Len(p)
<1>1. Len(p) \in Nat \ {0} /\ DOMAIN p = 1..Len(p) /\ Len(s) \in Nat /\ i \in Nat
  BY EmptySeq
<1>2. Ends(p, s, i, Len(p)) <=> k >= 0 /\ \A h \in 1..Len(p) : p[h] = s[k + h]
  BY <1>1 DEF Ends
<1>3. k >= 0 => k \in 0..(Len(s) - 1) /\ k + Len(p) <= Len(s)
  BY <1>1
<1>4. Occurrences(p, s) = {h \in 0..(Len(s) - 1) : OccursAt(p, s, h)}
  BY DEF Occurrences
<1>5. k \in Occurrences(p, s) <=> k >= 0 /\ \A h \in 1..Len(p) : s[k + h] = p[h]
  <2> HIDE DEF k
  <2> QED
    BY <1>1, <1>3, <1>4 DEF OccursAt
<1> QED
  BY <1>2, <1>5

\* The ends of the occurrences of p in s.
OccurrenceEnds(p, s) == {i \in 1..Len(s) : i - Len(p) \in Occurrences(p, s)}

\* The search meets these, from the left to the right.
LEMMA MatchesAscend ==
  ASSUME NEW C, NEW p \in Seq(C), p # <<>>, NEW s \in Seq(C)
  PROVE  MatchEnds(p, s) = Ascending(OccurrenceEnds(p, s), Len(s))
<1> DEFINE j == Progress(p, s)
<1>1. Len(p) \in Nat /\ Len(p) > 0 /\ Len(s) \in Nat
  BY EmptySeq
<1>2. /\ DOMAIN j = 1..Len(s)
      /\ \A n \in 1..Len(s) : Longest(p, s, n, Len(p), j[n])
  BY <1>1, ProgressLongest
<1>3. MatchEnds(p, s) = Ascending({i \in DOMAIN j : j[i] = Len(p)}, Len(s))
  BY DEF MatchEnds
<1> HIDE DEF j
<1>4. \A n \in 1..Len(s) : j[n] = Len(p) <=> Ends(p, s, n, Len(p))
  <2> SUFFICES ASSUME NEW n \in 1..Len(s) PROVE j[n] = Len(p) <=> Ends(p, s, n, Len(p))
    OBVIOUS
  <2>1. /\ j[n] \in 0..Len(p) /\ Ends(p, s, n, j[n])
        /\ \A m \in 0..Len(p) : Ends(p, s, n, m) => m <= j[n]
    BY <1>2 DEF Longest
  <2> QED
    BY <1>1, <2>1
<1>5. \A n \in 1..Len(s) : j[n] = Len(p) <=> n - Len(p) \in Occurrences(p, s)
  BY <1>4, WholeEnds
<1>6. {i \in DOMAIN j : j[i] = Len(p)} = OccurrenceEnds(p, s)
  BY <1>2, <1>5 DEF OccurrenceEnds
<1> QED
  BY <1>3, <1>6

\* The ends that are found, less the length of the pattern, are the occurrences,
\* each once and from the left to the right.
LEMMA MatchesExact ==
  ASSUME NEW C, NEW p \in Seq(C), p # <<>>, NEW s \in Seq(C)
  PROVE  /\ MatchEnds(p, s) \in Seq(Nat)
         /\ \A k \in 1..Len(MatchEnds(p, s)) :
              MatchEnds(p, s)[k] - Len(p) \in Occurrences(p, s)
         /\ \A x \in Occurrences(p, s) :
              \E k \in 1..Len(MatchEnds(p, s)) : MatchEnds(p, s)[k] - Len(p) = x
         /\ \A k, h \in 1..Len(MatchEnds(p, s)) :
              k < h => MatchEnds(p, s)[k] < MatchEnds(p, s)[h]
         /\ Len(MatchEnds(p, s)) = Cardinality(Occurrences(p, s))
         /\ IsFiniteSet(Occurrences(p, s))
<1> DEFINE E == OccurrenceEnds(p, s)
           ends == MatchEnds(p, s)
           there == Occurrences(p, s)
<1>1. Len(p) \in Nat /\ Len(p) > 0 /\ Len(s) \in Nat /\ DOMAIN p = 1..Len(p)
  BY EmptySeq
<1>2. E \in SUBSET (1..Len(s))
  BY DEF OccurrenceEnds
<1>3. ends = Ascending(E, Len(s))
  BY MatchesAscend
<1>4. /\ ends \in Seq(E)
      /\ \A x \in E : \E k \in 1..Len(ends) : ends[k] = x
      /\ \A k, h \in 1..Len(ends) : k < h => ends[k] < ends[h]
  <2> HIDE DEF E, ends
  <2> QED
    BY <1>1, <1>2, <1>3, AscendingExact
<1>5. \A x \in E : x \in Nat /\ x - Len(p) \in there
  BY DEF OccurrenceEnds
<1>6. \A x \in there : x + Len(p) \in E /\ x \in Int
  <2> SUFFICES ASSUME NEW x \in there PROVE x + Len(p) \in E /\ x \in Int
    OBVIOUS
  <2>1. x \in 0..(Len(s) - 1) /\ x + Len(p) <= Len(s)
    BY DEF Occurrences, OccursAt
  <2>2. x + Len(p) \in 1..Len(s) /\ x + Len(p) - Len(p) = x
    BY <1>1, <2>1
  <2> QED
    BY <2>1, <2>2 DEF OccurrenceEnds
<1>7. IsFiniteSet(there)
  <2>1. there \subseteq 0..(Len(s) - 1) /\ 0 \in Int /\ Len(s) - 1 \in Int
    BY <1>1 DEF Occurrences
  <2> QED
    BY <2>1, FS_Interval, FS_Subset
<1> HIDE DEF E, ends, there
<1>8. ends \in Seq(Nat)
  BY <1>4, <1>5
<1>9. Len(ends) \in Nat /\ \A k \in 1..Len(ends) : ends[k] \in E /\ ends[k] \in Nat
  BY <1>4, <1>5, ElementOfSeq
<1>10. \A k \in 1..Len(ends) : ends[k] - Len(p) \in there
  BY <1>5, <1>9
<1>11. \A x \in there : \E k \in 1..Len(ends) : ends[k] - Len(p) = x
  <2> SUFFICES ASSUME NEW x \in there PROVE \E k \in 1..Len(ends) : ends[k] - Len(p) = x
    OBVIOUS
  <2>1. PICK k \in 1..Len(ends) : ends[k] = x + Len(p)
    BY <1>4, <1>6
  <2> QED
    BY <1>1, <1>6, <2>1
<1>12. Len(ends) = Cardinality(there)
  <2> DEFINE f == [k \in 1..Len(ends) |-> ends[k] - Len(p)]
  <2>1. f \in [1..Len(ends) -> there]
    BY <1>10
  <2>2. \A k, h \in 1..Len(ends) : f[k] = f[h] => k = h
    <3> SUFFICES ASSUME NEW k \in 1..Len(ends), NEW h \in 1..Len(ends), f[k] = f[h]
                 PROVE  k = h
      OBVIOUS
    <3>1. ends[k] = ends[h]
      BY <1>1, <1>9
    <3>2. ASSUME k < h PROVE FALSE
      <4>1. ends[k] < ends[h] /\ ends[h] \in Nat
        BY <1>4, <1>9, <3>2
      <4> QED
        BY <3>1, <4>1
    <3>3. ASSUME h < k PROVE FALSE
      <4>1. ends[h] < ends[k] /\ ends[h] \in Nat
        BY <1>4, <1>9, <3>3
      <4> QED
        BY <3>1, <4>1
    <3> QED
      BY <1>9, <3>2, <3>3
  <2>3. \A x \in there : \E k \in 1..Len(ends) : f[k] = x
    BY <1>11
  <2> HIDE DEF f
  <2>4. f \in Bijection(1..Len(ends), there)
    BY <2>1, <2>2, <2>3 DEF Bijection, Injection, Surjection, IsInjective
  <2>5. ExistsBijection(1..Len(ends), there)
    BY <2>4 DEF ExistsBijection
  <2> QED
    BY <1>9, <2>5, FS_CountingElements
<1> QED
  BY <1>4, <1>7, <1>8, <1>10, <1>11, <1>12 DEF ends, there

\* The parts of SearchExact, of one pattern and one string.
AllRight(found, there, w, s) ==
  /\ {found.pos[k] : k \in DOMAIN found.pos} = there
  /\ \A k \in 1..(Len(found.pos) - 1) : found.pos[k] < found.pos[k + 1]
  /\ found.len = IF Len(w) > Len(s) THEN -1
                 ELSE IF there = {} THEN NotFound ELSE Cardinality(there)

CharsRight(w, s) ==
  /\ FindAllChar(s, w[1]) = IF Cardinality(Occurrences(w, s)) > MaxPositions
                            THEN OutOfBounds ELSE KmpSearchAll(w, s).pos
  /\ CountChar(s, w[1]) = KmpSearchAllLen(w, s)
  /\ IF \A i \in DOMAIN s : s[i] \notin NotAscii
     THEN Occurrences(w, s) # {} <=> \E k \in DOMAIN FindUniqueChar(s) :
                                       FindUniqueChar(s)[k] = w[1]
     ELSE FindUniqueChar(s) = OutOfBounds

\* What kmp_search_all stores.
FoundPos(w, s) == [k \in DOMAIN MatchEnds(w, s) |-> MatchEnds(w, s)[k] - Len(w)]

\* That is what MatchesExact says.
LEMMA AllFound ==
  ASSUME NEW C, NEW w \in Seq(C), w # <<>>, NEW s \in Seq(C)
  PROVE  /\ KmpSearchAll(w, s).pos = FoundPos(w, s)
         /\ FoundPos(w, s) \in Seq(Int) /\ Len(FoundPos(w, s)) = Cardinality(Occurrences(w, s))
         /\ AllRight(KmpSearchAll(w, s), Occurrences(w, s), w, s)
<1> DEFINE ends == MatchEnds(w, s)
           there == Occurrences(w, s)
           found == KmpSearchAll(w, s)
           pos == [k \in DOMAIN ends |-> ends[k] - Len(w)]
<1>1. Len(w) \in Nat /\ Len(w) > 0 /\ Len(s) \in Nat
  BY EmptySeq
<1>2. /\ ends \in Seq(Nat)
      /\ \A k \in 1..Len(ends) : ends[k] - Len(w) \in there
      /\ \A x \in there : \E k \in 1..Len(ends) : ends[k] - Len(w) = x
      /\ \A k, h \in 1..Len(ends) : k < h => ends[k] < ends[h]
      /\ Len(ends) = Cardinality(there) /\ IsFiniteSet(there)
  BY MatchesExact
<1>3. Len(w) > Len(s) => there = {}
  BY <1>1 DEF Occurrences, OccursAt
<1>4. /\ Len(w) > Len(s) => found = NoPositions
      /\ Len(w) <= Len(s) /\ ends = <<>> => found = Positions(NotFound, <<>>)
      /\ Len(w) <= Len(s) /\ ends # <<>> => found = Positions(Len(ends), pos)
  BY <1>1 DEF KmpSearchAll
<1> HIDE DEF ends, there, found
<1>5. Len(ends) \in Nat /\ DOMAIN ends = 1..Len(ends) /\ \A k \in 1..Len(ends) : ends[k] \in Nat
  BY <1>2, ElementOfSeq
<1>6. /\ pos \in Seq(Int) /\ DOMAIN pos = 1..Len(ends) /\ Len(pos) = Len(ends)
      /\ \A k \in 1..Len(ends) : pos[k] = ends[k] - Len(w)
  BY <1>1, <1>5
<1>7. ends = <<>> <=> there = {}
  <2>1. ends = <<>> <=> Len(ends) = 0
    BY <1>2, EmptySeq
  <2>2. there = {} <=> Cardinality(there) = 0
    BY <1>2, FS_EmptySet
  <2> QED
    BY <1>2, <2>1, <2>2
<1>8. ends = <<>> => pos = <<>>
  BY <1>6, EmptySeq
<1> HIDE DEF pos
<1>9. found.pos = pos
  <2>1. CASE Len(w) > Len(s)
    BY <1>3, <1>4, <1>7, <1>8, <2>1 DEF NoPositions, Positions
  <2>2. CASE Len(w) <= Len(s)
    BY <1>4, <1>8, <2>2 DEF Positions
  <2> QED
    BY <1>1, <2>1, <2>2
<1>10. {pos[k] : k \in DOMAIN pos} = there
  BY <1>2, <1>6
<1>11. \A k \in 1..(Len(pos) - 1) : pos[k] < pos[k + 1]
  <2> SUFFICES ASSUME NEW k \in 1..(Len(pos) - 1) PROVE pos[k] < pos[k + 1]
    OBVIOUS
  <2>1. k \in 1..Len(ends) /\ k + 1 \in 1..Len(ends) /\ k < k + 1
    BY <1>5, <1>6
  <2>2. ends[k] < ends[k + 1] /\ ends[k] \in Nat /\ ends[k + 1] \in Nat
    BY <1>2, <1>5, <2>1
  <2> QED
    BY <1>1, <1>6, <2>1, <2>2
<1>12. found.len = IF Len(w) > Len(s) THEN -1
                   ELSE IF there = {} THEN NotFound ELSE Cardinality(there)
  <2>1. CASE Len(w) > Len(s)
    BY <1>4, <2>1 DEF NoPositions, Positions
  <2>2. CASE Len(w) <= Len(s)
    BY <1>1, <1>2, <1>4, <1>7, <2>2 DEF Positions
  <2> QED
    BY <1>1, <2>1, <2>2
<1>13. AllRight(found, there, w, s)
  BY <1>9, <1>10, <1>11, <1>12 DEF AllRight
<1>14. pos \in Seq(Int) /\ Len(pos) = Cardinality(there)
  BY <1>2, <1>6
<1>15. pos = FoundPos(w, s)
  BY DEF pos, ends, FoundPos
<1> QED
  BY <1>9, <1>13, <1>14, <1>15 DEF found, there

\* kmp_search finds one when there is one.
LEMMA OneFound ==
  ASSUME NEW C, NEW w \in Seq(C), w # <<>>, NEW s \in Seq(C)
  PROVE  KmpSearch(w, s) = NotFound <=> Occurrences(w, s) = {}
<1> DEFINE ends == MatchEnds(w, s)
           there == Occurrences(w, s)
<1>1. Len(w) \in Nat /\ Len(w) > 0 /\ Len(w) \in 1..Len(w)
  BY EmptySeq
<1>2. /\ ends \in Seq(Nat)
      /\ \A k \in 1..Len(ends) : ends[k] - Len(w) \in there
      /\ Len(ends) = Cardinality(there) /\ IsFiniteSet(there)
  BY MatchesExact
<1>3. ends = <<>> <=> there = {}
  BY <1>2, EmptySeq, FS_EmptySet
<1>4. \A x \in there : x \in Nat
  BY DEF Occurrences
<1>5. Lps(w)[Len(w)] \in 0..(Len(w) - 1)
  <2>1. Longest(w, w, Len(w), Len(w) - 1, Lps(w)[Len(w)])
    BY <1>1, LpsLongest
  <2> QED
    BY <2>1 DEF Longest
<1>6. KmpSearch(w, s) = IF ends = <<>> THEN NotFound ELSE ends[1] - Lps(w)[Len(w)] - 1
  BY DEF KmpSearch
<1> HIDE DEF ends, there
<1>7. ends # <<>> => ends[1] \in Nat /\ ends[1] - Len(w) \in Nat
  BY <1>2, <1>4, EmptySeq, ElementOfSeq
<1>8. ends # <<>> => ends[1] - Lps(w)[Len(w)] - 1 >= 0
  BY <1>1, <1>5, <1>7
<1>9. ends # <<>> => KmpSearch(w, s) # NotFound
  <2> SUFFICES ASSUME ends # <<>> PROVE KmpSearch(w, s) # NotFound
    OBVIOUS
  <2>1. ends[1] - Lps(w)[Len(w)] - 1 \in Int
    BY <1>1, <1>5, <1>7
  <2> QED
    BY <1>6, <1>8, <2>1 DEF NotFound
<1> QED
  BY <1>3, <1>6, <1>9 DEF there

\* The searches for one character agree with those for a string of one.
LEMMA CharsFound ==
  ASSUME NEW C, NEW w \in Seq(C), Len(w) = 1, NEW s \in Seq(C)
  PROVE  CharsRight(w, s)
<1> DEFINE c == w[1]
           E == {i \in DOMAIN s : s[i] = c}
           ends == MatchEnds(w, s)
<1>1. w # <<>> /\ DOMAIN w = 1..1 /\ Len(s) \in Nat /\ DOMAIN s = 1..Len(s)
  <2>1. Len(<<>>) = 0
    OBVIOUS
  <2>2. w # <<>>
    BY <2>1
  <2> QED
    BY <2>2
<1>2. \A i \in 1..Len(s) : i - 1 \in Occurrences(w, s) <=> s[i] = c
  <2> SUFFICES ASSUME NEW i \in 1..Len(s)
               PROVE  i - 1 \in Occurrences(w, s) <=> s[i] = c
    OBVIOUS
  <2>1. i - 1 \in 0..(Len(s) - 1) /\ i - 1 + 1 = i /\ i - 1 + 1 <= Len(s)
    BY <1>1
  <2> QED
    BY <1>1, <2>1 DEF Occurrences, OccursAt
<1>3. OccurrenceEnds(w, s) = E
  BY <1>1, <1>2 DEF OccurrenceEnds
<1>4. ends = Ascending(E, Len(s))
  BY <1>1, <1>3, MatchesAscend
<1>5. KmpSearchAll(w, s).pos = [k \in DOMAIN ends |-> ends[k] - 1]
  <2>1. KmpSearchAll(w, s).pos = FoundPos(w, s)
    BY <1>1, AllFound
  <2> QED
    BY <2>1 DEF FoundPos
<1>6. FindAllChar(s, w[1]) = IF Cardinality(Occurrences(w, s)) > MaxPositions
                             THEN OutOfBounds ELSE KmpSearchAll(w, s).pos
  <2>1. CharsAt(s, w[1]) = KmpSearchAll(w, s).pos
    <3> HIDE DEF ends
    <3> QED
      BY <1>4, <1>5 DEF CharsAt
  <2>2. Len(KmpSearchAll(w, s).pos) = Cardinality(Occurrences(w, s))
    BY <1>1, AllFound
  <2> QED
    BY <2>1, <2>2 DEF FindAllChar
<1>7. CountChar(s, w[1]) = KmpSearchAllLen(w, s)
  <2>1. E \in SUBSET (1..Len(s))
    BY <1>1
  <2> HIDE DEF E
  <2>2. Len(Ascending(E, Len(s))) = Cardinality(E)
    BY <1>1, <2>1, AscendingExact
  <2> QED
    BY <1>4, <2>2 DEF CountChar, KmpSearchAllLen, E
<1>8. Occurrences(w, s) # {} <=> E # {}
  <2>1. ASSUME NEW x \in Occurrences(w, s) PROVE x + 1 \in E
    <3>1. x \in 0..(Len(s) - 1) /\ x + 1 \in 1..Len(s) /\ x + 1 - 1 = x
      BY <1>1 DEF Occurrences
    <3> QED
      BY <1>1, <1>2, <3>1
  <2>2. ASSUME NEW i \in E PROVE i - 1 \in Occurrences(w, s)
    BY <1>1, <1>2
  <2> QED
    BY <2>1, <2>2
<1> DEFINE F == {i \in DOMAIN s : \A h \in 1..(i - 1) : s[h] # s[i]}
           first == Ascending(F, Len(s))
<1>9. F \in SUBSET (1..Len(s)) /\ E \in SUBSET (1..Len(s))
  BY <1>1
<1>10. /\ first \in Seq(F)
       /\ \A x \in F : \E k \in 1..Len(first) : first[k] = x
  <2> HIDE DEF F
  <2> QED
    BY <1>1, <1>9, AscendingExact
<1> DEFINE unique == ElementsAt(s, F)
<1>11. /\ unique = [k \in DOMAIN first |-> s[first[k]]]
       /\ FindUniqueChar(s) = IF \E i \in DOMAIN s : s[i] \in NotAscii
                              THEN OutOfBounds ELSE unique
  BY DEF FindUniqueChar, ElementsAt
<1>12. E # {} => \E x \in F : s[x] = c
  <2> SUFFICES ASSUME E # {} PROVE \E x \in F : s[x] = c
    OBVIOUS
  <2>1. E \in SUBSET Nat
    BY <1>9
  <2>2. PICK x \in E : \A y \in E : x <= y
    <3> HIDE DEF E
    <3> QED
      BY <2>1, FirstOf
  <2>3. \A h \in 1..(x - 1) : h \in DOMAIN s /\ ~ (x <= h)
    BY <1>1, <2>2
  <2>4. \A h \in 1..(x - 1) : s[h] # c
    BY <2>2, <2>3
  <2>5. x \in F
    BY <2>2, <2>4
  <2> QED
    BY <2>2, <2>5
<1>13. (\E x \in F : s[x] = c) => E # {}
  OBVIOUS
<1> HIDE DEF first, F, E, unique
<1>14. DOMAIN first = 1..Len(first) /\ \A k \in DOMAIN first : first[k] \in F
  BY <1>10, ElementOfSeq
<1>15. (\E k \in DOMAIN unique : unique[k] = c) <=> \E x \in F : s[x] = c
  <2>1. DOMAIN unique = 1..Len(first)
        /\ \A k \in 1..Len(first) : unique[k] = s[first[k]]
    BY <1>11, <1>14
  <2>2. ASSUME NEW k \in DOMAIN unique, unique[k] = c
        PROVE  \E x \in F : s[x] = c
    BY <1>14, <2>1, <2>2
  <2>3. ASSUME NEW x \in F, s[x] = c
        PROVE  \E k \in DOMAIN unique : unique[k] = c
    <3>1. PICK k \in 1..Len(first) : first[k] = x
      BY <1>10
    <3> QED
      BY <2>1, <2>3, <3>1
  <2> QED
    BY <2>2, <2>3
<1>16. IF \A i \in DOMAIN s : s[i] \notin NotAscii
       THEN Occurrences(w, s) # {} <=> \E k \in DOMAIN FindUniqueChar(s) :
                                         FindUniqueChar(s)[k] = c
       ELSE FindUniqueChar(s) = OutOfBounds
  BY <1>8, <1>11, <1>12, <1>13, <1>15
<1> QED
  BY <1>6, <1>7, <1>16 DEF CharsRight

-----------------------------------------------------------------------------
(* The strix is made of characters of its caller                            *)

\* A function on the numbers from 1 on is a sequence.
LEMMA FunctionIsSeq ==
  ASSUME NEW V, NEW m \in Nat, NEW f \in [1..m -> V]
  PROVE  f \in Seq(V) /\ Len(f) = m
OBVIOUS

\* What SubSeq cuts out of a string, also when it cuts nothing.
LEMMA Cut ==
  ASSUME NEW C, NEW s \in Seq(C), NEW m \in Nat \ {0}, NEW n \in Int, n <= Len(s)
  PROVE  SubSeq(s, m, n) \in Seq(C)
<1>1. Len(s) \in Nat /\ \A i \in 1..Len(s) : s[i] \in C
  BY ElementOfSeq
<1>2. \A i \in m..n : s[i] \in C
  BY <1>1
<1> QED
  BY <1>2, SubSeqProperties

\* g joins the pieces one after another, and has values in V.
Joins(g, pieces, sep, V) ==
  /\ g \in [1..Len(pieces) -> V] /\ g[1] = pieces[1]
  /\ \A k \in 2..Len(pieces) : g[k] = g[k - 1] \o sep \o pieces[k]

\* Joining pieces makes strings of their characters and those of the separator.
LEMMA Joined ==
  ASSUME NEW C, NEW pieces \in Seq(Seq(C)), pieces # <<>>, NEW sep \in Seq(C)
  PROVE  \E g : Joins(g, pieces, sep, Seq(C)) /\ Join(pieces, sep) = g[Len(pieces)]
<1> DEFINE N == Len(pieces)
           G(f) == [k \in 1..N |-> IF k = 1 THEN pieces[1] ELSE f[k - 1] \o sep \o pieces[k]]
           f0 == CHOOSE f : f = G(f)
           F == [x \in Nat \X Seq(C) |->
                   IF x[1] + 1 \in 1..N THEN x[2] \o sep \o pieces[x[1] + 1] ELSE x[2]]
<1>1. Join(pieces, sep) = f0[N]
  BY DEF Join
<1>2. N \in Nat /\ N >= 1 /\ N - 1 \in Nat /\ \A k \in 1..N : pieces[k] \in Seq(C)
  BY EmptySeq, ElementOfSeq
<1>3. F \in [Nat \X Seq(C) -> Seq(C)] /\ pieces[1] \in Seq(C)
  <2>1. ASSUME NEW x \in Nat \X Seq(C)
        PROVE  (IF x[1] + 1 \in 1..N THEN x[2] \o sep \o pieces[x[1] + 1] ELSE x[2]) \in Seq(C)
    <3>1. x[1] \in Nat /\ x[2] \in Seq(C)
      OBVIOUS
    <3>2. CASE x[1] + 1 \in 1..N
      <4>1. pieces[x[1] + 1] \in Seq(C)
        BY <1>2, <3>2
      <4> QED
        BY <3>1, <3>2, <4>1
    <3>3. CASE x[1] + 1 \notin 1..N
      BY <3>1, <3>3
    <3> QED
      BY <3>2, <3>3
  <2> QED
    BY <1>2, <2>1
<1>4. PICK g : Recurs(g, Seq(C), pieces[1], F, N - 1)
  <2> HIDE DEF F, N
  <2> QED
    BY <1>2, <1>3, Recursion
<1>5. \A i \in 1..(N - 1) : F[<<i, g[i - 1]>>] = g[i - 1] \o sep \o pieces[i + 1]
  <2>1. \A i \in 1..(N - 1) : g[i - 1] \in Seq(C) /\ i \in Nat /\ i + 1 \in 1..N
    <3> DEFINE V == Seq(C)
    <3>1. g \in [0..(N - 1) -> V]
      BY <1>4 DEF Recurs
    <3> HIDE DEF V, N
    <3>2. \A i \in 1..(N - 1) : i - 1 \in 0..(N - 1) /\ i \in Nat /\ i + 1 \in 1..N
      BY <1>2
    <3>3. \A i \in 1..(N - 1) : g[i - 1] \in V
      BY <3>1, <3>2
    <3> QED
      BY <3>2, <3>3 DEF V
  <2> HIDE DEF N
  <2> QED
    BY <2>1
<1> HIDE DEF F
<1> DEFINE h == [k \in 1..N |-> g[k - 1]]
<1>6. h = G(h)
  <2>1. ASSUME NEW k \in 1..N
        PROVE  h[k] = IF k = 1 THEN pieces[1] ELSE h[k - 1] \o sep \o pieces[k]
    <3>1. CASE k = 1
      BY <1>4, <3>1 DEF Recurs
    <3>2. CASE k # 1
      <4>1. k - 1 \in 1..(N - 1) /\ k - 1 + 1 = k /\ k - 1 \in 1..N
        BY <1>2, <3>2
      <4>2. g[k - 1] = F[<<k - 1, g[k - 1 - 1]>>]
        BY <1>4, <4>1 DEF Recurs
      <4>3. F[<<k - 1, g[k - 1 - 1]>>] = g[k - 1 - 1] \o sep \o pieces[k]
        BY <1>5, <4>1
      <4> QED
        BY <3>2, <4>1, <4>2, <4>3
    <3> QED
      BY <3>1, <3>2
  <2>2. h = [k \in 1..N |-> h[k]]
    OBVIOUS
  <2> HIDE DEF h
  <2> QED
    BY <2>1, <2>2
<1>7. f0 = G(f0)
  BY <1>6
<1> HIDE DEF f0
<1>8. \A k \in 1..N : f0[k] = IF k = 1 THEN pieces[1] ELSE f0[k - 1] \o sep \o pieces[k]
  BY <1>7
<1>9. \A k \in 1..N : f0[k] \in Seq(C)
  <2> DEFINE S == {k \in 1..N : f0[k] \notin Seq(C)}
  <2> SUFFICES ASSUME S # {} PROVE FALSE
    OBVIOUS
  <2>1. S \in SUBSET Nat
    OBVIOUS
  <2>2. PICK k \in S : \A i \in S : k <= i
    <3> HIDE DEF S
    <3> QED
      BY <2>1, FirstOf
  <2>3. k # 1
    BY <1>2, <1>8, <2>2
  <2>4. k - 1 \in 1..N /\ k - 1 \notin S
    BY <1>2, <2>2, <2>3
  <2>5. f0[k - 1] \in Seq(C) /\ pieces[k] \in Seq(C)
    BY <1>2, <2>2, <2>4
  <2>6. f0[k] = f0[k - 1] \o sep \o pieces[k]
    BY <1>8, <2>2, <2>3
  <2>7. f0[k - 1] \o sep \in Seq(C)
    BY <2>5, ConcatProperties
  <2>8. f0[k] \in Seq(C)
    BY <2>5, <2>6, <2>7, ConcatProperties
  <2> QED
    BY <2>2, <2>8
<1>10. f0 \in [1..N -> Seq(C)]
  <2> DEFINE V == Seq(C)
  <2>1. f0 = [k \in 1..N |-> f0[k]]
    BY <1>7
  <2>2. \A k \in 1..N : f0[k] \in V
    BY <1>9
  <2> HIDE DEF N, V
  <2>3. f0 \in [1..N -> V]
    BY <2>1, <2>2
  <2> QED
    BY <2>3 DEF V
<1>11. 1 \in 1..N /\ \A k \in 2..N : k \in 1..N /\ k # 1
  BY <1>2
<1>12. Joins(f0, pieces, sep, Seq(C))
  BY <1>8, <1>10, <1>11 DEF Joins
<1> QED
  BY <1>1, <1>12

\* Where the k'th piece begins and ends.
Begin(pos, n, k) == IF k = 1 THEN 0 ELSE pos[k - 1] + n
End(s, pos, k) == IF k <= Len(pos) THEN pos[k] ELSE Len(s)

\* The pieces between cuts.
LEMMA Pieces ==
  ASSUME NEW V, NEW s \in Seq(V), NEW n \in Nat, NEW pos \in Seq(Int),
         \A k \in 1..Len(pos) : pos[k] \in 0..Len(s)
  PROVE  /\ Between(s, pos, n) \in Seq(Seq(V)) /\ Len(Between(s, pos, n)) = Len(pos) + 1
         /\ \A k \in 1..(Len(pos) + 1) :
              Between(s, pos, n)[k] = SubSeq(s, Begin(pos, n, k) + 1, End(s, pos, k))
<1> DEFINE behind == [k \in DOMAIN pos |-> pos[k] + n]
           from == <<0>> \o behind
           to == pos \o <<Len(s)>>
           m == Len(pos) + 1
           B == Between(s, pos, n)
<1>1. Len(s) \in Nat /\ Len(pos) \in Nat /\ m \in Nat /\ DOMAIN pos = 1..Len(pos)
  OBVIOUS
<1>2. Between(s, pos, n) = [k \in DOMAIN to |-> SubSeq(s, from[k] + 1, to[k])]
  BY DEF Between
<1>3. DOMAIN to = 1..m /\ \A k \in 1..m : to[k] = End(s, pos, k)
  <2>1. /\ to \in Seq(Int) /\ Len(to) = Len(pos) + 1 /\ to[Len(pos) + 1] = Len(s)
        /\ \A k \in 1..Len(pos) : to[k] = pos[k]
    BY <1>1
  <2> HIDE DEF to
  <2>2. \A k \in 1..m : \/ k <= Len(pos) /\ k \in 1..Len(pos)
                        \/ k = Len(pos) + 1 /\ ~ (k <= Len(pos))
    BY <1>1
  <2>3. DOMAIN to = 1..m
    BY <2>1
  <2> QED
    BY <2>1, <2>2, <2>3 DEF End
<1>4. \A k \in 1..m : from[k] = Begin(pos, n, k) /\ from[k] \in Nat
  <2>1. <<0>> \in Seq(Nat) /\ Len(<<0>>) = 1 /\ <<0>>[1] = 0
    OBVIOUS
  <2>2. behind \in [1..Len(pos) -> Nat] /\ \A k \in 1..Len(pos) : behind[k] = pos[k] + n
    BY <1>1
  <2> HIDE DEF behind
  <2>3. behind \in Seq(Nat) /\ Len(behind) = Len(pos)
    BY <1>1, <2>2, FunctionIsSeq
  <2>4. from \in Seq(Nat) /\ Len(from) = 1 + Len(pos)
        /\ \A k \in 1..(1 + Len(pos)) : from[k] = IF k <= 1 THEN <<0>>[k] ELSE behind[k - 1]
    BY <2>1, <2>3, ConcatProperties
  <2> HIDE DEF from
  <2> SUFFICES ASSUME NEW k \in 1..m PROVE from[k] = Begin(pos, n, k) /\ from[k] \in Nat
    OBVIOUS
  <2>5. k \in 1..(1 + Len(pos)) /\ k \in 1..Len(from)
    BY <1>1, <2>4
  <2>6. from[k] \in Nat
    BY <2>4, <2>5, ElementOfSeq
  <2>7. CASE k = 1
    BY <2>1, <2>4, <2>5, <2>6, <2>7 DEF Begin
  <2>8. CASE k # 1
    <3>1. k - 1 \in 1..Len(pos) /\ ~ (k <= 1)
      BY <1>1, <2>8
    <3>2. from[k] = behind[k - 1] /\ behind[k - 1] = pos[k - 1] + n
      BY <2>2, <2>4, <2>5, <3>1
    <3> QED
      BY <2>6, <2>8, <3>2 DEF Begin
  <2> QED
    BY <2>7, <2>8
<1> HIDE DEF from, to
<1>5. B = [k \in 1..m |-> SubSeq(s, Begin(pos, n, k) + 1, End(s, pos, k))]
  <2>1. \A k \in 1..m : SubSeq(s, from[k] + 1, to[k]) = SubSeq(s, Begin(pos, n, k) + 1, End(s, pos, k))
    BY <1>3, <1>4
  <2> HIDE DEF m
  <2> QED
    BY <1>2, <1>3, <2>1
<1>6. \A k \in 1..m : SubSeq(s, Begin(pos, n, k) + 1, End(s, pos, k)) \in Seq(V)
  <2> SUFFICES ASSUME NEW k \in 1..m
               PROVE  SubSeq(s, Begin(pos, n, k) + 1, End(s, pos, k)) \in Seq(V)
    OBVIOUS
  <2>1. Begin(pos, n, k) \in Nat
    BY <1>4
  <2>2. End(s, pos, k) \in Int /\ End(s, pos, k) <= Len(s)
    <3>1. CASE k <= Len(pos)
      BY <1>1, <3>1 DEF End
    <3>2. CASE ~ (k <= Len(pos))
      BY <1>1, <3>2 DEF End
    <3> QED
      BY <3>1, <3>2
  <2>3. Begin(pos, n, k) + 1 \in Nat \ {0}
    BY <2>1
  <2> QED
    BY <2>2, <2>3, Cut
<1>7. B \in Seq(Seq(V)) /\ Len(B) = m
  <2> DEFINE W == Seq(V)
  <2>1. \A k \in 1..m : SubSeq(s, Begin(pos, n, k) + 1, End(s, pos, k)) \in W
    BY <1>6
  <2> HIDE DEF W, B, m
  <2>2. B \in [1..m -> W]
    BY <1>5, <2>1
  <2>3. B \in Seq(W) /\ Len(B) = m
    BY <1>1, <2>2, FunctionIsSeq
  <2> QED
    BY <2>3 DEF W
<1> HIDE DEF B
<1>8. \A k \in 1..m : B[k] = SubSeq(s, Begin(pos, n, k) + 1, End(s, pos, k))
  BY <1>5
<1> QED
  BY <1>7, <1>8 DEF B

\* What is left after a deletion.
LEMMA DeletedChars ==
  ASSUME NEW C, NEW s \in Seq(C), NEW w \in Seq(C), w # <<>>,
         KmpSearchAll(w, s).len # NotFound
  PROVE  Deleted(s, KmpSearchAll(w, s), Len(w)) \in Seq(C)
<1> DEFINE pos == KmpSearchAll(w, s).pos
           n == Len(w)
           pieces == Between(s, pos, n)
<1>1. n \in Nat /\ Len(s) \in Nat
  OBVIOUS
<1>2. pos = FoundPos(w, s) /\ FoundPos(w, s) \in Seq(Int)
      /\ AllRight(KmpSearchAll(w, s), Occurrences(w, s), w, s)
  BY AllFound
<1>3. \A k \in 1..Len(pos) : pos[k] \in 0..Len(s)
  <2>1. \A k \in DOMAIN pos : pos[k] \in Occurrences(w, s)
    BY <1>2 DEF AllRight
  <2> QED
    BY <1>1, <1>2, <2>1 DEF Occurrences
<1>4. pos \in Seq(Int) /\ Len(pos) \in Nat
  BY <1>2
<1> HIDE DEF pos, n
<1>5. pieces \in Seq(Seq(C)) /\ Len(pieces) = Len(pos) + 1
  BY <1>1, <1>3, <1>4, Pieces
<1>6. pieces # <<>> /\ Len(pieces) \in 1..Len(pieces)
  BY <1>4, <1>5, EmptySeq
<1>7. <<>> \in Seq(C)
  OBVIOUS
<1> HIDE DEF pieces
<1>8. PICK g : Joins(g, pieces, <<>>, Seq(C)) /\ Join(pieces, <<>>) = g[Len(pieces)]
  BY <1>5, <1>6, <1>7, Joined
<1>9. Join(pieces, <<>>) \in Seq(C)
  BY <1>6, <1>8 DEF Joins
<1> QED
  BY <1>9 DEF Deleted, pieces, pos, n

\* Trimming leaves a part of the string.
LEMMA TrimmedChars ==
  ASSUME NEW C, NEW s \in Seq(C), NEW W, Trimmed(s, W) # NoStr
  PROVE  Trimmed(s, W) \in Seq(C)
<1> DEFINE kept == {i \in DOMAIN s : s[i] \notin W}
           first == CHOOSE i \in kept : \A k \in kept : i <= k
           last == CHOOSE i \in kept : \A k \in kept : i >= k
<1>1. Trimmed(s, W) = IF s = <<>> THEN s
                      ELSE IF kept = {} THEN NoStr ELSE SubSeq(s, first, last)
  BY DEF Trimmed
<1>2. kept \in SUBSET (1..Len(s)) /\ Len(s) \in Nat
  OBVIOUS
<1>3. ASSUME kept # {} PROVE first \in 1..Len(s) /\ last \in 1..Len(s)
  <2>1. kept \in SUBSET Nat /\ kept \in SUBSET (0..Len(s))
    BY <1>2
  <2>2. \E i \in kept : \A k \in kept : i <= k
    <3> HIDE DEF kept
    <3> QED
      BY <1>3, <2>1, FirstOf
  <2>3. \E i \in kept : \A k \in kept : k <= i
    <3> HIDE DEF kept
    <3> QED
      BY <1>2, <1>3, <2>1, LastOf
  <2>4. \A i, k \in kept : k <= i <=> i >= k
    BY <2>1
  <2> HIDE DEF kept
  <2>5. \E i \in kept : \A k \in kept : i >= k
    BY <2>3, <2>4
  <2>6. first \in kept /\ last \in kept
    BY <2>2, <2>5
  <2> QED
    BY <1>2, <2>6
<1> HIDE DEF kept, first, last
<1>4. ASSUME kept # {} PROVE SubSeq(s, first, last) \in Seq(C)
  <2>1. first \in Nat \ {0} /\ last \in Int /\ last <= Len(s)
    BY <1>2, <1>3, <1>4
  <2> QED
    BY <2>1, Cut
<1> QED
  BY <1>1, <1>4

-----------------------------------------------------------------------------
\* The strix is made of characters its caller has passed.
StrixInv == words \in WordSets /\ (str # NoStr => str \in Seq(Char))

\* The words of a caller are strings of its characters.
LEMMA WordsAreStrings ==
  ASSUME words \in WordSets
  PROVE  \A w \in words : w \in Seq(Char)
<1> SUFFICES ASSUME NEW w \in words PROVE w \in Seq(Char)
  OBVIOUS
<1>1. w \in Seq({w[i] : i \in DOMAIN w})
  BY StrixAssumption
<1>2. {w[i] : i \in DOMAIN w} \subseteq Char
  BY DEF Char
<1> QED
  BY <1>1, <1>2, SeqMonotonic

\* A new strix is one of the caller's words, or empty.
LEMMA StrixStarts ==
  ASSUME StrixInit
  PROVE  StrixInv
<1>1. words \in WordSets /\ \A w \in words : w \in Seq(Char)
  BY WordsAreStrings DEF StrixInit
<1>2. str \in {Create(w) : w \in words \ {<<>>}} \cup {<<>>}
  BY DEF StrixInit
<1> QED
  BY <1>1, <1>2, EmptySeq DEF StrixInv, Create

\* No edit brings in another character.
LEMMA StrixStep ==
  ASSUME StrixInv, [StrixNext]_strixVars
  PROVE  StrixInv'
<1> DEFINE Kept == words' = words /\ (str' # NoStr => str' \in Seq(Char))
<1>1. Kept => StrixInv'
  BY DEF StrixInv, Char
<1>2. \A w \in words : w \in Seq(Char)
  BY WordsAreStrings DEF StrixInv
<1>3. words \in WordSets /\ (str # NoStr => str \in Seq(Char)) /\ Stored(str) \in Seq(Char)
  BY EmptySeq DEF StrixInv, Stored
<1>4. \A s : Becomes(s) /\ (s # NoStr => s \in Seq(Char)) => Kept
  BY DEF Becomes
<1>5. Lost => Kept
  BY DEF Lost
<1>6. ASSUME NEW w \in words, AppendStr(w) PROVE Kept
  <2>1. Stored(str) \o w \in Seq(Char)
    BY <1>2, <1>3, ConcatProperties
  <2> QED
    BY <1>4, <1>6, <2>1 DEF AppendStr
<1>7. ASSUME NEW w \in words, Concat(w) PROVE Kept
  <2>1. Stored(w) \in Seq(Char)
    BY <1>2, EmptySeq DEF Stored
  <2>2. Stored(str) \o Stored(w) \in Seq(Char)
    BY <1>3, <2>1, ConcatProperties
  <2> QED
    BY <1>4, <1>7, <2>2 DEF Concat
<1>8. ASSUME NEW w \in words, NEW pos \in 0..(MaxLen - 1), InsertAt(w, pos) PROVE Kept
  <2>1. str \in Seq(Char) /\ w \in Seq(Char) /\ pos < Len(str) /\ Len(str) \in Nat /\ pos \in Nat
    BY <1>2, <1>3, <1>8 DEF InsertAt
  <2>2. PICK b \in Char :
          Becomes(SubSeq(str, 1, pos) \o w \o SubSeq(str, 1, Len(str) - pos - 1) \o <<b>>)
    BY <1>8 DEF InsertAt
  <2>3. SubSeq(str, 1, pos) \in Seq(Char)
    BY <2>1, Cut
  <2>4. SubSeq(str, 1, Len(str) - pos - 1) \in Seq(Char)
    BY <2>1, Cut
  <2>5. <<b>> \in Seq(Char)
    OBVIOUS
  <2>6. SubSeq(str, 1, pos) \o w \in Seq(Char)
    BY <2>1, <2>3, ConcatProperties
  <2>7. SubSeq(str, 1, pos) \o w \o SubSeq(str, 1, Len(str) - pos - 1) \in Seq(Char)
    BY <2>4, <2>6, ConcatProperties
  <2>8. SubSeq(str, 1, pos) \o w \o SubSeq(str, 1, Len(str) - pos - 1) \o <<b>> \in Seq(Char)
    BY <2>5, <2>7, ConcatProperties
  <2> QED
    BY <1>4, <2>2, <2>8
<1>9. ASSUME NEW w \in words, DeleteOccurence(w) PROVE Kept
  <2> DEFINE found == KmpSearchAll(w, str)
             n == Len(w)
  <2>1. str \in Seq(Char) /\ w \in Seq(Char) /\ Len(w) \in Nat
    BY <1>2, <1>3, <1>9 DEF DeleteOccurence
  <2>2. w # <<>>
    BY <1>9 DEF DeleteOccurence, KmpSearchAll
  <2>3. CASE found.len = NotFound /\ \E tail \in [1..(2 * n) -> Char] : Becomes(str \o tail)
    <3>1. PICK tail \in [1..(2 * n) -> Char] : Becomes(str \o tail)
      BY <2>3
    <3>2. tail \in Seq(Char)
      <4> DEFINE m == 2 * n
      <4>1. m \in Nat /\ tail \in [1..m -> Char]
        BY <2>1
      <4> HIDE DEF m
      <4> QED
        BY <4>1, FunctionIsSeq
    <3>3. str \o tail \in Seq(Char)
      BY <2>1, <3>2, ConcatProperties
    <3> QED
      BY <1>4, <3>1, <3>3
  <2>4. CASE /\ found.len # NotFound
             /\ IF DeleteOverruns(found, n) THEN Lost ELSE Becomes(Deleted(str, found, n))
    <3>1. Deleted(str, found, n) \in Seq(Char)
      BY <2>1, <2>2, <2>4, DeletedChars
    <3> QED
      BY <1>4, <1>5, <2>4, <3>1
  <2> QED
    BY <1>9, <2>3, <2>4 DEF DeleteOccurence
<1>10. ASSUME NEW len \in 0..MaxLen, NEW pos \in 0..MaxLen, Erase(len, pos) PROVE Kept
  <2>1. str \in Seq(Char) /\ Len(str) \in Nat /\ pos \in Nat /\ pos < Len(str) /\ len \in Nat
    BY <1>3, <1>10, StrixAssumption DEF Erase
  <2>2. ErasedLen(str, len, pos) \in Nat
    BY <2>1 DEF ErasedLen
  <2>3. SubSeq(str, 1, pos + 1) \in Seq(Char)
    BY <2>1, Cut
  <2>4. SubSeq(str, pos + ErasedLen(str, len, pos) + 2, Len(str)) \in Seq(Char)
    <3> DEFINE m == pos + ErasedLen(str, len, pos) + 2
    <3>1. m \in Nat \ {0}
      BY <2>1, <2>2
    <3> HIDE DEF m
    <3>2. SubSeq(str, m, Len(str)) \in Seq(Char)
      BY <2>1, <3>1, Cut
    <3> QED
      BY <3>2 DEF m
  <2>5. Erased(str, len, pos) \in Seq(Char)
    BY <2>3, <2>4, ConcatProperties DEF Erased
  <2> QED
    BY <1>4, <1>5, <1>10, <2>5 DEF Erase
<1>11. ASSUME NEW W, str # NoStr, Becomes(Trimmed(str, W)) PROVE Kept
  BY <1>3, <1>4, <1>11, TrimmedChars
<1>12. ASSUME UNCHANGED strixVars PROVE Kept
  BY <1>3, <1>12 DEF strixVars
<1>13. CASE StrixNext
  <2>1. ASSUME NEW w \in words, Edit(w) PROVE Kept
    <3>1. CASE \E pos \in 0..(MaxLen - 1) : InsertStr(w, pos) \/ Insert(w, pos)
      BY <1>8, <3>1 DEF InsertStr, Insert
    <3> QED
      BY <1>5, <1>6, <1>7, <1>9, <2>1, <3>1 DEF Edit, Modify
  <2>2. Clear => Kept
    BY <1>4 DEF Clear
  <2>3. (TrimWhitespace \/ \E c \in Char : TrimChar(c)) => Kept
    BY <1>11 DEF TrimWhitespace, TrimChar
  <2>4. (SearchOverruns \/ \E w \in words : SplitOverruns(w)) => Kept
    <3> HIDE DEF Kept
    <3> QED
      BY <1>5 DEF SearchOverruns, SplitOverruns, Overruns
  <2> HIDE DEF Kept
  <2> QED
    BY <1>1, <1>10, <1>13, <2>1, <2>2, <2>3, <2>4 DEF StrixNext
<1> QED
  BY <1>1, <1>12, <1>13

\* The characters of a strix are its caller's, whatever edits it makes (and the memory
\* an edit does not store to is one of them, by definition).
THEOREM StrixCharacters == StrixSpec => []StrixInv
<1>1. StrixInit => StrixInv
  BY StrixStarts
<1>2. StrixInv /\ [StrixNext]_strixVars => StrixInv'
  BY StrixStep
<1> QED
  BY <1>1, <1>2, PTL DEF StrixSpec

\* Whatever the strix has become, the searches of string_search.c find every occurrence
\* of any pattern in it, the overlapping ones too, each once, in order, and nothing
\* else; and those for one character agree with them, as far as their arrays reach.
THEOREM SearchesAreExact == StrixSpec => []SearchExact
<1>1. StrixInv => SearchExact
  <2> SUFFICES ASSUME StrixInv, Readable, NEW w \in words \ {<<>>}
               PROVE  LET found == KmpSearchAll(w, str)
                          there == Occurrences(w, str)
                      IN  /\ {found.pos[k] : k \in DOMAIN found.pos} = there
                          /\ \A k \in 1..(Len(found.pos) - 1) : found.pos[k] < found.pos[k + 1]
                          /\ found.len = IF Len(w) > Len(str) THEN -1
                                         ELSE IF there = {} THEN NotFound ELSE Cardinality(there)
                          /\ KmpSearchAllLen(w, str) = Cardinality(there)
                          /\ KmpSearch(w, str) = NotFound <=> there = {}
                          /\ Len(w) = 1 =>
                               /\ FindAllChar(str, w[1]) = IF Cardinality(there) > MaxPositions
                                                           THEN OutOfBounds ELSE found.pos
                               /\ CountChar(str, w[1]) = KmpSearchAllLen(w, str)
                               /\ IF \A i \in DOMAIN str : str[i] \notin NotAscii
                                  THEN there # {} <=> \E k \in DOMAIN FindUniqueChar(str) :
                                                        FindUniqueChar(str)[k] = w[1]
                                  ELSE FindUniqueChar(str) = OutOfBounds
    BY DEF SearchExact
  <2>1. str \in Seq(Char) /\ w \in Seq(Char) /\ w # <<>>
    BY WordsAreStrings DEF StrixInv, Readable
  <2>2. AllRight(KmpSearchAll(w, str), Occurrences(w, str), w, str)
    BY <2>1, AllFound
  <2>3. KmpSearchAllLen(w, str) = Cardinality(Occurrences(w, str))
    BY <2>1, MatchesExact DEF KmpSearchAllLen
  <2>4. KmpSearch(w, str) = NotFound <=> Occurrences(w, str) = {}
    BY <2>1, OneFound
  <2>5. Len(w) = 1 => CharsRight(w, str)
    BY <2>1, CharsFound
  <2> QED
    BY <2>2, <2>3, <2>4, <2>5 DEF AllRight, CharsRight
<1> QED
  BY <1>1, StrixCharacters, PTL

-----------------------------------------------------------------------------
(* What the edits leave                                                     *)

\* q goes up.
Rising(q) == \A k, h \in 1..Len(q) : k < h => q[k] < q[h]

\* Only one sequence goes up through all of S.
LEMMA AscendingOnly ==
  ASSUME NEW n \in Nat, NEW S \in SUBSET (1..n), NEW q \in Seq(Nat), Rising(q),
         \A k \in 1..Len(q) : q[k] \in S,
         \A x \in S : \E k \in 1..Len(q) : q[k] = x
  PROVE  q = Ascending(S, n)
<1> DEFINE a == Ascending(S, n)
<1>1. /\ a \in Seq(S) /\ Len(a) \in Nat /\ Len(q) \in Nat
      /\ \A x \in S : \E k \in 1..Len(a) : a[k] = x
      /\ \A k, h \in 1..Len(a) : k < h => a[k] < a[h]
  BY AscendingExact
<1>2. /\ \A k \in 1..Len(q) : q[k] \in Nat
      /\ \A k \in 1..Len(a) : a[k] \in Nat /\ a[k] \in S
  <2>1. \A k \in 1..Len(a) : a[k] \in S
    BY <1>1, ElementOfSeq
  <2>2. \A k \in 1..Len(q) : q[k] \in Nat
    BY ElementOfSeq
  <2> QED
    BY <2>1, <2>2
<1> HIDE DEF a
<1> DEFINE D == {k \in Nat : k \in 1..Len(a) /\ k \in 1..Len(q) /\ a[k] # q[k]}
<1>3. D = {}
  <2> SUFFICES ASSUME D # {} PROVE FALSE
    OBVIOUS
  <2>1. D \in SUBSET Nat
    OBVIOUS
  <2>2. PICK k \in D : \A h \in D : k <= h
    <3> HIDE DEF D
    <3> QED
      BY <2>1, FirstOf
  <2>3. /\ k \in 1..Len(a) /\ k \in 1..Len(q) /\ a[k] # q[k]
        /\ \A h \in 1..(k - 1) : a[h] = q[h]
    <3>1. k \in 1..Len(a) /\ k \in 1..Len(q) /\ a[k] # q[k]
      BY <2>2
    <3>2. ASSUME NEW h \in 1..(k - 1) PROVE a[h] = q[h]
      <4>1. h \in Nat /\ h < k /\ h \in 1..Len(a) /\ h \in 1..Len(q)
        BY <1>1, <3>1
      <4>2. h \notin D
        BY <2>1, <2>2, <4>1
      <4> QED
        BY <4>1, <4>2
    <3> QED
      BY <3>1, <3>2
  <2> HIDE DEF D
  <2>4. CASE q[k] < a[k]
    <3>1. PICK h \in 1..Len(a) : a[h] = q[k]
      BY <1>1, <2>3
    <3>2. h < k
      <4>1. ~ (k < h)
        <5>1. k < h => a[k] < a[h]
          BY <1>1, <2>3
        <5>2. a[k] \in Nat /\ q[k] \in Nat
          BY <1>2, <2>3
        <5> QED
          BY <2>4, <3>1, <5>1, <5>2
      <4> QED
        BY <2>3, <3>1, <4>1
    <3>3. h \in 1..(k - 1) /\ h \in 1..Len(q)
      BY <1>1, <2>3, <3>2
    <3> QED
      BY <1>2, <2>3, <3>1, <3>2, <3>3 DEF Rising
  <2>5. CASE a[k] < q[k]
    <3>1. PICK h \in 1..Len(q) : q[h] = a[k]
      BY <1>2, <2>3
    <3>2. h < k
      BY <1>1, <1>2, <2>3, <2>5, <3>1 DEF Rising
    <3>3. h \in 1..(k - 1) /\ h \in 1..Len(a)
      BY <1>1, <2>3, <3>2
    <3> QED
      BY <1>1, <1>2, <2>3, <3>1, <3>2, <3>3
  <2> QED
    BY <1>2, <2>3, <2>4, <2>5
<1>4. \A k \in 1..Len(a) : k \in 1..Len(q) => a[k] = q[k]
  <2>1. \A k \in 1..Len(a) : k \in Nat
    BY <1>1
  <2> QED
    BY <1>3, <2>1
<1> HIDE DEF D
<1>5. Len(a) = Len(q)
  <2>1. CASE Len(a) < Len(q)
    <3>1. Len(a) + 1 \in 1..Len(q)
      BY <1>1, <2>1
    <3>2. PICK h \in 1..Len(a) : a[h] = q[Len(a) + 1]
      BY <1>1, <3>1
    <3>3. h \in 1..Len(q) /\ h < Len(a) + 1 /\ q[h] = a[h]
      BY <1>1, <1>4, <2>1
    <3> QED
      BY <1>2, <3>1, <3>2, <3>3 DEF Rising
  <2>2. CASE Len(q) < Len(a)
    <3>1. Len(q) + 1 \in 1..Len(a)
      BY <1>1, <2>2
    <3>2. PICK h \in 1..Len(q) : q[h] = a[Len(q) + 1]
      BY <1>2, <3>1
    <3>3. h \in 1..Len(a) /\ h < Len(q) + 1 /\ q[h] = a[h]
      BY <1>1, <1>4, <2>2
    <3>4. a[h] < a[Len(q) + 1] /\ a[h] \in Nat /\ a[Len(q) + 1] \in Nat
      BY <1>1, <1>2, <3>1, <3>3
    <3> QED
      BY <3>2, <3>3, <3>4
  <2> QED
    BY <1>1, <2>1, <2>2
<1> QED
  BY <1>1, <1>4, <1>5 DEF a

\* t is made of the first m characters of s, without those at the positions of C.
Picks(t, s, m, C) ==
  \E q \in Seq(Nat) :
    /\ Rising(q)
    /\ \A k \in 1..Len(q) : q[k] \in 1..m /\ q[k] - 1 \notin C
    /\ \A x \in 1..m : x - 1 \notin C => \E k \in 1..Len(q) : q[k] = x
    /\ t = [k \in 1..Len(q) |-> s[q[k]]]

\* When it is made of all of s, it is what Without says.
LEMMA Picked ==
  ASSUME NEW V, NEW s \in Seq(V), NEW C, NEW t, Picks(t, s, Len(s), C)
  PROVE  t = Without(s, C)
<1> DEFINE S == {i \in DOMAIN s : i - 1 \notin C}
<1>1. PICK q \in Seq(Nat) :
        /\ Rising(q)
        /\ \A k \in 1..Len(q) : q[k] \in 1..Len(s) /\ q[k] - 1 \notin C
        /\ \A x \in 1..Len(s) : x - 1 \notin C => \E k \in 1..Len(q) : q[k] = x
        /\ t = [k \in 1..Len(q) |-> s[q[k]]]
  BY DEF Picks
<1>2. S \in SUBSET (1..Len(s)) /\ Len(s) \in Nat
  OBVIOUS
<1>3. /\ \A k \in 1..Len(q) : q[k] \in S
      /\ \A x \in S : \E k \in 1..Len(q) : q[k] = x
  BY <1>1
<1>4. q = Ascending(S, Len(s))
  <2> HIDE DEF S
  <2> QED
    BY <1>1, <1>2, <1>3, AscendingOnly
<1>5. DOMAIN q = 1..Len(q)
  OBVIOUS
<1> QED
  BY <1>1, <1>4, <1>5 DEF Without, ElementsAt

\* Of no characters, none are left.
LEMMA PicksNothing ==
  ASSUME NEW s, NEW C
  PROVE  Picks(<<>>, s, 0, C)
<1>1. <<>> \in Seq(Nat) /\ Len(<<>>) = 0 /\ 1..0 = {}
  OBVIOUS
<1>2. <<>> = [k \in 1..0 |-> s[<<>>[k]]]
  OBVIOUS
<1> QED
  BY <1>1, <1>2 DEF Picks, Rising

\* After characters that are left out come some that are not.
LEMMA PicksMore ==
  ASSUME NEW V, NEW s \in Seq(V), NEW C, NEW m \in Nat, NEW t, Picks(t, s, m, C),
         NEW a \in Nat, m <= a, NEW b \in Nat, a <= b, b <= Len(s),
         \A i \in m..(a - 1) : i \in C,
         \A i \in a..(b - 1) : i \notin C
  PROVE  Picks(t \o SubSeq(s, a + 1, b), s, b, C)
<1>1. PICK q \in Seq(Nat) :
        /\ Rising(q)
        /\ \A k \in 1..Len(q) : q[k] \in 1..m /\ q[k] - 1 \notin C
        /\ \A x \in 1..m : x - 1 \notin C => \E k \in 1..Len(q) : q[k] = x
        /\ t = [k \in 1..Len(q) |-> s[q[k]]]
  BY DEF Picks
<1> DEFINE L == Len(q)
           r == [k \in 1..(L + b - a) |-> IF k <= L THEN q[k] ELSE a + (k - L)]
<1>2. L \in Nat /\ Len(s) \in Nat /\ L + b - a \in Nat /\ \A k \in 1..L : q[k] \in Nat
  OBVIOUS
<1> HIDE DEF L
<1>3. \A k \in 1..(L + b - a) : r[k] = IF k <= L THEN q[k] ELSE a + (k - L)
  OBVIOUS
<1>4. r \in Seq(Nat) /\ Len(r) = L + b - a
  <2>1. r \in [1..(L + b - a) -> Nat]
    BY <1>2
  <2> HIDE DEF r
  <2> QED
    BY <1>2, <2>1, FunctionIsSeq
<1> HIDE DEF r
<1>5. \A k \in 1..(L + b - a) : \/ k \in 1..L /\ r[k] = q[k]
                                \/ k - L \in 1..(b - a) /\ k > L /\ r[k] = a + (k - L)
  BY <1>2, <1>3
<1>6. Rising(r)
  <2> SUFFICES ASSUME NEW k \in 1..(L + b - a), NEW h \in 1..(L + b - a), k < h
               PROVE  r[k] < r[h]
    BY <1>4 DEF Rising
  <2>1. CASE h \in 1..L
    <3>1. k \in 1..L
      BY <1>2, <2>1
    <3>2. r[k] = q[k] /\ r[h] = q[h]
      BY <1>2, <1>3, <2>1, <3>1
    <3>3. q[k] < q[h]
      BY <1>1, <2>1, <3>1 DEF Rising, L
    <3> QED
      BY <3>2, <3>3
  <2>2. CASE h \notin 1..L /\ k \in 1..L
    <3>1. r[h] > a
      BY <1>2, <1>5, <2>2
    <3>2. r[k] <= m /\ r[k] \in Nat
      BY <1>1, <1>2, <1>3, <2>2 DEF L
    <3>3. r[h] \in Nat
      BY <1>4, ElementOfSeq
    <3> QED
      BY <3>1, <3>2, <3>3
  <2>3. CASE h \notin 1..L /\ k \notin 1..L
    BY <1>2, <1>5, <2>3
  <2> QED
    BY <2>1, <2>2, <2>3
<1>7. \A k \in 1..Len(r) : r[k] \in 1..b /\ r[k] - 1 \notin C
  <2> SUFFICES ASSUME NEW k \in 1..(L + b - a) PROVE r[k] \in 1..b /\ r[k] - 1 \notin C
    BY <1>4
  <2>1. CASE k \in 1..L
    <3>1. r[k] = q[k]
      BY <1>2, <1>3, <2>1
    <3>2. q[k] \in 1..m /\ q[k] - 1 \notin C
      BY <1>1, <2>1 DEF L
    <3>3. q[k] \in 1..b
      BY <3>2
    <3> QED
      BY <3>1, <3>2, <3>3
  <2>2. CASE k \notin 1..L
    <3>1. r[k] = a + (k - L) /\ k - L \in 1..(b - a)
      BY <1>2, <1>5, <2>2
    <3>2. r[k] \in 1..b /\ r[k] - 1 \in a..(b - 1)
      BY <1>2, <3>1
    <3> QED
      BY <3>2
  <2> QED
    BY <2>1, <2>2
<1>8. \A x \in 1..b : x - 1 \notin C => \E k \in 1..Len(r) : r[k] = x
  <2> SUFFICES ASSUME NEW x \in 1..b, x - 1 \notin C PROVE \E k \in 1..(L + b - a) : r[k] = x
    BY <1>4
  <2>1. CASE x <= m
    <3>1. PICK k \in 1..L : q[k] = x
      BY <1>1, <2>1 DEF L
    <3>2. k \in 1..(L + b - a) /\ r[k] = x
      BY <1>2, <1>3, <3>1
    <3> QED
      BY <3>2
  <2>2. CASE x > m
    <3>1. x - 1 \in a..(b - 1)
      <4>1. x - 1 \in Nat /\ x - 1 >= m /\ x - 1 <= b - 1
        BY <2>2
      <4>2. ~ (x - 1 \in m..(a - 1))
        OBVIOUS
      <4> QED
        BY <4>1, <4>2
    <3> DEFINE k == L + (x - a)
    <3>2. k \in 1..(L + b - a) /\ ~ (k <= L) /\ a + (k - L) = x
      BY <1>2, <3>1
    <3> HIDE DEF k
    <3>3. r[k] = x
      BY <1>3, <3>2
    <3> QED
      BY <3>2, <3>3
  <2> QED
    BY <2>1, <2>2
<1>9. t \o SubSeq(s, a + 1, b) = [k \in 1..Len(r) |-> s[r[k]]]
  <2> DEFINE u == SubSeq(s, a + 1, b)
  <2>1. \A k \in 1..(L + b - a) : r[k] \in 1..Len(s)
    BY <1>2, <1>4, <1>7
  <2>2. t \in Seq(V) /\ Len(t) = L /\ \A k \in 1..L : t[k] = s[q[k]]
    <3>1. \A k \in 1..L : q[k] \in 1..Len(s)
      BY <1>1, <1>2 DEF L
    <3>2. t = [k \in 1..L |-> s[q[k]]]
      BY <1>1 DEF L
    <3>3. t \in [1..L -> V]
      BY <3>1, <3>2, ElementOfSeq
    <3> QED
      BY <1>2, <3>2, <3>3, FunctionIsSeq
  <2>3. u \in Seq(V) /\ Len(u) = b - a /\ \A k \in 1..(b - a) : u[k] = s[a + k]
    <3>1. a + 1 \in Int /\ b \in Int /\ \A i \in (a + 1)..b : s[i] \in V
      BY ElementOfSeq
    <3>2. u \in Seq(V)
      BY <3>1, SubSeqProperties
    <3>3. Len(u) = IF a + 1 <= b THEN b - (a + 1) + 1 ELSE 0
      BY <3>1, SubSeqProperties
    <3>4. \A k \in 1..(b - (a + 1) + 1) : u[k] = s[(a + 1) + k - 1]
      BY <3>1, SubSeqProperties
    <3>5. b - (a + 1) + 1 = b - a
      OBVIOUS
    <3>6. \A k \in 1..(b - a) : (a + 1) + k - 1 = a + k
      OBVIOUS
    <3> HIDE DEF u
    <3> QED
      BY <3>2, <3>3, <3>4, <3>5, <3>6
  <2> HIDE DEF u
  <2> DEFINE v == t \o u
  <2>4. v \in Seq(V) /\ Len(v) = L + b - a
        /\ \A k \in 1..(L + b - a) : v[k] = IF k <= L THEN t[k] ELSE u[k - L]
    <3>1. L + (b - a) = L + b - a
      BY <1>2
    <3> QED
      BY SMTT(30), <2>2, <2>3, <3>1, ConcatProperties
  <2> HIDE DEF v
  <2>5. \A k \in 1..(L + b - a) : v[k] = s[r[k]]
    <3> SUFFICES ASSUME NEW k \in 1..(L + b - a) PROVE v[k] = s[r[k]]
      OBVIOUS
    <3>1. CASE k <= L
      <4>1. k \in 1..L /\ r[k] = q[k] /\ v[k] = t[k]
        BY <1>2, <1>3, <2>4, <3>1
      <4> QED
        BY <2>2, <4>1
    <3>2. CASE k > L
      <4>1. k - L \in 1..(b - a) /\ r[k] = a + (k - L)
        BY <1>2, <1>3, <3>2
      <4>2. v[k] = u[k - L]
        BY <1>2, <2>4, <3>2
      <4> QED
        BY <2>3, <4>1, <4>2
    <3> QED
      BY <1>2, <3>1, <3>2
  <2>6. v = [k \in 1..(L + b - a) |-> v[k]]
    <3> DEFINE n == L + b - a
    <3>1. v \in Seq(V) /\ Len(v) = n
      BY <2>4
    <3> HIDE DEF n
    <3>2. v = [k \in 1..n |-> v[k]]
      BY <3>1
    <3> QED
      BY <3>2 DEF n
  <2>7. v = [k \in 1..(L + b - a) |-> s[r[k]]]
    BY <2>5, <2>6
  <2> QED
    BY <1>4, <2>7 DEF u, v
<1> QED
  BY <1>4, <1>6, <1>7, <1>8, <1>9 DEF Picks

\* An erasure takes out what follows pos.
LEMMA Erases ==
  ASSUME NEW V, NEW s \in Seq(V), NEW len \in Nat, NEW pos \in 0..(Len(s) - 1)
  PROVE  ErasesExactly(s, len, pos)
<1> SUFFICES ASSUME pos + len # Len(s)
             PROVE  /\ ~ EraseOverruns(s, len, pos)
                    /\ Erased(s, len, pos) = Without(s, (pos + 1)..(pos + len))
  BY DEF ErasesExactly
<1> DEFINE e == ErasedLen(s, len, pos)
           C == (pos + 1)..(pos + len)
           begin == SubSeq(s, 1, pos + 1)
           rest == SubSeq(s, pos + e + 2, Len(s))
<1>1. Len(s) \in Nat /\ pos \in Nat /\ pos + 1 <= Len(s)
  OBVIOUS
<1>2. /\ e \in Nat /\ e <= len /\ pos + 1 + e <= Len(s)
      /\ e = len \/ pos + 1 + e = Len(s)
  <2>1. CASE pos + len > Len(s)
    <3>1. e = Len(s) - pos - 1
      BY <2>1 DEF ErasedLen
    <3> HIDE DEF e
    <3> QED
      BY <1>1, <2>1, <3>1
  <2>2. CASE ~ (pos + len > Len(s))
    <3>1. e = len
      BY <2>2 DEF ErasedLen
    <3> HIDE DEF e
    <3> QED
      BY <1>1, <2>2, <3>1
  <2> QED
    BY <2>1, <2>2
<1>3. ~ EraseOverruns(s, len, pos)
  BY <1>1, <1>2 DEF EraseOverruns
<1> HIDE DEF e
<1> DEFINE m == 0
           a == pos + 1
           b == pos + 1 + e
           n == Len(s)
<1>4. /\ m \in Nat /\ a \in Nat /\ b \in Nat /\ n \in Nat
      /\ m <= m /\ m <= a /\ a <= Len(s) /\ a <= b /\ b <= n /\ n <= Len(s)
      /\ a + 1 \in Nat \ {0} /\ m + 1 = 1 /\ b + 1 = pos + e + 2
  BY <1>1, <1>2
<1>5. /\ \A i \in m..(m - 1) : i \in C
      /\ \A i \in m..(a - 1) : i \notin C
      /\ \A i \in a..(b - 1) : i \in C
      /\ \A i \in b..(n - 1) : i \notin C
  BY <1>1, <1>2
<1>6. Picks(<<>>, s, m, C)
  BY PicksNothing
<1>7. begin = SubSeq(s, m + 1, a) /\ rest = SubSeq(s, b + 1, n) /\ begin \in Seq(V)
  BY <1>1, <1>4, Cut
<1> HIDE DEF C, m, a, b, begin, rest
<1>8. Picks(<<>> \o begin, s, a, C)
  BY <1>4, <1>5, <1>6, <1>7, PicksMore
<1>9. <<>> \o begin = begin
  BY <1>7, ConcatEmptySeq
<1>10. Picks(begin, s, a, C)
  BY <1>8, <1>9
<1> HIDE DEF n
<1>11. Picks(begin \o rest, s, n, C)
  BY <1>4, <1>5, <1>7, <1>10, PicksMore
<1>12. begin \o rest = Without(s, C)
  BY <1>11, Picked DEF n
<1> QED
  BY <1>3, <1>12 DEF Erased, e, begin, rest, C

\* Deleting occurrences that do not overlap leaves what stands outside them.
LEMMA Deletes ==
  ASSUME NEW V, NEW s \in Seq(V), NEW n \in Nat, NEW pos \in Seq(Int),
         \A k \in 1..Len(pos) : pos[k] \in 0..Len(s) /\ pos[k] + n <= Len(s),
         \A k, h \in 1..Len(pos) : k < h => pos[k] + n <= pos[h],
         NEW C, \A i \in Int : i \in C <=> \E k \in 1..Len(pos) : i \in pos[k]..(pos[k] + n - 1)
  PROVE  Join(Between(s, pos, n), <<>>) = Without(s, C)
<1> DEFINE m == Len(pos)
           N == m + 1
           B == Between(s, pos, n)
           W == Seq(V)
           Bn(k) == Begin(pos, n, k)
           En(k) == End(s, pos, k)
<1>1. m \in Nat /\ N \in Nat /\ N >= 1 /\ Len(s) \in Nat /\ N - 1 = m
  OBVIOUS
<1>2. /\ B \in Seq(W) /\ Len(B) = N
      /\ \A k \in 1..N : B[k] = SubSeq(s, Bn(k) + 1, En(k))
  BY Pieces
<1>3. \A k \in 1..m : pos[k] \in Nat /\ pos[k] + n <= Len(s)
  OBVIOUS
<1>4. \A k, h \in 1..m : k < h => pos[k] + n <= pos[h]
  OBVIOUS
<1>5. \A i \in Int : i \in C <=> \E k \in 1..m : i \in pos[k]..(pos[k] + n - 1)
  OBVIOUS
<1>6. \A k \in 1..N :
        /\ Bn(k) \in Nat /\ En(k) \in Nat /\ Bn(k) <= En(k) /\ En(k) <= Len(s)
        /\ k # 1 => /\ k - 1 \in 1..m /\ Bn(k) = pos[k - 1] + n /\ En(k - 1) = pos[k - 1]
        /\ k = 1 => Bn(k) = 0
        /\ k \in 1..m => En(k) = pos[k]
        /\ k \notin 1..m => En(k) = Len(s)
  <2> SUFFICES ASSUME NEW k \in 1..N
               PROVE  /\ Bn(k) \in Nat /\ En(k) \in Nat /\ Bn(k) <= En(k) /\ En(k) <= Len(s)
                      /\ k # 1 => /\ k - 1 \in 1..m /\ Bn(k) = pos[k - 1] + n
                                  /\ En(k - 1) = pos[k - 1]
                      /\ k = 1 => Bn(k) = 0
                      /\ k \in 1..m => En(k) = pos[k]
                      /\ k \notin 1..m => En(k) = Len(s)
    OBVIOUS
  <2>1. CASE k = 1
    <3>1. Bn(k) = 0
      BY <2>1 DEF Begin
    <3>2. CASE k \in 1..m
      <4>1. En(k) = pos[k]
        BY <1>1, <3>2 DEF End
      <4> QED
        BY <1>1, <1>3, <2>1, <3>1, <3>2, <4>1
    <3>3. CASE k \notin 1..m
      <4>1. En(k) = Len(s)
        BY <1>1, <3>3 DEF End
      <4> QED
        BY <1>1, <2>1, <3>1, <3>3, <4>1
    <3> QED
      BY <3>2, <3>3
  <2>2. CASE k # 1
    <3>1. k - 1 \in 1..m /\ k - 1 < k
      BY <1>1, <2>2
    <3>2. Bn(k) = pos[k - 1] + n /\ En(k - 1) = pos[k - 1]
      BY <1>1, <2>2, <3>1 DEF Begin, End
    <3>3. CASE k \in 1..m
      <4>1. En(k) = pos[k]
        BY <1>1, <3>3 DEF End
      <4>2. pos[k - 1] + n <= pos[k]
        BY <1>4, <3>1, <3>3
      <4>3. pos[k] \in Nat /\ pos[k - 1] \in Nat /\ pos[k] + n <= Len(s)
        BY <1>3, <3>1, <3>3
      <4>4. pos[k] <= Len(s) /\ pos[k - 1] + n \in Nat
        BY <1>1, <4>3
      <4> HIDE DEF Bn, En
      <4> QED
        BY <2>2, <3>1, <3>2, <3>3, <4>1, <4>2, <4>3, <4>4
    <3>4. CASE k \notin 1..m
      <4>1. En(k) = Len(s)
        BY <1>1, <3>4 DEF End
      <4> QED
        BY <1>1, <1>3, <2>2, <3>1, <3>2, <3>4, <4>1
    <3> QED
      BY <3>3, <3>4
  <2> QED
    BY <2>1, <2>2
<1> HIDE DEF Bn, En, m, N
<1>7. \A k \in 1..N : \A i \in Bn(k)..(En(k) - 1) : i \notin C
  <2> SUFFICES ASSUME NEW k \in 1..N, NEW i \in Bn(k)..(En(k) - 1), i \in C PROVE FALSE
    OBVIOUS
  <2>1. /\ Bn(k) \in Nat /\ En(k) \in Nat /\ En(k) <= Len(s)
        /\ k # 1 => k - 1 \in 1..m /\ Bn(k) = pos[k - 1] + n
        /\ k \in 1..m => En(k) = pos[k]
    BY <1>6
  <2>2. i \in Int /\ Bn(k) <= i /\ i < En(k)
    BY <2>1
  <2>3. PICK h \in 1..m : i \in pos[h]..(pos[h] + n - 1)
    BY <1>5, <2>2
  <2>4. pos[h] \in Nat /\ pos[h] <= i /\ i < pos[h] + n
    BY <1>3, <2>2, <2>3
  <2>5. CASE h < k
    <3>1. k # 1 /\ k - 1 \in 1..m /\ pos[k - 1] \in Nat
      BY <1>3, <2>1, <2>5
    <3>2. h = k - 1 \/ h < k - 1
      BY <1>1, <2>5
    <3>3. pos[h] + n <= pos[k - 1] + n
      BY <1>4, <2>4, <3>1, <3>2
    <3> DEFINE p == pos[h]
               q == pos[k - 1]
               b == Bn(k)
    <3>4. /\ p \in Nat /\ q \in Nat /\ b \in Nat /\ i \in Int
          /\ b = q + n /\ p + n <= q + n /\ b <= i /\ i < p + n
      BY <2>1, <2>2, <2>4, <3>1, <3>3
    <3> HIDE DEF p, q, b
    <3> QED
      BY <3>4
  <2>6. CASE ~ (h < k)
    <3>1. k \in 1..m /\ En(k) = pos[k] /\ (k = h \/ k < h) /\ pos[k] \in Nat
      BY <1>1, <1>3, <2>1, <2>6
    <3>2. pos[k] <= pos[h]
      BY <1>4, <2>4, <3>1
    <3> QED
      BY <2>2, <2>4, <3>1, <3>2
  <2> QED
    BY <2>5, <2>6
<1>8. \A k \in 2..N : \A i \in En(k - 1)..(Bn(k) - 1) : i \in C
  <2> SUFFICES ASSUME NEW k \in 2..N, NEW i \in En(k - 1)..(Bn(k) - 1) PROVE i \in C
    OBVIOUS
  <2>1. k \in 1..N /\ k # 1
    BY <1>1
  <2>2. k - 1 \in 1..m /\ Bn(k) = pos[k - 1] + n /\ En(k - 1) = pos[k - 1]
    BY <1>6, <2>1
  <2>3. pos[k - 1] \in Nat
    BY <1>3, <2>2
  <2>4. i \in Int /\ i \in pos[k - 1]..(pos[k - 1] + n - 1)
    BY <2>2, <2>3
  <2> QED
    BY <1>5, <2>2, <2>4
<1>9. PICK g : Joins(g, B, <<>>, W) /\ Join(B, <<>>) = g[Len(B)]
  <2>1. <<>> \in Seq(V) /\ B # <<>>
    BY <1>1, <1>2, EmptySeq
  <2> HIDE DEF B
  <2> QED
    BY <1>2, <2>1, Joined
<1>10. /\ g[1] = B[1] /\ Join(B, <<>>) = g[N]
       /\ \A k \in 2..N : g[k] = g[k - 1] \o <<>> \o B[k]
       /\ \A k \in 1..N : g[k] \in Seq(V)
  BY <1>2, <1>9 DEF Joins
<1> HIDE DEF B
<1> DEFINE S == {k \in 1..N : ~ Picks(g[k], s, En(k), C)}
<1>11. S = {}
  <2> SUFFICES ASSUME S # {} PROVE FALSE
    OBVIOUS
  <2>1. S \in SUBSET Nat
    OBVIOUS
  <2>2. PICK k \in S : \A h \in S : k <= h
    <3> HIDE DEF S
    <3> QED
      BY <2>1, FirstOf
  <2>3. k \in 1..N /\ ~ Picks(g[k], s, En(k), C)
    BY <2>2
  <2> DEFINE b == En(k)
             a == Bn(k)
  <2>4. /\ a \in Nat /\ b \in Nat /\ a <= b /\ b <= Len(s)
        /\ B[k] = SubSeq(s, a + 1, b) /\ \A i \in a..(b - 1) : i \notin C
    BY <1>2, <1>6, <1>7, <2>3
  <2>5. CASE k = 1
    <3>1. a = 0 /\ g[k] = SubSeq(s, a + 1, b)
      BY <1>6, <1>10, <2>3, <2>4, <2>5
    <3>2. Picks(<<>>, s, 0, C)
      BY PicksNothing
    <3>3. \A i \in a..(a - 1) : i \in C
      BY <2>4
    <3>4. Picks(<<>>, s, a, C) /\ a <= a
      BY <2>4, <3>1, <3>2
    <3> HIDE DEF a, b
    <3>5. Picks(<<>> \o SubSeq(s, a + 1, b), s, b, C)
      BY <2>4, <3>3, <3>4, PicksMore
    <3>6. <<>> \o g[k] = g[k]
      BY <1>10, <2>3, ConcatEmptySeq
    <3> QED
      BY <2>3, <3>1, <3>5, <3>6 DEF b
  <2>6. CASE k # 1
    <3> DEFINE e == En(k - 1)
    <3>1. /\ k \in 2..N /\ k - 1 \in 1..N /\ k - 1 \notin S /\ e \in Nat /\ e <= a
          /\ g[k] = g[k - 1] \o <<>> \o B[k] /\ g[k - 1] \in Seq(V)
      <4>1. k \in 2..N /\ k - 1 \in 1..N
        BY <1>1, <2>3, <2>6
      <4>2. k - 1 \notin S
        <5>1. ~ (k <= k - 1)
          BY <4>1
        <5> HIDE DEF S
        <5> QED
          BY <2>2, <5>1
      <4>3. e \in Nat
        BY <1>6, <4>1
      <4>4. e <= a
        <5>1. k - 1 \in 1..m /\ a = pos[k - 1] + n /\ e = pos[k - 1]
          BY <1>6, <2>3, <2>6
        <5> QED
          BY <1>3, <5>1
      <4> QED
        BY <1>10, <4>1, <4>2, <4>3, <4>4
    <3>2. Picks(g[k - 1], s, e, C)
      BY <3>1
    <3>3. \A i \in e..(a - 1) : i \in C
      BY <1>8, <3>1
    <3> HIDE DEF a, b, e
    <3>4. Picks(g[k - 1] \o SubSeq(s, a + 1, b), s, b, C)
      BY <2>4, <3>1, <3>2, <3>3, PicksMore
    <3>5. g[k - 1] \o <<>> = g[k - 1]
      BY <3>1, ConcatEmptySeq
    <3> QED
      BY <2>3, <2>4, <3>1, <3>4, <3>5 DEF b
  <2> QED
    BY <2>5, <2>6
<1>12. N \in 1..N /\ N \notin 1..m
  BY <1>1 DEF N
<1>13. Picks(g[N], s, Len(s), C)
  BY <1>6, <1>11, <1>12
<1> QED
  BY <1>10, <1>13, Picked DEF B

\* The parts of DeletesExactly, of the positions that kmp_search_all stored.
LEMMA DeletesRight ==
  ASSUME NEW V, NEW s \in Seq(V), NEW w \in Seq(V)
  PROVE  DeletesExactly(s, w, Occurrences(w, s), KmpSearchAll(w, s))
<1> DEFINE there == Occurrences(w, s)
           found == KmpSearchAll(w, s)
           n == Len(w)
           pos == FoundPos(w, s)
           m == Len(pos)
           C == UNION {x..(x + n - 1) : x \in there}
           disjoint == \A k, h \in there : k < h => k + n <= h
<1> SUFFICES ASSUME there # {}
             PROVE  /\ disjoint <=> ~ DeleteRefused(s, found, n) /\ ~ DeleteOverruns(found, n)
                    /\ disjoint => Deleted(s, found, n) = Without(s, C)
  BY DEF DeletesExactly
<1>1. /\ w # <<>> /\ n \in Nat /\ Len(s) \in Nat
      /\ \A x \in there : x \in Nat /\ x + n <= Len(s) /\ x \in 0..Len(s)
  BY DEF Occurrences, OccursAt
<1>2. /\ found.pos = pos /\ pos \in Seq(Int) /\ m = Cardinality(there) /\ m \in Nat
      /\ found.len = m
      /\ {pos[k] : k \in DOMAIN pos} = there
      /\ DOMAIN pos = 1..m
  <2>1. /\ found.pos = pos /\ pos \in Seq(Int) /\ m = Cardinality(there)
        /\ AllRight(found, there, w, s)
    BY <1>1, AllFound
  <2>2. m \in Nat /\ DOMAIN pos = 1..m
    BY <2>1
  <2> HIDE DEF found, there, pos, m
  <2>3. ~ (n > Len(s))
    BY <1>1
  <2>4. found.len = Cardinality(there) /\ {pos[k] : k \in DOMAIN pos} = there
    BY <2>1, <2>3 DEF AllRight
  <2> QED
    BY <2>1, <2>2, <2>4
<1>3. \A k, h \in 1..m : k < h => pos[k] < pos[h]
  <2> DEFINE ends == MatchEnds(w, s)
  <2>1. ends \in Seq(Nat) /\ \A k, h \in 1..Len(ends) : k < h => ends[k] < ends[h]
    BY <1>1, MatchesExact
  <2>2. pos = [k \in DOMAIN ends |-> ends[k] - n]
    BY DEF FoundPos
  <2> HIDE DEF ends, pos
  <2>3. DOMAIN ends = 1..Len(ends) /\ Len(ends) \in Nat /\ \A k \in 1..Len(ends) : ends[k] \in Nat
    BY <2>1
  <2>4. m = Len(ends)
    <3>1. pos \in [1..Len(ends) -> Int]
      BY <1>1, <2>2, <2>3
    <3> QED
      BY <2>3, <3>1, FunctionIsSeq
  <2> HIDE DEF n
  <2> QED
    BY <1>1, <2>1, <2>2, <2>3, <2>4
<1>4. /\ \A k \in 1..m : pos[k] \in there
      /\ \A x \in there : \E k \in 1..m : pos[k] = x
      /\ there = {pos[k] : k \in 1..m}
  BY <1>2
<1> HIDE DEF there, found, n, pos, m
<1>5. ASSUME disjoint PROVE \A k, h \in 1..m : k < h => pos[k] + n <= pos[h]
  BY <1>3, <1>4, <1>5
<1> HIDE DEF disjoint
<1>6. ASSUME disjoint PROVE ~ DeleteRefused(s, found, n)
  <2> DEFINE S == {k \in 1..m : pos[k] < n * (k - 1)}
  <2>1. S = {}
    <3> SUFFICES ASSUME S # {} PROVE FALSE
      OBVIOUS
    <3>1. S \in SUBSET Nat
      OBVIOUS
    <3>2. PICK k \in S : \A h \in S : k <= h
      <4> HIDE DEF S
      <4> QED
        BY <3>1, FirstOf
    <3>3. k \in 1..m /\ pos[k] < n * (k - 1) /\ pos[k] \in Nat
      BY <1>1, <1>4, <3>2
    <3>4. k # 1
      <4>1. n * (1 - 1) = 0
        BY <1>1
      <4> QED
        BY <3>3, <4>1
    <3>5. k - 1 \in 1..m /\ k - 1 \notin S /\ k - 1 < k
      <4>1. k - 1 \in 1..m /\ ~ (k <= k - 1) /\ k - 1 < k
        BY <1>2, <3>3, <3>4
      <4> HIDE DEF S
      <4> QED
        BY <3>2, <4>1
    <3>6. pos[k - 1] >= n * (k - 1 - 1) /\ pos[k - 1] \in Nat /\ pos[k - 1] + n <= pos[k]
      <4>1. n * (k - 1 - 1) \in Int
        BY <1>1, <3>3
      <4>2. pos[k - 1] \in Nat
        BY <1>1, <1>4, <3>5
      <4> QED
        BY <1>5, <1>6, <3>3, <3>5, <4>1, <4>2
    <3>7. n * (k - 1 - 1) + n = n * (k - 1)
      BY <1>1, <3>3
    <3>8. n * (k - 1 - 1) \in Int /\ n * (k - 1) \in Int
      BY <1>1, <3>3
    <3> QED
      BY <1>1, <3>3, <3>6, <3>7, <3>8
  <2>2. m \in 1..m
    <3>1. PICK x \in there : TRUE
      OBVIOUS
    <3>2. PICK k \in 1..m : pos[k] = x
      BY <1>4
    <3> QED
      BY <1>2, <3>2
  <2>3. pos[m] >= n * (m - 1) /\ pos[m] \in Nat /\ pos[m] + n <= Len(s)
    <3>1. pos[m] \in Nat /\ pos[m] + n <= Len(s)
      BY <1>1, <1>4, <2>2
    <3>2. n * (m - 1) \in Int
      BY <1>1, <1>2
    <3> QED
      BY <2>1, <2>2, <3>1, <3>2
  <2>4. n * (m - 1) + n = n * m /\ n * (m - 1) \in Int /\ n * m \in Int
    BY <1>1, <1>2
  <2>5. n * m <= Len(s)
    <3> DEFINE x == n * (m - 1)
               y == n * m
               z == pos[m]
    <3>1. x + n = y /\ x \in Int /\ y \in Int /\ z \in Nat /\ z >= x /\ z + n <= Len(s)
      BY <2>3, <2>4
    <3>2. n \in Int /\ Len(s) \in Int
      BY <1>1
    <3> HIDE DEF x, y, z
    <3>3. y <= Len(s)
      BY <3>1, <3>2
    <3> QED
      BY <3>3 DEF y
  <2> QED
    BY <1>1, <1>2, <2>4, <2>5 DEF DeleteRefused
<1>7. ASSUME disjoint PROVE ~ DeleteOverruns(found, n)
  <2> SUFFICES ASSUME NEW k \in 1..(m - 1), pos[k + 1] < pos[k] + n PROVE FALSE
    BY <1>2 DEF DeleteOverruns
  <2>1. k \in 1..m /\ k + 1 \in 1..m /\ k < k + 1
    BY <1>2
  <2>2. pos[k] + n <= pos[k + 1] /\ pos[k] \in Nat /\ pos[k + 1] \in Nat
    BY <1>1, <1>4, <1>5, <1>7, <2>1
  <2> QED
    BY <1>1, <2>2
<1>8. ASSUME ~ DeleteOverruns(found, n) PROVE disjoint
  <2> SUFFICES ASSUME NEW x \in there, NEW y \in there, x < y PROVE x + n <= y
    BY DEF disjoint
  <2>1. PICK k \in 1..m : pos[k] = x
    BY <1>4
  <2>2. PICK h \in 1..m : pos[h] = y
    BY <1>4
  <2>3. x \in Nat /\ y \in Nat
    BY <1>1
  <2>4. k < h
    <3>1. ~ (h < k)
      BY <1>3, <2>1, <2>2, <2>3
    <3>2. h # k
      BY <2>1, <2>2, <2>3
    <3> QED
      BY <3>1, <3>2
  <2>5. k \in 1..(m - 1) /\ k + 1 \in 1..m /\ (k + 1 = h \/ k + 1 < h)
    BY <1>2, <2>4
  <2>6. ~ (pos[k + 1] < pos[k] + n)
    BY <1>2, <1>8, <2>5 DEF DeleteOverruns
  <2>7. pos[k + 1] \in Nat
    BY <1>1, <1>4, <2>5
  <2>8. pos[k + 1] <= y
    BY <1>3, <2>2, <2>3, <2>5, <2>7
  <2> QED
    BY <1>1, <2>1, <2>3, <2>6, <2>7, <2>8
<1>9. ASSUME disjoint PROVE Deleted(s, found, n) = Without(s, C)
  <2>1. /\ \A k \in 1..m : pos[k] \in 0..Len(s) /\ pos[k] + n <= Len(s)
        /\ \A k, h \in 1..m : k < h => pos[k] + n <= pos[h]
    BY <1>1, <1>4, <1>5, <1>9
  <2>2. \A i \in Int : i \in C <=> \E k \in 1..m : i \in pos[k]..(pos[k] + n - 1)
    BY <1>4
  <2> HIDE DEF C
  <2>3. Join(Between(s, pos, n), <<>>) = Without(s, C)
    BY <1>1, <1>2, <2>1, <2>2, Deletes DEF m
  <2> QED
    BY <1>2, <2>3 DEF Deleted
<1> QED
  BY <1>6, <1>7, <1>8, <1>9

\* What is trimmed is the part of the string between the first and the last character
\* that stays.
LEMMA TrimsRight ==
  ASSUME NEW V, NEW s \in Seq(V), NEW W
  PROVE  TrimsExactly(s, W, Trimmed(s, W))
<1> DEFINE kept == {i \in DOMAIN s : s[i] \notin W}
           first == CHOOSE i \in kept : \A k \in kept : i <= k
           last == CHOOSE i \in kept : \A k \in kept : i >= k
           t == SubSeq(s, first, last)
<1>1. Trimmed(s, W) = IF s = <<>> THEN s ELSE IF kept = {} THEN NoStr ELSE t
  BY DEF Trimmed
<1>2. /\ kept \in SUBSET (1..Len(s)) /\ Len(s) \in Nat
      /\ kept = {} <=> \A i \in DOMAIN s : s[i] \in W
  OBVIOUS
<1>3. CASE kept = {}
  <2>1. Stored(Trimmed(s, W)) = <<>>
    BY <1>1, <1>3 DEF Stored
  <2> QED
    BY <1>2, <1>3, <2>1 DEF TrimsExactly
<1>4. CASE kept # {}
  <2>1. /\ first \in kept /\ last \in kept
        /\ \A k \in kept : first <= k /\ k <= last
    <3>1. kept \in SUBSET Nat /\ kept \in SUBSET (0..Len(s))
      BY <1>2
    <3>2. \E i \in kept : \A k \in kept : i <= k
      <4> HIDE DEF kept
      <4> QED
        BY <1>4, <3>1, FirstOf
    <3>3. \E i \in kept : \A k \in kept : k <= i
      <4> HIDE DEF kept
      <4> QED
        BY <1>2, <1>4, <3>1, LastOf
    <3>4. \A i, k \in kept : k <= i <=> i >= k
      BY <3>1
    <3> HIDE DEF kept
    <3>5. \E i \in kept : \A k \in kept : i >= k
      BY <3>3, <3>4
    <3>6. first \in kept /\ \A k \in kept : first <= k
      BY <3>2
    <3>7. last \in kept /\ \A k \in kept : last >= k
      BY <3>5
    <3> QED
      BY <3>4, <3>6, <3>7
  <2>2. s # <<>>
    BY <1>4
  <2>3. Trimmed(s, W) = t
    BY <1>1, <1>4, <2>2
  <2>4. /\ first \in 1..Len(s) /\ last \in 1..Len(s) /\ first <= last
        /\ s[first] \notin W /\ s[last] \notin W
    BY <1>2, <2>1
  <2> HIDE DEF first, last
  <2> DEFINE n == last - first + 1
  <2>5. /\ n \in Nat /\ n >= 1 /\ t \in Seq(V) /\ Len(t) = n
        /\ \A i \in 1..n : t[i] = s[first + i - 1]
    <3>1. first \in Int /\ last \in Int /\ \A i \in first..last : s[i] \in V
      BY <1>2, <2>4, ElementOfSeq
    <3>2. /\ t \in Seq(V) /\ Len(t) = IF first <= last THEN n ELSE 0
          /\ \A i \in 1..n : t[i] = s[first + i - 1]
      BY <3>1, SubSeqProperties
    <3> HIDE DEF t
    <3> QED
      BY <2>4, <3>1, <3>2
  <2> HIDE DEF t, n
  <2> DEFINE kept2 == {i \in DOMAIN t : t[i] \notin W}
             first2 == CHOOSE i \in kept2 : \A k \in kept2 : i <= k
             last2 == CHOOSE i \in kept2 : \A k \in kept2 : i >= k
  <2>6. /\ 1 \in kept2 /\ n \in kept2 /\ \A i \in kept2 : i \in 1..n
    <3>1. DOMAIN t = 1..n
      BY <2>5
    <3>2. t[1] = s[first + 1 - 1] /\ t[n] = s[first + n - 1]
      BY <2>5
    <3>3. first + 1 - 1 = first /\ first + n - 1 = last
      BY <2>4 DEF n
    <3>4. t[1] \notin W /\ t[n] \notin W
      BY <2>4, <3>2, <3>3
    <3> QED
      BY <2>5, <3>1, <3>4
  <2>7. Trimmed(t, W) = IF t = <<>> THEN t
                        ELSE IF kept2 = {} THEN NoStr ELSE SubSeq(t, first2, last2)
    BY DEF Trimmed
  <2>8. first2 = 1
    <3>1. \A k \in kept2 : 1 <= k
      BY <2>5, <2>6
    <3> HIDE DEF kept2
    <3>2. ASSUME NEW i \in kept2, \A k \in kept2 : i <= k PROVE i = 1
      <4>1. i <= 1
        BY <2>6, <3>2
      <4>2. i \in 1..n
        BY <2>6, <3>2
      <4> QED
        BY <2>5, <4>1, <4>2
    <3> QED
      BY <2>6, <3>1, <3>2
  <2>9. last2 = n
    <3>1. \A k \in kept2 : n >= k
      BY <2>5, <2>6
    <3> HIDE DEF kept2
    <3>2. ASSUME NEW i \in kept2, \A k \in kept2 : i >= k PROVE i = n
      <4>1. i >= n
        BY <2>6, <3>2
      <4>2. i \in 1..n
        BY <2>6, <3>2
      <4> QED
        BY <2>5, <4>1, <4>2
    <3> QED
      BY <2>6, <3>1, <3>2
  <2>10. Trimmed(t, W) = t
    <3>1. t # <<>> /\ kept2 # {}
      BY <2>5, <2>6, EmptySeq
    <3>2. SubSeq(t, 1, n) = t
      BY <2>5
    <3> HIDE DEF kept2, first2, last2
    <3> QED
      BY <2>7, <2>8, <2>9, <3>1, <3>2
  <2>11. \E k \in 0..Len(s) :
           /\ t = SubSeq(s, k + 1, k + Len(t))
           /\ \A i \in DOMAIN s : s[i] \notin W => i \in (k + 1)..(k + Len(t))
    <3> DEFINE k == first - 1
    <3>1. k \in 0..Len(s) /\ k + 1 = first /\ k + n = last
      BY <1>2, <2>4 DEF n
    <3>2. t = SubSeq(s, first, last)
      BY DEF t
    <3>3. \A i \in DOMAIN s : s[i] \notin W => i \in first..last
      BY <1>2, <2>1, <2>4
    <3> HIDE DEF k
    <3> QED
      BY <2>5, <3>1, <3>2, <3>3
  <2>12. ~ \A i \in DOMAIN s : s[i] \in W
    BY <1>4
  <2> QED
    BY <2>3, <2>10, <2>11, <2>12 DEF TrimsExactly
<1> QED
  BY <1>3, <1>4

\* Whatever the strix has become, an erasure takes out what follows its position, a
\* deletion the occurrences, if they do not overlap, and trimming the ends; nothing else.
THEOREM EditsAreExact == StrixSpec => []EditsExact
<1>1. StrixInv => EditsExact
  <2> SUFFICES ASSUME StrixInv, Readable PROVE EditsExact
    BY DEF EditsExact
  <2>1. str \in Seq(Char) /\ \A w \in words : w \in Seq(Char)
    BY WordsAreStrings DEF StrixInv, Readable
  <2>2. \A len \in 0..MaxLen, pos \in 0..(Len(str) - 1) : ErasesExactly(str, len, pos)
    <3>1. \A len \in 0..MaxLen : len \in Nat
      BY StrixAssumption
    <3> QED
      BY <2>1, <3>1, Erases
  <2>3. \A w \in words : DeletesExactly(str, w, Occurrences(w, str), KmpSearchAll(w, str))
    BY <2>1, DeletesRight
  <2>4. \A W \in {White} \cup {{c} : c \in Char} : TrimsExactly(str, W, Trimmed(str, W))
    BY <2>1, TrimsRight
  <2> QED
    BY <2>2, <2>3, <2>4 DEF EditsExact
<1> QED
  BY <1>1, StrixCharacters, PTL

-----------------------------------------------------------------------------
(* Numbers                                                                  *)

\* A digit is below ten.
LEMMA DigitOfDigit ==
  ASSUME NEW c, IsDigit(c)
  PROVE  DigitOf(c) \in 0..9
BY DEF IsDigit, DigitOf

\* v holds, at each place of s, the number that the digits from i on are up to there.
Values(v, s, i) ==
  /\ v \in [0..Len(s) -> Nat]
  /\ \A k \in 0..Len(s) : v[k] = IF k < i THEN 0 ELSE v[k - 1] * 10 + DigitOf(s[k])

\* What ValueOf computes.
LEMMA ValueSteps ==
  ASSUME NEW V, NEW s \in Seq(V), NEW i \in Nat \ {0}, AllDigits(s, i)
  PROVE  \E v : Values(v, s, i) /\ ValueOf(s, i) = v[Len(s)]
<1> DEFINE N == Len(s)
           Next(k, u) == IF k < i THEN 0 ELSE u * 10 + DigitOf(s[k])
           G(f) == [k \in 0..N |-> IF k < i THEN 0 ELSE f[k - 1] * 10 + DigitOf(s[k])]
           f0 == CHOOSE f : f = G(f)
           F == [x \in Nat \X Nat |-> IF x[1] \in 1..N THEN Next(x[1], x[2]) ELSE 0]
<1>1. ValueOf(s, i) = f0[N]
  BY DEF ValueOf
<1>2. N \in Nat /\ \A k \in 1..N : k >= i => DigitOf(s[k]) \in 0..9
  BY DigitOfDigit DEF AllDigits
<1> HIDE DEF N
<1>3. \A k \in 1..N, u \in Nat : Next(k, u) \in Nat
  BY <1>2
<1>4. F \in [Nat \X Nat -> Nat]
  BY <1>3
<1>5. \A k \in 1..N, u \in Nat : F[<<k, u>>] = Next(k, u)
  <2>1. \A k \in 1..N : k \in Nat
    OBVIOUS
  <2> QED
    BY <2>1
<1> HIDE DEF F
<1>6. PICK g : Recurs(g, Nat, 0, F, N)
  BY <1>2, <1>4, Recursion
<1>7. /\ g \in [0..N -> Nat]
      /\ \A k \in 0..N : g[k] = IF k < i THEN 0 ELSE g[k - 1] * 10 + DigitOf(s[k])
  <2>1. g \in [0..N -> Nat] /\ g[0] = 0 /\ \A k \in 1..N : g[k] = F[<<k, g[k - 1]>>]
    BY <1>6 DEF Recurs
  <2>2. ASSUME NEW k \in 0..N
        PROVE  g[k] = IF k < i THEN 0 ELSE g[k - 1] * 10 + DigitOf(s[k])
    <3>1. CASE k = 0
      BY <2>1, <3>1
    <3>2. CASE k # 0
      <4>1. k \in 1..N /\ g[k - 1] \in Nat
        BY <1>2, <2>1, <3>2
      <4> QED
        BY <1>5, <2>1, <4>1
    <3> QED
      BY <3>1, <3>2
  <2> QED
    BY <2>1, <2>2
<1>8. g = G(g)
  <2>1. g = [k \in 0..N |-> g[k]]
    BY <1>7
  <2> QED
    BY <1>7, <2>1
<1>9. f0 = G(f0)
  BY <1>8
<1> HIDE DEF f0
<1>10. \A k \in 0..N : f0[k] = IF k < i THEN 0 ELSE f0[k - 1] * 10 + DigitOf(s[k])
  BY <1>9
<1> DEFINE S == {k \in 0..N : f0[k] \notin Nat}
<1>11. S = {}
  <2> SUFFICES ASSUME S # {} PROVE FALSE
    OBVIOUS
  <2>1. S \in SUBSET Nat
    OBVIOUS
  <2>2. PICK k \in S : \A h \in S : k <= h
    <3> HIDE DEF S
    <3> QED
      BY <2>1, FirstOf
  <2>3. k \in 0..N /\ f0[k] \notin Nat
    BY <2>2
  <2>4. k >= i
    BY <1>10, <2>3
  <2>5. k - 1 \in 0..N /\ k \in 1..N /\ ~ (k <= k - 1)
    BY <1>2, <2>3, <2>4
  <2>6. k - 1 \notin S
    <3> HIDE DEF S
    <3> QED
      BY <2>2, <2>5
  <2>7. f0[k - 1] \in Nat
    BY <2>5, <2>6
  <2>8. f0[k] = f0[k - 1] * 10 + DigitOf(s[k]) /\ DigitOf(s[k]) \in 0..9
    BY <1>2, <1>10, <2>3, <2>4, <2>5
  <2> QED
    BY <2>3, <2>7, <2>8
<1>12. f0 \in [0..N -> Nat]
  <2>1. f0 = [k \in 0..N |-> f0[k]]
    BY <1>9
  <2>2. \A k \in 0..N : f0[k] \in Nat
    BY <1>11
  <2> QED
    BY <2>1, <2>2
<1>13. Values(f0, s, i)
  BY <1>10, <1>12 DEF Values, N
<1> QED
  BY <1>1, <1>13 DEF N

\* The results of an integer conversion.
Results == [neg : BOOLEAN, num : Nat, error : BOOLEAN]

\* A character leads from one to another.
LEMMA NextResult ==
  ASSUME NEW n \in Results, NEW i \in Nat, NEW c, NEW signs, NEW max
  PROVE  NextDigit(n, i, c, signs, max) \in Results
<1>1. \A neg \in BOOLEAN, num \in Nat, error \in BOOLEAN : Number(neg, num, error) \in Results
  BY DEF Number, Results
<1>2. n.neg \in BOOLEAN /\ n.num \in Nat
  BY DEF Results
<1>3. CASE n.error
  BY <1>3 DEF NextDigit
<1>4. CASE ~ n.error /\ c \in signs /\ i = 1
  BY <1>1, <1>2, <1>4 DEF NextDigit
<1>5. CASE ~ n.error /\ ~ (c \in signs /\ i = 1) /\ ~ IsDigit(c)
  <2>1. NextDigit(n, i, c, signs, max) = Number(FALSE, 0, TRUE)
    BY <1>5 DEF NextDigit
  <2> QED
    BY <1>1, <2>1
<1>6. CASE ~ n.error /\ ~ (c \in signs /\ i = 1) /\ IsDigit(c)
  <2>1. DigitOf(c) \in 0..9
    BY <1>6, DigitOfDigit
  <2>2. \/ NextDigit(n, i, c, signs, max) = Number(FALSE, 0, TRUE)
        \/ NextDigit(n, i, c, signs, max) = Number(n.neg, n.num * 10 + DigitOf(c), FALSE)
    BY <1>6 DEF NextDigit
  <2>3. n.num * 10 + DigitOf(c) \in Nat
    BY <1>2, <2>1
  <2> QED
    BY <1>1, <1>2, <2>2, <2>3
<1> QED
  BY <1>3, <1>4, <1>5, <1>6

\* f holds the result after each character of s.
Converts(f, s, signs, max) ==
  /\ \A k \in 0..Len(s) : f[k] \in Results
  /\ f[0] = Number(FALSE, 0, FALSE)
  /\ \A k \in 1..Len(s) : f[k] = NextDigit(f[k - 1], k, s[k], signs, max)

\* What ToInt computes.
LEMMA IntSteps ==
  ASSUME NEW V, NEW s \in Seq(V), NEW signs, NEW max
  PROVE  \E f : Converts(f, s, signs, max) /\ ToInt(s, signs, max) = f[Len(s)]
<1> DEFINE N == Len(s)
           v0 == Number(FALSE, 0, FALSE)
           G(f) == [i \in 0..N |-> IF i = 0 THEN Number(FALSE, 0, FALSE)
                                   ELSE NextDigit(f[i - 1], i, s[i], signs, max)]
           f0 == CHOOSE f : f = G(f)
           F == [x \in Nat \X Results |-> NextDigit(x[2], x[1], s[x[1]], signs, max)]
<1>1. ToInt(s, signs, max) = f0[N]
  BY DEF ToInt
<1>2. N \in Nat /\ v0 \in Results
  BY DEF Number, Results
<1> HIDE DEF N
<1>3. F \in [Nat \X Results -> Results]
  <2> SUFFICES ASSUME NEW x \in Nat \X Results
               PROVE  NextDigit(x[2], x[1], s[x[1]], signs, max) \in Results
    OBVIOUS
  <2>1. x[1] \in Nat /\ x[2] \in Results
    OBVIOUS
  <2> QED
    BY <2>1, NextResult
<1>4. \A k \in Nat, u \in Results : F[<<k, u>>] = NextDigit(u, k, s[k], signs, max)
  OBVIOUS
<1> HIDE DEF F
<1>5. PICK g : Recurs(g, Results, v0, F, N)
  <2> HIDE DEF v0
  <2> QED
    BY <1>2, <1>3, Recursion
<1>6. /\ g \in [0..N -> Results] /\ g[0] = v0
      /\ \A k \in 1..N : g[k] = NextDigit(g[k - 1], k, s[k], signs, max)
  <2>1. g \in [0..N -> Results] /\ g[0] = v0 /\ \A k \in 1..N : g[k] = F[<<k, g[k - 1]>>]
    BY <1>5 DEF Recurs
  <2>2. \A k \in 1..N : k \in Nat /\ g[k - 1] \in Results
    BY <1>2, <2>1
  <2> QED
    BY <1>4, <2>1, <2>2
<1>7. g = G(g)
  <2>1. g = [k \in 0..N |-> g[k]]
    BY <1>6
  <2>2. \A k \in 0..N : g[k] = IF k = 0 THEN Number(FALSE, 0, FALSE)
                               ELSE NextDigit(g[k - 1], k, s[k], signs, max)
    <3>1. \A k \in 0..N : k # 0 => k \in 1..N
      BY <1>2
    <3> QED
      BY <1>6, <3>1
  <2> QED
    BY <2>1, <2>2
<1>8. f0 = G(f0)
  BY <1>7
<1> HIDE DEF f0
<1>9. \A k \in 0..N : f0[k] = IF k = 0 THEN Number(FALSE, 0, FALSE)
                              ELSE NextDigit(f0[k - 1], k, s[k], signs, max)
  BY <1>8
<1>10. f0[0] = v0 /\ \A k \in 1..N : f0[k] = NextDigit(f0[k - 1], k, s[k], signs, max)
  <2>1. 0 \in 0..N /\ \A k \in 1..N : k \in 0..N /\ k # 0
    BY <1>2
  <2> QED
    BY <1>9, <2>1
<1> DEFINE S == {k \in 0..N : f0[k] \notin Results}
<1>11. S = {}
  <2> SUFFICES ASSUME S # {} PROVE FALSE
    OBVIOUS
  <2>1. S \in SUBSET Nat
    OBVIOUS
  <2>2. PICK k \in S : \A h \in S : k <= h
    <3> HIDE DEF S
    <3> QED
      BY <2>1, FirstOf
  <2>3. k \in 0..N /\ f0[k] \notin Results
    BY <2>2
  <2>4. k # 0
    BY <1>2, <1>10, <2>3
  <2>5. k - 1 \in 0..N /\ k \in 1..N /\ k \in Nat /\ ~ (k <= k - 1)
    BY <1>2, <2>3, <2>4
  <2>6. k - 1 \notin S
    <3> HIDE DEF S
    <3> QED
      BY <2>2, <2>5
  <2>7. f0[k - 1] \in Results
    BY <2>5, <2>6
  <2> QED
    BY <1>10, <2>3, <2>5, <2>7, NextResult
<1>12. \A k \in 0..N : f0[k] \in Results
  BY <1>11
<1>13. Converts(f0, s, signs, max)
  BY <1>10, <1>12 DEF Converts, N
<1> QED
  BY <1>1, <1>13 DEF N

\* A character that is no digit, from the first digit on, makes an error that stays.
LEMMA NotANumber ==
  ASSUME NEW V, NEW s \in Seq(V), NEW signs, NEW max, NEW f, Converts(f, s, signs, max),
         ~ AllDigits(s, FirstDigit(s, signs))
  PROVE  f[Len(s)].error
<1> DEFINE N == Len(s)
<1>1. N \in Nat
  OBVIOUS
<1>2. \A k \in 1..N : f[k] = NextDigit(f[k - 1], k, s[k], signs, max)
  BY DEF Converts
<1>3. PICK h \in FirstDigit(s, signs)..N : ~ IsDigit(s[h])
  BY DEF AllDigits
<1>4. h \in 1..N /\ ~ (s[h] \in signs /\ h = 1)
  <2>1. CASE s # <<>> /\ s[1] \in signs
    BY <1>1, <1>3, <2>1 DEF FirstDigit
  <2>2. CASE ~ (s # <<>> /\ s[1] \in signs)
    <3>1. h \in 1..N
      BY <1>3, <2>2 DEF FirstDigit
    <3>2. s # <<>>
      BY <3>1
    <3> QED
      BY <2>2, <3>1, <3>2
  <2> QED
    BY <2>1, <2>2
<1>5. f[h].error
  <2>1. f[h] = NextDigit(f[h - 1], h, s[h], signs, max)
    BY <1>2, <1>4
  <2>2. CASE f[h - 1].error
    BY <2>1, <2>2 DEF NextDigit
  <2>3. CASE ~ f[h - 1].error
    <3>1. f[h] = Number(FALSE, 0, TRUE)
      BY <1>3, <1>4, <2>1, <2>3 DEF NextDigit
    <3> QED
      BY <3>1 DEF Number
  <2> QED
    BY <2>2, <2>3
<1> DEFINE T == {k \in 0..N : k >= h /\ ~ f[k].error}
<1>6. T = {}
  <2> SUFFICES ASSUME T # {} PROVE FALSE
    OBVIOUS
  <2>1. T \in SUBSET Nat
    OBVIOUS
  <2>2. PICK k \in T : \A i \in T : k <= i
    <3> HIDE DEF T
    <3> QED
      BY <2>1, FirstOf
  <2>3. k \in 0..N /\ k >= h /\ ~ f[k].error
    BY <2>2
  <2>4. k # h
    BY <1>5, <2>3
  <2>5. k \in 1..N /\ k - 1 \in 0..N /\ k - 1 >= h /\ ~ (k <= k - 1)
    BY <1>1, <1>4, <2>3, <2>4
  <2>6. k - 1 \notin T
    <3> HIDE DEF T
    <3> QED
      BY <2>2, <2>5
  <2>7. f[k - 1].error
    BY <2>5, <2>6
  <2>8. f[k] = f[k - 1]
    BY <1>2, <2>5, <2>7 DEF NextDigit
  <2> QED
    BY <2>3, <2>7, <2>8
<1> QED
  BY <1>1, <1>4, <1>6

\* What the result is when digits make the number val so far; error when that is too large.
Means(r, val, neg, max) == /\ r.error <=> val > max
                           /\ ~ r.error => r.num = val /\ (r.neg <=> neg)

\* Digits make the number they mean, up to max.
LEMMA ANumber ==
  ASSUME NEW V, NEW s \in Seq(V), NEW signs, NEW max \in Nat,
         NEW f, Converts(f, s, signs, max),
         AllDigits(s, FirstDigit(s, signs)), NEW v, Values(v, s, FirstDigit(s, signs))
  PROVE  Means(f[Len(s)], v[Len(s)], FirstDigit(s, signs) = 2 /\ s[1] = "-", max)
<1> DEFINE N == Len(s)
           first == FirstDigit(s, signs)
           Neg(k) == k >= 1 /\ first = 2 /\ s[1] = "-"
           S == {k \in 0..N : ~ Means(f[k], v[k], Neg(k), max)}
<1>1. N \in Nat /\ first \in {1, 2} /\ (first = 2 <=> N >= 1 /\ s[1] \in signs)
  <2>1. N \in Nat /\ (s # <<>> <=> N >= 1)
    BY EmptySeq
  <2> QED
    BY <2>1 DEF FirstDigit
<1>2. /\ \A k \in 1..N : f[k] = NextDigit(f[k - 1], k, s[k], signs, max)
      /\ f[0] = Number(FALSE, 0, FALSE)
      /\ \A k \in 0..N : f[k] \in Results
  BY DEF Converts
<1>3. /\ \A k \in 0..N : v[k] \in Nat
      /\ \A k \in 0..N : v[k] = IF k < first THEN 0 ELSE v[k - 1] * 10 + DigitOf(s[k])
      /\ \A k \in first..N : IsDigit(s[k]) /\ DigitOf(s[k]) \in 0..9
  BY DigitOfDigit DEF Values, AllDigits
<1> HIDE DEF N, first
<1>4. Means(f[0], v[0], Neg(0), max)
  <2>1. v[0] = 0
    BY <1>1, <1>3
  <2> QED
    BY <1>2, <2>1 DEF Means, Number
<1>5. ASSUME NEW k \in 1..N, Means(f[k - 1], v[k - 1], Neg(k - 1), max)
      PROVE  Means(f[k], v[k], Neg(k), max)
  <2>1. /\ k - 1 \in 0..N /\ k \in 0..N /\ v[k - 1] \in Nat /\ v[k] \in Nat
        /\ f[k - 1] \in Results
        /\ f[k] = NextDigit(f[k - 1], k, s[k], signs, max)
    BY <1>1, <1>2, <1>3
  <2>2. CASE k < first
    <3>1. k = 1 /\ first = 2 /\ s[1] \in signs /\ f[k - 1] = Number(FALSE, 0, FALSE)
          /\ v[k] = 0
      <4>1. k = 1 /\ first = 2 /\ s[1] \in signs
        BY <1>1, <2>2
      <4>2. v[k] = 0
        BY <1>3, <2>1, <2>2
      <4>3. k - 1 = 0
        BY <4>1
      <4> QED
        BY <1>2, <4>1, <4>2, <4>3
    <3>2. ~ f[k - 1].error
      BY <3>1 DEF Number
    <3>3. f[k] = Number(s[1] = "-", f[k - 1].num, FALSE) /\ f[k - 1].num = 0
      BY <2>1, <3>1, <3>2 DEF NextDigit, Number
    <3>4. ~ f[k].error /\ f[k].num = 0 /\ (f[k].neg <=> s[1] = "-")
      <4>1. \A b \in BOOLEAN : Number(b, f[k - 1].num, FALSE).neg = b
        BY DEF Number
      <4>2. (s[1] = "-") \in BOOLEAN
        OBVIOUS
      <4>3. f[k].neg = (s[1] = "-")
        BY <3>3, <4>1, <4>2, Zenon
      <4>4. ~ f[k].error /\ f[k].num = 0
        BY <3>3 DEF Number
      <4> QED
        BY <4>3, <4>4, Zenon
    <3>5. Neg(k) <=> s[1] = "-"
      BY <3>1
    <3>6. ~ (v[k] > max)
      BY <3>1
    <3> HIDE DEF Neg
    <3> QED
      BY <3>1, <3>4, <3>5, <3>6 DEF Means
  <2>3. CASE ~ (k < first)
    <3> DEFINE d == DigitOf(s[k])
    <3>1. /\ v[k] = v[k - 1] * 10 + d /\ IsDigit(s[k]) /\ d \in 0..9
          /\ ~ (s[k] \in signs /\ k = 1)
      BY <1>1, <1>3, <2>1, <2>3
    <3> HIDE DEF d
    <3>2. CASE f[k - 1].error
      <4>1. f[k] = f[k - 1]
        BY <2>1, <3>2 DEF NextDigit
      <4>2. v[k - 1] > max
        BY <1>5, <3>2 DEF Means
      <4>3. v[k] > max
        BY <2>1, <3>1, <4>2
      <4> QED
        BY <3>2, <4>1, <4>3 DEF Means
    <3>3. CASE ~ f[k - 1].error
      <4>1. f[k - 1].num = v[k - 1] /\ (f[k - 1].neg <=> Neg(k - 1))
        BY <1>5, <3>3 DEF Means
      <4>2. TooLarge(v[k - 1], d, max) <=> v[k] > max
        <5>1. (max - d) \div 10 \in Int /\ 10 * ((max - d) \div 10) <= max - d
              /\ max - d < 10 * ((max - d) \div 10) + 10
          BY <3>1
        <5> QED
          BY <2>1, <3>1, <5>1 DEF TooLarge
      <4>3. f[k] = IF TooLarge(f[k - 1].num, d, max) THEN Number(FALSE, 0, TRUE)
                   ELSE Number(f[k - 1].neg, f[k - 1].num * 10 + d, FALSE)
        BY <2>1, <3>1, <3>3 DEF NextDigit, d
      <4>4. CASE v[k] > max
        <5>1. f[k] = Number(FALSE, 0, TRUE)
          BY <4>1, <4>2, <4>3, <4>4
        <5> QED
          BY <4>4, <5>1 DEF Means, Number
      <4>5. CASE ~ (v[k] > max)
        <5>1. f[k] = Number(f[k - 1].neg, v[k], FALSE)
          BY <3>1, <4>1, <4>2, <4>3, <4>5
        <5>2. Neg(k - 1) <=> Neg(k)
          BY <1>1, <2>1, <2>3
        <5>3. ~ f[k].error /\ f[k].num = v[k] /\ (f[k].neg <=> f[k - 1].neg)
          BY <5>1 DEF Number
        <5> HIDE DEF Neg
        <5> QED
          BY <4>1, <4>5, <5>2, <5>3 DEF Means
      <4> QED
        BY <4>4, <4>5
    <3> QED
      BY <3>2, <3>3
  <2> QED
    BY <2>2, <2>3
<1>6. S = {}
  <2> SUFFICES ASSUME S # {} PROVE FALSE
    OBVIOUS
  <2>1. S \in SUBSET Nat
    OBVIOUS
  <2>2. PICK k \in S : \A i \in S : k <= i
    <3> HIDE DEF S
    <3> QED
      BY <2>1, FirstOf
  <2>3. k \in 0..N /\ ~ Means(f[k], v[k], Neg(k), max)
    BY <2>2
  <2>4. k # 0
    BY <1>4, <2>3
  <2>5. k \in 1..N /\ k - 1 \in 0..N /\ ~ (k <= k - 1)
    BY <1>1, <2>3, <2>4
  <2>6. k - 1 \notin S
    <3> HIDE DEF S
    <3> QED
      BY <2>2, <2>5
  <2>7. Means(f[k - 1], v[k - 1], Neg(k - 1), max)
    BY <2>5, <2>6
  <2> HIDE DEF Neg
  <2> QED
    BY <1>5, <2>3, <2>5, <2>7
<1>7. N \in 0..N /\ (Neg(N) <=> first = 2 /\ s[1] = "-")
  BY <1>1
<1>8. Means(f[N], v[N], Neg(N), max)
  BY <1>6, <1>7
<1> HIDE DEF Neg
<1> QED
  BY <1>7, <1>8 DEF Means, N, first

\* An integer conversion does what IntegerExact says.
LEMMA IntegersConvert ==
  ASSUME NEW V, NEW s \in Seq(V), NEW signs, NEW max \in Nat
  PROVE  IntegerExact(s, ToInt(s, signs, max), signs, max)
<1> DEFINE first == FirstDigit(s, signs)
<1>1. PICK f : Converts(f, s, signs, max) /\ ToInt(s, signs, max) = f[Len(s)]
  BY IntSteps
<1>2. CASE ~ AllDigits(s, first)
  <2>1. f[Len(s)].error
    BY <1>1, <1>2, NotANumber
  <2> QED
    BY <1>1, <1>2, <2>1 DEF IntegerExact
<1>3. CASE AllDigits(s, first)
  <2>1. first \in Nat \ {0}
    BY DEF FirstDigit
  <2> HIDE DEF first
  <2>2. PICK v : Values(v, s, first) /\ ValueOf(s, first) = v[Len(s)]
    BY <1>3, <2>1, ValueSteps
  <2>3. Means(f[Len(s)], v[Len(s)], first = 2 /\ s[1] = "-", max)
    BY <1>1, <1>3, <2>2, ANumber DEF first
  <2>4. v[Len(s)] \in Nat
    BY <2>2 DEF Values
  <2> QED
    BY <1>1, <1>3, <2>2, <2>3, <2>4 DEF Means, IntegerExact, first
<1> QED
  BY <1>2, <1>3

\* What PowersOfTen holds.
LEMMA TenTimes ==
  ASSUME NEW n \in Nat
  PROVE  /\ \A k \in 0..n : PowersOfTen(n)[k] \in Nat
         /\ PowersOfTen(n)[0] = 1
         /\ \A k \in 1..n : PowersOfTen(n)[k] = PowersOfTen(n)[k - 1] * 10
<1> DEFINE G(f) == [k \in 0..n |-> IF k = 0 THEN 1 ELSE f[k - 1] * 10]
           f0 == CHOOSE f : f = G(f)
           F == [x \in Nat \X Nat |-> x[2] * 10]
<1>1. PowersOfTen(n) = f0
  BY DEF PowersOfTen
<1>2. F \in [Nat \X Nat -> Nat] /\ \A k, u \in Nat : F[<<k, u>>] = u * 10
  OBVIOUS
<1> HIDE DEF F
<1>3. PICK g : Recurs(g, Nat, 1, F, n)
  BY <1>2, Recursion
<1>4. /\ g \in [0..n -> Nat] /\ g[0] = 1
      /\ \A k \in 1..n : g[k] = g[k - 1] * 10
  <2>1. g \in [0..n -> Nat] /\ g[0] = 1 /\ \A k \in 1..n : g[k] = F[<<k, g[k - 1]>>]
    BY <1>3 DEF Recurs
  <2>2. \A k \in 1..n : k \in Nat /\ g[k - 1] \in Nat
    BY <2>1
  <2> QED
    BY <1>2, <2>1, <2>2
<1>5. g = G(g)
  <2>1. g = [k \in 0..n |-> g[k]]
    BY <1>4
  <2>2. \A k \in 0..n : g[k] = IF k = 0 THEN 1 ELSE g[k - 1] * 10
    <3>1. \A k \in 0..n : k # 0 => k \in 1..n
      OBVIOUS
    <3> QED
      BY <1>4, <3>1
  <2> QED
    BY <2>1, <2>2
<1>6. f0 = G(f0)
  BY <1>5
<1> HIDE DEF f0
<1>7. \A k \in 0..n : f0[k] = IF k = 0 THEN 1 ELSE f0[k - 1] * 10
  BY <1>6
<1>8. f0[0] = 1 /\ \A k \in 1..n : f0[k] = f0[k - 1] * 10
  <2>1. 0 \in 0..n /\ \A k \in 1..n : k \in 0..n /\ k # 0
    OBVIOUS
  <2> QED
    BY <1>7, <2>1
<1> DEFINE S == {k \in 0..n : f0[k] \notin Nat}
<1>9. S = {}
  <2> SUFFICES ASSUME S # {} PROVE FALSE
    OBVIOUS
  <2>1. S \in SUBSET Nat
    OBVIOUS
  <2>2. PICK k \in S : \A h \in S : k <= h
    <3> HIDE DEF S
    <3> QED
      BY <2>1, FirstOf
  <2>3. k \in 0..n /\ f0[k] \notin Nat
    BY <2>2
  <2>4. k \in 1..n /\ k - 1 \in 0..n /\ ~ (k <= k - 1)
    BY <1>8, <2>3
  <2>5. k - 1 \notin S
    <3> HIDE DEF S
    <3> QED
      BY <2>2, <2>4
  <2> QED
    BY <1>8, <2>3, <2>4, <2>5
<1> QED
  BY <1>1, <1>8, <1>9

\* The results of a conversion to a double.
DoubleResults ==
  [neg : BOOLEAN, num : Nat, divisor : Nat, fraction : BOOLEAN, error : BOOLEAN]

\* A character leads from one to another.
LEMMA NextDoubleResult ==
  ASSUME NEW n \in DoubleResults, NEW i \in Nat, NEW c
  PROVE  NextOfDouble(n, i, c) \in DoubleResults
<1>1. \A neg, fraction, error \in BOOLEAN, num, divisor \in Nat :
        Double(neg, num, divisor, fraction, error) \in DoubleResults
  BY DEF Double, DoubleResults
<1>2. n.neg \in BOOLEAN /\ n.num \in Nat /\ n.divisor \in Nat /\ n.fraction \in BOOLEAN
  BY DEF DoubleResults
<1>3. CASE n.error
  BY <1>3 DEF NextOfDouble
<1>4. CASE ~ n.error /\ c \in {"+", "-"} /\ i = 1
  <2>1. NextOfDouble(n, i, c) = Double(c = "-", 0, 1, FALSE, FALSE)
    BY <1>4 DEF NextOfDouble
  <2>2. (c = "-") \in BOOLEAN /\ FALSE \in BOOLEAN /\ 0 \in Nat /\ 1 \in Nat
    OBVIOUS
  <2> QED
    BY <1>1, <2>1, <2>2, Zenon
<1>5. CASE ~ n.error /\ ~ (c \in {"+", "-"} /\ i = 1) /\ c = "." /\ ~ n.fraction
  <2>1. NextOfDouble(n, i, c) = Double(n.neg, n.num, 1, TRUE, FALSE)
    BY <1>5 DEF NextOfDouble
  <2> QED
    BY <1>1, <1>2, <2>1
<1>6. CASE /\ ~ n.error /\ ~ (c \in {"+", "-"} /\ i = 1) /\ ~ (c = "." /\ ~ n.fraction)
           /\ ~ IsDigit(c)
  <2>1. NextOfDouble(n, i, c) = Double(TRUE, 1, 1, FALSE, TRUE)
    BY <1>6 DEF NextOfDouble
  <2> QED
    BY <1>1, <2>1
<1>7. CASE /\ ~ n.error /\ ~ (c \in {"+", "-"} /\ i = 1) /\ ~ (c = "." /\ ~ n.fraction)
           /\ IsDigit(c)
  <2>1. DigitOf(c) \in 0..9
    BY <1>7, DigitOfDigit
  <2>2. NextOfDouble(n, i, c) =
          Double(n.neg, n.num * 10 + DigitOf(c),
                 IF n.fraction THEN n.divisor * 10 ELSE 1, n.fraction, FALSE)
    BY <1>7 DEF NextOfDouble
  <2>3. n.num * 10 + DigitOf(c) \in Nat /\ (IF n.fraction THEN n.divisor * 10 ELSE 1) \in Nat
    BY <1>2, <2>1
  <2> QED
    BY <1>1, <1>2, <2>2, <2>3
<1> QED
  BY <1>3, <1>4, <1>5, <1>6, <1>7

\* f holds the result after each character of s.
ConvertsDouble(f, s) ==
  /\ \A k \in 0..Len(s) : f[k] \in DoubleResults
  /\ f[0] = Double(FALSE, 0, 1, FALSE, FALSE)
  /\ \A k \in 1..Len(s) : f[k] = NextOfDouble(f[k - 1], k, s[k])

\* What ToDouble computes.
LEMMA DoubleSteps ==
  ASSUME NEW V, NEW s \in Seq(V)
  PROVE  \E f : ConvertsDouble(f, s) /\ ToDouble(s) = f[Len(s)]
<1> DEFINE N == Len(s)
           v0 == Double(FALSE, 0, 1, FALSE, FALSE)
           G(f) == [i \in 0..N |-> IF i = 0 THEN Double(FALSE, 0, 1, FALSE, FALSE)
                                   ELSE NextOfDouble(f[i - 1], i, s[i])]
           f0 == CHOOSE f : f = G(f)
           F == [x \in Nat \X DoubleResults |-> NextOfDouble(x[2], x[1], s[x[1]])]
<1>1. ToDouble(s) = f0[N]
  BY DEF ToDouble
<1>2. N \in Nat /\ v0 \in DoubleResults
  BY DEF Double, DoubleResults
<1> HIDE DEF N
<1>3. F \in [Nat \X DoubleResults -> DoubleResults]
  <2> SUFFICES ASSUME NEW x \in Nat \X DoubleResults
               PROVE  NextOfDouble(x[2], x[1], s[x[1]]) \in DoubleResults
    OBVIOUS
  <2>1. x[1] \in Nat /\ x[2] \in DoubleResults
    OBVIOUS
  <2> QED
    BY <2>1, NextDoubleResult
<1>4. \A k \in Nat, u \in DoubleResults : F[<<k, u>>] = NextOfDouble(u, k, s[k])
  OBVIOUS
<1> HIDE DEF F
<1>5. PICK g : Recurs(g, DoubleResults, v0, F, N)
  <2> HIDE DEF v0
  <2> QED
    BY <1>2, <1>3, Recursion
<1>6. /\ g \in [0..N -> DoubleResults] /\ g[0] = v0
      /\ \A k \in 1..N : g[k] = NextOfDouble(g[k - 1], k, s[k])
  <2>1. g \in [0..N -> DoubleResults] /\ g[0] = v0 /\ \A k \in 1..N : g[k] = F[<<k, g[k - 1]>>]
    BY <1>5 DEF Recurs
  <2>2. \A k \in 1..N : k \in Nat /\ g[k - 1] \in DoubleResults
    BY <1>2, <2>1
  <2> QED
    BY <1>4, <2>1, <2>2
<1>7. g = G(g)
  <2>1. g = [k \in 0..N |-> g[k]]
    BY <1>6
  <2>2. \A k \in 0..N : g[k] = IF k = 0 THEN Double(FALSE, 0, 1, FALSE, FALSE)
                               ELSE NextOfDouble(g[k - 1], k, s[k])
    <3>1. \A k \in 0..N : k # 0 => k \in 1..N
      BY <1>2
    <3> QED
      BY <1>6, <3>1
  <2> QED
    BY <2>1, <2>2
<1>8. f0 = G(f0)
  BY <1>7
<1> HIDE DEF f0
<1>9. \A k \in 0..N : f0[k] = IF k = 0 THEN Double(FALSE, 0, 1, FALSE, FALSE)
                              ELSE NextOfDouble(f0[k - 1], k, s[k])
  BY <1>8
<1>10. f0[0] = v0 /\ \A k \in 1..N : f0[k] = NextOfDouble(f0[k - 1], k, s[k])
  <2>1. 0 \in 0..N /\ \A k \in 1..N : k \in 0..N /\ k # 0
    BY <1>2
  <2> QED
    BY <1>9, <2>1
<1> DEFINE S == {k \in 0..N : f0[k] \notin DoubleResults}
<1>11. S = {}
  <2> SUFFICES ASSUME S # {} PROVE FALSE
    OBVIOUS
  <2>1. S \in SUBSET Nat
    OBVIOUS
  <2>2. PICK k \in S : \A h \in S : k <= h
    <3> HIDE DEF S
    <3> QED
      BY <2>1, FirstOf
  <2>3. k \in 0..N /\ f0[k] \notin DoubleResults
    BY <2>2
  <2>4. k # 0
    BY <1>2, <1>10, <2>3
  <2>5. k - 1 \in 0..N /\ k \in 1..N /\ k \in Nat /\ ~ (k <= k - 1)
    BY <1>2, <2>3, <2>4
  <2>6. k - 1 \notin S
    <3> HIDE DEF S
    <3> QED
      BY <2>2, <2>5
  <2>7. f0[k - 1] \in DoubleResults
    BY <2>5, <2>6
  <2> QED
    BY <1>10, <2>3, <2>5, <2>7, NextDoubleResult
<1>12. \A k \in 0..N : f0[k] \in DoubleResults
  BY <1>11
<1>13. ConvertsDouble(f0, s)
  BY <1>10, <1>12 DEF ConvertsDouble, N
<1> QED
  BY <1>1, <1>13 DEF N

\* An error stays.
LEMMA ErrorsStay ==
  ASSUME NEW V, NEW s \in Seq(V), NEW f, ConvertsDouble(f, s), NEW h \in 1..Len(s), f[h].error
  PROVE  f[Len(s)].error
<1> DEFINE N == Len(s)
           T == {k \in 0..N : k >= h /\ ~ f[k].error}
<1>1. N \in Nat /\ \A k \in 1..N : f[k] = NextOfDouble(f[k - 1], k, s[k])
  BY DEF ConvertsDouble
<1>2. T = {}
  <2> SUFFICES ASSUME T # {} PROVE FALSE
    OBVIOUS
  <2>1. T \in SUBSET Nat
    OBVIOUS
  <2>2. PICK k \in T : \A i \in T : k <= i
    <3> HIDE DEF T
    <3> QED
      BY <2>1, FirstOf
  <2>3. k \in 0..N /\ k >= h /\ ~ f[k].error
    BY <2>2
  <2>4. k \in 1..N /\ k - 1 \in 0..N /\ k - 1 >= h /\ ~ (k <= k - 1)
    BY <1>1, <2>3
  <2>5. k - 1 \notin T
    <3> HIDE DEF T
    <3> QED
      BY <2>2, <2>4
  <2>6. f[k - 1].error
    BY <2>4, <2>5
  <2>7. f[k] = f[k - 1]
    BY <1>1, <2>4, <2>6 DEF NextOfDouble
  <2> QED
    BY <2>3, <2>6, <2>7
<1> QED
  BY <1>1, <1>2

\* Only the character at p is a point; at no place when p is beyond the end.
PointAt(s, p) == /\ p \in 1..(Len(s) + 1)
                 /\ \A k \in 1..Len(s) : s[k] = "." <=> k = p

\* There is such a place when there are not two points.
LEMMA FewPoints ==
  ASSUME NEW V, NEW s \in Seq(V)
  PROVE  /\ Cardinality(PointsOf(s)) <= 1 =>
              \E p \in 1..(Len(s) + 1) : PointAt(s, p)
         /\ ~ (Cardinality(PointsOf(s)) <= 1) =>
              \E j, k \in 1..Len(s) : j < k /\ s[j] = "." /\ s[k] = "."
<1> DEFINE P == PointsOf(s)
<1>1. Len(s) \in Nat /\ DOMAIN s = 1..Len(s)
  OBVIOUS
<1>2. /\ \A x \in P : x + 1 \in 1..Len(s) /\ s[x + 1] = "." /\ x \in 0..Len(s)
      /\ \A k \in 1..Len(s) : s[k] = "." => k - 1 \in P
  BY <1>1 DEF PointsOf
<1> HIDE DEF P
<1>3. IsFiniteSet(P) /\ Cardinality(P) \in Nat
  <2>1. IsFiniteSet(0..Len(s))
    BY <1>1, FS_Interval
  <2>2. P \subseteq 0..Len(s)
    BY <1>2
  <2>3. IsFiniteSet(P)
    BY <2>1, <2>2, FS_Subset
  <2> QED
    BY <2>3, FS_CardinalityType
<1>4. ASSUME Cardinality(P) <= 1 PROVE \E p \in 1..(Len(s) + 1) : PointAt(s, p)
  <2>1. CASE P = {}
    <3>1. \A k \in 1..Len(s) : s[k] = "." <=> k = Len(s) + 1
      BY <1>1, <1>2, <2>1
    <3>2. Len(s) + 1 \in 1..(Len(s) + 1)
      BY <1>1
    <3> QED
      BY <3>1, <3>2 DEF PointAt
  <2>2. CASE P # {}
    <3>1. Cardinality(P) # 0
      BY <1>3, <2>2, FS_EmptySet
    <3>2. Cardinality(P) = 1
      BY <1>3, <1>4, <3>1
    <3>3. PICK x : P = {x}
      BY <1>3, <3>2, FS_Singleton
    <3>4. x + 1 \in 1..Len(s) /\ s[x + 1] = "." /\ x \in Int
      BY <1>1, <1>2, <3>3
    <3>5. \A k \in 1..Len(s) : s[k] = "." <=> k = x + 1
      BY <1>1, <1>2, <3>3, <3>4
    <3>6. x + 1 \in 1..(Len(s) + 1)
      BY <1>1, <3>4
    <3> QED
      BY <3>5, <3>6 DEF PointAt
  <2> QED
    BY <2>1, <2>2
<1>5. ASSUME ~ (Cardinality(P) <= 1)
      PROVE  \E j, k \in 1..Len(s) : j < k /\ s[j] = "." /\ s[k] = "."
  <2>1. P # {}
    <3>1. P = {} => Cardinality(P) = 0
      BY <1>3, FS_EmptySet
    <3> QED
      BY <1>5, <3>1
  <2>2. PICK x \in P : TRUE
    BY <2>1
  <2>3. P # {x}
    <3>1. P = {x} => Cardinality(P) = 1
      BY FS_Singleton
    <3> QED
      BY <1>5, <3>1
  <2>4. PICK y \in P : y # x
    BY <2>2, <2>3
  <2>5. /\ x + 1 \in 1..Len(s) /\ y + 1 \in 1..Len(s) /\ s[x + 1] = "." /\ s[y + 1] = "."
        /\ x \in Int /\ y \in Int
    BY <1>1, <1>2, <2>2, <2>4
  <2>6. x + 1 < y + 1 \/ y + 1 < x + 1
    BY <2>4, <2>5
  <2> QED
    BY <2>5, <2>6
<1> QED
  BY <1>4, <1>5 DEF P

\* The string without its point.
LEMMA WithoutPoint ==
  ASSUME NEW V, NEW s \in Seq(V), NEW p \in 1..(Len(s) + 1), PointAt(s, p),
         NEW m, m = IF p <= Len(s) THEN Len(s) - 1 ELSE Len(s)
  PROVE  /\ Without(s, PointsOf(s)) \in Seq(V) /\ Len(Without(s, PointsOf(s))) = m
         /\ m \in Nat
         /\ \A k \in 1..m : Without(s, PointsOf(s))[k] = IF k < p THEN s[k] ELSE s[k + 1]
<1> DEFINE q == [k \in 1..m |-> IF k < p THEN k ELSE k + 1]
           t == [k \in 1..m |-> s[q[k]]]
           C == PointsOf(s)
<1>1. Len(s) \in Nat /\ p \in Nat /\ m \in Nat
  OBVIOUS
<1>2. \A x \in 1..Len(s) : x - 1 \in C <=> x = p
  <2>1. \A x \in 1..Len(s) : x - 1 \in C <=> s[x] = "."
    BY <1>1 DEF PointsOf
  <2> QED
    BY <2>1 DEF PointAt
<1> HIDE DEF C
<1>3. \A k \in 1..m : q[k] = IF k < p THEN k ELSE k + 1
  OBVIOUS
<1>4. q \in Seq(Nat) /\ Len(q) = m
  <2>1. q \in [1..m -> Nat]
    BY <1>1
  <2> HIDE DEF q
  <2> QED
    BY <1>1, <2>1, FunctionIsSeq
<1> HIDE DEF q
<1>5. \A k \in 1..m : q[k] \in 1..Len(s) /\ q[k] # p
  BY <1>1, <1>3
<1>6. \A k \in 1..Len(q) : q[k] \in 1..Len(s) /\ q[k] - 1 \notin C
  BY <1>2, <1>4, <1>5
<1>7. Rising(q)
  BY <1>1, <1>3, <1>4 DEF Rising
<1>8. \A x \in 1..Len(s) : x - 1 \notin C => \E k \in 1..Len(q) : q[k] = x
  <2> SUFFICES ASSUME NEW x \in 1..Len(s), x # p PROVE \E k \in 1..m : q[k] = x
    BY <1>2, <1>4
  <2>1. CASE x < p
    <3>1. x \in 1..m
      BY <1>1, <2>1
    <3> QED
      BY <1>3, <2>1, <3>1
  <2>2. CASE ~ (x < p)
    <3>1. x - 1 \in 1..m /\ ~ (x - 1 < p) /\ x - 1 + 1 = x
      BY <1>1, <2>2
    <3>2. q[x - 1] = x
      BY <1>3, <3>1
    <3> QED
      BY <3>1, <3>2
  <2> QED
    BY <2>1, <2>2
<1>9. Picks(t, s, Len(s), C)
  BY <1>4, <1>6, <1>7, <1>8 DEF Picks
<1>10. t = Without(s, C)
  <2> HIDE DEF t
  <2> QED
    BY <1>9, Picked
<1>11. t \in Seq(V) /\ Len(t) = m
  <2>1. \A k \in 1..m : s[q[k]] \in V
    BY <1>5, ElementOfSeq
  <2>2. t \in [1..m -> V]
    BY <2>1
  <2> HIDE DEF t
  <2> QED
    BY <1>1, <2>2, FunctionIsSeq
<1>12. \A k \in 1..m : t[k] = IF k < p THEN s[k] ELSE s[k + 1]
  BY <1>3
<1> HIDE DEF t
<1> QED
  BY <1>1, <1>10, <1>11, <1>12 DEF C

\* Two points make an error.
LEMMA TwoPoints ==
  ASSUME NEW V, NEW s \in Seq(V), NEW f, ConvertsDouble(f, s),
         NEW j \in 1..Len(s), NEW h \in 1..Len(s), j < h, s[j] = ".", s[h] = "."
  PROVE  f[Len(s)].error
<1> DEFINE N == Len(s)
           Seen1(k) == f[k].error \/ f[k].fraction
           T == {k \in 0..N : k >= j /\ ~ Seen1(k)}
<1>1. N \in Nat /\ \A k \in 1..N : f[k] = NextOfDouble(f[k - 1], k, s[k])
  BY DEF ConvertsDouble
<1>2. ~ IsDigit(".") /\ "." \notin {"+", "-"}
  BY DEF IsDigit, Digits
<1>3. Seen1(j)
  <2>1. f[j] = NextOfDouble(f[j - 1], j, ".")
    BY <1>1
  <2>2. CASE f[j - 1].error
    BY <2>1, <2>2 DEF NextOfDouble
  <2>3. CASE ~ f[j - 1].error /\ ~ f[j - 1].fraction
    <3>1. f[j] = Double(f[j - 1].neg, f[j - 1].num, 1, TRUE, FALSE)
      BY <1>2, <2>1, <2>3 DEF NextOfDouble
    <3> QED
      BY <3>1 DEF Double
  <2>4. CASE ~ f[j - 1].error /\ f[j - 1].fraction
    <3>1. f[j] = Double(TRUE, 1, 1, FALSE, TRUE)
      BY <1>2, <2>1, <2>4 DEF NextOfDouble
    <3> QED
      BY <3>1 DEF Double
  <2> QED
    BY <2>2, <2>3, <2>4
<1>4. ASSUME NEW k \in 2..N, Seen1(k - 1) PROVE Seen1(k)
  <2>1. f[k] = NextOfDouble(f[k - 1], k, s[k]) /\ k # 1
    BY <1>1
  <2>2. CASE f[k - 1].error
    BY <2>1, <2>2 DEF NextOfDouble
  <2>3. CASE ~ f[k - 1].error /\ f[k - 1].fraction /\ ~ IsDigit(s[k])
    <3>1. f[k] = Double(TRUE, 1, 1, FALSE, TRUE)
      BY <2>1, <2>3 DEF NextOfDouble
    <3> QED
      BY <3>1 DEF Double
  <2>4. CASE ~ f[k - 1].error /\ f[k - 1].fraction /\ IsDigit(s[k])
    <3>1. s[k] # "."
      BY <1>2, <2>4
    <3>2. f[k] = Double(f[k - 1].neg, f[k - 1].num * 10 + DigitOf(s[k]),
                        f[k - 1].divisor * 10, f[k - 1].fraction, FALSE)
      BY <2>1, <2>4, <3>1 DEF NextOfDouble
    <3>3. \A b \in BOOLEAN :
            Double(f[k - 1].neg, f[k - 1].num * 10 + DigitOf(s[k]),
                   f[k - 1].divisor * 10, b, FALSE).fraction = b
      BY DEF Double
    <3>4. f[k - 1].fraction \in BOOLEAN
      <4>1. f[k - 1] \in DoubleResults
        BY <1>1 DEF ConvertsDouble
      <4> QED
        BY <4>1 DEF DoubleResults
    <3>5. f[k].fraction = f[k - 1].fraction
      BY <3>2, <3>3, <3>4, Zenon
    <3> QED
      BY <2>4, <3>5, Zenon
  <2> QED
    BY <1>4, <2>2, <2>3, <2>4
<1> HIDE DEF Seen1
<1>5. T = {}
  <2> SUFFICES ASSUME T # {} PROVE FALSE
    OBVIOUS
  <2>1. T \in SUBSET Nat
    OBVIOUS
  <2>2. PICK k \in T : \A i \in T : k <= i
    <3> HIDE DEF T
    <3> QED
      BY <2>1, FirstOf
  <2>3. k \in 0..N /\ k >= j /\ ~ Seen1(k)
    BY <2>2
  <2>4. k # j
    BY <1>3, <2>3
  <2>5. k \in 2..N /\ k - 1 \in 0..N /\ k - 1 >= j /\ ~ (k <= k - 1)
    BY <1>1, <2>3, <2>4
  <2>6. k - 1 \notin T
    <3> HIDE DEF T
    <3> QED
      BY <2>2, <2>5
  <2>7. Seen1(k - 1)
    BY <2>5, <2>6
  <2> QED
    BY <1>4, <2>3, <2>5, <2>7
<1>6. Seen1(h - 1) /\ h # 1
  <2>1. h - 1 \in 0..N /\ h - 1 >= j
    BY <1>1
  <2> QED
    BY <1>5, <2>1
<1>7. f[h].error
  <2>1. f[h] = NextOfDouble(f[h - 1], h, ".")
    BY <1>1
  <2>2. CASE f[h - 1].error
    BY <2>1, <2>2 DEF NextOfDouble
  <2>3. CASE ~ f[h - 1].error
    <3>1. f[h - 1].fraction
      BY <1>6, <2>3 DEF Seen1
    <3>2. f[h] = Double(TRUE, 1, 1, FALSE, TRUE)
      BY <1>2, <2>1, <2>3, <3>1 DEF NextOfDouble
    <3> QED
      BY <3>2 DEF Double
  <2> QED
    BY <2>2, <2>3
<1> QED
  BY <1>7, ErrorsStay

\* A character that is neither a digit nor a point, from the first digit on, makes one.
LEMMA NotADouble ==
  ASSUME NEW V, NEW s \in Seq(V), NEW f, ConvertsDouble(f, s),
         NEW h \in FirstDigit(s, {"+", "-"})..Len(s), s[h] # ".", ~ IsDigit(s[h])
  PROVE  f[Len(s)].error
<1> DEFINE N == Len(s)
<1>1. N \in Nat /\ \A k \in 1..N : f[k] = NextOfDouble(f[k - 1], k, s[k])
  BY DEF ConvertsDouble
<1>2. h \in 1..N /\ ~ (s[h] \in {"+", "-"} /\ h = 1)
  <2>1. CASE s # <<>> /\ s[1] \in {"+", "-"}
    BY <1>1, <2>1 DEF FirstDigit
  <2>2. CASE ~ (s # <<>> /\ s[1] \in {"+", "-"})
    <3>1. h \in 1..N
      BY <2>2 DEF FirstDigit
    <3>2. s # <<>>
      BY <3>1
    <3> QED
      BY <2>2, <3>1, <3>2
  <2> QED
    BY <2>1, <2>2
<1>3. f[h].error
  <2>1. f[h] = NextOfDouble(f[h - 1], h, s[h])
    BY <1>1, <1>2
  <2>2. CASE f[h - 1].error
    BY <2>1, <2>2 DEF NextOfDouble
  <2>3. CASE ~ f[h - 1].error
    <3>1. f[h] = Double(TRUE, 1, 1, FALSE, TRUE)
      BY <1>2, <2>1, <2>3 DEF NextOfDouble
    <3> QED
      BY <3>1 DEF Double
  <2> QED
    BY <2>2, <2>3
<1> QED
  BY <1>2, <1>3, ErrorsStay

\* What the result is when digits make the number val so far.
MeansDouble(r, val, divisor, fraction, neg) ==
  /\ ~ r.error /\ r.num = val /\ r.divisor = divisor
  /\ r.fraction <=> fraction
  /\ r.neg <=> neg

\* From first on, s has digits, and a point at p or none; D is s without the point, and v
\* the number up to each of the m places of D.
DigitsAndPoint(s, p, first, m, D, v) ==
  /\ p \in 1..(Len(s) + 1) /\ PointAt(s, p)
  /\ first = FirstDigit(s, {"+", "-"})
  /\ \A k \in first..Len(s) : k # p => IsDigit(s[k])
  /\ m \in Nat /\ m = IF p <= Len(s) THEN Len(s) - 1 ELSE Len(s)
  /\ \A k \in 1..m : D[k] = IF k < p THEN s[k] ELSE s[k + 1]
  /\ \A k \in 0..m : v[k] \in Nat
  /\ \A k \in 0..m : v[k] = IF k < first THEN 0 ELSE v[k - 1] * 10 + DigitOf(D[k])

\* They make the number they mean.
LEMMA ADouble ==
  ASSUME NEW V, NEW s \in Seq(V), NEW f, ConvertsDouble(f, s),
         NEW p, NEW first, NEW m, NEW D, NEW v, DigitsAndPoint(s, p, first, m, D, v)
  PROVE  /\ ~ f[Len(s)].error /\ f[Len(s)].num = v[m]
         /\ f[Len(s)].divisor = IF p <= Len(s) THEN PowersOfTen(Len(s))[Len(s) - p] ELSE 1
         /\ f[Len(s)].neg <=> Len(s) >= 1 /\ s[1] = "-"
<1> DEFINE N == Len(s)
           t == PowersOfTen(N)
           At(k) == IF k < p THEN k ELSE k - 1
           Right(k) == MeansDouble(f[k], v[At(k)], IF p <= k THEN t[k - p] ELSE 1,
                                   p <= k, k >= 1 /\ s[1] = "-")
           S == {k \in 0..N : ~ Right(k)}
<1>0. /\ p \in 1..(Len(s) + 1) /\ PointAt(s, p)
      /\ first = FirstDigit(s, {"+", "-"})
      /\ \A k \in first..Len(s) : k # p => IsDigit(s[k])
      /\ m \in Nat /\ m = IF p <= Len(s) THEN Len(s) - 1 ELSE Len(s)
      /\ \A k \in 1..m : D[k] = IF k < p THEN s[k] ELSE s[k + 1]
      /\ \A k \in 0..m : v[k] \in Nat
      /\ \A k \in 0..m : v[k] = IF k < first THEN 0 ELSE v[k - 1] * 10 + DigitOf(D[k])
  BY DEF DigitsAndPoint
<1> USE <1>0
<1>1. /\ N \in Nat /\ p \in Nat /\ first \in {1, 2}
      /\ first = 2 <=> N >= 1 /\ s[1] \in {"+", "-"}
  <2>1. N \in Nat /\ (s # <<>> <=> N >= 1)
    BY EmptySeq
  <2> QED
    BY <2>1 DEF FirstDigit
<1>2. /\ \A k \in 1..N : f[k] = NextOfDouble(f[k - 1], k, s[k])
      /\ f[0] = Double(FALSE, 0, 1, FALSE, FALSE)
      /\ \A k \in 0..N : f[k] \in DoubleResults
  BY DEF ConvertsDouble
<1>3. \A k \in 1..N : s[k] = "." <=> k = p
  BY DEF PointAt
<1>4. t[0] = 1 /\ \A k \in 1..N : t[k] = t[k - 1] * 10
  BY <1>1, TenTimes
<1> HIDE DEF t
<1>5. first = 2 => p # 1
  BY <1>1, <1>3
<1>6. /\ At(0) = 0 /\ At(N) = m
      /\ p \in 1..N => At(p) = At(p - 1)
      /\ \A k \in 0..N : At(k) \in 0..m
  BY <1>1
<1>7. ASSUME NEW k \in 1..N, k # p
      PROVE  At(k) \in 1..m /\ D[At(k)] = s[k] /\ At(k - 1) = At(k) - 1
             /\ (k >= first => At(k) >= first)
  <2>1. CASE k < p
    <3>1. At(k) = k /\ At(k - 1) = k - 1 /\ k \in 1..m
      BY <1>1, <2>1
    <3> HIDE DEF At
    <3> QED
      BY <2>1, <3>1
  <2>2. CASE k > p
    <3>1. At(k) = k - 1 /\ At(k - 1) = k - 2 /\ k - 1 \in 1..m /\ k - 1 + 1 = k
          /\ ~ (k - 1 < p) /\ k - 2 = k - 1 - 1
      BY <1>1, <2>2
    <3>2. k >= first => k - 1 >= first
      BY <1>1, <1>5, <2>2
    <3> HIDE DEF At
    <3> QED
      BY <3>1, <3>2
  <2> QED
    BY <1>1, <1>7, <2>1, <2>2
<1> HIDE DEF At, N
<1>8. Right(0)
  <2>1. v[0] = 0 /\ ~ (p <= 0) /\ ~ (0 >= 1)
    BY <1>1
  <2>2. ~ f[0].error /\ f[0].num = 0 /\ f[0].divisor = 1 /\ ~ f[0].fraction /\ ~ f[0].neg
    BY <1>2 DEF Double
  <2> QED
    BY <1>6, <2>1, <2>2 DEF MeansDouble
<1>9. ASSUME NEW k \in 1..N, Right(k - 1) PROVE Right(k)
  <2>1. /\ k - 1 \in 0..N /\ k \in 0..N /\ k \in Nat
        /\ f[k] = NextOfDouble(f[k - 1], k, s[k])
        /\ f[k - 1] \in DoubleResults
    BY <1>1, <1>2
  <2>2. f[k - 1].neg \in BOOLEAN /\ f[k - 1].fraction \in BOOLEAN
    BY <2>1 DEF DoubleResults
  <2>3. /\ ~ f[k - 1].error /\ f[k - 1].num = v[At(k - 1)]
        /\ f[k - 1].divisor = IF p <= k - 1 THEN t[k - 1 - p] ELSE 1
        /\ f[k - 1].fraction <=> p <= k - 1
        /\ f[k - 1].neg <=> k - 1 >= 1 /\ s[1] = "-"
    BY <1>9 DEF MeansDouble
  <2>4. CASE k = 1 /\ s[1] \in {"+", "-"}
    <3>1. first = 2 /\ k # p /\ ~ (p <= k)
      BY <1>1, <1>5, <2>4
    <3>2. At(k) = 1 /\ At(k) \in 0..m
      <4>1. At(k) \in 1..m /\ At(k - 1) = At(k) - 1
        BY <1>7, <3>1
      <4>2. At(k - 1) = 0
        BY <1>6, <2>4
      <4> QED
        BY <4>1, <4>2
    <3>3. v[At(k)] = 0
      BY <3>1, <3>2
    <3>4. f[k] = Double(s[1] = "-", 0, 1, FALSE, FALSE)
      BY <2>1, <2>3, <2>4 DEF NextOfDouble
    <3>5. (s[1] = "-") \in BOOLEAN
      OBVIOUS
    <3>6. /\ ~ f[k].error /\ f[k].num = 0 /\ f[k].divisor = 1 /\ ~ f[k].fraction
          /\ f[k].neg <=> s[1] = "-"
      <4> DEFINE b == s[1] = "-"
      <4>1. b \in BOOLEAN /\ f[k] = Double(b, 0, 1, FALSE, FALSE)
        BY <3>4
      <4> HIDE DEF b
      <4>2. /\ ~ f[k].error /\ f[k].num = 0 /\ f[k].divisor = 1 /\ ~ f[k].fraction
            /\ f[k].neg <=> b
        BY <4>1 DEF Double
      <4> QED
        BY <4>2 DEF b
    <3>7. k >= 1
      BY <2>4
    <3> QED
      BY <3>1, <3>3, <3>6, <3>7 DEF MeansDouble
  <2>5. CASE k = p
    <3>1. s[k] = "." /\ ~ (p <= k - 1) /\ p <= k /\ k - p = 0
      BY <1>1, <1>3, <2>5
    <3>2. f[k] = Double(f[k - 1].neg, f[k - 1].num, 1, TRUE, FALSE)
      BY <2>1, <2>3, <3>1 DEF NextOfDouble
    <3>3. /\ ~ f[k].error /\ f[k].num = f[k - 1].num /\ f[k].divisor = 1 /\ f[k].fraction
          /\ f[k].neg <=> f[k - 1].neg
      BY <2>2, <3>2 DEF Double
    <3>4. At(k) = At(k - 1)
      BY <1>6, <2>5
    <3>5. k >= 1 /\ s[1] = "-" <=> k - 1 >= 1 /\ s[1] = "-"
      BY <1>1, <3>1
    <3> QED
      BY <1>4, <2>3, <3>1, <3>3, <3>4, <3>5 DEF MeansDouble
  <2>6. CASE k # p /\ ~ (k = 1 /\ s[1] \in {"+", "-"})
    <3> DEFINE d == DigitOf(s[k])
    <3>1. k >= first
      BY <1>1, <2>6
    <3>2. IsDigit(s[k]) /\ s[k] # "."
      <4>1. k \in first..Len(s)
        BY <1>1, <3>1 DEF N
      <4> QED
        BY <1>3, <2>6, <4>1
    <3>3. v[At(k)] = v[At(k - 1)] * 10 + d
      <4>1. At(k) \in 1..m /\ D[At(k)] = s[k] /\ At(k - 1) = At(k) - 1 /\ At(k) >= first
        BY <1>7, <2>6, <3>1
      <4>2. At(k) \in 0..m /\ ~ (At(k) < first)
        BY <1>1, <4>1
      <4> QED
        BY <4>1, <4>2
    <3>4. f[k] = Double(f[k - 1].neg, f[k - 1].num * 10 + d,
                        IF f[k - 1].fraction THEN f[k - 1].divisor * 10 ELSE 1,
                        f[k - 1].fraction, FALSE)
      <4>1. ~ (s[k] \in {"+", "-"} /\ k = 1)
        BY <2>6
      <4> QED
        BY <2>1, <2>3, <3>2, <4>1 DEF NextOfDouble
    <3> HIDE DEF d
    <3>5. /\ ~ f[k].error /\ f[k].num = f[k - 1].num * 10 + d
          /\ f[k].divisor = IF f[k - 1].fraction THEN f[k - 1].divisor * 10 ELSE 1
          /\ f[k].fraction <=> f[k - 1].fraction
          /\ f[k].neg <=> f[k - 1].neg
      BY <2>2, <3>4 DEF Double
    <3>6. f[k].divisor = IF p <= k THEN t[k - p] ELSE 1
      <4>1. CASE p <= k - 1
        <5>1. p <= k /\ k - p \in 1..N /\ k - p - 1 = k - 1 - p
          BY <1>1, <4>1
        <5>2. t[k - p] = t[k - 1 - p] * 10
          BY <1>4, <5>1
        <5> QED
          BY <2>3, <3>5, <4>1, <5>1, <5>2
      <4>2. CASE ~ (p <= k - 1)
        <5>1. ~ (p <= k)
          BY <1>1, <2>6, <4>2
        <5> QED
          BY <2>3, <3>5, <4>2, <5>1
      <4> QED
        BY <4>1, <4>2
    <3>7. p <= k <=> p <= k - 1
      BY <1>1, <2>6
    <3>8. k >= 1 /\ s[1] = "-" <=> k - 1 >= 1 /\ s[1] = "-"
      BY <1>1, <2>6
    <3> QED
      BY <2>3, <3>3, <3>5, <3>6, <3>7, <3>8 DEF MeansDouble
  <2> QED
    BY <2>4, <2>5, <2>6
<1> HIDE DEF Right
<1>10. S = {}
  <2> SUFFICES ASSUME S # {} PROVE FALSE
    OBVIOUS
  <2>1. S \in SUBSET Nat
    OBVIOUS
  <2>2. PICK k \in S : \A i \in S : k <= i
    <3> HIDE DEF S
    <3> QED
      BY <2>1, FirstOf
  <2>3. k \in 0..N /\ ~ Right(k)
    BY <2>2
  <2>4. k # 0
    BY <1>8, <2>3
  <2>5. k \in 1..N /\ k - 1 \in 0..N /\ ~ (k <= k - 1)
    BY <1>1, <2>3, <2>4
  <2>6. k - 1 \notin S
    <3> HIDE DEF S
    <3> QED
      BY <2>2, <2>5
  <2>7. Right(k - 1)
    BY <2>5, <2>6
  <2> QED
    BY <1>9, <2>3, <2>5, <2>7
<1>11. Right(N)
  BY <1>1, <1>10
<1>12. /\ ~ f[N].error /\ f[N].num = v[m] /\ f[N].divisor = IF p <= N THEN t[N - p] ELSE 1
       /\ f[N].neg <=> N >= 1 /\ s[1] = "-"
  BY <1>6, <1>11 DEF Right, MeansDouble
<1> QED
  BY <1>12 DEF N, t

\* A conversion to a double does what DoubleExact says.
LEMMA DoublesConvert ==
  ASSUME NEW V, NEW s \in Seq(V)
  PROVE  DoubleExact(s, ToDouble(s), PointsOf(s), Without(s, PointsOf(s)))
<1> DEFINE points == PointsOf(s)
           D == Without(s, points)
           first == FirstDigit(s, {"+", "-"})
           d == ToDouble(s)
           few == Cardinality(points) <= 1
<1> SUFFICES /\ ~ d.error <=> few /\ AllDigits(D, first)
             /\ ~ d.error => /\ d.num = ValueOf(D, first)
                             /\ \A x \in points : d.divisor = PowersOfTen(Len(s))[Len(s) - x - 1]
                             /\ points = {} => d.divisor = 1
                             /\ d.neg <=> s # <<>> /\ s[1] = "-"
  BY DEF DoubleExact
<1>1. PICK f : ConvertsDouble(f, s) /\ d = f[Len(s)]
  BY DoubleSteps
<1>2. Len(s) \in Nat /\ first \in {1, 2} /\ (s # <<>> <=> Len(s) >= 1)
  BY EmptySeq DEF FirstDigit
<1> HIDE DEF D, first, d
<1>3. CASE ~ few
  <2>1. PICK j \in 1..Len(s), k \in 1..Len(s) : j < k /\ s[j] = "." /\ s[k] = "."
    BY <1>3, FewPoints
  <2>2. f[Len(s)].error
    BY <1>1, <2>1, TwoPoints
  <2> QED
    BY <1>1, <1>3, <2>2
<1>4. CASE few
  <2>1. PICK p \in 1..(Len(s) + 1) : PointAt(s, p)
    BY <1>4, FewPoints
  <2> DEFINE m == IF p <= Len(s) THEN Len(s) - 1 ELSE Len(s)
  <2>2. /\ D \in Seq(V) /\ Len(D) = m /\ m \in Nat
        /\ \A k \in 1..m : D[k] = IF k < p THEN s[k] ELSE s[k + 1]
    BY <2>1, WithoutPoint DEF D
  <2>3. \A k \in 1..Len(s) : s[k] = "." <=> k = p
    BY <2>1 DEF PointAt
  <2>4. first = 2 => p # 1
    <3>1. first = 2 => s # <<>> /\ s[1] \in {"+", "-"}
      BY DEF first, FirstDigit
    <3> QED
      BY <1>2, <2>3, <3>1
  <2>5. AllDigits(D, first) <=> \A k \in first..Len(s) : k # p => IsDigit(s[k])
    <3>1. ASSUME AllDigits(D, first), NEW k \in first..Len(s), k # p PROVE IsDigit(s[k])
      <4>1. CASE k < p
        <5>1. k \in first..m /\ k \in 1..m
          BY <1>2, <4>1
        <5>2. D[k] = s[k]
          BY <2>2, <4>1, <5>1
        <5> HIDE DEF m
        <5> QED
          BY <2>2, <3>1, <5>1, <5>2 DEF AllDigits
      <4>2. CASE k > p
        <5>1. k - 1 \in first..m /\ k - 1 \in 1..m /\ ~ (k - 1 < p) /\ k - 1 + 1 = k
          BY <1>2, <2>4, <4>2
        <5>2. D[k - 1] = s[k]
          BY <2>2, <5>1
        <5> HIDE DEF m
        <5> QED
          BY <2>2, <3>1, <5>1, <5>2 DEF AllDigits
      <4> QED
        BY <1>2, <3>1, <4>1, <4>2
    <3>2. ASSUME \A k \in first..Len(s) : k # p => IsDigit(s[k]), NEW k \in first..m
          PROVE  IsDigit(D[k])
      <4>1. k \in 1..m
        BY <1>2
      <4>2. CASE k < p
        <5>1. k \in first..Len(s) /\ k # p
          BY <1>2, <4>2
        <5> QED
          BY <2>2, <3>2, <4>1, <4>2, <5>1
      <4>3. CASE ~ (k < p)
        <5>1. k + 1 \in first..Len(s) /\ k + 1 # p
          BY <1>2, <4>1, <4>3
        <5> QED
          BY <2>2, <3>2, <4>1, <4>3, <5>1
      <4> QED
        BY <4>2, <4>3
    <3> HIDE DEF m
    <3> QED
      BY <2>2, <3>1, <3>2 DEF AllDigits
  <2>6. CASE ~ AllDigits(D, first)
    <3>1. PICK k \in first..Len(s) : k # p /\ ~ IsDigit(s[k])
      BY <2>5, <2>6
    <3>2. s[k] # "."
      BY <1>2, <2>3, <3>1
    <3>3. f[Len(s)].error
      BY <1>1, <3>1, <3>2, NotADouble DEF first
    <3> QED
      BY <1>1, <2>6, <3>3
  <2>7. CASE AllDigits(D, first)
    <3>1. first \in Nat \ {0}
      BY <1>2
    <3>2. PICK v : Values(v, D, first) /\ ValueOf(D, first) = v[Len(D)]
      BY <2>2, <2>7, <3>1, ValueSteps
    <3>3. /\ \A k \in 0..m : v[k] \in Nat
          /\ \A k \in 0..m : v[k] = IF k < first THEN 0 ELSE v[k - 1] * 10 + DigitOf(D[k])
      <4> HIDE DEF m
      <4> QED
        BY <2>2, <3>2 DEF Values
    <3>4. \A k \in first..Len(s) : k # p => IsDigit(s[k])
      BY <2>5, <2>7
    <3>5. /\ ~ f[Len(s)].error /\ f[Len(s)].num = v[m]
          /\ f[Len(s)].divisor = IF p <= Len(s) THEN PowersOfTen(Len(s))[Len(s) - p] ELSE 1
          /\ f[Len(s)].neg <=> Len(s) >= 1 /\ s[1] = "-"
      <4>1. first = FirstDigit(s, {"+", "-"})
        BY DEF first
      <4>2. m = IF p <= Len(s) THEN Len(s) - 1 ELSE Len(s)
        OBVIOUS
      <4> HIDE DEF m
      <4>3. DigitsAndPoint(s, p, first, m, D, v)
        BY <2>1, <2>2, <3>3, <3>4, <4>1, <4>2 DEF DigitsAndPoint
      <4> QED
        BY <1>1, <4>3, ADouble
    <3> HIDE DEF m
    <3>6. /\ ~ d.error /\ d.num = ValueOf(D, first)
          /\ d.divisor = IF p <= Len(s) THEN PowersOfTen(Len(s))[Len(s) - p] ELSE 1
          /\ d.neg <=> Len(s) >= 1 /\ s[1] = "-"
      BY <1>1, <2>2, <3>2, <3>5
    <3>7. \A x \in points : p <= Len(s) /\ Len(s) - p = Len(s) - x - 1
      BY <1>2, <2>3 DEF PointsOf
    <3>8. points = {} => ~ (p <= Len(s))
      <4>1. p <= Len(s) => p - 1 \in points
        BY <1>2, <2>3 DEF PointsOf
      <4> QED
        BY <4>1
    <3> HIDE DEF points
    <3>9. \A x \in points : d.divisor = PowersOfTen(Len(s))[Len(s) - x - 1]
      BY <3>6, <3>7
    <3> QED
      BY <1>2, <1>4, <2>7, <3>6, <3>8, <3>9
  <2> QED
    BY <2>6, <2>7
<1> QED
  BY <1>3, <1>4

\* Whatever the strix has become, the conversions to numbers succeed for exactly the
\* strings that are numbers of the type, and return the number; for any largest number.
THEOREM NumbersAreExact == StrixSpec => []NumbersExact
<1>1. StrixInv => NumbersExact
  <2> SUFFICES ASSUME StrixInv, Readable PROVE NumbersExact
    BY DEF NumbersExact
  <2>1. str \in Seq(Char)
    BY DEF StrixInv, Readable
  <2>2. IntMax \in Nat /\ UintMax \in Nat
    BY StrixAssumption
  <2>3. IntegerExact(str, ToSignedInt(str), {"+", "-"}, IntMax)
    BY <2>1, <2>2, IntegersConvert DEF ToSignedInt
  <2>4. IntegerExact(str, ToUnsignedInt(str), {"+"}, UintMax)
    BY <2>1, <2>2, IntegersConvert DEF ToUnsignedInt
  <2>5. DoubleExact(str, ToDouble(str), PointsOf(str), Without(str, PointsOf(str)))
    BY <2>1, DoublesConvert
  <2> QED
    BY <2>3, <2>4, <2>5 DEF NumbersExact
<1> QED
  BY <1>1, StrixCharacters, PTL

-----------------------------------------------------------------------------

(* Splits, joins and slices by stride                                       *)

\* q lists the numbers of S.
Lists(q, S) == /\ q \in Seq(Nat) /\ Rising(q)
               /\ \A k \in 1..Len(q) : q[k] \in S
               /\ \A x \in S : \E k \in 1..Len(q) : q[k] = x

\* Ascending is the only one that does.
LEMMA AscendingLists ==
  ASSUME NEW n \in Nat, NEW S \in SUBSET (1..n)
  PROVE  Lists(Ascending(S, n), S) /\ \A q : Lists(q, S) => q = Ascending(S, n)
<1> DEFINE a == Ascending(S, n)
<1>1. /\ a \in Seq(S)
      /\ \A x \in S : \E k \in 1..Len(a) : a[k] = x
      /\ \A k, h \in 1..Len(a) : k < h => a[k] < a[h]
  BY AscendingExact
<1> HIDE DEF a
<1>2. a \in Seq(Nat) /\ \A k \in 1..Len(a) : a[k] \in S
  <2>1. Len(a) \in Nat /\ a = [k \in 1..Len(a) |-> a[k]]
    BY <1>1
  <2>2. \A k \in 1..Len(a) : a[k] \in S
    BY <1>1, ElementOfSeq
  <2>3. a \in [1..Len(a) -> Nat]
    BY <2>1, <2>2
  <2> QED
    BY <2>1, <2>2, <2>3, FunctionIsSeq
<1>3. Lists(a, S)
  BY <1>1, <1>2 DEF Lists, Rising
<1>4. ASSUME NEW q, Lists(q, S) PROVE q = a
  BY <1>4, AscendingOnly DEF Lists, a
<1> QED
  BY <1>3, <1>4 DEF a

\* The elements at some positions.
LEMMA Elements ==
  ASSUME NEW V, NEW s \in Seq(V), NEW S \in SUBSET (1..Len(s))
  PROVE  /\ ElementsAt(s, S) \in Seq(V)
         /\ \E q : /\ Lists(q, S)
                   /\ Len(ElementsAt(s, S)) = Len(q)
                   /\ ElementsAt(s, S) = [k \in 1..Len(q) |-> s[q[k]]]
                   /\ \A k \in 1..Len(q) : q[k] \in 1..Len(s) /\ ElementsAt(s, S)[k] = s[q[k]]
         /\ \A q : Lists(q, S) => ElementsAt(s, S) = [k \in 1..Len(q) |-> s[q[k]]]
<1> DEFINE a == Ascending(S, Len(s))
           e == ElementsAt(s, S)
<1>1. Len(s) \in Nat
  OBVIOUS
<1>2. Lists(a, S) /\ \A q : Lists(q, S) => q = a
  BY <1>1, AscendingLists
<1>3. e = [k \in DOMAIN a |-> s[a[k]]]
  BY DEF ElementsAt
<1> HIDE DEF a, e
<1>4. DOMAIN a = 1..Len(a) /\ Len(a) \in Nat /\ \A k \in 1..Len(a) : a[k] \in 1..Len(s)
  BY <1>2 DEF Lists
<1>5. e = [k \in 1..Len(a) |-> s[a[k]]] /\ \A k \in 1..Len(a) : e[k] = s[a[k]]
  BY <1>3, <1>4
<1>6. e \in [1..Len(a) -> V]
  BY <1>4, <1>5, ElementOfSeq
<1>7. e \in Seq(V) /\ Len(e) = Len(a)
  BY <1>4, <1>6, FunctionIsSeq
<1> QED
  BY <1>2, <1>4, <1>5, <1>7 DEF e

\* Where the pieces between cuts begin and end.
PieceEnds(s, pos, n, k) ==
  /\ Begin(pos, n, k) \in 0..Len(s) /\ End(s, pos, k) \in 0..Len(s)
  /\ IF k = 1 THEN Begin(pos, n, k) = 0
     ELSE k - 1 \in 1..Len(pos) /\ Begin(pos, n, k) = pos[k - 1] + n
  /\ IF k \in 1..Len(pos) THEN End(s, pos, k) = pos[k]
     ELSE k = Len(pos) + 1 /\ End(s, pos, k) = Len(s)

LEMMA PiecesEnd ==
  ASSUME NEW V, NEW s \in Seq(V), NEW n \in Nat, NEW pos \in Seq(Int),
         \A k \in 1..Len(pos) : pos[k] \in 0..Len(s) /\ pos[k] + n <= Len(s)
  PROVE  \A k \in 1..(Len(pos) + 1) : PieceEnds(s, pos, n, k)
<1> DEFINE m == Len(pos)
<1>1. m \in Nat /\ Len(s) \in Nat
  OBVIOUS
<1> SUFFICES ASSUME NEW k \in 1..(m + 1) PROVE PieceEnds(s, pos, n, k)
  OBVIOUS
<1>2. /\ Begin(pos, n, k) \in 0..Len(s)
      /\ IF k = 1 THEN Begin(pos, n, k) = 0
         ELSE k - 1 \in 1..m /\ Begin(pos, n, k) = pos[k - 1] + n
  <2>1. CASE k = 1
    BY <1>1, <2>1 DEF Begin
  <2>2. CASE k # 1
    <3>1. k - 1 \in 1..m
      BY <1>1, <2>2
    <3>2. pos[k - 1] \in 0..Len(s) /\ pos[k - 1] + n <= Len(s)
      BY <3>1
    <3>3. pos[k - 1] + n \in 0..Len(s)
      BY <1>1, <3>2
    <3> QED
      BY <2>2, <3>1, <3>3 DEF Begin
  <2> QED
    BY <2>1, <2>2
<1>3. /\ End(s, pos, k) \in 0..Len(s)
      /\ IF k \in 1..m THEN End(s, pos, k) = pos[k] ELSE k = m + 1 /\ End(s, pos, k) = Len(s)
  <2>1. CASE k \in 1..m
    <3>1. End(s, pos, k) = pos[k]
      BY <1>1, <2>1 DEF End
    <3> QED
      BY <2>1, <3>1
  <2>2. CASE k \notin 1..m
    <3>1. k = m + 1 /\ ~ (k <= m)
      BY <1>1, <2>2
    <3>2. End(s, pos, k) = Len(s)
      BY <3>1 DEF End
    <3> QED
      BY <1>1, <2>2, <3>1, <3>2
  <2> QED
    BY <2>1, <2>2
<1> QED
  BY <1>2, <1>3 DEF PieceEnds

\* Cuts of n characters each, in order, that cover the positions of C.
Cuts(s, pos, n, C) ==
  /\ pos \in Seq(Int)
  /\ \A k \in 1..Len(pos) : pos[k] \in 0..Len(s) /\ pos[k] + n <= Len(s)
  /\ \A k, h \in 1..Len(pos) : k < h => pos[k] < pos[h]
  /\ \A i \in Int : i \in C <=> \E k \in 1..Len(pos) : pos[k] <= i /\ i < pos[k] + n

\* What is in a piece is not cut out; what comes before it is.
LEMMA PiecesUncut ==
  ASSUME NEW V, NEW s \in Seq(V), NEW n \in Nat \ {0}, NEW pos, NEW C, Cuts(s, pos, n, C),
         NEW k \in 1..(Len(pos) + 1), Begin(pos, n, k) < End(s, pos, k)
  PROVE  /\ \A i \in Begin(pos, n, k)..(End(s, pos, k) - 1) : i \notin C
         /\ Begin(pos, n, k) # 0 => Begin(pos, n, k) - 1 \in C
         /\ End(s, pos, k) # Len(s) => End(s, pos, k) \in C
<1> DEFINE m == Len(pos)
           b == Begin(pos, n, k)
           e == End(s, pos, k)
<1>1. /\ pos \in Seq(Int) /\ m \in Nat /\ Len(s) \in Nat
      /\ \A h \in 1..m : pos[h] \in Int /\ pos[h] >= 0 /\ pos[h] + n <= Len(s)
      /\ \A h, g \in 1..m : h < g => pos[h] < pos[g]
      /\ \A i \in Int : i \in C <=> \E h \in 1..m : pos[h] <= i /\ i < pos[h] + n
  BY DEF Cuts
<1>2. /\ b \in 0..Len(s) /\ e \in 0..Len(s)
      /\ IF k = 1 THEN b = 0 ELSE k - 1 \in 1..m /\ b = pos[k - 1] + n
      /\ IF k \in 1..m THEN e = pos[k] ELSE k = m + 1 /\ e = Len(s)
  <2>1. PieceEnds(s, pos, n, k)
    BY PiecesEnd DEF Cuts
  <2> QED
    BY <2>1 DEF PieceEnds
<1> HIDE DEF b, e, m
<1>3. ASSUME NEW i \in b..(e - 1), i \in C PROVE FALSE
  <2>1. i \in Int /\ b <= i /\ i < e
    BY <1>2
  <2>2. PICK h \in 1..m : pos[h] <= i /\ i < pos[h] + n
    BY <1>1, <1>3, <2>1
  <2>3. CASE h <= k - 1
    <3>1. k # 1 /\ k - 1 \in 1..m /\ b = pos[k - 1] + n
      BY <1>1, <1>2, <2>3
    <3>2. pos[h] <= pos[k - 1]
      BY <1>1, <2>3, <3>1
    <3> QED
      BY <1>1, <2>1, <2>2, <3>1, <3>2
  <2>4. CASE h >= k
    <3>1. k \in 1..m /\ e = pos[k]
      BY <1>1, <1>2, <2>4 DEF m
    <3>2. pos[k] <= pos[h]
      BY <1>1, <2>4, <3>1
    <3> QED
      BY <1>1, <2>1, <2>2, <3>1, <3>2
  <2> QED
    BY <1>1, <2>3, <2>4
<1>4. ASSUME b # 0 PROVE b - 1 \in C
  <2>1. k - 1 \in 1..m /\ b = pos[k - 1] + n
    BY <1>2, <1>4
  <2>2. pos[k - 1] \in Int /\ pos[k - 1] <= b - 1 /\ b - 1 < pos[k - 1] + n /\ b - 1 \in Int
    BY <1>1, <2>1
  <2> QED
    BY <1>1, <2>1, <2>2
<1>5. ASSUME e # Len(s) PROVE e \in C
  <2>1. k \in 1..m /\ e = pos[k]
    BY <1>2, <1>5
  <2>2. e \in Int /\ pos[k] <= e /\ e < pos[k] + n
    BY <1>1, <2>1
  <2> QED
    BY <1>1, <2>1, <2>2
<1> QED
  BY <1>3, <1>4, <1>5 DEF b, e, m

\* The pieces that are not empty, between cuts in order, are the stretches between them.
LEMMA PiecesAreStretches ==
  ASSUME NEW V, NEW s \in Seq(V), NEW n \in Nat \ {0}, NEW pos, NEW C, Cuts(s, pos, n, C)
  PROVE  NonEmpty(Between(s, pos, n)) = Stretches(s, C)
<1> DEFINE N == Len(pos) + 1
           B == Between(s, pos, n)
           W == Seq(V)
           Bn(k) == Begin(pos, n, k)
           En(k) == End(s, pos, k)
           K == {k \in DOMAIN B : B[k] # <<>>}
           F == {i \in DOMAIN s : i - 1 \notin C /\ (i = 1 \/ i - 2 \in C)}
           last(i) == CHOOSE e \in i..Len(s) : /\ e = Len(s) \/ e \in C
                                               /\ \A h \in i..e : h - 1 \notin C
<1>1. pos \in Seq(Int) /\ Len(pos) \in Nat /\ N \in Nat /\ Len(s) \in Nat /\ n \in Nat
      /\ \A k \in 1..Len(pos) : pos[k] \in 0..Len(s) /\ pos[k] + n <= Len(s)
  BY DEF Cuts
<1>2. /\ B \in Seq(W) /\ Len(B) = N /\ DOMAIN B = 1..N
      /\ \A k \in 1..N : B[k] = SubSeq(s, Bn(k) + 1, En(k))
  <2>0. \A k \in 1..Len(pos) : pos[k] \in 0..Len(s)
    BY <1>1
  <2>1. B \in Seq(W) /\ Len(B) = N
    BY SMTT(30), <1>1, <2>0, Pieces
  <2>2. \A k \in 1..N : B[k] = SubSeq(s, Bn(k) + 1, En(k))
    BY SMTT(30), <1>1, <2>0, Pieces
  <2> HIDE DEF W, B, N
  <2> QED
    BY <2>1, <2>2
<1>3. \A k \in 1..N : /\ Bn(k) \in 0..Len(s) /\ En(k) \in 0..Len(s)
                      /\ IF k = 1 THEN Bn(k) = 0
                         ELSE k - 1 \in 1..Len(pos) /\ Bn(k) = pos[k - 1] + n
                      /\ IF k \in 1..Len(pos) THEN En(k) = pos[k]
                         ELSE k = N /\ En(k) = Len(s)
  BY <1>1, PiecesEnd DEF PieceEnds
<1>4. \A k \in 1..N : Bn(k) < En(k) =>
        /\ \A i \in Bn(k)..(En(k) - 1) : i \notin C
        /\ Bn(k) # 0 => Bn(k) - 1 \in C
        /\ En(k) # Len(s) => En(k) \in C
  BY PiecesUncut
<1>5. \A i \in Int : i \in C <=> \E h \in 1..Len(pos) : pos[h] <= i /\ i < pos[h] + n
  BY DEF Cuts
<1>6. \A k, h \in 1..Len(pos) : k < h => pos[k] < pos[h]
  BY DEF Cuts
<1> HIDE DEF B, N, Bn, En
<1>7. \A k \in 1..N : B[k] # <<>> <=> Bn(k) < En(k)
  <2> SUFFICES ASSUME NEW k \in 1..N PROVE B[k] # <<>> <=> Bn(k) < En(k)
    OBVIOUS
  <2> DEFINE a == Bn(k) + 1
             e == En(k)
             t == SubSeq(s, a, e)
  <2>1. a \in Int /\ e \in Int /\ \A i \in a..e : s[i] \in V
    <3>1. a >= 1 /\ e <= Len(s)
      BY <1>1, <1>3
    <3> QED
      BY <1>1, <1>3, <3>1, ElementOfSeq
  <2>2. t \in Seq(V) /\ Len(t) = IF a <= e THEN e - a + 1 ELSE 0
    <3> HIDE DEF a, e
    <3> QED
      BY <2>1, SubSeqProperties
  <2>3. B[k] = t
    BY <1>2
  <2> HIDE DEF t
  <2>4. t # <<>> <=> a <= e
    BY <2>1, <2>2, EmptySeq
  <2> QED
    BY <1>3, <2>3, <2>4
<1>8. K = {k \in 1..N : Bn(k) < En(k)}
  BY <1>2, <1>7
<1>9. K \in SUBSET (1..Len(B)) /\ F \in SUBSET (1..Len(s))
  BY <1>2
<1>10. NonEmpty(B) = ElementsAt(B, K)
  BY DEF NonEmpty
<1>11. Stretches(s, C) = [k \in DOMAIN Ascending(F, Len(s)) |->
                          SubSeq(s, Ascending(F, Len(s))[k], last(Ascending(F, Len(s))[k]))]
  BY DEF Stretches
<1>12. \A k \in K : last(Bn(k) + 1) = En(k)
  <2> SUFFICES ASSUME NEW k \in K PROVE last(Bn(k) + 1) = En(k)
    OBVIOUS
  <2> DEFINE a == Bn(k) + 1
             e == En(k)
             Ok(x) == (x = Len(s) \/ x \in C) /\ \A h \in a..x : h - 1 \notin C
  <2>1. k \in 1..N /\ Bn(k) < En(k)
    BY <1>8
  <2>2. a \in 1..Len(s) /\ e \in a..Len(s)
    BY <1>1, <1>3, <2>1
  <2>3. \A h \in a..e : h - 1 \notin C
    <3>1. \A h \in a..e : h - 1 \in Bn(k)..(En(k) - 1)
      BY <1>3, <2>1
    <3> QED
      BY <1>4, <2>1, <3>1
  <2>4. e = Len(s) \/ e \in C
    BY <1>4, <2>1
  <2> HIDE DEF a, e
  <2>5. ASSUME NEW x \in a..Len(s), Ok(x) PROVE x = e
    <3>1. CASE x < e
      <4>1. x + 1 \in a..e /\ x + 1 - 1 = x /\ x # Len(s)
        BY <1>1, <2>2, <3>1
      <4>2. x \notin C
        BY <2>3, <4>1
      <4> QED
        BY <2>5, <4>1, <4>2
    <3>2. CASE x > e
      <4> DEFINE z == e + 1
      <4>1. z \in a..x /\ z - 1 = e /\ e # Len(s)
        BY <1>1, <2>2, <3>2
      <4> HIDE DEF z
      <4>2. \A h \in a..x : h - 1 \notin C
        BY <2>5
      <4>3. e \notin C
        BY <4>1, <4>2
      <4> QED
        BY <2>4, <4>1, <4>3
    <3> QED
      BY <1>1, <2>2, <3>1, <3>2
  <2>6. last(a) = CHOOSE x \in a..Len(s) : Ok(x)
    OBVIOUS
  <2>7. Ok(e)
    BY <2>3, <2>4
  <2> HIDE DEF Ok
  <2>8. \E x \in a..Len(s) : Ok(x)
    BY <2>2, <2>7
  <2>9. last(a) \in a..Len(s) /\ Ok(last(a))
    BY <2>6, <2>8
  <2>10. last(a) = e
    BY <2>5, <2>9
  <2> QED
    BY <2>10 DEF a, e
<1> HIDE DEF K, F, last
<1>13. PICK at : /\ Lists(at, K)
                 /\ Len(ElementsAt(B, K)) = Len(at)
                 /\ ElementsAt(B, K) = [k \in 1..Len(at) |-> B[at[k]]]
                 /\ \A k \in 1..Len(at) : at[k] \in 1..Len(B) /\ ElementsAt(B, K)[k] = B[at[k]]
  <2> HIDE DEF W
  <2> QED
    BY <1>2, <1>9, Elements
<1>14. /\ at \in Seq(Nat) /\ Len(at) \in Nat /\ \A k, h \in 1..Len(at) : k < h => at[k] < at[h]
       /\ \A k \in 1..Len(at) : at[k] \in K
       /\ \A x \in K : \E k \in 1..Len(at) : at[k] = x
  BY <1>13 DEF Lists, Rising
<1> DEFINE q == [k \in 1..Len(at) |-> Bn(at[k]) + 1]
<1>15. \A k \in K : k \in 1..N /\ Bn(k) < En(k) /\ Bn(k) \in Nat
  BY <1>3, <1>8
<1>16. q \in Seq(Nat) /\ Len(q) = Len(at) /\ \A k \in 1..Len(at) : q[k] = Bn(at[k]) + 1
  <2>1. q \in [1..Len(at) -> Nat]
    BY <1>14, <1>15
  <2>2. \A k \in 1..Len(at) : q[k] = Bn(at[k]) + 1
    OBVIOUS
  <2> HIDE DEF q
  <2> QED
    BY <1>14, <2>1, <2>2, FunctionIsSeq
<1> HIDE DEF q
<1>17. Rising(q)
  <2> SUFFICES ASSUME NEW k \in 1..Len(at), NEW h \in 1..Len(at), k < h
               PROVE  q[k] < q[h]
    BY <1>16 DEF Rising
  <2> DEFINE x == at[k]
             y == at[h]
  <2>1. x \in 1..N /\ y \in 1..N /\ x < y /\ Bn(x) < En(x)
    BY <1>14, <1>15
  <2> HIDE DEF x, y
  <2>2. x \in 1..Len(pos) /\ y - 1 \in 1..Len(pos) /\ y # 1
    BY <1>1, <2>1 DEF N
  <2>3. En(x) = pos[x] /\ Bn(y) = pos[y - 1] + n
    BY <1>3, <2>1, <2>2
  <2>4. pos[x] <= pos[y - 1] /\ pos[x] \in Int /\ pos[y - 1] \in Int
    <3>1. x = y - 1 \/ x < y - 1
      BY <2>1, <2>2
    <3>2. pos[x] \in Int /\ pos[y - 1] \in Int
      BY <1>1, <2>2
    <3> QED
      BY <1>6, <2>2, <3>1, <3>2
  <2>5. Bn(x) < Bn(y) /\ Bn(x) \in Int /\ Bn(y) \in Int
    <3>1. Bn(x) \in Int /\ Bn(y) \in Int /\ n \in Nat
      BY <1>1, <1>3, <2>1
    <3> DEFINE p == pos[x]
               r == pos[y - 1]
    <3>2. Bn(x) < p /\ p <= r /\ Bn(y) = r + n /\ p \in Int /\ r \in Int
      BY <2>1, <2>3, <2>4
    <3> HIDE DEF p, r
    <3> QED
      BY <3>1, <3>2
  <2> QED
    BY <1>16, <2>5 DEF x, y
<1>18. \A k \in K : Bn(k) + 1 \in F
  <2> SUFFICES ASSUME NEW k \in K PROVE Bn(k) + 1 \in F
    OBVIOUS
  <2>1. k \in 1..N /\ Bn(k) < En(k) /\ Bn(k) \in 0..Len(s) /\ En(k) \in 0..Len(s)
    BY <1>3, <1>15
  <2>2. Bn(k) \in Bn(k)..(En(k) - 1) /\ Bn(k) + 1 \in DOMAIN s
    BY <1>1, <2>1
  <2>3. Bn(k) \notin C /\ (Bn(k) # 0 => Bn(k) - 1 \in C)
    BY <1>4, <2>1, <2>2
  <2>4. Bn(k) + 1 - 1 = Bn(k) /\ Bn(k) + 1 - 2 = Bn(k) - 1 /\ (Bn(k) = 0 => Bn(k) + 1 = 1)
    BY <2>1
  <2> QED
    BY <2>2, <2>3, <2>4 DEF F
<1>19. \A i \in F : \E k \in K : Bn(k) + 1 = i
  <2> SUFFICES ASSUME NEW i \in F PROVE \E k \in K : Bn(k) + 1 = i
    OBVIOUS
  <2>1. /\ i \in 1..Len(s) /\ i - 1 \notin C /\ (i = 1 \/ i - 2 \in C)
        /\ i - 1 \in Int /\ i - 2 \in Int
    BY <1>1, <1>9 DEF F
  <2>2. \A k \in 1..N : Bn(k) + 1 = i /\ (k = 1 \/ pos[k - 1] < i) => k \in K
    <3> SUFFICES ASSUME NEW k \in 1..N, Bn(k) + 1 = i, k = 1 \/ pos[k - 1] < i PROVE Bn(k) < En(k)
      BY <1>8
    <3>1. CASE k \in 1..Len(pos)
      <4>1. En(k) = pos[k] /\ pos[k] \in Int /\ Bn(k) = i - 1
        BY <1>1, <1>3, <2>1, <3>1
      <4>2. ~ (pos[k] <= i - 1 /\ i - 1 < pos[k] + n)
        BY <1>5, <2>1, <3>1
      <4>3. pos[k] + n > i - 1
        <5>1. CASE k = 1
          BY <1>1, <1>3, <2>1, <3>1, <4>1, <5>1
        <5>2. CASE k # 1
          <6>1. k - 1 \in 1..Len(pos) /\ Bn(k) = pos[k - 1] + n
            BY <1>3, <5>2
          <6>2. k - 1 < k /\ pos[k - 1] \in Int
            BY <1>1, <3>1, <6>1
          <6>3. pos[k - 1] < pos[k]
            BY <1>6, <3>1, <6>1, <6>2
          <6> QED
            BY <1>1, <4>1, <6>1, <6>2, <6>3
        <5> QED
          BY <5>1, <5>2
      <4> QED
        BY <1>1, <2>1, <4>1, <4>2, <4>3
    <3>2. CASE k \notin 1..Len(pos)
      BY <1>1, <1>3, <2>1, <3>2
    <3> QED
      BY <3>1, <3>2
  <2>3. CASE i = 1
    <3>1. 1 \in 1..N /\ Bn(1) = 0
      BY <1>1, <1>3 DEF N
    <3> QED
      BY <2>2, <2>3, <3>1
  <2>4. CASE i # 1
    <3>1. PICK h \in 1..Len(pos) : pos[h] <= i - 2 /\ i - 2 < pos[h] + n
      BY <1>5, <2>1, <2>4
    <3>2. ~ (pos[h] <= i - 1 /\ i - 1 < pos[h] + n) /\ pos[h] \in Int
      BY <1>1, <1>5, <2>1
    <3>3. pos[h] + n = i - 1 /\ pos[h] < i
      <4> DEFINE x == pos[h]
      <4>1. x \in Int /\ i \in Int /\ x <= i - 2 /\ i - 2 < x + n
            /\ ~ (x <= i - 1 /\ i - 1 < x + n)
        BY <1>1, <2>1, <3>1, <3>2
      <4> HIDE DEF x
      <4>2. x + n = i - 1 /\ x < i
        BY <4>1
      <4> QED
        BY <4>2 DEF x
    <3> DEFINE k == h + 1
    <3>4. k \in 1..N /\ k # 1 /\ k - 1 = h
      BY <1>1 DEF N
    <3> HIDE DEF k
    <3>5. Bn(k) = pos[h] + n
      BY <1>3, <3>4
    <3>6. Bn(k) + 1 = i
      BY <2>1, <3>3, <3>5
    <3> QED
      BY <2>2, <3>3, <3>4, <3>6
  <2> QED
    BY <2>3, <2>4
<1>20. Lists(q, F)
  <2>1. \A k \in 1..Len(q) : q[k] \in F
    BY <1>14, <1>16, <1>18
  <2>2. \A x \in F : \E k \in 1..Len(q) : q[k] = x
    <3> SUFFICES ASSUME NEW x \in F PROVE \E k \in 1..Len(q) : q[k] = x
      OBVIOUS
    <3>1. PICK y \in K : Bn(y) + 1 = x
      BY <1>19
    <3>2. PICK k \in 1..Len(at) : at[k] = y
      BY <1>14
    <3> QED
      BY <1>16, <3>1, <3>2
  <2> QED
    BY <1>16, <1>17, <2>1, <2>2 DEF Lists
<1>21. q = Ascending(F, Len(s)) /\ DOMAIN q = 1..Len(at)
  BY <1>1, <1>9, <1>16, <1>20, AscendingLists
<1>22. Stretches(s, C) = [k \in 1..Len(at) |-> SubSeq(s, q[k], last(q[k]))]
  BY <1>11, <1>21
<1>23. \A k \in 1..Len(at) : SubSeq(s, q[k], last(q[k])) = B[at[k]]
  <2> SUFFICES ASSUME NEW k \in 1..Len(at) PROVE SubSeq(s, q[k], last(q[k])) = B[at[k]]
    OBVIOUS
  <2>1. at[k] \in K /\ at[k] \in 1..N /\ q[k] = Bn(at[k]) + 1
    BY <1>14, <1>15, <1>16
  <2>2. last(q[k]) = En(at[k])
    BY <1>12, <2>1
  <2> QED
    BY <1>2, <2>1, <2>2
<1> QED
  BY <1>10, <1>13, <1>22, <1>23 DEF B

\* Numbers that grow from each to the next.
LEMMA Climbs ==
  ASSUME NEW N \in Nat, NEW f \in [1..N -> Int], \A k \in 2..N : f[k - 1] < f[k]
  PROVE  \A k, h \in 1..N : k < h => f[k] < f[h]
<1> SUFFICES ASSUME NEW k \in 1..N PROVE \A h \in 1..N : k < h => f[k] < f[h]
  OBVIOUS
<1> DEFINE S == {h \in 1..N : k < h /\ ~ (f[k] < f[h])}
<1> SUFFICES ASSUME S # {} PROVE FALSE
  OBVIOUS
<1>1. S \in SUBSET Nat
  OBVIOUS
<1>2. PICK h \in S : \A i \in S : h <= i
  <2> HIDE DEF S
  <2> QED
    BY <1>1, FirstOf
<1>3. h \in 2..N /\ h - 1 \in 1..N /\ f[h - 1] < f[h] /\ k <= h - 1
  BY <1>2
<1>4. f[k] \in Int /\ f[h] \in Int /\ f[h - 1] \in Int
  BY <1>2, <1>3
<1>5. k = h - 1 \/ f[k] < f[h - 1]
  <2>1. h - 1 \notin S
    BY <1>2, <1>3
  <2> QED
    BY <1>3, <2>1
<1>6. f[k] < f[h]
  BY <1>3, <1>4, <1>5
<1> QED
  BY <1>2, <1>6

\* Piece k of a joined t begins behind at[k], after the separator.
Placed(t, pieces, sep, at) ==
  LET N == Len(pieces)
  IN  /\ at \in [1..N -> Nat] /\ at[1] = 0
      /\ at[N] + Len(pieces[N]) = Len(t)
      /\ \A k \in 2..N : /\ at[k] = at[k - 1] + Len(pieces[k - 1]) + Len(sep)
                        /\ \A i \in 1..Len(sep) : t[at[k] - Len(sep) + i] = sep[i]
      /\ \A k \in 1..N : /\ at[k] + Len(pieces[k]) <= Len(t)
                        /\ \A i \in 1..Len(pieces[k]) : t[at[k] + i] = pieces[k][i]

\* Two strings and a third behind them.
LEMMA ThreeJoined ==
  ASSUME NEW V, NEW a \in Seq(V), NEW b \in Seq(V), NEW c \in Seq(V), NEW d, d = a \o b \o c
  PROVE  /\ d \in Seq(V) /\ Len(d) = Len(a) + Len(b) + Len(c)
         /\ \A i \in 1..Len(a) : d[i] = a[i]
         /\ \A i \in 1..Len(b) : d[Len(a) + i] = b[i]
         /\ \A i \in 1..Len(c) : d[Len(a) + Len(b) + i] = c[i]
<1> DEFINE ab == a \o b
<1>1. /\ ab \in Seq(V) /\ Len(ab) = Len(a) + Len(b)
      /\ \A i \in 1..(Len(a) + Len(b)) : ab[i] = IF i <= Len(a) THEN a[i] ELSE b[i - Len(a)]
  BY ConcatProperties
<1> HIDE DEF ab
<1>2. /\ d \in Seq(V) /\ Len(d) = Len(ab) + Len(c)
      /\ \A i \in 1..(Len(ab) + Len(c)) : d[i] = IF i <= Len(ab) THEN ab[i] ELSE c[i - Len(ab)]
  BY <1>1, ConcatProperties DEF ab
<1>3. Len(a) \in Nat /\ Len(b) \in Nat /\ Len(c) \in Nat
  OBVIOUS
<1>4. \A i \in 1..Len(a) : d[i] = a[i]
  BY <1>1, <1>2, <1>3
<1>5. ASSUME NEW i \in 1..Len(b) PROVE d[Len(a) + i] = b[i]
  <2> DEFINE j == Len(a) + i
  <2>1. j \in 1..(Len(a) + Len(b)) /\ j \in 1..(Len(ab) + Len(c)) /\ j <= Len(ab) /\ ~ (j <= Len(a))
        /\ j - Len(a) = i
    BY <1>1, <1>3
  <2> HIDE DEF j
  <2>2. d[j] = ab[j] /\ ab[j] = b[j - Len(a)]
    BY <1>1, <1>2, <2>1
  <2> QED
    BY <2>1, <2>2 DEF j
<1>6. ASSUME NEW i \in 1..Len(c) PROVE d[Len(a) + Len(b) + i] = c[i]
  <2> DEFINE j == Len(a) + Len(b) + i
  <2>1. j \in 1..(Len(ab) + Len(c)) /\ ~ (j <= Len(ab)) /\ j - Len(ab) = i
    BY <1>1, <1>3
  <2> HIDE DEF j
  <2>2. d[j] = c[j - Len(ab)]
    BY <1>2, <2>1
  <2> QED
    BY <2>1, <2>2 DEF j
<1> QED
  BY <1>1, <1>2, <1>4, <1>5, <1>6

\* Where the pieces are in what they are joined to.
LEMMA JoinPlaces ==
  ASSUME NEW V, NEW pieces \in Seq(Seq(V)), pieces # <<>>, NEW sep \in Seq(V)
  PROVE  /\ Join(pieces, sep) \in Seq(V)
         /\ \E at : Placed(Join(pieces, sep), pieces, sep, at)
<1> DEFINE N == Len(pieces)
           W == Seq(V)
           t == Join(pieces, sep)
           n == Len(sep)
<1>1. N \in Nat /\ N >= 1 /\ n \in Nat /\ \A k \in 1..N : pieces[k] \in W /\ Len(pieces[k]) \in Nat
  <2>1. N \in Nat /\ N >= 1 /\ n \in Nat
    BY EmptySeq
  <2>2. \A k \in 1..N : pieces[k] \in W
    BY ElementOfSeq
  <2> QED
    BY <2>1, <2>2
<1>2. PICK g : Joins(g, pieces, sep, W) /\ t = g[N]
  BY Joined
<1>3. /\ g \in [1..N -> W] /\ g[1] = pieces[1]
      /\ \A k \in 2..N : g[k] = g[k - 1] \o sep \o pieces[k]
  BY <1>2 DEF Joins
<1> HIDE DEF t
<1>4. \A k \in 1..N : g[k] \in W /\ Len(g[k]) \in Nat
  <2>1. \A k \in 1..N : g[k] \in W
    <3> HIDE DEF W
    <3> QED
      BY <1>3
  <2> QED
    BY <2>1
<1>5. \A k \in 2..N :
        /\ k - 1 \in 1..N /\ k \in 1..N
        /\ Len(g[k]) = Len(g[k - 1]) + n + Len(pieces[k])
        /\ \A i \in 1..Len(g[k - 1]) : g[k][i] = g[k - 1][i]
        /\ \A i \in 1..n : g[k][Len(g[k - 1]) + i] = sep[i]
        /\ \A i \in 1..Len(pieces[k]) : g[k][Len(g[k - 1]) + n + i] = pieces[k][i]
  <2> SUFFICES ASSUME NEW k \in 2..N
               PROVE  /\ k - 1 \in 1..N /\ k \in 1..N
                      /\ Len(g[k]) = Len(g[k - 1]) + n + Len(pieces[k])
                      /\ \A i \in 1..Len(g[k - 1]) : g[k][i] = g[k - 1][i]
                      /\ \A i \in 1..n : g[k][Len(g[k - 1]) + i] = sep[i]
                      /\ \A i \in 1..Len(pieces[k]) : g[k][Len(g[k - 1]) + n + i] = pieces[k][i]
    OBVIOUS
  <2> DEFINE a == g[k - 1]
             c == pieces[k]
             d == g[k]
  <2>1. k - 1 \in 1..N /\ k \in 1..N
    BY <1>1
  <2>2. a \in Seq(V) /\ c \in Seq(V) /\ d = a \o sep \o c
    BY <1>1, <1>3, <1>4, <2>1
  <2> HIDE DEF a, c, d
  <2>3. /\ Len(d) = Len(a) + n + Len(c)
        /\ \A i \in 1..Len(a) : d[i] = a[i]
        /\ \A i \in 1..n : d[Len(a) + i] = sep[i]
        /\ \A i \in 1..Len(c) : d[Len(a) + n + i] = c[i]
    BY <2>2, ThreeJoined
  <2> QED
    BY <2>1, <2>3 DEF a, c, d
<1> DEFINE Begins(k) == Len(g[k]) <= Len(t) /\ \A i \in 1..Len(g[k]) : t[i] = g[k][i]
<1>6. \A k \in 1..N : Begins(k)
  <2> DEFINE S == {k \in 1..N : ~ Begins(k)}
  <2> SUFFICES ASSUME S # {} PROVE FALSE
    OBVIOUS
  <2>1. S \in SUBSET (0..N)
    OBVIOUS
  <2>2. PICK k \in S : \A i \in S : i <= k
    <3> HIDE DEF S, N
    <3> QED
      BY <1>1, <2>1, LastOf
  <2>3. k \in 1..N /\ ~ Begins(k)
    BY <2>2
  <2>4. k # N
    BY <1>2, <1>4, <2>3
  <2> DEFINE h == k + 1
  <2>5. h \in 2..N /\ h - 1 = k /\ h \in 1..N /\ ~ (h <= k)
    BY <1>1, <2>3, <2>4
  <2> HIDE DEF h
  <2>6. Begins(h)
    BY <2>2, <2>5
  <2>7. /\ Len(g[k]) <= Len(g[h]) /\ \A i \in 1..Len(g[k]) : g[h][i] = g[k][i]
        /\ Len(g[k]) \in Nat /\ Len(g[h]) \in Nat /\ Len(t) \in Nat
    <3>1. /\ Len(g[h]) = Len(g[h - 1]) + n + Len(pieces[h])
          /\ \A i \in 1..Len(g[h - 1]) : g[h][i] = g[h - 1][i]
      BY <1>5, <2>5
    <3>2. /\ Len(g[k]) \in Nat /\ Len(g[h]) \in Nat /\ Len(pieces[h]) \in Nat /\ Len(t) \in Nat
      BY <1>1, <1>2, <1>4, <2>3, <2>5
    <3> DEFINE x == Len(g[k])
               y == Len(g[h])
               z == Len(pieces[h])
    <3>3. y = x + n + z /\ x \in Nat /\ y \in Nat /\ z \in Nat
      BY <2>5, <3>1, <3>2
    <3> HIDE DEF x, y, z
    <3>4. x <= y
      BY <1>1, <3>3
    <3> QED
      BY <2>5, <3>1, <3>2, <3>4 DEF x, y
  <2>8. Begins(k)
    BY <2>6, <2>7
  <2> QED
    BY <2>3, <2>8
<1> HIDE DEF Begins
<1> DEFINE at == [k \in 1..N |-> Len(g[k]) - Len(pieces[k])]
<1>7. \A k \in 1..N : at[k] = Len(g[k]) - Len(pieces[k])
  OBVIOUS
<1>8. at \in [1..N -> Nat] /\ at[1] = 0
  <2>1. ASSUME NEW k \in 1..N PROVE Len(g[k]) - Len(pieces[k]) \in Nat
    <3>1. CASE k = 1
      BY <1>1, <1>3, <3>1
    <3>2. CASE k # 1
      <4>1. k \in 2..N
        BY <1>1, <3>2
      <4> DEFINE x == Len(g[k])
                 y == Len(g[k - 1])
                 z == Len(pieces[k])
      <4>2. x = y + n + z /\ y \in Nat /\ z \in Nat
        BY <1>1, <1>4, <1>5, <4>1
      <4> HIDE DEF x, y, z
      <4>3. x - z \in Nat
        BY <1>1, <4>2
      <4> QED
        BY <4>3 DEF x, z
    <3> QED
      BY <3>1, <3>2
  <2>2. at[1] = 0
    BY <1>1, <1>3, <1>7
  <2> QED
    BY <2>1, <2>2
<1> HIDE DEF at
<1>9. \A k \in 2..N : at[k] = Len(g[k - 1]) + n /\ at[k] = at[k - 1] + Len(pieces[k - 1]) + n
  <2> SUFFICES ASSUME NEW k \in 2..N
               PROVE  at[k] = Len(g[k - 1]) + n /\ at[k] = at[k - 1] + Len(pieces[k - 1]) + n
    OBVIOUS
  <2>1. /\ at[k] = Len(g[k]) - Len(pieces[k])
        /\ at[k - 1] = Len(g[k - 1]) - Len(pieces[k - 1])
        /\ Len(g[k]) = Len(g[k - 1]) + n + Len(pieces[k])
    BY <1>5, <1>7
  <2>2. Len(g[k]) \in Nat /\ Len(g[k - 1]) \in Nat /\ Len(pieces[k]) \in Nat /\ Len(pieces[k - 1]) \in Nat
    BY <1>1, <1>4, <1>5
  <2> QED
    BY <1>1, <2>1, <2>2
<1>10. at[N] + Len(pieces[N]) = Len(t)
  <2> DEFINE x == Len(g[N])
             z == Len(pieces[N])
  <2>1. N \in 1..N
    BY <1>1
  <2>2. at[N] = x - z /\ x \in Nat /\ z \in Nat /\ Len(t) = x
    BY <1>1, <1>2, <1>4, <1>7, <2>1
  <2> HIDE DEF x, z
  <2>3. at[N] + z = Len(t)
    BY <2>2
  <2> QED
    BY <2>3 DEF z
<1>11. ASSUME NEW k \in 2..N, NEW i \in 1..n PROVE t[at[k] - n + i] = sep[i]
  <2> DEFINE j == Len(g[k - 1]) + i
  <2>1. at[k] - n + i = j /\ j \in 1..Len(g[k])
    <3> DEFINE x == Len(g[k])
               y == Len(g[k - 1])
               z == Len(pieces[k])
    <3>1. x = y + n + z /\ y \in Nat /\ z \in Nat /\ at[k] = y + n
      BY <1>1, <1>4, <1>5, <1>9
    <3> HIDE DEF x, y, z
    <3>2. at[k] - n + i = y + i /\ y + i \in 1..x
      BY <1>1, <3>1
    <3> QED
      BY <3>2 DEF x, y
  <2>2. g[k][j] = sep[i]
    BY <1>5
  <2> HIDE DEF j
  <2>3. t[j] = g[k][j]
    BY <1>5, <1>6, <2>1 DEF Begins
  <2> QED
    BY <2>1, <2>2, <2>3
<1>12. ASSUME NEW k \in 1..N
       PROVE  /\ at[k] + Len(pieces[k]) <= Len(t)
              /\ \A i \in 1..Len(pieces[k]) : t[at[k] + i] = pieces[k][i]
  <2>1. at[k] + Len(pieces[k]) = Len(g[k]) /\ at[k] \in Nat
    <3> DEFINE x == Len(g[k])
               z == Len(pieces[k])
    <3>1. at[k] = x - z /\ x \in Nat /\ z \in Nat /\ at[k] \in Nat
      BY <1>1, <1>4, <1>7, <1>8
    <3> HIDE DEF x, z
    <3>2. at[k] + z = x
      BY <3>1
    <3> QED
      BY <3>1, <3>2 DEF x, z
  <2>2. Begins(k)
    BY <1>6
  <2>3. ASSUME NEW i \in 1..Len(pieces[k]) PROVE g[k][at[k] + i] = pieces[k][i]
    <3>1. CASE k = 1
      BY <1>1, <1>3, <1>8, <3>1
    <3>2. CASE k # 1
      <4>1. k \in 2..N
        BY <1>1, <3>2
      <4> QED
        BY <1>5, <1>9, <4>1
    <3> QED
      BY <3>1, <3>2
  <2>4. ASSUME NEW i \in 1..Len(pieces[k]) PROVE at[k] + i \in 1..Len(g[k])
    BY <1>1, <2>1
  <2> QED
    BY <2>1, <2>2, <2>3, <2>4 DEF Begins
<1>13. Placed(t, pieces, sep, at)
  BY <1>8, <1>9, <1>10, <1>11, <1>12 DEF Placed
<1>14. t \in Seq(V)
  BY <1>1, <1>2, <1>4
<1> QED
  BY <1>13, <1>14 DEF t

\* Where a character stands, its positions are cuts of one character each.
LEMMA CharCuts ==
  ASSUME NEW V, NEW s \in Seq(V), NEW c
  PROVE  Cuts(s, CharsAt(s, c), 1, {i - 1 : i \in {k \in DOMAIN s : s[k] = c}})
<1> DEFINE S == {k \in DOMAIN s : s[k] = c}
           C == {i - 1 : i \in S}
           a == Ascending(S, Len(s))
           pos == CharsAt(s, c)
<1>1. S \in SUBSET (1..Len(s)) /\ Len(s) \in Nat
  OBVIOUS
<1>2. Lists(a, S)
  BY <1>1, AscendingLists
<1>3. pos = [k \in DOMAIN a |-> a[k] - 1]
  BY DEF CharsAt
<1> HIDE DEF a, pos, S
<1>4. /\ Len(a) \in Nat /\ DOMAIN a = 1..Len(a)
      /\ \A k \in 1..Len(a) : a[k] \in 1..Len(s) /\ a[k] \in S
      /\ \A k, h \in 1..Len(a) : k < h => a[k] < a[h]
      /\ \A x \in S : \E k \in 1..Len(a) : a[k] = x
  BY <1>1, <1>2 DEF Lists, Rising
<1>5. \A k \in 1..Len(a) : pos[k] = a[k] - 1 /\ pos[k] \in Int
  BY <1>1, <1>3, <1>4
<1>6. pos \in Seq(Int) /\ Len(pos) = Len(a)
  <2>1. pos \in [1..Len(a) -> Int]
    BY <1>3, <1>4, <1>5
  <2> QED
    BY <1>4, <2>1, FunctionIsSeq
<1>7. \A k \in 1..Len(pos) : pos[k] \in 0..Len(s) /\ pos[k] + 1 <= Len(s)
  BY <1>1, <1>4, <1>5, <1>6
<1>8. \A k, h \in 1..Len(pos) : k < h => pos[k] < pos[h]
  <2> SUFFICES ASSUME NEW k \in 1..Len(pos), NEW h \in 1..Len(pos), k < h
               PROVE  pos[k] < pos[h]
    OBVIOUS
  <2>1. a[k] < a[h] /\ a[k] \in Int /\ a[h] \in Int
    BY <1>1, <1>4, <1>6
  <2> QED
    BY <1>5, <1>6, <2>1
<1>9. ASSUME NEW i \in Int
      PROVE  i \in C <=> \E k \in 1..Len(pos) : pos[k] <= i /\ i < pos[k] + 1
  <2>1. ASSUME i \in C PROVE \E k \in 1..Len(pos) : pos[k] <= i /\ i < pos[k] + 1
    <3>1. PICK x \in S : i = x - 1
      BY <2>1
    <3>2. PICK k \in 1..Len(a) : a[k] = x
      BY <1>4
    <3>3. pos[k] = i /\ k \in 1..Len(pos)
      BY <1>5, <1>6, <3>1, <3>2
    <3> QED
      BY <3>3
  <2>2. ASSUME NEW k \in 1..Len(pos), pos[k] <= i, i < pos[k] + 1 PROVE i \in C
    <3>1. pos[k] = i
      BY <1>5, <1>6, <2>2
    <3>2. a[k] - 1 = i /\ a[k] \in S
      BY <1>4, <1>5, <1>6, <3>1
    <3> QED
      BY <3>2
  <2> QED
    BY <2>1, <2>2
<1> HIDE DEF C
<1>10. Cuts(s, pos, 1, C)
  BY <1>6, <1>7, <1>8, <1>9 DEF Cuts
<1> QED
  BY <1>10 DEF C, S, pos

\* Of pieces none of which is empty, all are kept.
LEMMA NoneEmpty ==
  ASSUME NEW V, NEW pieces \in Seq(V), NEW S, S = 1..Len(pieces)
  PROVE  ElementsAt(pieces, S) = pieces
<1> DEFINE N == Len(pieces)
           q == [k \in 1..N |-> k]
<1>1. N \in Nat /\ pieces = [k \in 1..N |-> pieces[k]]
  OBVIOUS
<1>2. S = 1..N /\ S \in SUBSET (1..Len(pieces))
  OBVIOUS
<1> HIDE DEF N
<1>3. q \in Seq(Nat) /\ Len(q) = N /\ \A k \in 1..N : q[k] = k
  <2>1. q \in [1..N -> Nat] /\ \A k \in 1..N : q[k] = k
    OBVIOUS
  <2> HIDE DEF q
  <2> QED
    BY <1>1, <2>1, FunctionIsSeq
<1> HIDE DEF q
<1>4. Rising(q)
  BY <1>3 DEF Rising
<1>5. Lists(q, S)
  BY <1>3, <1>2, <1>4 DEF Lists
<1>6. ElementsAt(pieces, S) = [k \in 1..Len(q) |-> pieces[q[k]]]
  BY <1>2, <1>5, Elements
<1>7. ElementsAt(pieces, S) = [k \in 1..N |-> pieces[k]]
  BY <1>3, <1>6
<1> QED
  BY <1>1, <1>7

\* A part of a string that is like p is p.
LEMMA SamePart ==
  ASSUME NEW V, NEW t \in Seq(V), NEW p \in Seq(V), NEW a \in Nat, a + Len(p) <= Len(t),
         \A i \in 1..Len(p) : t[a + i] = p[i]
  PROVE  SubSeq(t, a + 1, a + Len(p)) = p
<1> DEFINE n == Len(p)
           b == a + 1
           e == a + n
           u == SubSeq(t, b, e)
<1>1. n \in Nat /\ Len(t) \in Nat
  OBVIOUS
<1>2. b \in Int /\ e \in Int /\ \A i \in b..e : t[i] \in V
  BY <1>1, ElementOfSeq
<1>6. e - b + 1 = n /\ (\A i \in 1..n : b + i - 1 = a + i) /\ (b <= e <=> n # 0)
  BY <1>1
<1> HIDE DEF b, e
<1>3. u \in Seq(V)
  BY <1>2, SubSeqProperties
<1>4. Len(u) = IF b <= e THEN e - b + 1 ELSE 0
  BY <1>2, SubSeqProperties
<1>5. \A i \in 1..(e - b + 1) : u[i] = t[b + i - 1]
  BY <1>2, SubSeqProperties
<1> HIDE DEF u
<1>7. Len(u) = n /\ \A i \in 1..n : u[i] = p[i]
  BY <1>1, <1>4, <1>5, <1>6
<1>8. u = p
  BY <1>1, <1>3, <1>7
<1> QED
  BY <1>8 DEF u, b, e

\* Pieces joined by a character that none of them has are what stands between it.
LEMMA JoinedCuts ==
  ASSUME NEW V, NEW pieces \in Seq(Seq(V)), pieces # <<>>, NEW c \in V,
         \A k \in 1..Len(pieces) : \A i \in 1..Len(pieces[k]) : pieces[k][i] # c
  PROVE  LET t == Join(pieces, <<c>>)
         IN  Between(t, CharsAt(t, c), 1) = pieces
<1> DEFINE N == Len(pieces)
           W == Seq(V)
           t == Join(pieces, <<c>>)
           pos == CharsAt(t, c)
           S == {k \in DOMAIN t : t[k] = c}
           B == Between(t, pos, 1)
<1>1. N \in Nat /\ N >= 1 /\ \A k \in 1..N : pieces[k] \in W /\ Len(pieces[k]) \in Nat
  <2>1. N \in Nat /\ N >= 1
    BY EmptySeq
  <2>2. \A k \in 1..N : pieces[k] \in W
    BY ElementOfSeq
  <2> QED
    BY <2>1, <2>2
<1>2. <<c>> \in Seq(V) /\ Len(<<c>>) = 1 /\ <<c>>[1] = c
  OBVIOUS
<1>3. t \in Seq(V)
  BY <1>2, JoinPlaces
<1>4. PICK at : Placed(t, pieces, <<c>>, at)
  BY <1>2, JoinPlaces
<1> HIDE DEF t
<1>5. /\ at \in [1..N -> Nat] /\ at[1] = 0
      /\ at[N] + Len(pieces[N]) = Len(t)
      /\ \A k \in 2..N : at[k] = at[k - 1] + Len(pieces[k - 1]) + 1
      /\ \A k \in 2..N : \A i \in 1..1 : t[at[k] - 1 + i] = <<c>>[i]
      /\ \A k \in 1..N : at[k] + Len(pieces[k]) <= Len(t)
      /\ \A k \in 1..N : \A i \in 1..Len(pieces[k]) : t[at[k] + i] = pieces[k][i]
  BY <1>2, <1>4 DEF Placed
<1>6. \A k \in 1..N : at[k] \in Nat
  BY <1>5
<1>7. \A k, h \in 1..N : k < h => at[k] < at[h]
  <2>1. \A k \in 2..N : at[k - 1] < at[k]
    <3> SUFFICES ASSUME NEW k \in 2..N PROVE at[k - 1] < at[k]
      OBVIOUS
    <3>1. k - 1 \in 1..N /\ k \in 1..N
      BY <1>1
    <3>2. at[k - 1] \in Nat /\ Len(pieces[k - 1]) \in Nat
      BY <1>1, <1>6, <3>1
    <3>3. at[k] = at[k - 1] + Len(pieces[k - 1]) + 1
      BY <1>5
    <3> QED
      BY <3>2, <3>3
  <2>2. at \in [1..N -> Int]
    BY <1>5, <1>6
  <2> HIDE DEF N
  <2> QED
    BY <1>1, <2>1, <2>2, Climbs
<1>8. \A k \in 2..N : at[k] \in S
  <2> SUFFICES ASSUME NEW k \in 2..N PROVE at[k] \in S
    OBVIOUS
  <2>1. k \in 1..N /\ 1 \in 1..N /\ at[1] < at[k] /\ at[k] \in Nat
    BY <1>1, <1>6, <1>7
  <2>2. at[k] \in 1..Len(t)
    <3>1. at[k] + Len(pieces[k]) <= Len(t) /\ Len(pieces[k]) \in Nat /\ Len(t) \in Nat
      BY <1>1, <1>3, <1>5, <2>1
    <3>2. at[k] > 0
      BY <1>5, <2>1
    <3> QED
      BY <2>1, <3>1, <3>2
  <2>3. t[at[k] - 1 + 1] = <<c>>[1] /\ at[k] - 1 + 1 = at[k]
    BY <1>5, <2>1
  <2> QED
    BY <1>2, <1>3, <2>2, <2>3
<1>9. \A x \in S : \E k \in 2..N : at[k] = x
  <2> SUFFICES ASSUME NEW x \in S PROVE \E k \in 2..N : at[k] = x
    OBVIOUS
  <2> DEFINE T == {k \in 1..N : at[k] < x}
  <2>1. x \in 1..Len(t) /\ t[x] = c /\ x \in Nat
    BY <1>3
  <2>2. T \in SUBSET (0..N) /\ 1 \in T
    BY <1>1, <1>5, <2>1
  <2>3. PICK k \in T : \A i \in T : i <= k
    <3> HIDE DEF T, N
    <3> QED
      BY <1>1, <2>2, LastOf
  <2>4. k \in 1..N /\ at[k] < x /\ at[k] \in Nat /\ Len(pieces[k]) \in Nat
    BY <1>1, <1>6, <2>3
  <2>5. ~ (x <= at[k] + Len(pieces[k]))
    <3> SUFFICES ASSUME x <= at[k] + Len(pieces[k]) PROVE FALSE
      OBVIOUS
    <3> DEFINE i == x - at[k]
    <3>1. i \in 1..Len(pieces[k]) /\ at[k] + i = x
      BY <2>1, <2>4
    <3> HIDE DEF i
    <3>2. t[x] = pieces[k][i]
      BY <1>5, <2>4, <3>1
    <3> QED
      BY <2>1, <2>4, <3>1, <3>2
  <2>6. k # N
    BY <1>3, <1>5, <2>1, <2>5
  <2> DEFINE h == k + 1
  <2>7. h \in 2..N /\ h \in 1..N /\ h - 1 = k /\ ~ (h <= k)
    BY <1>1, <2>4, <2>6
  <2> HIDE DEF h
  <2>8. at[h] = at[k] + Len(pieces[k]) + 1
    BY <1>5, <2>7
  <2>9. ~ (at[h] < x)
    BY <2>3, <2>7
  <2>10. at[h] = x
    BY <2>1, <2>4, <2>5, <2>8, <2>9
  <2> QED
    BY <2>7, <2>10
<1> DEFINE q == [k \in 1..(N - 1) |-> at[k + 1]]
<1>10. \A k \in 1..(N - 1) : k + 1 \in 2..N /\ k + 1 \in 1..N
  BY <1>1
<1>11. q \in Seq(Nat) /\ Len(q) = N - 1 /\ \A k \in 1..(N - 1) : q[k] = at[k + 1]
  <2>1. N - 1 \in Nat
    BY <1>1
  <2>2. q \in [1..(N - 1) -> Nat]
    BY <1>6, <1>10
  <2>3. \A k \in 1..(N - 1) : q[k] = at[k + 1]
    OBVIOUS
  <2> HIDE DEF q, N
  <2>4. q \in Seq(Nat) /\ Len(q) = N - 1
    BY <2>1, <2>2, FunctionIsSeq
  <2> QED
    BY <2>3, <2>4
<1> HIDE DEF q
<1>12. Lists(q, S)
  <2>1. Rising(q)
    <3> SUFFICES ASSUME NEW k \in 1..(N - 1), NEW h \in 1..(N - 1), k < h PROVE q[k] < q[h]
      BY <1>11 DEF Rising
    <3>1. k + 1 \in 1..N /\ h + 1 \in 1..N /\ k + 1 < h + 1
      BY <1>10
    <3>2. at[k + 1] < at[h + 1]
      BY <1>7, <3>1
    <3> QED
      BY <1>11, <3>2
  <2>2. \A k \in 1..Len(q) : q[k] \in S
    <3> HIDE DEF S
    <3> QED
      BY <1>8, <1>10, <1>11
  <2>3. \A x \in S : \E k \in 1..Len(q) : q[k] = x
    <3> SUFFICES ASSUME NEW x \in S PROVE \E k \in 1..Len(q) : q[k] = x
      OBVIOUS
    <3>1. PICK h \in 2..N : at[h] = x
      BY <1>9
    <3> DEFINE k == h - 1
    <3>2. k \in 1..(N - 1) /\ k + 1 = h
      BY <1>1
    <3> HIDE DEF k
    <3> QED
      BY <1>11, <3>1, <3>2
  <2> QED
    BY <1>11, <2>1, <2>2, <2>3 DEF Lists
<1>13. pos = [k \in 1..(N - 1) |-> at[k + 1] - 1]
  <2>1. S \in SUBSET (1..Len(t)) /\ Len(t) \in Nat
    BY <1>3
  <2>2. q = Ascending(S, Len(t))
    <3> HIDE DEF S
    <3> QED
      BY <1>12, <2>1, AscendingLists
  <2>3. pos = [k \in DOMAIN q |-> q[k] - 1]
    BY <2>2 DEF CharsAt
  <2>4. DOMAIN q = 1..(N - 1)
    BY <1>11
  <2> QED
    BY <1>11, <2>3, <2>4
<1>14. pos \in Seq(Int) /\ Len(pos) = N - 1 /\ \A k \in 1..(N - 1) : pos[k] = at[k + 1] - 1
  <2>1. N - 1 \in Nat
    BY <1>1
  <2>2. pos \in [1..(N - 1) -> Int]
    BY <1>6, <1>10, <1>13
  <2>3. \A k \in 1..(N - 1) : pos[k] = at[k + 1] - 1
    BY <1>13
  <2> HIDE DEF pos, N
  <2>4. pos \in Seq(Int) /\ Len(pos) = N - 1
    BY <2>1, <2>2, FunctionIsSeq
  <2> QED
    BY <2>3, <2>4
<1>15. \A k \in 1..Len(pos) : pos[k] \in 0..Len(t) /\ pos[k] + 1 <= Len(t)
  <2> SUFFICES ASSUME NEW k \in 1..(N - 1)
               PROVE  pos[k] \in 0..Len(t) /\ pos[k] + 1 <= Len(t)
    BY <1>14
  <2>1. at[k + 1] \in S
    BY <1>8, <1>10
  <2>2. at[k + 1] \in 1..Len(t) /\ Len(t) \in Nat
    BY <1>3, <2>1
  <2> QED
    BY <1>14, <2>2
<1> HIDE DEF S, pos
<1>16. /\ B \in Seq(W) /\ Len(B) = N
       /\ \A k \in 1..N : B[k] = SubSeq(t, Begin(pos, 1, k) + 1, End(t, pos, k))
  <2>1. 1 \in Nat /\ \A k \in 1..Len(pos) : pos[k] \in 0..Len(t)
    BY <1>15
  <2>2. B \in Seq(W) /\ Len(B) = Len(pos) + 1
    BY <1>3, <1>14, <2>1, Pieces
  <2>3. \A k \in 1..(Len(pos) + 1) : B[k] = SubSeq(t, Begin(pos, 1, k) + 1, End(t, pos, k))
    BY <1>3, <1>14, <2>1, Pieces
  <2>4. Len(pos) + 1 = N
    BY <1>1, <1>14
  <2> HIDE DEF B, N, W
  <2> QED
    BY <2>2, <2>3, <2>4
<1>17. \A k \in 1..N : Begin(pos, 1, k) = at[k] /\ End(t, pos, k) = at[k] + Len(pieces[k])
  <2> SUFFICES ASSUME NEW k \in 1..N
               PROVE  Begin(pos, 1, k) = at[k] /\ End(t, pos, k) = at[k] + Len(pieces[k])
    OBVIOUS
  <2>1. Begin(pos, 1, k) = at[k]
    <3>1. CASE k = 1
      BY <1>5, <3>1 DEF Begin
    <3>2. CASE k # 1
      <4> DEFINE h == k - 1
      <4>1. h \in 1..(N - 1) /\ h + 1 = k
        BY <1>1, <3>2
      <4> HIDE DEF h
      <4>2. pos[h] = at[k] - 1 /\ at[k] \in Nat
        BY <1>6, <1>14, <4>1
      <4>3. Begin(pos, 1, k) = pos[h] + 1
        BY <3>2 DEF Begin, h
      <4> QED
        BY <4>2, <4>3
    <3> QED
      BY <3>1, <3>2
  <2>2. End(t, pos, k) = at[k] + Len(pieces[k])
    <3>1. CASE k = N
      <4>1. ~ (k <= Len(pos))
        BY <1>1, <1>14, <3>1
      <4> QED
        BY <1>5, <3>1, <4>1 DEF End
    <3>2. CASE k # N
      <4> DEFINE h == k + 1
      <4>1. k \in 1..(N - 1) /\ k <= Len(pos) /\ h \in 2..N /\ h - 1 = k
        BY <1>1, <1>14, <3>2
      <4> HIDE DEF h
      <4>2. pos[k] = at[h] - 1
        BY <1>14, <4>1 DEF h
      <4>3. at[h] = at[k] + Len(pieces[k]) + 1
        BY <1>5, <4>1
      <4>4. at[k] \in Nat /\ Len(pieces[k]) \in Nat
        BY <1>1, <1>6
      <4>5. End(t, pos, k) = pos[k]
        BY <4>1 DEF End
      <4> QED
        BY <4>2, <4>3, <4>4, <4>5
    <3> QED
      BY <3>1, <3>2
  <2> QED
    BY <2>1, <2>2
<1> HIDE DEF B
<1>18. \A k \in 1..N : B[k] = pieces[k]
  <2> SUFFICES ASSUME NEW k \in 1..N PROVE B[k] = pieces[k]
    OBVIOUS
  <2> DEFINE a == at[k]
             p == pieces[k]
  <2>1. /\ a \in Nat /\ p \in Seq(V) /\ a + Len(p) <= Len(t)
        /\ \A i \in 1..Len(p) : t[a + i] = p[i]
    BY <1>1, <1>5, <1>6
  <2>2. B[k] = SubSeq(t, a + 1, a + Len(p))
    BY <1>16, <1>17
  <2> HIDE DEF a, p
  <2>3. SubSeq(t, a + 1, a + Len(p)) = p
    BY <1>3, <2>1, SamePart
  <2> QED
    BY <2>2, <2>3 DEF p
<1>19. B = pieces
  <2>1. pieces \in Seq(W) /\ Len(pieces) = N /\ B \in Seq(W) /\ Len(B) = N
    BY <1>16
  <2> HIDE DEF W, N
  <2> QED
    BY <1>18, <2>1
<1> QED
  BY <1>19 DEF B, pos, t

\* p is what stands in s between b and e.
IsPart(p, s, b, e, V) ==
  /\ p \in Seq(V) /\ b \in 0..Len(s) /\ e \in 0..Len(s)
  /\ Len(p) = IF b < e THEN e - b ELSE 0
  /\ \A i \in 1..Len(p) : b + i \in 1..Len(s) /\ p[i] = s[b + i]

\* The characters of a piece.
LEMMA PieceIs ==
  ASSUME NEW V, NEW s \in Seq(V), NEW n \in Nat, NEW pos \in Seq(Int),
         \A h \in 1..Len(pos) : pos[h] \in 0..Len(s) /\ pos[h] + n <= Len(s),
         NEW k \in 1..(Len(pos) + 1)
  PROVE  IsPart(Between(s, pos, n)[k], s, Begin(pos, n, k), End(s, pos, k), V)
<1> DEFINE p == Between(s, pos, n)[k]
           b == Begin(pos, n, k)
           e == End(s, pos, k)
<1>1. b \in 0..Len(s) /\ e \in 0..Len(s) /\ Len(s) \in Nat
  <2>1. PieceEnds(s, pos, n, k)
    BY PiecesEnd
  <2> QED
    BY <2>1 DEF PieceEnds
<1>2. p = SubSeq(s, b + 1, e)
  BY Pieces
<1> HIDE DEF b, e, p
<1>3. b + 1 \in Int /\ e \in Int /\ \A i \in (b + 1)..e : s[i] \in V
  BY <1>1, ElementOfSeq
<1>4. p \in Seq(V)
  BY <1>2, <1>3, SubSeqProperties
<1>5. Len(p) = IF b + 1 <= e THEN e - (b + 1) + 1 ELSE 0
  BY <1>2, <1>3, SubSeqProperties
<1>6. \A i \in 1..(e - (b + 1) + 1) : p[i] = s[b + 1 + i - 1]
  BY <1>2, <1>3, SubSeqProperties
<1>7. Len(p) = IF b < e THEN e - b ELSE 0
  BY <1>1, <1>5
<1>8. ASSUME NEW i \in 1..Len(p) PROVE b + i \in 1..Len(s) /\ p[i] = s[b + i]
  <2>1. b + i \in 1..Len(s) /\ i \in 1..(e - (b + 1) + 1) /\ b + 1 + i - 1 = b + i
    BY <1>1, <1>7
  <2> QED
    BY <1>6, <2>1
<1> QED
  BY <1>1, <1>4, <1>7, <1>8 DEF IsPart, b, e, p

\* The pieces of s between its c's: they are not empty, have no c, and together
\* every other character of s.
PiecesWithout(pieces, s, c, V) ==
  /\ pieces \in Seq(Seq(V))
  /\ \A k \in 1..Len(pieces) : pieces[k] # <<>> /\ \A i \in 1..Len(pieces[k]) : pieces[k][i] # c
  /\ \A i \in 1..Len(s) : s[i] # c => \E k \in 1..Len(pieces) : \E h \in 1..Len(pieces[k]) :
                                         pieces[k][h] = s[i]
  /\ \A k \in 1..Len(pieces) : \A h \in 1..Len(pieces[k]) :
       \E i \in 1..Len(s) : pieces[k][h] = s[i]

LEMMA SplitPieces ==
  ASSUME NEW V, NEW s \in Seq(V), NEW c
  PROVE  PiecesWithout(SplitByDelim(s, c), s, c, V)
<1> DEFINE pos == CharsAt(s, c)
           C == {i - 1 : i \in {k \in DOMAIN s : s[k] = c}}
           W == Seq(V)
           B == Between(s, pos, 1)
           N == Len(pos) + 1
           K == {k \in DOMAIN B : B[k] # <<>>}
           pieces == SplitByDelim(s, c)
           Bn(k) == Begin(pos, 1, k)
           En(k) == End(s, pos, k)
<1>1. Cuts(s, pos, 1, C)
  BY CharCuts
<1>2. \A i \in 1..Len(s) : i - 1 \in C <=> s[i] = c
  <2> SUFFICES ASSUME NEW i \in 1..Len(s) PROVE i - 1 \in C <=> s[i] = c
    OBVIOUS
  <2>1. ASSUME i - 1 \in C PROVE s[i] = c
    <3>1. PICK k \in DOMAIN s : s[k] = c /\ i - 1 = k - 1
      BY <2>1
    <3>2. k = i
      BY <3>1
    <3> QED
      BY <3>1, <3>2
  <2>2. ASSUME s[i] = c PROVE i - 1 \in C
    BY <2>2
  <2> QED
    BY <2>1, <2>2
<1>3. /\ pos \in Seq(Int) /\ Len(pos) \in Nat /\ N \in Nat /\ N >= 1 /\ Len(s) \in Nat
      /\ \A k \in 1..Len(pos) : pos[k] \in 0..Len(s) /\ pos[k] + 1 <= Len(s)
      /\ \A i \in Int : i \in C <=> \E k \in 1..Len(pos) : pos[k] <= i /\ i < pos[k] + 1
  BY <1>1 DEF Cuts
<1>4. pieces = ElementsAt(B, K)
  BY DEF SplitByDelim, NonEmpty
<1> HIDE DEF C, pos
<1>5. \A k \in 1..N : /\ B[k] \in W /\ Bn(k) \in 0..Len(s) /\ En(k) \in 0..Len(s)
                      /\ Len(B[k]) = IF Bn(k) < En(k) THEN En(k) - Bn(k) ELSE 0
                      /\ \A i \in 1..Len(B[k]) : Bn(k) + i \in 1..Len(s) /\ B[k][i] = s[Bn(k) + i]
  <2> DEFINE n == 1
  <2>1. n \in Nat /\ \A h \in 1..Len(pos) : pos[h] \in 0..Len(s) /\ pos[h] + n <= Len(s)
    BY <1>3
  <2> HIDE DEF n
  <2>2. ASSUME NEW k \in 1..(Len(pos) + 1)
        PROVE  IsPart(Between(s, pos, n)[k], s, Begin(pos, n, k), End(s, pos, k), V)
    BY <1>3, <2>1, PieceIs
  <2> QED
    BY <2>2 DEF n, IsPart
<1>6. \A k \in 1..N : /\ IF k = 1 THEN Bn(k) = 0
                         ELSE k - 1 \in 1..Len(pos) /\ Bn(k) = pos[k - 1] + 1
                      /\ IF k \in 1..Len(pos) THEN En(k) = pos[k]
                         ELSE k = N /\ En(k) = Len(s)
  <2> DEFINE n == 1
  <2>1. n \in Nat /\ \A h \in 1..Len(pos) : pos[h] \in 0..Len(s) /\ pos[h] + n <= Len(s)
    BY <1>3
  <2> HIDE DEF n
  <2>2. \A k \in 1..(Len(pos) + 1) : PieceEnds(s, pos, n, k)
    BY <1>3, <2>1, PiecesEnd
  <2> QED
    BY <2>2 DEF PieceEnds, n
<1>7. \A k \in 1..N : Bn(k) < En(k) => \A i \in Bn(k)..(En(k) - 1) : i \notin C
  BY <1>1, PiecesUncut
<1>8. B \in Seq(W) /\ Len(B) = N /\ DOMAIN B = 1..N
  <2>1. B \in Seq(W) /\ Len(B) = N
    BY <1>3, Pieces
  <2> HIDE DEF B, W, N
  <2> QED
    BY <2>1
<1> HIDE DEF B, N, Bn, En
<1>9. K \in SUBSET (1..Len(B)) /\ \A k \in 1..N : k \in K <=> B[k] # <<>>
  BY <1>8
<1> HIDE DEF K, pieces
<1>10. pieces \in Seq(W)
  <2> HIDE DEF W
  <2> QED
    BY <1>4, <1>8, <1>9, Elements
<1>11. PICK at : /\ Lists(at, K)
                 /\ Len(ElementsAt(B, K)) = Len(at)
                 /\ ElementsAt(B, K) = [k \in 1..Len(at) |-> B[at[k]]]
                 /\ \A k \in 1..Len(at) : at[k] \in 1..Len(B) /\ ElementsAt(B, K)[k] = B[at[k]]
  <2> HIDE DEF W
  <2> QED
    BY <1>8, <1>9, Elements
<1>12. /\ Len(pieces) = Len(at)
       /\ \A k \in 1..Len(at) : pieces[k] = B[at[k]] /\ at[k] \in K /\ at[k] \in 1..N
       /\ \A x \in K : \E k \in 1..Len(at) : at[k] = x
  BY <1>4, <1>8, <1>11 DEF Lists
<1>13. \A k \in 1..N : \A i \in 1..Len(B[k]) : B[k][i] # c
  <2> SUFFICES ASSUME NEW k \in 1..N, NEW i \in 1..Len(B[k]) PROVE B[k][i] # c
    OBVIOUS
  <2> DEFINE h == Bn(k) + i
  <2>1. Bn(k) < En(k) /\ Bn(k) + i <= En(k)
    BY <1>3, <1>5
  <2>2. h \in 1..Len(s) /\ B[k][i] = s[h] /\ h - 1 \in Bn(k)..(En(k) - 1)
    BY <1>3, <1>5, <2>1
  <2> HIDE DEF h
  <2>3. h - 1 \notin C
    BY <1>7, <2>1, <2>2
  <2> QED
    BY <1>2, <2>2, <2>3
<1>14. \A i \in 1..Len(s) : s[i] # c => \E k \in K : \E h \in 1..Len(B[k]) : B[k][h] = s[i]
  <2> SUFFICES ASSUME NEW i \in 1..Len(s), s[i] # c
               PROVE  \E k \in K : \E h \in 1..Len(B[k]) : B[k][h] = s[i]
    OBVIOUS
  <2> DEFINE T == {k \in 1..N : Bn(k) < i}
  <2>1. T \in SUBSET (0..N) /\ 1 \in T
    BY <1>3, <1>6
  <2>2. PICK k \in T : \A x \in T : x <= k
    <3> HIDE DEF T
    <3> QED
      BY <1>3, <2>1, LastOf
  <2>3. k \in 1..N /\ Bn(k) < i
    BY <2>2
  <2>4. i <= En(k)
    <3>1. CASE k \notin 1..Len(pos)
      BY <1>3, <1>6, <2>3, <3>1
    <3>2. CASE k \in 1..Len(pos)
      <4> DEFINE g == k + 1
      <4>1. g \in 1..N /\ g # 1 /\ g - 1 = k /\ ~ (g <= k)
        BY <1>3, <3>2 DEF N
      <4> HIDE DEF g
      <4>2. Bn(g) = pos[k] + 1
        BY <1>6, <4>1
      <4>3. ~ (Bn(g) < i)
        BY <2>2, <4>1
      <4>4. En(k) = pos[k] /\ pos[k] \in Int
        BY <1>3, <1>6, <2>3, <3>2
      <4>5. i # pos[k] + 1
        <5>1. i - 1 \in Int /\ i - 1 \notin C
          BY <1>2
        <5>2. ~ (pos[k] <= i - 1 /\ i - 1 < pos[k] + 1)
          BY <1>3, <3>2, <5>1
        <5> QED
          BY <4>4, <5>2
      <4> QED
        BY <4>2, <4>3, <4>4, <4>5
    <3> QED
      BY <3>1, <3>2
  <2> DEFINE h == i - Bn(k)
  <2>5. Bn(k) \in Nat /\ En(k) \in Nat /\ Len(B[k]) = IF Bn(k) < En(k) THEN En(k) - Bn(k) ELSE 0
    BY <1>3, <1>5, <2>3
  <2>6. h \in 1..Len(B[k]) /\ Bn(k) + h = i
    BY <2>3, <2>4, <2>5
  <2> HIDE DEF h
  <2>7. B[k][h] = s[i]
    BY <1>5, <2>3, <2>6
  <2>8. k \in K
    <3>1. B[k] # <<>>
      BY <2>6
    <3> QED
      BY <1>9, <2>3, <3>1
  <2> QED
    BY <2>6, <2>7, <2>8
<1>15. \A k \in 1..Len(pieces) : pieces[k] # <<>> /\ \A i \in 1..Len(pieces[k]) : pieces[k][i] # c
  <2> SUFFICES ASSUME NEW k \in 1..Len(pieces)
               PROVE  pieces[k] # <<>> /\ \A i \in 1..Len(pieces[k]) : pieces[k][i] # c
    OBVIOUS
  <2>1. pieces[k] = B[at[k]] /\ at[k] \in K /\ at[k] \in 1..N
    BY <1>12
  <2>2. B[at[k]] # <<>> /\ \A i \in 1..Len(B[at[k]]) : B[at[k]][i] # c
    BY <1>9, <1>13, <2>1
  <2> QED
    BY <2>1, <2>2
<1>16. \A i \in 1..Len(s) : s[i] # c => \E k \in 1..Len(pieces) : \E h \in 1..Len(pieces[k]) :
                                          pieces[k][h] = s[i]
  <2> SUFFICES ASSUME NEW i \in 1..Len(s), s[i] # c
               PROVE  \E k \in 1..Len(pieces) : \E h \in 1..Len(pieces[k]) : pieces[k][h] = s[i]
    OBVIOUS
  <2>1. PICK x \in K : \E h \in 1..Len(B[x]) : B[x][h] = s[i]
    BY <1>14
  <2>2. PICK k \in 1..Len(at) : at[k] = x
    BY <1>12
  <2>3. k \in 1..Len(pieces) /\ pieces[k] = B[x]
    BY <1>12, <2>2
  <2> QED
    BY <2>1, <2>3
<1>17. \A k \in 1..Len(pieces) : \A h \in 1..Len(pieces[k]) :
         \E i \in 1..Len(s) : pieces[k][h] = s[i]
  <2> SUFFICES ASSUME NEW k \in 1..Len(pieces), NEW h \in 1..Len(pieces[k])
               PROVE  \E i \in 1..Len(s) : pieces[k][h] = s[i]
    OBVIOUS
  <2>1. at[k] \in 1..N /\ pieces[k] = B[at[k]]
    BY <1>12
  <2>2. Bn(at[k]) + h \in 1..Len(s) /\ B[at[k]][h] = s[Bn(at[k]) + h]
    BY <1>5, <2>1
  <2> QED
    BY <2>1, <2>2
<1> QED
  BY <1>10, <1>15, <1>16, <1>17 DEF PiecesWithout, pieces

\* What is joined by a character that no piece has is split into the same pieces.
LEMMA SplitsAgain ==
  ASSUME NEW V, NEW pieces \in Seq(Seq(V)), pieces # <<>>, NEW c \in V,
         \A k \in 1..Len(pieces) : pieces[k] # <<>> /\ \A i \in 1..Len(pieces[k]) : pieces[k][i] # c
  PROVE  SplitByDelim(Join(pieces, <<c>>), c) = pieces
<1> DEFINE t == Join(pieces, <<c>>)
           W == Seq(V)
           K == {k \in DOMAIN pieces : pieces[k] # <<>>}
<1>1. Between(t, CharsAt(t, c), 1) = pieces
  BY JoinedCuts
<1>2. SplitByDelim(t, c) = ElementsAt(pieces, K)
  BY <1>1 DEF SplitByDelim, NonEmpty
<1>3. K = 1..Len(pieces)
  OBVIOUS
<1> HIDE DEF K
<1>4. ElementsAt(pieces, K) = pieces
  <2>1. pieces \in Seq(W)
    OBVIOUS
  <2> HIDE DEF W
  <2> QED
    BY <1>3, <2>1, NoneEmpty
<1> QED
  BY <1>2, <1>4

\* A split by a delimiter.
LEMMA DelimiterCutsRight ==
  ASSUME NEW V, NEW s \in Seq(V), NEW c \in V
  PROVE  DelimiterCuts(s, c)
<1> DEFINE pieces == SplitByDelim(s, c)
           C == {i - 1 : i \in {k \in DOMAIN s : s[k] = c}}
<1>1. Cuts(s, CharsAt(s, c), 1, C)
  BY CharCuts
<1>2. pieces = Stretches(s, C)
  <2>1. 1 \in Nat \ {0}
    OBVIOUS
  <2> HIDE DEF C
  <2> QED
    BY <1>1, <2>1, PiecesAreStretches DEF SplitByDelim
<1>3. PiecesWithout(pieces, s, c, V)
  BY SplitPieces
<1>4. ASSUME pieces # <<>> PROVE SplitByDelim(JoinViaDelim(pieces, c), c) = pieces
  <2> HIDE DEF pieces
  <2> QED
    BY <1>3, <1>4, SplitsAgain DEF PiecesWithout, JoinViaDelim
<1> QED
  BY <1>2, <1>4 DEF DelimiterCuts

\* The positions that kmp_search_all stored are cuts of the occurrences.
LEMMA FoundCuts ==
  ASSUME NEW V, NEW s \in Seq(V), NEW w \in Seq(V), w # <<>>
  PROVE  /\ Cuts(s, FoundPos(w, s), Len(w), UNION {x..(x + Len(w) - 1) : x \in Occurrences(w, s)})
         /\ \A k \in 1..Len(FoundPos(w, s)) : FoundPos(w, s)[k] \in Occurrences(w, s)
<1> DEFINE there == Occurrences(w, s)
           n == Len(w)
           pos == FoundPos(w, s)
           ends == MatchEnds(w, s)
           C == UNION {x..(x + n - 1) : x \in there}
<1>1. /\ n \in Nat /\ Len(s) \in Nat
      /\ \A x \in there : x \in Nat /\ x + n <= Len(s) /\ x \in 0..Len(s)
  BY DEF Occurrences, OccursAt
<1>2. /\ ends \in Seq(Nat)
      /\ \A k \in 1..Len(ends) : ends[k] - n \in there
      /\ \A x \in there : \E k \in 1..Len(ends) : ends[k] - n = x
      /\ \A k, h \in 1..Len(ends) : k < h => ends[k] < ends[h]
  BY MatchesExact
<1>3. pos = [k \in DOMAIN ends |-> ends[k] - n]
  BY DEF FoundPos
<1> HIDE DEF ends, pos, there
<1>4. DOMAIN ends = 1..Len(ends) /\ Len(ends) \in Nat /\ \A k \in 1..Len(ends) : ends[k] \in Nat
  BY <1>2, ElementOfSeq
<1>5. pos \in Seq(Int) /\ Len(pos) = Len(ends) /\ \A k \in 1..Len(ends) : pos[k] = ends[k] - n
  <2>1. pos \in [1..Len(ends) -> Int]
    BY <1>1, <1>3, <1>4
  <2>2. \A k \in 1..Len(ends) : pos[k] = ends[k] - n
    BY <1>3, <1>4
  <2> HIDE DEF n
  <2> QED
    BY <1>4, <2>1, <2>2, FunctionIsSeq
<1>6. \A k \in 1..Len(pos) : pos[k] \in there
  BY <1>2, <1>5
<1>7. \A k \in 1..Len(pos) : pos[k] \in 0..Len(s) /\ pos[k] + n <= Len(s)
  BY <1>1, <1>6
<1>8. \A k, h \in 1..Len(pos) : k < h => pos[k] < pos[h]
  <2> HIDE DEF n
  <2> QED
    BY <1>1, <1>2, <1>4, <1>5
<1>9. ASSUME NEW i \in Int
      PROVE  i \in C <=> \E k \in 1..Len(pos) : pos[k] <= i /\ i < pos[k] + n
  <2>1. ASSUME i \in C PROVE \E k \in 1..Len(pos) : pos[k] <= i /\ i < pos[k] + n
    <3>1. PICK x \in there : i \in x..(x + n - 1)
      BY <2>1
    <3>2. PICK k \in 1..Len(ends) : ends[k] - n = x
      BY <1>2
    <3>3. k \in 1..Len(pos) /\ pos[k] = x /\ x \in Nat
      BY <1>1, <1>5, <3>2
    <3>4. x <= i /\ i < x + n
      BY <1>1, <3>1, <3>3
    <3> QED
      BY <3>3, <3>4
  <2>2. ASSUME NEW k \in 1..Len(pos), pos[k] <= i, i < pos[k] + n PROVE i \in C
    <3>1. pos[k] \in there /\ pos[k] \in Nat
      BY <1>1, <1>6
    <3>2. i \in pos[k]..(pos[k] + n - 1)
      BY <1>1, <2>2, <3>1
    <3> QED
      BY <3>1, <3>2
  <2> QED
    BY <2>1, <2>2
<1> HIDE DEF C, n
<1>10. Cuts(s, pos, n, C)
  BY <1>5, <1>7, <1>8, <1>9 DEF Cuts
<1> QED
  BY <1>6, <1>10 DEF C, n, pos, there

\* Between two stretches there is a character, so a string is at least twice as long as
\* it has stretches, less one.
LEMMA FewStretches ==
  ASSUME NEW V, NEW s \in Seq(V), NEW C
  PROVE  Len(Stretches(s, C)) \in Nat /\ 2 * Len(Stretches(s, C)) <= Len(s) + 1
<1> DEFINE F == {i \in DOMAIN s : i - 1 \notin C /\ (i = 1 \/ i - 2 \in C)}
           a == Ascending(F, Len(s))
           last(i) == CHOOSE e \in i..Len(s) : /\ e = Len(s) \/ e \in C
                                               /\ \A h \in i..e : h - 1 \notin C
           m == Len(a)
<1>1. Len(s) \in Nat /\ F \in SUBSET (1..Len(s))
  OBVIOUS
<1>2. Stretches(s, C) = [k \in DOMAIN a |-> SubSeq(s, a[k], last(a[k]))]
  BY DEF Stretches
<1>3. Lists(a, F)
  <2> HIDE DEF F
  <2> QED
    BY <1>1, AscendingLists
<1>4. \A i \in F : i \in 1..Len(s) /\ i - 1 \notin C /\ (i = 1 \/ i - 2 \in C)
  OBVIOUS
<1> HIDE DEF F, a, last
<1>5. /\ m \in Nat /\ DOMAIN a = 1..m /\ \A k \in 1..m : a[k] \in F
      /\ \A k, h \in 1..m : k < h => a[k] < a[h]
  BY <1>3 DEF Lists, Rising
<1> HIDE DEF m
<1>6. \A k \in 2..m : a[k - 1] + 2 <= a[k] /\ k - 1 \in 1..m /\ k \in 1..m
  <2> SUFFICES ASSUME NEW k \in 2..m
               PROVE  a[k - 1] + 2 <= a[k] /\ k - 1 \in 1..m /\ k \in 1..m
    OBVIOUS
  <2> DEFINE x == a[k - 1]
             y == a[k]
  <2>1. k - 1 \in 1..m /\ k \in 1..m /\ k - 1 < k
    BY <1>5
  <2>2. x \in F /\ y \in F /\ x < y
    BY <1>5, <2>1
  <2> HIDE DEF x, y
  <2>3. /\ x \in 1..Len(s) /\ y \in 1..Len(s) /\ x - 1 \notin C
        /\ y = 1 \/ y - 2 \in C
    BY <1>4, <2>2
  <2>4. y # 1
    BY <1>1, <2>2, <2>3
  <2>5. y - 2 # x - 1
    BY <2>3, <2>4
  <2>6. x + 2 <= y
    BY <1>1, <2>2, <2>3, <2>5
  <2> QED
    BY <2>1, <2>6 DEF x, y
<1>7. \A k \in 1..m : a[k] >= 2 * k - 1
  <2> DEFINE S == {k \in 1..m : ~ (a[k] >= 2 * k - 1)}
  <2> SUFFICES ASSUME S # {} PROVE FALSE
    OBVIOUS
  <2>1. S \in SUBSET Nat
    OBVIOUS
  <2>2. PICK k \in S : \A i \in S : k <= i
    <3> HIDE DEF S
    <3> QED
      BY <2>1, FirstOf
  <2>3. k \in 1..m /\ ~ (a[k] >= 2 * k - 1) /\ a[k] \in 1..Len(s)
    BY <1>4, <1>5, <2>2
  <2>4. k # 1
    BY <1>1, <2>3
  <2> DEFINE h == k - 1
  <2>5. k \in 2..m /\ h \in 1..m /\ ~ (k <= h) /\ 2 * k - 1 = 2 * h - 1 + 2
    BY <1>5, <2>3, <2>4
  <2>6. a[h] + 2 <= a[k]
    BY <1>6, <2>5
  <2> HIDE DEF h
  <2>7. a[h] >= 2 * h - 1 /\ a[h] \in 1..Len(s)
    BY <1>4, <1>5, <2>2, <2>5
  <2> QED
    BY <1>1, <2>3, <2>5, <2>6, <2>7
<1>8. 2 * m <= Len(s) + 1
  <2>1. CASE m = 0
    BY <1>1, <2>1
  <2>2. CASE m # 0
    <3>1. m \in 1..m
      BY <1>5, <2>2
    <3>2. a[m] >= 2 * m - 1 /\ a[m] \in 1..Len(s)
      BY <1>4, <1>5, <1>7, <3>1
    <3> QED
      BY <1>1, <1>5, <3>2
  <2> QED
    BY <2>1, <2>2
<1>9. Len(Stretches(s, C)) = m
  <2>1. DOMAIN Stretches(s, C) = 1..m
    BY <1>2, <1>5
  <2> QED
    BY <1>5, <2>1
<1> QED
  BY <1>5, <1>8, <1>9

\* The pieces between occurrences that do not overlap, joined by the pattern, are s.
LEMMA Rejoined ==
  ASSUME NEW V, NEW s \in Seq(V), NEW w \in Seq(V), NEW pos \in Seq(Int),
         \A k \in 1..Len(pos) : pos[k] \in 0..Len(s) /\ pos[k] + Len(w) <= Len(s),
         \A k \in 1..Len(pos) : \A i \in 1..Len(w) : s[pos[k] + i] = w[i],
         \A k \in 2..Len(pos) : pos[k - 1] + Len(w) <= pos[k]
  PROVE  Join(Between(s, pos, Len(w)), w) = s
<1> DEFINE n == Len(w)
           N == Len(pos) + 1
           W == Seq(V)
           B == Between(s, pos, n)
           Bn(k) == Begin(pos, n, k)
           En(k) == End(s, pos, k)
           t == Join(B, w)
<1>1. n \in Nat /\ Len(s) \in Nat /\ Len(pos) \in Nat /\ N \in Nat /\ N >= 1
  OBVIOUS
<1>2. B \in Seq(W) /\ Len(B) = N
  BY <1>1, Pieces
<1>3. \A k \in 1..N : IsPart(B[k], s, Bn(k), En(k), V)
  BY <1>1, PieceIs
<1>4. \A k \in 1..N : PieceEnds(s, pos, n, k)
  BY <1>1, PiecesEnd
<1> HIDE DEF B, t
<1>5. PICK g : Joins(g, B, w, W) /\ t = g[N]
  <2>1. B # <<>>
    BY <1>1, <1>2
  <2> QED
    BY SMTT(30), <1>2, <2>1, Joined DEF t
<1>6. /\ g \in [1..N -> W] /\ g[1] = B[1]
      /\ \A k \in 2..N : g[k] = g[k - 1] \o w \o B[k]
  <2> HIDE DEF N, W
  <2> QED
    BY <1>2, <1>5 DEF Joins
<1>7. \A k \in 1..N : g[k] \in W
  <2> HIDE DEF N, W
  <2> QED
    BY <1>6
<1>8. \A k \in 1..N : /\ Bn(k) \in 0..Len(s) /\ En(k) \in 0..Len(s) /\ Bn(k) <= En(k)
                      /\ k = 1 => Bn(k) = 0
                      /\ k # 1 => /\ k - 1 \in 1..Len(pos) /\ Bn(k) = En(k - 1) + n
                                  /\ En(k - 1) = pos[k - 1]
                      /\ k = N => En(k) = Len(s)
  <2> SUFFICES ASSUME NEW k \in 1..N
               PROVE  /\ Bn(k) \in 0..Len(s) /\ En(k) \in 0..Len(s) /\ Bn(k) <= En(k)
                      /\ k = 1 => Bn(k) = 0
                      /\ k # 1 => /\ k - 1 \in 1..Len(pos) /\ Bn(k) = En(k - 1) + n
                                  /\ En(k - 1) = pos[k - 1]
                      /\ k = N => En(k) = Len(s)
    OBVIOUS
  <2>1. /\ Bn(k) \in 0..Len(s) /\ En(k) \in 0..Len(s)
        /\ IF k = 1 THEN Bn(k) = 0
           ELSE k - 1 \in 1..Len(pos) /\ Bn(k) = pos[k - 1] + n
        /\ IF k \in 1..Len(pos) THEN En(k) = pos[k] ELSE k = N /\ En(k) = Len(s)
    BY <1>4 DEF PieceEnds
  <2>2. k # 1 => En(k - 1) = pos[k - 1]
    <3>1. ASSUME k # 1 PROVE k - 1 <= Len(pos)
      BY <1>1, <2>1, <3>1
    <3> QED
      BY <3>1 DEF End
  <2>3. k = N => k \notin 1..Len(pos)
    BY <1>1
  <2>4. Bn(k) <= En(k)
    <3>1. CASE k = 1
      BY <1>1, <2>1, <3>1
    <3>2. CASE k \notin 1..Len(pos)
      BY <1>1, <2>1, <3>2
    <3>3. CASE k # 1 /\ k \in 1..Len(pos)
      <4>1. k \in 2..Len(pos)
        BY <1>1, <3>3
      <4>2. pos[k - 1] + n <= pos[k]
        BY <4>1
      <4> QED
        BY <2>1, <3>3, <4>2
    <3> QED
      BY <3>1, <3>2, <3>3
  <2> QED
    BY <2>1, <2>2, <2>3, <2>4
<1> DEFINE Ok(k) == Len(g[k]) = En(k) /\ \A i \in 1..En(k) : g[k][i] = s[i]
<1>9. \A k \in 1..N : Ok(k)
  <2> DEFINE S == {k \in 1..N : ~ Ok(k)}
  <2> SUFFICES ASSUME S # {} PROVE FALSE
    OBVIOUS
  <2>1. S \in SUBSET Nat
    OBVIOUS
  <2>2. PICK k \in S : \A i \in S : k <= i
    <3> HIDE DEF S
    <3> QED
      BY <2>1, FirstOf
  <2>3. k \in 1..N /\ ~ Ok(k)
    BY <2>2
  <2> DEFINE b == Bn(k)
             e == En(k)
             p == B[k]
  <2>4. /\ b \in 0..Len(s) /\ e \in 0..Len(s) /\ b <= e /\ p \in Seq(V)
        /\ Len(p) = IF b < e THEN e - b ELSE 0
        /\ \A i \in 1..Len(p) : p[i] = s[b + i]
    BY <1>3, <1>8, <2>3 DEF IsPart
  <2>5. CASE k = 1
    <3>1. b = 0 /\ g[k] = p
      BY <1>6, <1>8, <2>3, <2>5
    <3> HIDE DEF b, p
    <3>2. Len(p) = e /\ \A i \in 1..e : p[i] = s[i]
      BY <1>1, <2>4, <3>1
    <3> QED
      BY <2>3, <3>1, <3>2
  <2>6. CASE k # 1
    <3> DEFINE h == k - 1
               d == g[h]
               x == En(h)
    <3>1. k \in 2..N /\ h \in 1..N /\ ~ (k <= h) /\ h \in 1..Len(pos)
      BY <1>1, <1>8, <2>3, <2>6
    <3>2. g[k] = d \o w \o p /\ d \in Seq(V)
      BY <1>6, <1>7, <3>1
    <3>3. Ok(h)
      BY <2>2, <3>1
    <3>4. b = x + n /\ x = pos[h] /\ x \in Nat
      BY <1>8, <2>3, <2>6, <3>1
    <3>5. \A i \in 1..n : s[x + i] = w[i]
      BY <3>1, <3>4
    <3>6. Len(d) = x /\ \A i \in 1..x : d[i] = s[i]
      BY <3>3
    <3> DEFINE u == g[k]
    <3> HIDE DEF b, e, p, h, d, x, n, u
    <3>7. /\ Len(u) = Len(d) + n + Len(p)
          /\ \A i \in 1..Len(d) : u[i] = d[i]
          /\ \A i \in 1..n : u[Len(d) + i] = w[i]
          /\ \A i \in 1..Len(p) : u[Len(d) + n + i] = p[i]
      <4>1. u = d \o w \o p /\ d \in Seq(V) /\ p \in Seq(V)
        BY <2>4, <3>2 DEF u
      <4>2. /\ Len(u) = Len(d) + Len(w) + Len(p)
            /\ \A i \in 1..Len(d) : u[i] = d[i]
            /\ \A i \in 1..Len(w) : u[Len(d) + i] = w[i]
            /\ \A i \in 1..Len(p) : u[Len(d) + Len(w) + i] = p[i]
        BY <4>1, ThreeJoined
      <4> QED
        BY <4>2 DEF n
    <3>8. Len(u) = e
      BY <1>1, <2>4, <3>4, <3>6, <3>7
    <3>9. ASSUME NEW i \in 1..e PROVE u[i] = s[i]
      <4>1. CASE i <= x
        <5>1. i \in 1..x
          BY <2>4, <3>4, <4>1
        <5> QED
          BY <3>6, <3>7, <5>1
      <4>2. CASE i > x /\ i <= b
        <5> DEFINE j == i - x
        <5>1. j \in 1..n /\ x + j = i
          <6>1. i \in Int /\ n \in Nat /\ x \in Nat /\ b = x + n
            BY <1>1, <2>4, <3>4 DEF n
          <6> QED
            BY <4>2, <6>1
        <5> HIDE DEF j
        <5>2. u[x + j] = w[j] /\ s[x + j] = w[j]
          BY <3>5, <3>6, <3>7, <5>1
        <5> QED
          BY <5>1, <5>2
      <4>3. CASE i > b
        <5> DEFINE j == i - b
        <5>1. j \in 1..Len(p) /\ b + j = i
          BY <1>1, <2>4, <4>3
        <5> HIDE DEF j
        <5>2. u[b + j] = p[j] /\ p[j] = s[b + j]
          BY <2>4, <3>4, <3>6, <3>7, <5>1
        <5> QED
          BY <5>1, <5>2
      <4> QED
        BY <2>4, <3>4, <4>1, <4>2, <4>3
    <3> QED
      BY <2>3, <3>8, <3>9 DEF u, e
  <2> QED
    BY <2>5, <2>6
<1>10. N \in 1..N /\ En(N) = Len(s)
  BY <1>1, <1>8
<1> HIDE DEF N, En, Bn
<1>11. t \in Seq(V) /\ Len(t) = Len(s) /\ \A i \in 1..Len(s) : t[i] = s[i]
  BY <1>5, <1>7, <1>9, <1>10
<1>12. t = s
  BY <1>1, <1>11
<1> QED
  BY <1>12 DEF t, B

\* The pieces of a split by a substring: what the occurrences leave uncovered.
LEMMA PiecesUncovered ==
  ASSUME NEW V, NEW s \in Seq(V), NEW w \in Seq(V), w # <<>>, ~ (Len(w) > Len(s))
  PROVE  /\ PiecesAt(s, KmpSearchAll(w, s), Len(w)) = Uncovered(s, w)
         /\ Uncovered(s, w) \in Seq(Seq(V))
<1> DEFINE found == KmpSearchAll(w, s)
           there == Occurrences(w, s)
           pos == FoundPos(w, s)
           n == Len(w)
           C == UNION {x..(x + n - 1) : x \in there}
           B == Between(s, pos, n)
           W == Seq(V)
<1>1. PiecesAt(s, found, n) = IF found.len = NotFound THEN <<Duplicate(s)>>
                              ELSE NonEmpty(Between(s, found.pos, n))
  BY DEF PiecesAt
<1>2. w # <<>> /\ ~ (Len(w) > Len(s))
  OBVIOUS
<1>3. n \in Nat \ {0} /\ n \in Nat /\ Len(s) \in Nat /\ Len(s) > 0
  BY <1>2, EmptySeq
<1>4. /\ found.pos = pos /\ pos \in Seq(Int) /\ Len(pos) = Cardinality(there)
      /\ found.len = IF there = {} THEN NotFound ELSE Cardinality(there)
  <2>1. /\ found.pos = pos /\ pos \in Seq(Int) /\ Len(pos) = Cardinality(there)
        /\ AllRight(found, there, w, s)
    BY <1>2, AllFound
  <2> HIDE DEF found, there, pos
  <2> QED
    BY <1>2, <2>1 DEF AllRight
<1>5. Cuts(s, pos, n, C)
  BY <1>2, FoundCuts
<1> HIDE DEF C, n, pos, found
<1>6. NonEmpty(B) = Stretches(s, C)
  BY <1>3, <1>5, PiecesAreStretches
<1>7. Uncovered(s, w) = Stretches(s, C)
  BY DEF Uncovered, C, n
<1>8. Uncovered(s, w) \in Seq(Seq(V))
  <2>1. \A h \in 1..Len(pos) : pos[h] \in 0..Len(s) /\ pos[h] + n <= Len(s)
    BY <1>5 DEF Cuts
  <2>2. B \in Seq(W)
    BY SMTT(30), <1>3, <1>4, <2>1, Pieces
  <2> DEFINE K == {k \in DOMAIN B : B[k] # <<>>}
  <2>3. K \in SUBSET (1..Len(B))
    BY <2>2
  <2>4. NonEmpty(B) = ElementsAt(B, K)
    BY DEF NonEmpty
  <2> HIDE DEF B, K, W
  <2>5. NonEmpty(B) \in Seq(W)
    BY <2>2, <2>3, <2>4, Elements
  <2> QED
    BY <1>6, <1>7, <2>5 DEF W
<1>9. CASE there = {}
  <2>1. Len(pos) = 0
    BY <1>4, <1>9, FS_EmptySet
  <2> DEFINE m == Len(pos) + 1
             p == B[1]
             K == {k \in DOMAIN B : B[k] # <<>>}
  <2>2. m = 1 /\ 1 \in 1..m
    BY <2>1
  <2>3. \A h \in 1..Len(pos) : pos[h] \in 0..Len(s) /\ pos[h] + n <= Len(s)
    BY <2>1
  <2>4. B \in Seq(W) /\ Len(B) = 1
    <3>1. Len(B) = Len(pos) + 1 /\ B \in Seq(W)
      BY SMTT(30), <1>3, <1>4, <2>3, Pieces
    <3> QED
      BY <2>1, <3>1
  <2>5. IsPart(p, s, Begin(pos, n, 1), End(s, pos, 1), V)
    BY <1>3, <1>4, <2>2, <2>3, PieceIs
  <2>6. Begin(pos, n, 1) = 0 /\ End(s, pos, 1) = Len(s)
    BY <2>1 DEF Begin, End
  <2>7. p \in Seq(V) /\ Len(p) = Len(s) /\ \A i \in 1..Len(s) : p[i] = s[i]
    BY <1>3, <2>5, <2>6 DEF IsPart
  <2> HIDE DEF p
  <2>8. p = s /\ s # <<>>
    BY <1>3, <2>7, EmptySeq
  <2>9. K = 1..Len(B)
    <3>1. B[1] # <<>>
      BY <2>8 DEF p
    <3>2. DOMAIN B = 1..1
      BY <2>4
    <3> HIDE DEF B
    <3>3. \A k \in 1..1 : B[k] # <<>>
      BY <3>1
    <3> QED
      BY <2>4, <3>2, <3>3
  <2>10. ElementsAt(B, K) = B
    <3> HIDE DEF K, B, W
    <3> QED
      BY <2>4, <2>9, NoneEmpty
  <2>11. B = <<s>>
    <3>1. B[1] = s
      BY <2>8 DEF p
    <3> HIDE DEF B
    <3> QED
      BY <2>4, <3>1
  <2>12. Duplicate(s) = s
    BY <2>8 DEF Duplicate
  <2>13. PiecesAt(s, found, n) = <<s>>
    BY <1>1, <1>4, <1>9, <2>12
  <2>14. NonEmpty(B) = <<s>>
    BY <2>10, <2>11 DEF NonEmpty
  <2> QED
    BY <1>6, <1>8, <1>7, <2>13, <2>14 DEF n, found
<1>10. CASE there # {}
  <2>1. found.len # NotFound
    <3>1. found.len = Len(pos) /\ Len(pos) \in Nat
      BY <1>4, <1>10
    <3> QED
      BY <3>1 DEF NotFound
  <2> QED
    BY <1>1, <1>4, <1>6, <1>8, <1>7, <2>1 DEF n, found
<1> QED
  BY <1>9, <1>10

\* The piece in front of the first occurrence: there is one when an occurrence is found
\* and none stands at the beginning.
LEMMA SkippedInFront ==
  ASSUME NEW V, NEW s \in Seq(V), NEW w \in Seq(V), w # <<>>, ~ (Len(w) > Len(s)), NEW failed
  PROVE  /\ KmpSearchAll(w, s) # NoPositions
         /\ Skipped(KmpSearchAll(w, s), failed) =
              IF Occurrences(w, s) # {} /\ 0 \notin Occurrences(w, s) THEN failed \cap {1} ELSE {}
<1> DEFINE found == KmpSearchAll(w, s)
           there == Occurrences(w, s)
           pos == FoundPos(w, s)
<1>1. /\ found.pos = pos /\ pos \in Seq(Int) /\ Len(pos) = Cardinality(there)
      /\ found.len = IF there = {} THEN NotFound ELSE Cardinality(there)
      /\ {pos[k] : k \in DOMAIN pos} = there
  <2>1. /\ found.pos = pos /\ pos \in Seq(Int) /\ Len(pos) = Cardinality(there)
        /\ AllRight(found, there, w, s)
    BY AllFound
  <2> HIDE DEF found, there, pos
  <2> QED
    BY <2>1 DEF AllRight
<1>2. \A k, h \in 1..Len(pos) : k < h => pos[k] < pos[h]
  BY FoundCuts DEF Cuts
<1>3. there \in SUBSET Nat
  BY DEF Occurrences
<1> HIDE DEF found, there, pos
<1>4. Len(pos) \in Nat /\ DOMAIN pos = 1..Len(pos)
  BY <1>1
<1>5. found # NoPositions
  <2>1. found.len # -1
    BY <1>1, <1>4 DEF NotFound
  <2> QED
    BY <2>1 DEF NoPositions, Positions
<1>6. there = {} <=> found.len = NotFound
  BY <1>1, <1>4 DEF NotFound
<1>7. ASSUME there # {} PROVE pos[1] > 0 <=> 0 \notin there
  <2>1. PICK k \in 1..Len(pos) : TRUE
    BY <1>1, <1>4, <1>7
  <2>2. 1 \in 1..Len(pos)
    BY <1>4, <2>1
  <2>3. pos[1] \in there /\ pos[1] \in Nat
    BY <1>1, <1>3, <1>4, <2>2
  <2>4. ASSUME 0 \in there PROVE pos[1] = 0
    <3>1. PICK h \in 1..Len(pos) : pos[h] = 0
      BY <1>1, <1>4, <2>4
    <3>2. h = 1 \/ 1 < h
      OBVIOUS
    <3>3. 1 < h => pos[1] < pos[h]
      BY <1>2, <2>2
    <3> QED
      BY <2>3, <3>1, <3>2, <3>3
  <2> QED
    BY <2>3, <2>4
<1> QED
  BY <1>1, <1>5, <1>6, <1>7 DEF Skipped, found, there

\* All pieces but the first.
LEMMA WithoutFirst ==
  ASSUME NEW V, NEW pieces \in Seq(V), pieces # <<>>
  PROVE  ElementsAt(pieces, (DOMAIN pieces) \ {1}) = Tail(pieces)
<1> DEFINE N == Len(pieces)
           S == (DOMAIN pieces) \ {1}
           q == [k \in 1..(N - 1) |-> k + 1]
<1>1. N \in Nat /\ N >= 1 /\ DOMAIN pieces = 1..N /\ S \in SUBSET (1..N)
  BY EmptySeq
<1>2. \A k \in 1..(N - 1) : k + 1 \in S /\ k + 1 \in Nat
  BY <1>1
<1>3. \A x \in S : x - 1 \in 1..(N - 1) /\ x - 1 + 1 = x
  BY <1>1
<1>4. q \in Seq(Nat) /\ Len(q) = N - 1 /\ \A k \in 1..(N - 1) : q[k] = k + 1
  <2>1. q \in [1..(N - 1) -> Nat] /\ N - 1 \in Nat
    BY <1>1
  <2>2. \A k \in 1..(N - 1) : q[k] = k + 1
    OBVIOUS
  <2> DEFINE m == N - 1
  <2> HIDE DEF q, N
  <2> QED
    BY <2>1, <2>2, FunctionIsSeq
<1> HIDE DEF q, S
<1>5. Lists(q, S)
  <2>1. \A k, h \in 1..(N - 1) : k < h => k + 1 < h + 1
    BY <1>1
  <2>2. \A x \in S : \E k \in 1..Len(q) : q[k] = x
    <3> SUFFICES ASSUME NEW x \in S PROVE \E k \in 1..Len(q) : q[k] = x
      OBVIOUS
    <3> DEFINE k == x - 1
    <3>1. k \in 1..(N - 1) /\ k + 1 = x
      BY <1>3
    <3> HIDE DEF k
    <3> QED
      BY <1>4, <3>1
  <2>3. \A k \in 1..Len(q) : q[k] \in S
    BY <1>2, <1>4
  <2>4. Rising(q)
    BY <1>4, <2>1 DEF Rising
  <2> QED
    BY <1>4, <2>2, <2>3, <2>4 DEF Lists
<1>6. ElementsAt(pieces, S) = [k \in 1..Len(q) |-> pieces[q[k]]]
  BY <1>1, <1>5, Elements
<1>7. [k \in 1..Len(q) |-> pieces[q[k]]] = [k \in 1..(N - 1) |-> pieces[k + 1]]
  BY <1>4
<1>8. Tail(pieces) = [k \in 1..(N - 1) |-> pieces[k + 1]]
  <2>1. /\ Tail(pieces) \in Seq(V) /\ Len(Tail(pieces)) = N - 1
        /\ \A k \in 1..Len(Tail(pieces)) : Tail(pieces)[k] = pieces[k + 1]
    BY HeadTailProperties
  <2> DEFINE t == Tail(pieces)
  <2>2. t \in Seq(V) /\ Len(t) = N - 1
    BY <2>1
  <2> HIDE DEF t, N
  <2>3. t = [k \in 1..Len(t) |-> t[k]] /\ Len(t) = N - 1
    BY <2>2
  <2>4. \A k \in 1..(N - 1) : t[k] = pieces[k + 1]
    BY <2>1, <2>2 DEF t
  <2> QED
    BY <2>3, <2>4 DEF t
<1> QED
  BY <1>6, <1>7, <1>8 DEF S

\* What stands between occurrences that do not overlap, joined by the pattern again.
LEMMA SubstringJoin ==
  ASSUME NEW V, NEW s \in Seq(V), NEW w \in Seq(V),
         KmpSearchAll(w, s).len > 0, ~ DeleteOverruns(KmpSearchAll(w, s), Len(w))
  PROVE  Join(Between(s, KmpSearchAll(w, s).pos, Len(w)), w) = s
<1> DEFINE found == KmpSearchAll(w, s)
           pos == FoundPos(w, s)
           there == Occurrences(w, s)
           n == Len(w)
<1>1. w # <<>>
  <2>1. found.len > 0
    OBVIOUS
  <2>2. ASSUME w = <<>> PROVE found.len = -1
    BY <2>2 DEF KmpSearchAll, NoPositions, Positions
  <2> HIDE DEF found
  <2> QED
    BY <2>1, <2>2
<1>2. /\ found.pos = pos /\ pos \in Seq(Int) /\ Len(pos) = Cardinality(there)
      /\ AllRight(found, there, w, s)
  BY <1>1, AllFound
<1>3. /\ Cuts(s, pos, n, UNION {x..(x + n - 1) : x \in there})
      /\ \A k \in 1..Len(pos) : pos[k] \in there
  BY <1>1, FoundCuts
<1> HIDE DEF found, pos
<1>4. found.len = Len(pos)
  <2>1. found.len > 0
    BY DEF found
  <2> QED
    BY <1>2, <2>1 DEF AllRight, NotFound
<1>5. \A k \in 1..Len(pos) : \A i \in 1..n : s[pos[k] + i] = w[i]
  <2>1. \A x \in there : \A i \in 1..n : s[x + i] = w[i]
    <3>1. DOMAIN w = 1..n
      OBVIOUS
    <3> QED
      BY <1>1, <3>1 DEF Occurrences, OccursAt
  <2> HIDE DEF there, n
  <2> QED
    BY <1>3, <2>1
<1>6. \A k \in 1..Len(pos) : pos[k] \in 0..Len(s) /\ pos[k] + n <= Len(s)
  BY <1>3 DEF Cuts
<1>7. \A k \in 2..Len(pos) : pos[k - 1] + n <= pos[k]
  <2> SUFFICES ASSUME NEW k \in 2..Len(pos) PROVE pos[k - 1] + n <= pos[k]
    OBVIOUS
  <2> DEFINE h == k - 1
  <2>1. h \in 1..(Len(pos) - 1) /\ h + 1 = k /\ h \in 1..Len(pos) /\ k \in 1..Len(pos)
    BY <1>2
  <2> HIDE DEF h
  <2>2. ~ (pos[h + 1] < pos[h] + n)
    BY <1>2, <1>4, <2>1 DEF DeleteOverruns, found
  <2>3. pos[h] \in Int /\ pos[k] \in Int /\ n \in Nat
    BY <1>2, <2>1
  <2> QED
    BY <2>1, <2>2, <2>3 DEF h
<1>8. Join(Between(s, pos, n), w) = s
  BY <1>2, <1>5, <1>6, <1>7, Rejoined
<1> QED
  BY <1>2, <1>8 DEF found

\* Joining what stood between the occurrences.
LEMMA JoinsRight ==
  ASSUME NEW V, NEW s \in Seq(V), NEW w \in Seq(V)
  PROVE  JoinsExactly(s, w)
<1> DEFINE found == KmpSearchAll(w, s)
           t == Join(Between(s, found.pos, Len(w)), w)
<1>1. ASSUME found.len > 0, ~ DeleteOverruns(found, Len(w)) PROVE t = s
  BY <1>1, SubstringJoin
<1> HIDE DEF found
<1>2. found.len > 0 /\ ~ DeleteOverruns(found, Len(w)) =>
        /\ JoinViaSubstr(Between(s, found.pos, Len(w)), w) = s
        /\ JoinViaSubstrix(Between(s, found.pos, Len(w)), w) = s
  BY <1>1 DEF JoinViaSubstr, JoinViaSubstrix
<1> QED
  BY <1>2 DEF JoinsExactly, found

\* The numbers up to n.
LEMMA UpTo ==
  ASSUME NEW n \in Nat
  PROVE  IsFiniteSet(1..n) /\ Cardinality(1..n) = n
<1>1. 1 \in Int /\ n \in Int
  OBVIOUS
<1>2. IsFiniteSet(1..n) /\ Cardinality(1..n) = IF 1 > n THEN 0 ELSE n - 1 + 1
  BY <1>1, FS_Interval
<1> QED
  BY <1>2

\* What SplitAt makes of all pieces.
SplitOf(all, skipped, failed) ==
  LET made == DOMAIN all \ skipped
      refused == made \cap failed
      stored == {k \in made : \A r \in refused : k < r}
  IN  IF Cardinality(stored) > MaxSubstrix THEN OutOfBounds
      ELSE IF refused # {} THEN NoStr
      ELSE ElementsAt(all, stored)

\* Nothing is missing: all pieces, if they fit.
LEMMA SplitOfAll ==
  ASSUME NEW V, NEW all \in Seq(V)
  PROVE  SplitOf(all, {}, {}) = IF Len(all) > MaxSubstrix THEN OutOfBounds ELSE all
<1> DEFINE stored == {k \in (DOMAIN all) \ {} : \A r \in ((DOMAIN all) \ {}) \cap {} : k < r}
<1>1. stored = 1..Len(all) /\ ((DOMAIN all) \ {}) \cap {} = {}
  OBVIOUS
<1>2. Cardinality(1..Len(all)) = Len(all)
  BY UpTo
<1>3. ElementsAt(all, 1..Len(all)) = all
  BY NoneEmpty
<1> HIDE DEF stored
<1>4. SplitOf(all, {}, {}) = IF Cardinality(stored) > MaxSubstrix THEN OutOfBounds
                             ELSE ElementsAt(all, stored)
  BY <1>1 DEF SplitOf, stored
<1> QED
  BY <1>1, <1>2, <1>3, <1>4

\* Some are missing: NULL, if the first is not the only one and the one that is skipped.
LEMMA SplitOfSome ==
  ASSUME NEW V, NEW all \in Seq(V), Len(all) <= MaxSubstrix,
         NEW failed \in SUBSET DOMAIN all, failed # {}, NEW inFront \in BOOLEAN
  PROVE  SplitOf(all, IF inFront THEN failed \cap {1} ELSE {}, failed) =
           IF inFront /\ failed = {1} THEN Tail(all) ELSE NoStr
<1> DEFINE skipped == IF inFront THEN failed \cap {1} ELSE {}
           made == (DOMAIN all) \ skipped
           refused == made \cap failed
           stored == {k \in made : \A r \in refused : k < r}
<1>1. DOMAIN all = 1..Len(all) /\ Len(all) \in Nat /\ MaxSubstrix \in Nat
  BY StrixAssumption
<1>2. ~ (Cardinality(stored) > MaxSubstrix)
  <2>1. stored \in SUBSET (1..Len(all))
    BY <1>1
  <2> HIDE DEF stored
  <2>2. IsFiniteSet(1..Len(all)) /\ Cardinality(1..Len(all)) = Len(all)
    BY <1>1, UpTo
  <2>3. Cardinality(stored) <= Len(all) /\ Cardinality(stored) \in Nat
    BY <2>1, <2>2, FS_Subset, FS_CardinalityType
  <2> QED
    BY <1>1, <2>3
<1>3. SplitOf(all, skipped, failed) = IF refused # {} THEN NoStr ELSE ElementsAt(all, stored)
  <2> HIDE DEF skipped
  <2> QED
    BY <1>2 DEF SplitOf
<1>4. CASE inFront /\ failed = {1}
  <2>1. skipped = {1} /\ made = (DOMAIN all) \ {1} /\ refused = {}
    BY <1>4
  <2>2. stored = (DOMAIN all) \ {1}
    BY <2>1
  <2>3. all # <<>>
    BY <1>1, <1>4, EmptySeq
  <2>4. ElementsAt(all, (DOMAIN all) \ {1}) = Tail(all)
    BY <2>3, WithoutFirst
  <2> HIDE DEF stored, refused, skipped
  <2> QED
    BY <1>3, <1>4, <2>1, <2>2, <2>4 DEF skipped
<1>5. CASE ~ (inFront /\ failed = {1})
  <2>1. refused # {}
    <3>1. CASE ~ inFront
      BY <3>1
    <3>2. CASE inFront
      <4>1. PICK f \in failed : f # 1
        BY <1>5, <3>2
      <4> QED
        BY <4>1
    <3> QED
      BY <3>1, <3>2
  <2> HIDE DEF stored, refused
  <2> QED
    BY <1>3, <1>5, <2>1
<1> QED
  BY <1>4, <1>5

\* A split by a substring.
LEMMA SplitsRight ==
  ASSUME NEW V, NEW s \in Seq(V), NEW w \in Seq(V)
  PROVE  SplitsExactly(s, w)
<1> DEFINE all == Uncovered(s, w)
           there == Occurrences(w, s)
           found == KmpSearchAll(w, s)
           inFront == there # {} /\ 0 \notin there
           front(failed) == IF inFront THEN failed \cap {1} ELSE {}
<1>1. \A failed : Splits(s, w, failed) = {SplitAt(s, found, Len(w), failed)}
  BY DEF Splits, SplitBySubstr, SplitBySubstrix
<1>2. CASE w = <<>> \/ Len(w) > Len(s)
  <2>1. found = NoPositions
    BY <1>2 DEF KmpSearchAll
  <2>2. SplitAt(s, found, Len(w), {}) = NoStr
    BY <2>1 DEF SplitAt
  <2> QED
    BY <1>1, <1>2, <2>2 DEF SplitsExactly
<1>3. CASE ~ (w = <<>> \/ Len(w) > Len(s))
  <2>1. PiecesAt(s, found, Len(w)) = all
    BY <1>3, PiecesUncovered
  <2>2. \A failed : found # NoPositions /\ Skipped(found, failed) = front(failed)
    BY <1>3, SkippedInFront
  <2> HIDE DEF all, found, inFront
  <2>3. \A failed : SplitAt(s, found, Len(w), failed) = SplitOf(all, front(failed), failed)
    BY <2>1, <2>2 DEF SplitAt, SplitOf
  <2>4. all \in Seq(Seq(V))
    BY <1>3, PiecesUncovered DEF all
  <2>5. Len(all) \in Nat /\ 2 * Len(all) <= Len(s) + 1
    BY FewStretches DEF all, Uncovered
  <2>6. front({}) = {}
    OBVIOUS
  <2>7. SplitAt(s, found, Len(w), {}) = IF Len(all) > MaxSubstrix THEN OutOfBounds ELSE all
    <3>1. SplitAt(s, found, Len(w), {}) = SplitOf(all, {}, {})
      BY <2>3, <2>6
    <3>2. SplitOf(all, {}, {}) = IF Len(all) > MaxSubstrix THEN OutOfBounds ELSE all
      BY <2>4, SplitOfAll
    <3> QED
      BY <3>1, <3>2
  <2>8. Len(all) > MaxSubstrix => Len(s) > 2 * MaxSubstrix
    BY <2>5, StrixAssumption
  <2>9. ASSUME ~ (Len(all) > MaxSubstrix), NEW failed \in (SUBSET DOMAIN all) \ {{}}
        PROVE  SplitAt(s, found, Len(w), failed) =
                 IF inFront /\ failed = {1} THEN Tail(all) ELSE NoStr
    <3>1. Len(all) <= MaxSubstrix /\ inFront \in BOOLEAN
      BY <2>5, <2>9, StrixAssumption DEF inFront
    <3>2. SplitOf(all, front(failed), failed) = IF inFront /\ failed = {1} THEN Tail(all) ELSE NoStr
      BY <2>4, <3>1, SplitOfSome
    <3> QED
      BY <2>3, <3>2
  <2> QED
    BY <1>1, <1>3, <2>7, <2>8, <2>9 DEF SplitsExactly, all, inFront
<1> QED
  BY <1>2, <1>3

\* The numbers from a + 1 to e + 1 that leave no rest.
LEMMA Strides ==
  ASSUME NEW a \in Nat, NEW e \in Nat, a <= e, NEW r \in 1..3
  PROVE  LET m == (e - a + r) \div r
         IN  /\ m \in Nat
             /\ Lists([i \in 1..m |-> a + (i - 1) * r + 1], {i \in (a + 1)..(e + 1) : (i - 1 - a) % r = 0})
<1> DEFINE m == (e - a + r) \div r
           q == [i \in 1..m |-> a + (i - 1) * r + 1]
           S == {i \in (a + 1)..(e + 1) : (i - 1 - a) % r = 0}
<1>1. r = 1 \/ r = 2 \/ r = 3
  OBVIOUS
<1>2. m \in Nat
  BY <1>1
<1>3. \A i \in 1..m : a + (i - 1) * r + 1 \in S
  <2> SUFFICES ASSUME NEW i \in 1..m PROVE a + (i - 1) * r + 1 \in S
    OBVIOUS
  <2>1. CASE r = 1
    BY <2>1
  <2>2. CASE r = 2
    BY <2>2
  <2>3. CASE r = 3
    BY <2>3
  <2> QED
    BY <1>1, <2>1, <2>2, <2>3
<1>4. \A x \in S : \E i \in 1..m : a + (i - 1) * r + 1 = x
  <2> SUFFICES ASSUME NEW x \in S PROVE \E i \in 1..m : a + (i - 1) * r + 1 = x
    OBVIOUS
  <2> DEFINE i == (x - 1 - a) \div r + 1
  <2>1. i \in 1..m /\ a + (i - 1) * r + 1 = x
    <3>1. CASE r = 1
      BY <3>1
    <3>2. CASE r = 2
      BY <3>2
    <3>3. CASE r = 3
      BY <3>3
    <3> QED
      BY <1>1, <3>1, <3>2, <3>3
  <2> QED
    BY <2>1
<1>5. \A i, h \in 1..m : i < h => a + (i - 1) * r + 1 < a + (h - 1) * r + 1
  <2>1. CASE r = 1
    BY <2>1
  <2>2. CASE r = 2
    BY <2>2
  <2>3. CASE r = 3
    BY <2>3
  <2> QED
    BY <1>1, <2>1, <2>2, <2>3
<1>6. \A i \in 1..m : a + (i - 1) * r + 1 \in Nat
  BY <1>1
<1> HIDE DEF m
<1>7. q \in Seq(Nat) /\ Len(q) = m /\ \A i \in 1..m : q[i] = a + (i - 1) * r + 1
  <2>1. q \in [1..m -> Nat]
    BY <1>6
  <2>2. \A i \in 1..m : q[i] = a + (i - 1) * r + 1
    OBVIOUS
  <2> HIDE DEF q
  <2> QED
    BY <1>2, <2>1, <2>2, FunctionIsSeq
<1> HIDE DEF q, S
<1>8. Lists(q, S)
  BY <1>3, <1>4, <1>5, <1>7 DEF Lists, Rising
<1> QED
  BY <1>2, <1>8 DEF q, S, m

\* A slice by stride.
LEMMA StrideCutsRight ==
  ASSUME NEW V, NEW s \in Seq(V), NEW a \in Nat, NEW e \in Nat, NEW r \in 1..3
  PROVE  StrideCuts(s, a, e, r)
<1> DEFINE slice == SliceByStride(s, a, e, r)
           S == {i \in (a + 1)..(e + 1) : (i - 1 - a) % r = 0}
           m == (e - a + r) \div r
           q == [i \in 1..m |-> a + (i - 1) * r + 1]
<1> SUFFICES ASSUME slice # NoStr PROVE slice = ElementsAt(s, S)
  BY DEF StrideCuts
<1>1. a <= e /\ e < Len(s) /\ slice = [i \in 1..m |-> s[a + (i - 1) * r + 1]]
  BY DEF SliceByStride
<1>2. m \in Nat /\ Lists(q, S)
  BY <1>1, Strides
<1>3. S \in SUBSET (1..Len(s))
  BY <1>1
<1> HIDE DEF S, slice
<1>4. Len(q) = m /\ \A k \in 1..m : q[k] = a + (k - 1) * r + 1
  <2>1. DOMAIN q = 1..m /\ \A k \in 1..m : q[k] = a + (k - 1) * r + 1
    OBVIOUS
  <2>2. q \in Seq(Nat)
    BY <1>2 DEF Lists
  <2> HIDE DEF q, m
  <2> QED
    BY <1>2, <2>1, <2>2
<1> HIDE DEF q, m
<1>5. ElementsAt(s, S) = [k \in 1..Len(q) |-> s[q[k]]]
  BY <1>2, <1>3, Elements
<1>6. [k \in 1..Len(q) |-> s[q[k]]] = [k \in 1..m |-> s[a + (k - 1) * r + 1]]
  BY <1>4
<1> QED
  BY <1>1, <1>5, <1>6

\* Whatever the strix has become: a split by a delimiter returns the longest stretches
\* outside it; a split by a substring does as long as they fit into its table, is
\* undefined when they do not, and returns NULL when a piece finds no memory, the one in
\* front of all occurrences excepted; joining gives back what was split; and a slice by
\* stride takes every stride'th character.
THEOREM CutsAreExact == StrixSpec => []CutsExact
<1>1. StrixInv => CutsExact
  <2> SUFFICES ASSUME StrixInv, Readable PROVE CutsExact
    BY DEF CutsExact
  <2>1. str \in Seq(Char) /\ \A w \in words : w \in Seq(Char)
    BY WordsAreStrings DEF StrixInv, Readable
  <2>2. \A c \in Char : DelimiterCuts(str, c)
    BY <2>1, DelimiterCutsRight
  <2>3. \A w \in words : SplitsExactly(str, w) /\ JoinsExactly(str, w)
    BY <2>1, SplitsRight, JoinsRight
  <2>4. \A a, e \in 0..(Len(str) - 1), r \in 1..3 : StrideCuts(str, a, e, r)
    <3>1. \A a \in 0..(Len(str) - 1) : a \in Nat
      BY <2>1
    <3> QED
      BY <2>1, <3>1, StrideCutsRight
  <2> QED
    BY <2>2, <2>3, <2>4 DEF CutsExact
<1> QED
  BY <1>1, StrixCharacters, PTL

-----------------------------------------------------------------------------

(* The configuration parser                                                *)

\* The two characters of the format differ.
LEMMA TwoSigns == Semicolon # "="
BY Zenon DEF Semicolon

\* What is left of a string without white space.
LEMMA BareIs ==
  ASSUME NEW V, NEW s \in Seq(V)
  PROVE  /\ Bare(s) \in Seq(V)
         /\ \A i \in 1..Len(Bare(s)) : Bare(s)[i] \notin White /\ \E h \in 1..Len(s) : Bare(s)[i] = s[h]
         /\ (\A i \in 1..Len(s) : s[i] \notin White) => Bare(s) = s
<1> DEFINE K == {i \in DOMAIN s : s[i] \notin White}
           b == Bare(s)
<1>1. b = ElementsAt(s, K) /\ K \in SUBSET (1..Len(s))
  BY DEF Bare
<1>2. ASSUME \A i \in 1..Len(s) : s[i] \notin White PROVE b = s
  <2>1. K = 1..Len(s)
    BY <1>2
  <2> HIDE DEF K, b
  <2> QED
    BY <1>1, <2>1, NoneEmpty
<1>3. \A i \in K : i \in 1..Len(s) /\ s[i] \notin White
  OBVIOUS
<1> HIDE DEF K, b
<1>4. b \in Seq(V)
  BY <1>1, Elements
<1>5. PICK q : /\ Lists(q, K)
               /\ Len(ElementsAt(s, K)) = Len(q)
               /\ ElementsAt(s, K) = [k \in 1..Len(q) |-> s[q[k]]]
               /\ \A k \in 1..Len(q) : q[k] \in 1..Len(s) /\ ElementsAt(s, K)[k] = s[q[k]]
  BY <1>1, Elements
<1>6. \A i \in 1..Len(b) : b[i] \notin White /\ \E h \in 1..Len(s) : b[i] = s[h]
  <2> SUFFICES ASSUME NEW i \in 1..Len(b)
               PROVE  b[i] \notin White /\ \E h \in 1..Len(s) : b[i] = s[h]
    OBVIOUS
  <2>1. i \in 1..Len(q) /\ b[i] = s[q[i]]
    BY <1>1, <1>5
  <2>2. q[i] \in K
    BY <1>5, <2>1 DEF Lists
  <2> QED
    BY <1>3, <2>1, <2>2
<1> QED
  BY <1>2, <1>4, <1>6 DEF b

\* A setting as the parser makes them.
Parsed(x, V) ==
  /\ x \in [key : Seq(V), value : Seq(V)]
  /\ \A i \in 1..Len(x.key) : x.key[i] \notin White /\ x.key[i] # "=" /\ x.key[i] # Semicolon
  /\ \A i \in 1..Len(x.value) : x.value[i] \notin White /\ x.value[i] # Semicolon

\* Where the first "=" is.
FirstSign(p) == CHOOSE i \in DOMAIN p : p[i] = "=" /\ \A h \in 1..(i - 1) : p[h] # "="

LEMMA SignFound ==
  ASSUME NEW V, NEW p \in Seq(V)
  PROVE  /\ IsSetting(p) => /\ FirstSign(p) \in 1..Len(p) /\ p[FirstSign(p)] = "="
                            /\ \A h \in 1..(FirstSign(p) - 1) : p[h] # "="
         /\ \A i \in 1..Len(p) : p[i] = "=" /\ (\A h \in 1..(i - 1) : p[h] # "=") =>
                                   IsSetting(p) /\ FirstSign(p) = i
<1> DEFINE Ok(i) == p[i] = "=" /\ \A h \in 1..(i - 1) : p[h] # "="
           eq == FirstSign(p)
<1>1. DOMAIN p = 1..Len(p) /\ Len(p) \in Nat
  OBVIOUS
<1>2. eq = CHOOSE i \in DOMAIN p : Ok(i)
  BY DEF FirstSign
<1>3. ASSUME IsSetting(p) PROVE \E i \in DOMAIN p : Ok(i)
  <2> DEFINE S == {i \in DOMAIN p : p[i] = "="}
  <2>1. S \in SUBSET Nat /\ S # {}
    BY <1>1, <1>3 DEF IsSetting
  <2>2. PICK i \in S : \A h \in S : i <= h
    <3> HIDE DEF S
    <3> QED
      BY <2>1, FirstOf
  <2>3. \A h \in 1..(i - 1) : h \in DOMAIN p /\ ~ (i <= h)
    BY <1>1, <2>2
  <2> QED
    BY <2>2, <2>3
<1>4. ASSUME IsSetting(p) PROVE eq \in 1..Len(p) /\ Ok(eq)
  <2>1. \E i \in DOMAIN p : Ok(i)
    BY <1>3, <1>4
  <2> HIDE DEF Ok, eq
  <2>2. eq \in DOMAIN p /\ Ok(eq)
    BY <1>2, <2>1
  <2> QED
    BY <1>1, <2>2
<1>5. ASSUME NEW i \in 1..Len(p), Ok(i) PROVE IsSetting(p) /\ eq = i
  <2>1. IsSetting(p)
    BY <1>1, <1>5 DEF IsSetting
  <2>2. eq \in 1..Len(p) /\ Ok(eq)
    BY <1>4, <2>1
  <2> HIDE DEF eq
  <2>3. ~ (eq < i)
    <3>1. eq < i => eq \in 1..(i - 1)
      BY <1>1, <2>2
    <3> QED
      BY <1>5, <2>2, <3>1
  <2>4. ~ (i < eq)
    <3>1. i < eq => i \in 1..(eq - 1)
      BY <1>1, <2>2
    <3> QED
      BY <1>5, <2>2, <3>1
  <2> QED
    BY <1>1, <2>1, <2>2, <2>3, <2>4
<1> QED
  BY <1>4, <1>5 DEF eq

\* What SettingOf makes of a piece that has no semicolon.
LEMMA SettingIs ==
  ASSUME NEW V, NEW p \in Seq(V), IsSetting(p), \A i \in 1..Len(p) : p[i] # Semicolon
  PROVE  Parsed(SettingOf(p), V)
<1> DEFINE eq == FirstSign(p)
           k == SubSeq(p, 1, eq - 1)
           v == SubSeq(p, eq + 1, Len(p))
<1>1. /\ eq \in 1..Len(p) /\ Len(p) \in Nat
      /\ \A h \in 1..(eq - 1) : p[h] # "="
  BY SignFound
<1>2. SettingOf(p) = Setting(Bare(k), Bare(v))
  BY DEF SettingOf, FirstSign
<1> HIDE DEF eq
<1>3. k \in Seq(V) /\ \A i \in 1..Len(k) : k[i] # "=" /\ k[i] # Semicolon
  <2> DEFINE m == eq - 1
  <2>1. m \in Int /\ m <= Len(p) /\ \A i \in 1..m : p[i] \in V
    BY <1>1, ElementOfSeq
  <2>2. k \in Seq(V) /\ Len(k) = IF 1 <= m THEN m - 1 + 1 ELSE 0
    BY <2>1, SubSeqProperties
  <2>3. \A i \in 1..(m - 1 + 1) : k[i] = p[1 + i - 1]
    BY <2>1, SubSeqProperties
  <2> HIDE DEF k
  <2>4. ASSUME NEW i \in 1..Len(k) PROVE k[i] # "=" /\ k[i] # Semicolon
    <3>1. i \in 1..(m - 1 + 1) /\ 1 + i - 1 = i /\ i \in 1..Len(p) /\ i \in 1..(eq - 1)
      BY <1>1, <2>1, <2>2
    <3>2. k[i] = p[i]
      BY <2>3, <3>1
    <3> QED
      BY <1>1, <3>1, <3>2
  <2> QED
    BY <2>2, <2>4
<1>4. v \in Seq(V) /\ \A i \in 1..Len(v) : v[i] # Semicolon
  <2> DEFINE m == eq + 1
             n == Len(p)
  <2>1. m \in Int /\ m >= 1 /\ n \in Int /\ \A i \in m..n : p[i] \in V
    BY <1>1, ElementOfSeq
  <2>2. v \in Seq(V) /\ Len(v) = IF m <= n THEN n - m + 1 ELSE 0
    BY <2>1, SubSeqProperties
  <2>3. \A i \in 1..(n - m + 1) : v[i] = p[m + i - 1]
    BY <2>1, SubSeqProperties
  <2> HIDE DEF v, m
  <2>4. ASSUME NEW i \in 1..Len(v) PROVE v[i] # Semicolon
    <3>1. i \in 1..(n - m + 1) /\ m + i - 1 \in 1..Len(p)
      BY <1>1, <2>1, <2>2
    <3>2. v[i] = p[m + i - 1]
      BY <2>3, <3>1
    <3> QED
      BY <3>1, <3>2
  <2> QED
    BY <2>2, <2>4
<1> HIDE DEF k, v
<1>5. /\ Bare(k) \in Seq(V)
      /\ \A i \in 1..Len(Bare(k)) : /\ Bare(k)[i] \notin White
                                    /\ \E h \in 1..Len(k) : Bare(k)[i] = k[h]
  BY <1>3, BareIs
<1>6. /\ Bare(v) \in Seq(V)
      /\ \A i \in 1..Len(Bare(v)) : /\ Bare(v)[i] \notin White
                                    /\ \E h \in 1..Len(v) : Bare(v)[i] = v[h]
  BY <1>4, BareIs
<1> DEFINE x == SettingOf(p)
<1>7. x = [key |-> Bare(k), value |-> Bare(v)]
  BY <1>2 DEF Setting
<1> HIDE DEF x
<1>8. x.key = Bare(k) /\ x.value = Bare(v) /\ x \in [key : Seq(V), value : Seq(V)]
  BY <1>5, <1>6, <1>7
<1>9. \A i \in 1..Len(x.key) : x.key[i] \notin White /\ x.key[i] # "=" /\ x.key[i] # Semicolon
  BY <1>3, <1>5, <1>8
<1>10. \A i \in 1..Len(x.value) : x.value[i] \notin White /\ x.value[i] # Semicolon
  BY <1>4, <1>6, <1>8
<1> QED
  BY <1>8, <1>9, <1>10 DEF Parsed, x

\* A setting, written, has no semicolon and is read again.
LEMMA RenderedIs ==
  ASSUME NEW V, "=" \in V, NEW x, Parsed(x, V)
  PROVE  /\ Rendered(x) \in Seq(V) /\ Rendered(x) # <<>> /\ IsSetting(Rendered(x))
         /\ \A i \in 1..Len(Rendered(x)) : Rendered(x)[i] # Semicolon
         /\ SettingOf(Rendered(x)) = x
<1> DEFINE k == x.key
           v == x.value
           e == <<"=">>
           r == Rendered(x)
           m == Len(k)
           n == Len(v)
<1>1. /\ k \in Seq(V) /\ v \in Seq(V) /\ x = [key |-> k, value |-> v]
      /\ \A i \in 1..m : k[i] \notin White /\ k[i] # "=" /\ k[i] # Semicolon
      /\ \A i \in 1..n : v[i] \notin White /\ v[i] # Semicolon
  BY DEF Parsed
<1>2. e \in Seq(V) /\ Len(e) = 1 /\ e[1] = "="
  OBVIOUS
<1>3. r = k \o e \o v
  BY DEF Rendered
<1>0. k \in Seq(V) /\ v \in Seq(V) /\ e \in Seq(V)
  BY <1>1, <1>2
<1> HIDE DEF k, v, e, r
<1>4. /\ r \in Seq(V) /\ Len(r) = m + Len(e) + n
      /\ \A i \in 1..m : r[i] = k[i]
      /\ \A i \in 1..Len(e) : r[m + i] = e[i]
      /\ \A i \in 1..n : r[m + Len(e) + i] = v[i]
  BY <1>0, <1>3, ThreeJoined
<1>5. m \in Nat /\ n \in Nat
  BY <1>0
<1> HIDE DEF m, n
<1>6. Len(r) = m + 1 + n /\ r[m + 1] = "=" /\ \A i \in 1..n : r[m + 1 + i] = v[i]
  BY <1>2, <1>4
<1> DEFINE eq == m + 1
<1>7. /\ eq \in 1..Len(r) /\ eq - 1 = m /\ eq + 1 = m + 2
      /\ r[eq] = "=" /\ \A h \in 1..(eq - 1) : r[h] # "="
  <2>1. eq \in 1..Len(r) /\ eq - 1 = m /\ eq + 1 = m + 2
    BY <1>5, <1>6
  <2>2. r[eq] = "="
    BY <1>6
  <2> HIDE DEF eq
  <2>3. ASSUME NEW h \in 1..(eq - 1) PROVE r[h] # "="
    <3>1. h \in 1..m
      BY <2>1
    <3> QED
      BY <1>1, <1>4, <3>1
  <2> QED
    BY <2>1, <2>2, <2>3
<1> HIDE DEF eq
<1>8. IsSetting(r) /\ FirstSign(r) = eq
  BY <1>4, <1>7, SignFound
<1>9. \A i \in 1..Len(r) : r[i] # Semicolon
  <2> SUFFICES ASSUME NEW i \in 1..Len(r) PROVE r[i] # Semicolon
    OBVIOUS
  <2>1. CASE i <= m
    <3>1. i \in 1..m
      BY <1>5, <2>1
    <3> QED
      BY <1>1, <1>4, <3>1
  <2>2. CASE i = m + 1
    <3>1. r[i] = "="
      BY <1>6, <2>2
    <3> QED
      BY <3>1, TwoSigns
  <2>3. CASE i > m + 1
    <3> DEFINE j == i - (m + 1)
    <3>1. j \in 1..n /\ m + 1 + j = i
      BY <1>5, <1>6, <2>3
    <3> HIDE DEF j
    <3>2. r[i] = v[j]
      BY <1>6, <3>1
    <3> QED
      BY <1>1, <3>1, <3>2
  <2> QED
    BY <1>5, <2>1, <2>2, <2>3
<1>10. r # <<>>
  BY <1>4, <1>5, <1>6, EmptySeq
<1>11. SubSeq(r, 1, m) = k
  <2> DEFINE a == 0
  <2>1. a \in Nat /\ a + Len(k) <= Len(r) /\ (\A i \in 1..Len(k) : r[a + i] = k[i]) /\ a + 1 = 1
        /\ a + Len(k) = m
    BY <1>4, <1>5, <1>6 DEF m
  <2> HIDE DEF a
  <2>2. SubSeq(r, a + 1, a + Len(k)) = k
    BY <1>1, <1>4, <2>1, SamePart
  <2> QED
    BY <2>1, <2>2
<1>12. SubSeq(r, m + 2, Len(r)) = v
  <2> DEFINE a == m + 1
  <2>1. a \in Nat /\ a + Len(v) <= Len(r) /\ a + 1 = m + 2 /\ a + Len(v) = Len(r)
    <3>1. n = Len(v)
      BY DEF n
    <3> QED
      BY <1>5, <1>6, <3>1
  <2>3. \A i \in 1..Len(v) : r[a + i] = v[i]
    BY <1>6 DEF n
  <2> HIDE DEF a
  <2>2. SubSeq(r, a + 1, a + Len(v)) = v
    BY <1>1, <1>4, <2>1, <2>3, SamePart
  <2> QED
    BY <2>1, <2>2
<1>13. SettingOf(r) = Setting(Bare(SubSeq(r, 1, m)), Bare(SubSeq(r, m + 2, Len(r))))
  <2>1. SettingOf(r) = Setting(Bare(SubSeq(r, 1, FirstSign(r) - 1)),
                               Bare(SubSeq(r, FirstSign(r) + 1, Len(r))))
    BY DEF SettingOf, FirstSign
  <2> HIDE DEF r
  <2> QED
    BY <1>7, <1>8, <2>1
<1>14. Bare(k) = k /\ Bare(v) = v
  BY <1>1, BareIs DEF m, n
<1>15. SettingOf(r) = x
  BY <1>1, <1>11, <1>12, <1>13, <1>14 DEF Setting
<1> QED
  BY <1>4, <1>8, <1>9, <1>10, <1>15 DEF r

\* The pieces of s that are settings.
Kept(s) ==
  LET pieces == SplitByDelim(s, Semicolon)
  IN  ElementsAt(pieces, {k \in DOMAIN pieces : IsSetting(pieces[k])})

\* All of them, and there is one exactly when there is a "=".
LEMMA KeptAre ==
  ASSUME NEW V, NEW s \in Seq(V)
  PROVE  /\ Kept(s) \in Seq(Seq(V))
         /\ \A k \in 1..Len(Kept(s)) : /\ Kept(s)[k] \in Seq(V) /\ IsSetting(Kept(s)[k])
                                       /\ \A i \in 1..Len(Kept(s)[k]) : Kept(s)[k][i] # Semicolon
         /\ Kept(s) = <<>> <=> \A i \in 1..Len(s) : s[i] # "="
<1> DEFINE pieces == SplitByDelim(s, Semicolon)
           K == {k \in DOMAIN pieces : IsSetting(pieces[k])}
           W == Seq(V)
           kept == Kept(s)
<1>1. PiecesWithout(pieces, s, Semicolon, V)
  BY SplitPieces
<1>2. kept = ElementsAt(pieces, K)
  BY DEF Kept
<1> HIDE DEF pieces, kept
<1>3. /\ pieces \in Seq(W)
      /\ \A k \in 1..Len(pieces) : \A i \in 1..Len(pieces[k]) : pieces[k][i] # Semicolon
      /\ \A i \in 1..Len(s) : s[i] # Semicolon =>
           \E k \in 1..Len(pieces) : \E h \in 1..Len(pieces[k]) : pieces[k][h] = s[i]
      /\ \A k \in 1..Len(pieces) : \A h \in 1..Len(pieces[k]) :
           \E i \in 1..Len(s) : pieces[k][h] = s[i]
  BY <1>1 DEF PiecesWithout
<1> HIDE DEF W
<1>4. DOMAIN pieces = 1..Len(pieces) /\ \A k \in 1..Len(pieces) : pieces[k] \in W
  BY <1>3, ElementOfSeq
<1>5. K \in SUBSET (1..Len(pieces)) /\ \A k \in K : k \in 1..Len(pieces) /\ IsSetting(pieces[k])
  BY <1>4
<1>6. \A k \in 1..Len(pieces) : IsSetting(pieces[k]) => k \in K
  BY <1>4
<1> HIDE DEF K
<1>7. kept \in Seq(W)
  BY <1>2, <1>3, <1>5, Elements
<1>8. PICK q : /\ Lists(q, K)
               /\ Len(ElementsAt(pieces, K)) = Len(q)
               /\ ElementsAt(pieces, K) = [k \in 1..Len(q) |-> pieces[q[k]]]
               /\ \A k \in 1..Len(q) : q[k] \in 1..Len(pieces)
                                       /\ ElementsAt(pieces, K)[k] = pieces[q[k]]
  BY <1>3, <1>5, Elements
<1>9. /\ Len(kept) = Len(q)
      /\ \A k \in 1..Len(q) : kept[k] = pieces[q[k]] /\ q[k] \in K /\ q[k] \in 1..Len(pieces)
      /\ \A x \in K : \E k \in 1..Len(q) : q[k] = x
  BY <1>2, <1>8 DEF Lists
<1>10. ASSUME NEW k \in 1..Len(kept)
       PROVE  /\ kept[k] \in W /\ IsSetting(kept[k])
              /\ \A i \in 1..Len(kept[k]) : kept[k][i] # Semicolon
  <2>1. kept[k] = pieces[q[k]] /\ q[k] \in K /\ q[k] \in 1..Len(pieces)
    BY <1>9
  <2> QED
    BY <1>3, <1>4, <1>5, <2>1
<1>11. ASSUME kept = <<>>, NEW i \in 1..Len(s), s[i] = "=" PROVE FALSE
  <2>1. s[i] # Semicolon
    BY <1>11, TwoSigns
  <2>2. PICK k \in 1..Len(pieces) : \E h \in 1..Len(pieces[k]) : pieces[k][h] = s[i]
    BY <1>3, <2>1
  <2>3. PICK h \in 1..Len(pieces[k]) : pieces[k][h] = "="
    BY <1>11, <2>2
  <2>4. h \in DOMAIN pieces[k]
    BY <1>4, <2>3 DEF W
  <2>5. k \in K
    BY <1>6, <2>3, <2>4 DEF IsSetting
  <2> QED
    BY <1>9, <1>11, <2>5
<1>12. ASSUME kept # <<>> PROVE \E i \in 1..Len(s) : s[i] = "="
  <2>1. 1 \in 1..Len(kept)
    BY <1>7, <1>12, EmptySeq
  <2>2. q[1] \in K /\ q[1] \in 1..Len(pieces)
    BY <1>9, <2>1
  <2> DEFINE p == pieces[q[1]]
  <2>3. p \in Seq(V) /\ IsSetting(p)
    BY <1>4, <1>5, <2>2 DEF W
  <2>4. \A h \in 1..Len(p) : \E i \in 1..Len(s) : p[h] = s[i]
    BY <1>3, <2>2
  <2> HIDE DEF p
  <2>5. PICK h \in 1..Len(p) : p[h] = "="
    BY <2>3 DEF IsSetting
  <2> QED
    BY <2>4, <2>5
<1>13. kept = <<>> <=> \A i \in 1..Len(s) : s[i] # "="
  BY <1>11, <1>12
<1> QED
  BY <1>7, <1>10, <1>13 DEF W, kept

\* What the parser makes of a string.
LEMMA ParseIs ==
  ASSUME NEW V, NEW s \in Seq(V), Kept(s) # <<>>, s # NoStr
  PROVE  /\ ParseConfig(s) = [k \in 1..Len(Kept(s)) |-> SettingOf(Kept(s)[k])]
         /\ ParseConfig(s) \in Seq([key : Seq(V), value : Seq(V)])
         /\ ParseConfig(s) # <<>>
         /\ \A k \in 1..Len(ParseConfig(s)) : Parsed(ParseConfig(s)[k], V)
<1> DEFINE kept == Kept(s)
           W == Seq(V)
           n == Len(kept)
           g == [k \in 1..n |-> SettingOf(kept[k])]
           R == [key : Seq(V), value : Seq(V)]
<1>1. kept \in Seq(W)
  BY KeptAre
<1>2. \A k \in 1..n : /\ kept[k] \in Seq(V) /\ IsSetting(kept[k])
                      /\ \A i \in 1..Len(kept[k]) : kept[k][i] # Semicolon
  BY KeptAre
<1>3. s # <<>>
  BY KeptAre
<1>4. ParseConfig(s) = [k \in DOMAIN kept |-> SettingOf(kept[k])]
  BY <1>3 DEF ParseConfig, Kept, Create
<1>5. kept # <<>>
  OBVIOUS
<1> HIDE DEF kept
<1>6. DOMAIN kept = 1..n /\ n \in Nat /\ n # 0
  <2> HIDE DEF W
  <2> QED
    BY <1>1, <1>5, EmptySeq
<1>7. ParseConfig(s) = g
  BY <1>4, <1>6
<1> HIDE DEF n
<1>8. \A k \in 1..n : Parsed(SettingOf(kept[k]), V)
  BY <1>2, SettingIs
<1>9. \A k \in 1..n : SettingOf(kept[k]) \in R
  BY <1>8 DEF Parsed
<1> HIDE DEF R
<1>10. g \in Seq(R) /\ Len(g) = n /\ \A k \in 1..n : g[k] = SettingOf(kept[k])
  BY <1>6, <1>9
<1> HIDE DEF g
<1>11. g # <<>>
  BY <1>6, <1>10
<1>12. \A k \in 1..Len(g) : Parsed(g[k], V)
  BY <1>8, <1>10
<1> QED
  BY <1>7, <1>10, <1>11, <1>12 DEF g, n, kept, R

\* Pieces that a split by c would return.
Separable(pieces, c) ==
  \A k \in 1..Len(pieces) : pieces[k] # <<>> /\ \A i \in 1..Len(pieces[k]) : pieces[k][i] # c

LEMMA WrittenSplits ==
  ASSUME NEW V, NEW c \in V, NEW pieces \in Seq(Seq(V)), pieces # <<>>, Separable(pieces, c)
  PROVE  SplitByDelim(Join(pieces, <<c>>), c) = pieces
BY SMTT(30), SplitsAgain DEF Separable

\* Written settings are parsed again.
LEMMA ParsedAgain ==
  ASSUME NEW V, "=" \in V, Semicolon \in V, NoStr \notin Seq(V),
         NEW f \in Seq([key : Seq(V), value : Seq(V)]), f # <<>>,
         \A k \in 1..Len(f) : Parsed(f[k], V)
  PROVE  ParseConfig(Join([k \in DOMAIN f |-> Rendered(f[k])], <<Semicolon>>)) = f
<1> DEFINE R == [key : Seq(V), value : Seq(V)]
           W == Seq(V)
           n == Len(f)
           p == [k \in DOMAIN f |-> Rendered(f[k])]
           t == Join(p, <<Semicolon>>)
<1>1. f \in Seq(R)
  OBVIOUS
<1> HIDE DEF R
<1>2. n \in Nat /\ n # 0 /\ DOMAIN f = 1..n /\ f = [k \in 1..n |-> f[k]]
  BY <1>1, EmptySeq
<1>3. \A k \in 1..n : /\ Rendered(f[k]) \in W /\ Rendered(f[k]) # <<>> /\ IsSetting(Rendered(f[k]))
                      /\ \A i \in 1..Len(Rendered(f[k])) : Rendered(f[k])[i] # Semicolon
                      /\ SettingOf(Rendered(f[k])) = f[k]
  <2> SUFFICES ASSUME NEW k \in 1..n
               PROVE  /\ Rendered(f[k]) \in W /\ Rendered(f[k]) # <<>>
                      /\ IsSetting(Rendered(f[k]))
                      /\ \A i \in 1..Len(Rendered(f[k])) : Rendered(f[k])[i] # Semicolon
                      /\ SettingOf(Rendered(f[k])) = f[k]
    OBVIOUS
  <2> DEFINE x == f[k]
  <2>1. Parsed(x, V)
    OBVIOUS
  <2> HIDE DEF x
  <2>2. /\ Rendered(x) \in W /\ Rendered(x) # <<>> /\ IsSetting(Rendered(x))
        /\ \A i \in 1..Len(Rendered(x)) : Rendered(x)[i] # Semicolon
        /\ SettingOf(Rendered(x)) = x
    BY <2>1, RenderedIs
  <2> QED
    BY <2>2 DEF x
<1>4. p \in Seq(W) /\ Len(p) = n /\ \A k \in 1..n : p[k] = Rendered(f[k])
  <2> HIDE DEF W
  <2>1. p = [k \in 1..n |-> Rendered(f[k])]
    BY <1>2
  <2>2. n \in Nat /\ \A k \in 1..n : Rendered(f[k]) \in W
    BY <1>2, <1>3
  <2> HIDE DEF n, p
  <2> QED
    BY <2>1, <2>2
<1> HIDE DEF p, n
<1>5. p # <<>>
  BY <1>2, <1>4
<1>6. \A k \in 1..Len(p) : /\ p[k] # <<>> /\ IsSetting(p[k]) /\ SettingOf(p[k]) = f[k]
                           /\ \A i \in 1..Len(p[k]) : p[k][i] # Semicolon
  BY <1>3, <1>4
<1>7. SplitByDelim(t, Semicolon) = p
  <2>1. p \in Seq(Seq(V))
    BY <1>4
  <2>2. \A k \in 1..Len(p) : p[k] # <<>> /\ \A i \in 1..Len(p[k]) : p[k][i] # Semicolon
    BY <1>6
  <2>3. Separable(p, Semicolon)
    BY <2>2 DEF Separable
  <2> HIDE DEF W
  <2> QED
    BY <1>5, <2>1, <2>3, WrittenSplits
<1>8. t \in Seq(V)
  <2> DEFINE sep == <<Semicolon>>
  <2>1. sep \in Seq(V)
    OBVIOUS
  <2> HIDE DEF sep
  <2>2. Join(p, sep) \in Seq(V)
    BY <1>4, <1>5, <2>1, JoinPlaces
  <2> QED
    BY <2>2 DEF sep
<1> HIDE DEF t
<1>9. Kept(t) = p
  <2> DEFINE K == {k \in DOMAIN p : IsSetting(p[k])}
  <2>1. Kept(t) = ElementsAt(p, K)
    BY <1>7 DEF Kept
  <2>2. K = 1..Len(p)
    <3> HIDE DEF W
    <3>1. DOMAIN p = 1..Len(p)
      BY <1>4
    <3> QED
      BY <1>6, <3>1
  <2> HIDE DEF K, W
  <2> QED
    BY <1>4, <2>1, <2>2, NoneEmpty
<1>10. t # NoStr
  BY <1>8
<1>11. ParseConfig(t) = [k \in 1..Len(p) |-> SettingOf(p[k])]
  BY <1>5, <1>8, <1>9, <1>10, ParseIs
<1>12. ParseConfig(t) = f
  BY <1>2, <1>4, <1>6, <1>11
<1> QED
  BY <1>12 DEF t, p

\* Whatever the configuration file holds: what was parsed can be written and is parsed
\* again, no separator and no white space gets into a key or a value, and NULL is returned
\* exactly when there is no setting.
THEOREM ConfigIsExact == StrixSpec => []ConfigExact
<1>1. StrixInv => ConfigExact
  <2> SUFFICES ASSUME StrixInv, Readable PROVE ConfigExact
    BY DEF ConfigExact
  <2> DEFINE V == Char \cup {Semicolon, "="}
             chars == (UNION {{w[i] : i \in DOMAIN w} : w \in UNION WordSets})
                        \cup {Semicolon, "="}
             R == [key : Seq(V), value : Seq(V)]
             x == ParseConfig(str)
  <2>1. V \subseteq chars /\ Semicolon \in V /\ "=" \in V /\ Char \subseteq V
    <3>1. words \in WordSets
      BY DEF StrixInv
    <3>2. Char \subseteq UNION {{w[i] : i \in DOMAIN w} : w \in UNION WordSets}
      BY <3>1, Zenon DEF Char
    <3> QED
      BY <3>2
  <2>2. NoStr \notin Seq(chars) /\ NoStr \notin Seq([key : Seq(chars), value : Seq(chars)])
    BY ConfigAssumption
  <2> HIDE DEF chars
  <2>3. Seq(V) \subseteq Seq(chars)
    BY <2>1, SeqMonotonic
  <2>4. Seq(R) \subseteq Seq([key : Seq(chars), value : Seq(chars)])
    <3>1. R \subseteq [key : Seq(chars), value : Seq(chars)]
      BY <2>3
    <3> HIDE DEF R
    <3> QED
      BY <3>1, SeqMonotonic
  <2>5. NoStr \notin Seq(V) /\ NoStr \notin Seq(R)
    BY <2>2, <2>3, <2>4
  <2>6. str \in Seq(V) /\ str # NoStr
    <3>1. str \in Seq(Char) /\ str # NoStr
      BY DEF StrixInv, Readable
    <3> HIDE DEF V
    <3> QED
      BY <2>1, <3>1, SeqMonotonic
  <2> HIDE DEF V
  <2>7. Kept(str) = <<>> <=> \A i \in 1..Len(str) : str[i] # "="
    BY <2>6, KeptAre
  <2>8. Kept(str) = <<>> => x = NoStr
    BY DEF ParseConfig, Kept
  <2>9. ASSUME Kept(str) # <<>>
        PROVE  x \in Seq(R) /\ x # <<>> /\ \A k \in 1..Len(x) : Parsed(x[k], V)
    BY <2>6, <2>9, ParseIs
  <2> HIDE DEF x
  <2>10. x = NoStr <=> \A i \in DOMAIN str : str[i] # "="
    <3>1. DOMAIN str = 1..Len(str)
      BY <2>6
    <3> HIDE DEF R
    <3> QED
      BY <2>5, <2>7, <2>8, <2>9, <3>1
  <2>11. ASSUME x # NoStr
         PROVE  /\ ParseConfig(Join([k \in DOMAIN x |-> Rendered(x[k])], <<Semicolon>>)) = x
                /\ \A k \in DOMAIN x, c \in White \cup {Semicolon} :
                     /\ \A i \in DOMAIN x[k].key : x[k].key[i] \notin {c, "="}
                     /\ \A i \in DOMAIN x[k].value : x[k].value[i] # c
    <3>1. x \in Seq(R) /\ x # <<>> /\ \A k \in 1..Len(x) : Parsed(x[k], V)
      BY <2>8, <2>9, <2>11
    <3>2. ParseConfig(Join([k \in DOMAIN x |-> Rendered(x[k])], <<Semicolon>>)) = x
      BY <2>1, <2>5, <3>1, ParsedAgain
    <3>3. DOMAIN x = 1..Len(x)
      <4> HIDE DEF R
      <4> QED
        BY <3>1
    <3>4. ASSUME NEW k \in DOMAIN x, NEW c \in White \cup {Semicolon}
          PROVE  /\ \A i \in DOMAIN x[k].key : x[k].key[i] \notin {c, "="}
                 /\ \A i \in DOMAIN x[k].value : x[k].value[i] # c
      <4> DEFINE y == x[k].key
                 z == x[k].value
      <4>1. Parsed(x[k], V)
        BY <3>1, <3>3
      <4>2. /\ y \in Seq(V) /\ z \in Seq(V)
            /\ \A i \in 1..Len(y) : y[i] \notin White /\ y[i] # "=" /\ y[i] # Semicolon
            /\ \A i \in 1..Len(z) : z[i] \notin White /\ z[i] # Semicolon
        BY <4>1 DEF Parsed
      <4> HIDE DEF y, z
      <4>3. DOMAIN y = 1..Len(y) /\ DOMAIN z = 1..Len(z)
        BY <4>2
      <4>4. \A i \in DOMAIN y : y[i] \notin {c, "="}
        BY <4>2, <4>3
      <4>5. \A i \in DOMAIN z : z[i] # c
        BY <4>2, <4>3
      <4> QED
        BY <4>4, <4>5 DEF y, z
    <3> QED
      BY <3>2, <3>4
  <2> QED
    BY <2>10, <2>11 DEF ConfigExact, x
<1> QED
  BY <1>1, StrixCharacters, PTL

=============================================================================
