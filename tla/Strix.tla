-------------------------------- MODULE Strix --------------------------------
(***************************************************************************)
(* The strings of strix.c, over malloc: one strix, which its owner edits, and *)
(* what the functions that only read it return.                             *)
(*                                                                         *)
(* An edit that finds no memory returns false and leaves the strix as it is,  *)
(* which is a stuttering step here, as is a call that only reads.  A call      *)
(* that goes beyond the end of an array is undefined, and ends the behaviour.  *)
(***************************************************************************)
EXTENDS StrixSearch

CONSTANTS WordSets,      \* the strings a caller passes: one set for each caller
          White,         \* the characters isspace() accepts
          NotAscii,      \* the characters below zero, char being signed
          NoStr,         \* NULL
          OutOfBounds,   \* the result of a call that goes beyond the end of an array
          MaxLen,        \* bound: the longest strix
          MaxSubstrix,   \* MAX_SUBSTRIX_NUM: the pieces of a split by a substring
          MaxPositions,  \* MAX_POSITIONS: the occurrences of a character
          IntMax, UintMax

ASSUME StrixAssumption ==
  /\ MaxLen \in Nat /\ MaxSubstrix \in Nat \ {0} /\ MaxPositions \in Nat
  /\ IntMax \in Nat /\ UintMax \in Nat /\ OutOfBounds # NoStr
  /\ \A W \in WordSets : NoStr \notin W /\ \A w \in W : w \in Seq({w[i] : i \in DOMAIN w})

VARIABLES str,    \* the characters, or NoStr
          live,   \* no call was undefined, and the strix was not freed
          words   \* what this caller passes

strixVars == <<str, live, words>>

\* The characters of this caller.  Memory nobody stored to holds one of them (bound).
Char == UNION {{w[i] : i \in DOMAIN w} : w \in words}

Stored(s) == IF s = NoStr THEN <<>> ELSE s

-----------------------------------------------------------------------------
(* Functions that read                                                      *)

Create(w) == IF w = <<>> THEN NoStr ELSE w
Duplicate(s) == IF s = <<>> THEN NoStr ELSE s

Slice(s, start, end) ==
  IF start > end \/ end >= Len(s) THEN NoStr ELSE SubSeq(s, start + 1, end + 1)

\* Mutant: one character too few when the stride does not divide the range.
MutSliceByStride(s, start, end, stride) ==
  IF start > end \/ end >= Len(s) \/ stride = 0 THEN NoStr
  ELSE [i \in 1..((end - start + 1) \div stride) |-> s[start + (i - 1) * stride + 1]]

SliceByStride(s, start, end, stride) ==
  IF start > end \/ end >= Len(s) \/ stride = 0 THEN NoStr
  ELSE [i \in 1..((end - start + stride) \div stride) |-> s[start + (i - 1) * stride + 1]]

\* Where c stands in s.
CharsAt(s, c) ==
  LET at == Ascending({i \in DOMAIN s : s[i] = c}, Len(s))
  IN  [k \in DOMAIN at |-> at[k] - 1]

\* The array of the positions does not grow, and its end is not looked for.
FindAllChar(s, c) ==
  IF Len(CharsAt(s, c)) > MaxPositions THEN OutOfBounds ELSE CharsAt(s, c)
CountChar(s, c) == Cardinality({i \in DOMAIN s : s[i] = c})

\* The characters in the order of their first occurrence.  Each is an index of found[].
FindUniqueChar(s) ==
  IF \E i \in DOMAIN s : s[i] \in NotAscii THEN OutOfBounds
  ELSE ElementsAt(s, {i \in DOMAIN s : \A h \in 1..(i - 1) : s[h] # s[i]})

NonEmpty(pieces) == ElementsAt(pieces, {k \in DOMAIN pieces : pieces[k] # <<>>})

\* What stands before, between and after the cuts of n characters at pos.  Cuts may
\* overlap, and then nothing stands between them.
Between(s, pos, n) ==
  LET from == <<0>> \o [k \in DOMAIN pos |-> pos[k] + n]
      to == pos \o <<Len(s)>>
  IN  [k \in DOMAIN to |-> SubSeq(s, from[k] + 1, to[k])]

\* Its table of pieces grows.
SplitByDelim(s, d) == NonEmpty(Between(s, CharsAt(s, d), 1))

\* A substring that does not occur leaves one piece, the whole.
PiecesAt(s, found, n) ==
  IF found.len = NotFound THEN <<Duplicate(s)>> ELSE NonEmpty(Between(s, found.pos, n))

\* Mutant: every piece without memory is left out like the first.
MutSkipped(found, failed) == failed

\* The numbers of the pieces that are left out without a word, when there is no memory
\* for those of failed: the one in front of the first occurrence.
Skipped(found, failed) ==
  IF found.len # NotFound /\ found.pos[1] > 0 THEN failed \cap {1} ELSE {}

\* The table of the pieces; NoStr for the NULL pointer, which a substring longer than
\* the string gives, and a piece without memory.  The table is of fixed size, and its
\* end is not looked for.
SplitAt(s, found, n, failed) ==
  LET pieces == PiecesAt(s, found, n)
      made == DOMAIN pieces \ Skipped(found, failed)
      refused == made \cap failed
      stored == {k \in made : \A r \in refused : k < r}
  IN  IF found = NoPositions THEN NoStr
      ELSE IF Cardinality(stored) > MaxSubstrix THEN OutOfBounds
      ELSE IF refused # {} THEN NoStr
      ELSE ElementsAt(pieces, stored)

SplitBySubstr(s, w, failed) == SplitAt(s, KmpSearchAll(w, s), Len(w), failed)
SplitBySubstrix(s, t, failed) == SplitAt(s, KmpSearchAll(t, s), Len(t), failed)

\* The pieces one after another with a separator between two of them.
Join(pieces, sep) ==
  LET upTo[k \in 1..Len(pieces)] ==
        IF k = 1 THEN pieces[1] ELSE upTo[k - 1] \o sep \o pieces[k]
  IN  IF pieces = <<>> THEN NoStr ELSE upTo[Len(pieces)]

JoinViaDelim(pieces, d) == Join(pieces, <<d>>)
JoinViaSubstr(pieces, w) == Join(pieces, w)
JoinViaSubstrix(pieces, t) == Join(pieces, t)

-----------------------------------------------------------------------------
(* Numbers.  A conversion that sets strix_errno returns an error instead.    *)

Digits == <<"0", "1", "2", "3", "4", "5", "6", "7", "8", "9">>
IsDigit(c) == \E d \in 0..9 : Digits[d + 1] = c
DigitOf(c) == CHOOSE d \in 0..9 : Digits[d + 1] = c

Number(neg, num, error) == [neg |-> neg, num |-> num, error |-> error]

\* Mutant: the digit itself is left out of the test for overflow.
MutTooLarge(num, d, max) == num > max \div 10

\* num > (MAX - dig) / 10
TooLarge(num, d, max) == num > (max - d) \div 10

\* One character of a number, whose sign may only be the first.
NextDigit(n, i, c, signs, max) ==
  IF n.error THEN n
  ELSE IF c \in signs /\ i = 1 THEN Number(c = "-", n.num, FALSE)
  ELSE IF ~ IsDigit(c) THEN Number(FALSE, 0, TRUE)
  ELSE IF TooLarge(n.num, DigitOf(c), max) THEN Number(FALSE, 0, TRUE)
  ELSE Number(n.neg, n.num * 10 + DigitOf(c), FALSE)

ToInt(s, signs, max) ==
  LET upTo[i \in 0..Len(s)] ==
        IF i = 0 THEN Number(FALSE, 0, FALSE)
        ELSE NextDigit(upTo[i - 1], i, s[i], signs, max)
  IN  upTo[Len(s)]

ToUnsignedInt(s) == ToInt(s, {"+"}, UintMax)
ToSignedInt(s) == ToInt(s, {"+", "-"}, IntMax)

\* A double as num / divisor, without rounding.
Double(neg, num, divisor, fraction, error) ==
  [neg |-> neg, num |-> num, divisor |-> divisor, fraction |-> fraction, error |-> error]

NextOfDouble(n, i, c) ==
  IF n.error THEN n
  ELSE IF c \in {"+", "-"} /\ i = 1 THEN Double(c = "-", 0, 1, FALSE, FALSE)
  ELSE IF c = "." /\ ~ n.fraction THEN Double(n.neg, n.num, 1, TRUE, FALSE)
  ELSE IF ~ IsDigit(c) THEN Double(TRUE, 1, 1, FALSE, TRUE)
  ELSE Double(n.neg, n.num * 10 + DigitOf(c),
              IF n.fraction THEN n.divisor * 10 ELSE 1, n.fraction, FALSE)

ToDouble(s) ==
  LET upTo[i \in 0..Len(s)] == IF i = 0 THEN Double(FALSE, 0, 1, FALSE, FALSE)
                               ELSE NextOfDouble(upTo[i - 1], i, s[i])
  IN  upTo[Len(s)]

-----------------------------------------------------------------------------
(* Edits                                                                    *)

Becomes(s) == /\ live /\ Len(Stored(s)) <= MaxLen
              /\ str' = s
              /\ UNCHANGED <<live, words>>

Lost == /\ live /\ live' = FALSE
        /\ str' = NoStr
        /\ UNCHANGED words

\* strix_create and strix_create_empty.
StrixInit == /\ words \in WordSets
             /\ str \in {Create(w) : w \in words \ {<<>>}} \cup {<<>>}
             /\ live = TRUE

AppendStr(w) == w # <<>> /\ Becomes(Stored(str) \o w)
Concat(t) == Becomes(Stored(str) \o Stored(t))
Clear == Becomes(NoStr)

\* After w come the first characters of the strix again, as many as should follow
\* less one; the last byte is not written.
InsertAt(w, pos) ==
  /\ str # NoStr /\ pos < Len(str)
  /\ \E b \in Char :
       Becomes(SubSeq(str, 1, pos) \o w \o SubSeq(str, 1, Len(str) - pos - 1) \o <<b>>)
InsertStr(w, pos) == InsertAt(w, pos)
Insert(t, pos) == t # NoStr /\ InsertAt(t, pos)

\* Mutant: what reaches the end is cut as what goes beyond it.
MutErasedLen(s, len, pos) == IF pos + len > Len(s) THEN Len(s) - pos ELSE len

ErasedLen(s, len, pos) == IF pos + len > Len(s) THEN Len(s) - pos - 1 ELSE len

\* The characters after the one at pos are left out.
Erased(s, len, pos) ==
  SubSeq(s, 1, pos + 1) \o SubSeq(s, pos + ErasedLen(s, len, pos) + 2, Len(s))

\* The length of the second memcpy is below zero.
EraseOverruns(s, len, pos) == Len(s) - pos - ErasedLen(s, len, pos) - 1 < 0

Erase(len, pos) ==
  /\ str # NoStr /\ pos < Len(str)
  /\ IF EraseOverruns(str, len, pos) THEN Lost ELSE Becomes(Erased(str, len, pos))

\* Without the characters of W at both ends; NULL when there is no other.
Trimmed(s, W) ==
  LET kept == {i \in DOMAIN s : s[i] \notin W}
      first == CHOOSE i \in kept : \A k \in kept : i <= k
      last == CHOOSE i \in kept : \A k \in kept : i >= k
  IN  IF s = <<>> THEN s ELSE IF kept = {} THEN NoStr ELSE SubSeq(s, first, last)

TrimWhitespace == str # NoStr /\ Becomes(Trimmed(str, White))
TrimChar(c) == str # NoStr /\ Becomes(Trimmed(str, {c}))

\* The new length counts every occurrence.  When they overlap it may be below zero,
\* which malloc refuses; when it is not, the length of a memcpy is.
DeleteRefused(s, found, n) == Len(s) < n * found.len
DeleteOverruns(found, n) == \E k \in 1..(found.len - 1) : found.pos[k + 1] < found.pos[k] + n

Deleted(s, found, n) == Join(Between(s, found.pos, n), <<>>)

\* The len of -2 that means "not found" makes the new string longer by two substrings.
DeleteOccurence(w) ==
  LET found == KmpSearchAll(w, str)
      n == Len(w)
  IN  /\ str # NoStr /\ found # NoPositions /\ ~ DeleteRefused(str, found, n)
      /\ \/ /\ found.len = NotFound
            /\ \E tail \in [1..(2 * n) -> Char] : Becomes(str \o tail)
         \/ /\ found.len # NotFound
            /\ IF DeleteOverruns(found, n) THEN Lost ELSE Becomes(Deleted(str, found, n))

\* strix_modify frees the strix, and gives the new one to nobody.
Modify(w) == Lost

\* A call of a function that only reads, when its result is undefined.  (A lack of
\* memory for a piece makes that only rarer.)
Overruns(result) == str # NoStr /\ result = OutOfBounds /\ Lost

SearchOverruns == \/ \E c \in Char : Overruns(FindAllChar(str, c))
                  \/ Overruns(FindUniqueChar(str))
SplitOverruns(w) == \/ Overruns(SplitBySubstr(str, w, {}))
                    \/ Overruns(SplitBySubstrix(str, w, {}))

Edit(w) == \/ AppendStr(w) \/ Concat(w) \/ DeleteOccurence(w) \/ Modify(w)
           \/ \E pos \in 0..(MaxLen - 1) : InsertStr(w, pos) \/ Insert(w, pos)

StrixNext == \/ \E w \in words : Edit(w)
             \/ \E len, pos \in 0..MaxLen : Erase(len, pos)
             \/ \E c \in Char : TrimChar(c)
             \/ Clear \/ TrimWhitespace
             \/ SearchOverruns
             \/ \E w \in words : SplitOverruns(w)

StrixSpec == StrixInit /\ [][StrixNext]_strixVars

-----------------------------------------------------------------------------
(* Safety                                                                   *)

Readable == live /\ str # NoStr

\* What the searches say of the strix is what a comparison at every position finds:
\* find_all (strix_find_all, strix_find_subtrix_all) all occurrences in order, the
\* overlapping ones too, count_substr their number, find whether there is one.  The
\* searches for one character agree with them, up to MAX_POSITIONS occurrences and
\* among characters of ASCII; what lies beyond is undefined.
SearchExact ==
  Readable => \A w \in words \ {<<>>} :
    LET found == KmpSearchAll(w, str)
        there == Occurrences(w, str)
    IN  /\ {found.pos[k] : k \in DOMAIN found.pos} = there
        /\ \A k \in 1..(Len(found.pos) - 1) : found.pos[k] < found.pos[k + 1]
        /\ found.len = IF Len(w) > Len(str) THEN -1
                       ELSE IF there = {} THEN NotFound ELSE Cardinality(there)
        /\ KmpSearchAllLen(w, str) = Cardinality(there)
        /\ KmpSearch(w, str) = NotFound <=> there = {}
        /\ Len(w) = 1 =>
              /\ FindAllChar(str, w[1]) = IF Cardinality(there) > MaxPositions
                                          THEN OutOfBounds ELSE found.pos
              /\ CountChar(str, w[1]) = KmpSearchAllLen(w, str)
              /\ IF \A i \in DOMAIN str : str[i] \notin NotAscii
                 THEN there # {} <=> \E k \in DOMAIN FindUniqueChar(str) :
                                       FindUniqueChar(str)[k] = w[1]
                 ELSE FindUniqueChar(str) = OutOfBounds

\* "@return int64_t Index of first match" (header/strix.h:209, of strix_find).
FindsFirst ==
  Readable => \A w \in words \ {<<>>} :
    LET there == Occurrences(w, str)
    IN  there # {} => \A k \in there : KmpSearch(w, str) <= k /\ KmpSearch(w, str) \in there

\* The longest stretches of s outside the positions of C, in order.
Stretches(s, C) ==
  LET first == Ascending({i \in DOMAIN s : i - 1 \notin C /\ (i = 1 \/ i - 2 \in C)}, Len(s))
      last(i) == CHOOSE e \in i..Len(s) : /\ e = Len(s) \/ e \in C
                                          /\ \A h \in i..e : h - 1 \notin C
  IN  [k \in DOMAIN first |-> SubSeq(s, first[k], last(first[k]))]

\* A split by a delimiter returns the longest stretches without it, and joining these
\* splits into the same again.
DelimiterCuts(s, c) ==
  LET pieces == SplitByDelim(s, c)
  IN  /\ pieces = Stretches(s, {i - 1 : i \in {k \in DOMAIN s : s[k] = c}})
      /\ pieces # <<>> => SplitByDelim(JoinViaDelim(pieces, c), c) = pieces

\* The longest stretches of s outside the occurrences of w, however these overlap.
Uncovered(s, w) == Stretches(s, UNION {k..(k + Len(w) - 1) : k \in Occurrences(w, s)})

\* What the two splits by a substring return.
Splits(s, w, failed) == {SplitBySubstr(s, w, failed), SplitBySubstrix(s, w, failed)}

\* They return these stretches when the table of fixed size holds them, and are
\* undefined when it does not, which takes a strix of more than twice its size.  A lack
\* of memory for any of the pieces makes them return NULL, except for the piece in front
\* of the first occurrence: that one is missing, and the others are returned as if they
\* were all.
SplitsExactly(s, w) ==
  LET all == Uncovered(s, w)
      inFront == Occurrences(w, s) # {} /\ 0 \notin Occurrences(w, s)
  IN  IF w = <<>> \/ Len(w) > Len(s) THEN Splits(s, w, {}) = {NoStr}
      ELSE IF Len(all) > MaxSubstrix
           THEN Len(s) > 2 * MaxSubstrix /\ Splits(s, w, {}) = {OutOfBounds}
      ELSE /\ Splits(s, w, {}) = {all}
           /\ \A failed \in (SUBSET DOMAIN all) \ {{}} :
                Splits(s, w, failed) = {IF inFront /\ failed = {1} THEN Tail(all) ELSE NoStr}

\* Joining what stood between occurrences gives the strix back.
JoinsExactly(s, w) ==
  LET found == KmpSearchAll(w, s)
      between == Between(s, found.pos, Len(w))
  IN  found.len > 0 /\ ~ DeleteOverruns(found, Len(w)) =>
        JoinViaSubstr(between, w) = s /\ JoinViaSubstrix(between, w) = s

\* A slice by stride takes every stride'th character up to the last.
StrideCuts(s, start, end, stride) ==
  LET slice == SliceByStride(s, start, end, stride)
  IN  slice # NoStr =>
        slice = ElementsAt(s, {i \in (start + 1)..(end + 1) : (i - 1 - start) % stride = 0})

\* What the functions return that cut a strix into pieces.
CutsExact ==
  Readable =>
    /\ \A c \in Char : DelimiterCuts(str, c)
    /\ \A w \in words : SplitsExactly(str, w) /\ JoinsExactly(str, w)
    /\ \A start, end \in 0..(Len(str) - 1), stride \in 1..3 : StrideCuts(str, start, end, stride)

\* s without the characters at the positions of C.
Without(s, C) == ElementsAt(s, {i \in DOMAIN s : i - 1 \notin C})

\* The digits of s from i on, and the number they are.
AllDigits(s, i) == \A k \in i..Len(s) : IsDigit(s[k])
ValueOf(s, i) ==
  LET value[k \in 0..Len(s)] == IF k < i THEN 0 ELSE value[k - 1] * 10 + DigitOf(s[k])
  IN  value[Len(s)]

\* The powers of ten up to n.
PowersOfTen(n) == LET tenTo[k \in 0..n] == IF k = 0 THEN 1 ELSE tenTo[k - 1] * 10
                  IN  tenTo

\* Where the digits begin, after a sign; and where the points are.
FirstDigit(s, signs) == IF s # <<>> /\ s[1] \in signs THEN 2 ELSE 1
PointsOf(s) == {i - 1 : i \in {k \in DOMAIN s : s[k] = "."}}

\* For an integer n, read from s: a sign and digits whose number is at most max.
IntegerExact(s, n, signs, max) ==
  LET first == FirstDigit(s, signs)
  IN  /\ ~ n.error <=> AllDigits(s, first) /\ ValueOf(s, first) <= max
      /\ ~ n.error => /\ n.num = ValueOf(s, first)
                      /\ n.neg <=> first = 2 /\ s[1] = "-"

\* For a double d: there may be one point, anywhere after the sign, and no limit.
DoubleExact(s, d, points, digits) ==
  LET first == FirstDigit(s, {"+", "-"})
  IN  /\ ~ d.error <=> Cardinality(points) <= 1 /\ AllDigits(digits, first)
      /\ ~ d.error => /\ d.num = ValueOf(digits, first)
                      /\ \A p \in points : d.divisor = PowersOfTen(Len(s))[Len(s) - p - 1]
                      /\ points = {} => d.divisor = 1
                      /\ d.neg <=> s # <<>> /\ s[1] = "-"

\* A conversion succeeds exactly for what is a number of its type, and then returns
\* that number.  (The smallest signed number is refused.)
NumbersExact ==
  Readable => /\ IntegerExact(str, ToSignedInt(str), {"+", "-"}, IntMax)
              /\ IntegerExact(str, ToUnsignedInt(str), {"+"}, UintMax)
              /\ DoubleExact(str, ToDouble(str), PointsOf(str), Without(str, PointsOf(str)))

\* An erasure that does not reach exactly to the end is defined and takes out what
\* follows pos; the character at pos never.
ErasesExactly(s, len, pos) ==
  pos + len # Len(s) =>
    /\ ~ EraseOverruns(s, len, pos)
    /\ Erased(s, len, pos) = Without(s, (pos + 1)..(pos + len))

\* A deletion of occurrences that do not overlap takes out these and nothing else, and
\* only where they do overlap is it refused or undefined.
DeletesExactly(s, w, there, found) ==
  LET disjoint == \A k, h \in there : k < h => k + Len(w) <= h
  IN  there # {} =>
        /\ disjoint <=> ~ DeleteRefused(s, found, Len(w)) /\ ~ DeleteOverruns(found, Len(w))
        /\ disjoint => Deleted(s, found, Len(w)) =
                         Without(s, UNION {k..(k + Len(w) - 1) : k \in there})

\* t, a trimmed s, stays so when it is trimmed again, and is s without some characters
\* of W at its ends.
TrimsExactly(s, W, t) ==
  IF \A i \in DOMAIN s : s[i] \in W THEN Stored(t) = <<>>
  ELSE /\ Trimmed(t, W) = t
       /\ \E n \in 0..Len(s) :
            /\ t = SubSeq(s, n + 1, n + Len(t))
            /\ \A i \in DOMAIN s : s[i] \notin W => i \in (n + 1)..(n + Len(t))

\* How far the edits can be trusted.
EditsExact ==
  Readable =>
    /\ \A len \in 0..MaxLen, pos \in 0..(Len(str) - 1) : ErasesExactly(str, len, pos)
    /\ \A w \in words :
         DeletesExactly(str, w, Occurrences(w, str), KmpSearchAll(w, str))
    /\ \A W \in {White} \cup {{c} : c \in Char} : TrimsExactly(str, W, Trimmed(str, W))
=============================================================================
