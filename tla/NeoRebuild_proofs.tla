-------------------------- MODULE NeoRebuild_proofs --------------------------
(***************************************************************************)
(* The self rebuild is safe for any number of terminals, any arguments and  *)
(* any faults: the time stamps tell, no program takes itself for current    *)
(* that is not, the new program is at least as new as its caller asked for, *)
(* it never rebuilds again, it sees the arguments of the user, and a copy   *)
(* that has run it only comes to its end.                                   *)
(*                                                                          *)
(* Terminals work on the same two files.  What a copy has found out stays   *)
(* true while others replace neo because a linker removes the old file      *)
(* before it writes the new one (a copy loaded before is not "mine" any     *)
(* more), and because neo.c stands still from the moment a compiler has     *)
(* read it until its neo is written.                                        *)
(***************************************************************************)
EXTENDS NeoRebuild, SequenceTheorems, TLAPS

Linking == \E t \in Terminals : Runs(t, "linking")

\* What is true of each copy, wherever it is in its stack.
CopyOK(c) ==
  /\ c.asked <= srcVer
  /\ c.mine => c.loaded = exeVer
  /\ c.at = "called" => c.argc = Len(c.args)
  /\ c.at \in {"compiled", "linking"} => c.read = srcVer
  /\ c.at = "linking" => exeVer \in {Absent, srcVer}
  /\ c.at = "stated" /\ c.mine /\ exeTime >= c.mtime => exeVer = c.asked
  /\ c.at = "stated" /\ c.mine /\ Linking => c.asked = srcVer
  /\ c.at = "work" /\ c.told /\ ~ IsNested(c) /\ c.mine => c.loaded = c.asked
  /\ c.built => c.at \in {"rebuilt", "waiting", "work"}
  /\ c.at = "rebuilt" /\ c.built /\ exeVer # Absent => exeVer >= c.asked

\* The second copy of a stack is the program the first one has run.
StackOK(s) ==
  /\ Len(s) <= 2
  /\ Len(s) = 2 =>
       /\ s[1].at = "waiting" /\ s[2].at \in {"called", "work"}
       /\ s[2].args = NewArgs(s[1].args)
       /\ s[2].at = "work" => SubSeq(s[2].args, 1, s[2].argc) = s[1].args
       /\ s[1].built => s[2].loaded >= s[1].asked

RebuildInv ==
  /\ RebuildTypeOK
  /\ StampsTell
  /\ \A t \in Terminals : /\ StackOK(copies[t])
                          /\ \A k \in 1..Len(copies[t]) : CopyOK(copies[t][k])

-----------------------------------------------------------------------------
(* Stacks and arguments                                                     *)

\* What Front(s) does: it drops the last element.
LEMMA TopDropped ==
  ASSUME NEW S, NEW s \in Seq(S), s # <<>>
  PROVE  /\ Front(s) \in Seq(S) /\ Len(Front(s)) = Len(s) - 1
         /\ Len(s) \in Nat /\ Len(s) >= 1
         /\ \A i \in 1..(Len(s) - 1) : Front(s)[i] = s[i]
<1> DEFINE n == Len(s) - 1
<1>1. Len(s) \in Nat /\ Len(s) >= 1 /\ n \in Int /\ n >= 0
  BY EmptySeq
<1>2. \A i \in 1..n : s[i] \in S
  BY <1>1, ElementOfSeq
<1>3. Front(s) = SubSeq(s, 1, n)
  BY DEF Front
<1>4. /\ SubSeq(s, 1, n) \in Seq(S)
      /\ Len(SubSeq(s, 1, n)) = IF 1 <= n THEN n - 1 + 1 ELSE 0
      /\ \A i \in 1..(n - 1 + 1) : SubSeq(s, 1, n)[i] = s[1 + i - 1]
  <2> HIDE DEF n
  <2> QED
    BY <1>1, <1>2, SubSeqProperties
<1>5. n - 1 + 1 = n /\ (\A i \in 1..n : 1 + i - 1 = i)
  BY <1>1
<1>6. Len(SubSeq(s, 1, n)) = n /\ \A i \in 1..n : SubSeq(s, 1, n)[i] = s[i]
  <2> HIDE DEF n
  <2> QED
    BY <1>1, <1>4, <1>5
<1> QED
  BY <1>1, <1>3, <1>4, <1>6

\* What Append(Front(s), c) does: it replaces the last element.
LEMMA TopReplaced ==
  ASSUME NEW S, NEW s \in Seq(S), s # <<>>, NEW c \in S
  PROVE  /\ Len(s) \in Nat /\ Len(s) >= 1 /\ Last(s) \in S /\ Last(s) = s[Len(s)]
         /\ Append(Front(s), c) \in Seq(S)
         /\ Len(Append(Front(s), c)) = Len(s)
         /\ \A k \in 1..Len(s) : Append(Front(s), c)[k] = IF k = Len(s) THEN c ELSE s[k]
<1>1. /\ Front(s) \in Seq(S) /\ Len(Front(s)) = Len(s) - 1
      /\ Len(s) \in Nat /\ Len(s) >= 1
      /\ \A i \in 1..(Len(s) - 1) : Front(s)[i] = s[i]
  BY TopDropped
<1>2. Last(s) \in S /\ Last(s) = s[Len(s)]
  BY <1>1, ElementOfSeq DEF Last
<1> QED
  BY <1>1, <1>2, AppendProperties

\* The new program is run with the flag, and one less argument is the old list.
LEMMA NewArgsNested ==
  ASSUME NEW args \in Seq(Args \cup {NoRebuild})
  PROVE  /\ NewArgs(args) \in Seq(Args \cup {NoRebuild})
         /\ NoRebuild \in ToSet(NewArgs(args))
         /\ SubSeq(NewArgs(args), 1, Len(NewArgs(args)) - 1) = args
<1> DEFINE S == Args \cup {NoRebuild}
           new == NewArgs(args)
<1>1. /\ new \in Seq(S) /\ Len(new) = Len(args) + 1 /\ Len(args) \in Nat
      /\ \A i \in 1..Len(args) : new[i] = args[i]
      /\ new[Len(args) + 1] = NoRebuild
  BY AppendProperties, LenProperties DEF NewArgs
<1>2. NoRebuild \in ToSet(new)
  BY <1>1 DEF ToSet
<1>3. \A i \in 1..Len(args) : new[i] \in S
  BY <1>1, ElementOfSeq
<1>4. /\ SubSeq(new, 1, Len(args)) \in Seq(S) /\ Len(SubSeq(new, 1, Len(args))) = Len(args)
      /\ \A i \in 1..Len(args) : SubSeq(new, 1, Len(args))[i] = new[i]
  <2> HIDE DEF new, S
  <2> QED
    BY <1>1, <1>3, SubSeqProperties
<1>5. SubSeq(new, 1, Len(args)) = args
  BY <1>1, <1>4, SeqEqual
<1> QED
  BY <1>1, <1>2, <1>5

\* An argument list that holds the flag is not empty.
LEMMA NestedHasArgs ==
  ASSUME NEW c \in Copy, IsNested(c)
  PROVE  Len(c.args) \in Nat \ {0}
BY LenProperties DEF IsNested, ToSet, Copy

-----------------------------------------------------------------------------
(* The kinds of step                                                        *)

LEMMA RebuildInitial == RebuildInit => RebuildInv
<1> SUFFICES ASSUME RebuildInit PROVE RebuildInv
  OBVIOUS
<1>1. RebuildTypeOK
  BY RebuildAssumption, EmptySeq DEF RebuildInit, RebuildTypeOK, Times, Versions, Absent
<1>2. StampsTell
  BY DEF RebuildInit, StampsTell
<1>3. \A t \in Terminals : Len(copies[t]) = 0
  BY EmptySeq DEF RebuildInit
<1> QED
  BY <1>1, <1>2, <1>3 DEF RebuildInv, StackOK

\* What the steps of a terminal start from.
LEMMA Here ==
  ASSUME RebuildInv, NEW t \in Terminals, copies[t] # <<>>
  PROVE  /\ copies[t] \in Seq(Copy) /\ Len(copies[t]) \in {1, 2}
         /\ Last(copies[t]) = copies[t][Len(copies[t])]
         /\ Last(copies[t]) \in Copy /\ CopyOK(Last(copies[t]))
         /\ copies[t][1] \in Copy /\ CopyOK(copies[t][1])
         /\ StackOK(copies[t])
<1>1. copies[t] \in Seq(Copy) /\ StackOK(copies[t])
  BY DEF RebuildInv, RebuildTypeOK
<1>2. Len(copies[t]) \in Nat /\ Len(copies[t]) >= 1 /\ Len(copies[t]) <= 2
  BY <1>1, EmptySeq DEF StackOK
<1>3. 1 \in 1..Len(copies[t]) /\ Len(copies[t]) \in 1..Len(copies[t])
  BY <1>2
<1>4. /\ copies[t][1] \in Copy /\ copies[t][Len(copies[t])] \in Copy
  BY <1>1, <1>3, ElementOfSeq
<1>5. CopyOK(copies[t][1]) /\ CopyOK(copies[t][Len(copies[t])])
  BY <1>3 DEF RebuildInv
<1>6. Last(copies[t]) = copies[t][Len(copies[t])]
  BY DEF Last
<1>7. Len(copies[t]) \in {1, 2}
  <2>1. \A n \in Nat : n >= 1 /\ n <= 2 => n = 1 \/ n = 2
    OBVIOUS
  <2> QED
    BY <1>2, <2>1
<1> QED
  BY <1>1, <1>4, <1>5, <1>6, <1>7

\* A step of one terminal that leaves the files alone.
LEMMA OneTerminal ==
  ASSUME RebuildInv, UNCHANGED Files, NEW t \in Terminals, NEW s \in Seq(Copy),
         copies' = [copies EXCEPT ![t] = s],
         StackOK(s), \A k \in 1..Len(s) : CopyOK(s[k]),
         s # <<>> => Last(s).at # "linking"
  PROVE  RebuildInv'
<1>1. /\ clock' = clock /\ srcVer' = srcVer /\ srcTime' = srcTime
      /\ exeVer' = exeVer /\ exeTime' = exeTime
  BY DEF Files
<1>2. \A u \in Terminals : copies'[u] = IF u = t THEN s ELSE copies[u]
  BY DEF RebuildInv, RebuildTypeOK
<1>3. Linking' => Linking
  BY <1>2 DEF Linking, Runs
<1>5. RebuildTypeOK'
  BY <1>1 DEF RebuildInv, RebuildTypeOK
<1>6. StampsTell'
  BY <1>1 DEF RebuildInv, StampsTell, OutOfDate
<1>7. ASSUME NEW u \in Terminals, NEW k \in 1..Len(copies'[u])
      PROVE  CopyOK(copies[u][k])'
  <2>1. CopyOK(copies'[u][k])
    BY <1>2, <1>7 DEF RebuildInv
  <2> QED
    BY <1>1, <1>3, <2>1 DEF CopyOK
<1>8. \A u \in Terminals : StackOK(copies[u])'
  BY <1>2 DEF RebuildInv, StackOK
<1> QED
  BY <1>5, <1>6, <1>7, <1>8 DEF RebuildInv

\* The running copy of a terminal goes on as c, without starting to link.
LEMMA GoesOn ==
  ASSUME RebuildInv, UNCHANGED Files, NEW t \in Terminals, copies[t] # <<>>,
         NEW c \in Copy, Becomes(t, c), CopyOK(c), c.at # "linking",
         Len(copies[t]) = 2 =>
           /\ c.at = "work" /\ c.loaded = copies[t][2].loaded
           /\ c.args = copies[t][2].args
           /\ SubSeq(c.args, 1, c.argc) = copies[t][1].args
  PROVE  RebuildInv'
<1> DEFINE s == Append(Front(copies[t]), c)
<1>1. /\ copies[t] \in Seq(Copy) /\ Len(copies[t]) \in {1, 2} /\ StackOK(copies[t])
      /\ CopyOK(copies[t][1])
  BY Here
<1>2. /\ s \in Seq(Copy) /\ Len(s) = Len(copies[t])
      /\ \A k \in 1..Len(s) : s[k] = IF k = Len(s) THEN c ELSE copies[t][k]
  BY <1>1, TopReplaced
<1>3. copies' = [copies EXCEPT ![t] = s]
  BY DEF Becomes
<1> HIDE DEF s
<1>4. StackOK(s)
  BY <1>1, <1>2 DEF StackOK
<1>5. \A k \in 1..Len(s) : CopyOK(s[k])
  BY <1>1, <1>2
<1>6. Last(s).at # "linking"
  BY <1>1, <1>2 DEF Last
<1> QED
  BY <1>2, <1>3, <1>4, <1>5, <1>6, OneTerminal

\* The running copy of a terminal ends.
LEMMA Pops ==
  ASSUME RebuildInv, UNCHANGED Files, NEW t \in Terminals, copies[t] # <<>>,
         copies' = [copies EXCEPT ![t] = Front(@)]
  PROVE  RebuildInv'
<1> DEFINE s == Front(copies[t])
<1>1. /\ copies[t] \in Seq(Copy) /\ Len(copies[t]) \in {1, 2} /\ StackOK(copies[t])
      /\ CopyOK(copies[t][1])
  BY Here
<1>2. /\ s \in Seq(Copy) /\ Len(s) = Len(copies[t]) - 1
      /\ \A i \in 1..(Len(copies[t]) - 1) : s[i] = copies[t][i]
  BY <1>1, TopDropped
<1>3. copies' = [copies EXCEPT ![t] = s]
  BY DEF RebuildInv, RebuildTypeOK
<1> HIDE DEF s
<1>4. Len(s) \in {0, 1} /\ (Len(s) = 1 => s[1] = copies[t][1] /\ copies[t][1].at = "waiting")
  BY <1>1, <1>2 DEF StackOK
<1>5. s # <<>> => Len(s) = 1
  BY <1>2, <1>4, EmptySeq
<1>6. StackOK(s) /\ \A k \in 1..Len(s) : CopyOK(s[k])
  <2>1. CASE Len(s) = 0
    BY <2>1 DEF StackOK
  <2>2. CASE Len(s) = 1
    BY <1>1, <1>4, <2>2 DEF StackOK
  <2> QED
    BY <1>4, <2>1, <2>2
<1>7. s # <<>> => Last(s).at # "linking"
  BY <1>4, <1>5 DEF Last
<1> QED
  BY <1>2, <1>3, <1>6, <1>7, OneTerminal

\* A program that is started, by the user or by another copy.
LEMMA StartedOK ==
  ASSUME RebuildInv, exeVer # Absent, NEW args \in Seq(Args \cup {NoRebuild})
  PROVE  Started(args) \in Copy /\ CopyOK(Started(args))
<1>1. exeVer \in Versions /\ 1 \in Versions /\ 0 \in Times /\ 1 <= srcVer
  BY RebuildAssumption DEF RebuildInv, RebuildTypeOK, Versions, Times, Absent
<1>2. Len(args) \in Nat
  BY LenProperties
<1>3. Started(args) \in Copy
  BY <1>1, <1>2 DEF Started, Copy, Places, InScript
<1>4. CopyOK(Started(args))
  BY <1>1 DEF CopyOK, Started
<1> QED
  BY <1>3, <1>4

-----------------------------------------------------------------------------
(* The actions of a terminal that leave the files alone                     *)

LEMMA StartSafe ==
  ASSUME RebuildInv, NEW t \in Terminals, Start(t)
  PROVE  RebuildInv'
<1>1. PICK args \in ArgLists : copies' = [copies EXCEPT ![t] = <<Started(args)>>]
  BY DEF Start
<1>2. args \in Seq(Args \cup {NoRebuild}) /\ exeVer # Absent /\ UNCHANGED Files
  BY RebuildAssumption DEF Start
<1> DEFINE c == Started(args)
<1>3. c \in Copy /\ CopyOK(c) /\ c.at = "called"
  BY <1>2, StartedOK DEF Started
<1> HIDE DEF c
<1> DEFINE s == <<c>>
<1>4. s \in Seq(Copy) /\ Len(s) = 1 /\ s[1] = c
  BY <1>3
<1> HIDE DEF s
<1>5. StackOK(s) /\ (\A k \in 1..Len(s) : CopyOK(s[k])) /\ Last(s).at # "linking"
  BY <1>3, <1>4 DEF StackOK, Last
<1> QED
  BY <1>1, <1>2, <1>4, <1>5, OneTerminal DEF s, c

LEMMA SeesFlagSafe ==
  ASSUME RebuildInv, NEW t \in Terminals, SeesFlag(t)
  PROVE  RebuildInv'
<1> DEFINE l == Last(copies[t])
           c == [l EXCEPT !.at = "work", !.told = TRUE, !.argc = @ - 1]
<1>1. copies[t] # <<>> /\ l.at = "called" /\ IsNested(l) /\ Becomes(t, c) /\ UNCHANGED Files
  BY DEF SeesFlag, Runs
<1>2. /\ l \in Copy /\ CopyOK(l) /\ copies[t] \in Seq(Copy) /\ StackOK(copies[t])
      /\ l = copies[t][Len(copies[t])] /\ copies[t][1] \in Copy
  BY <1>1, Here
<1>3. l.argc = Len(l.args) /\ ~ l.built
  BY <1>1, <1>2 DEF CopyOK
<1>4. Len(l.args) - 1 \in Nat
  BY <1>1, <1>2, NestedHasArgs
<1> HIDE DEF l
<1>5. /\ c \in Copy /\ c.at = "work" /\ c.args = l.args /\ c.argc = Len(l.args) - 1
      /\ c.loaded = l.loaded /\ c.asked = l.asked /\ c.mine = l.mine /\ c.built = l.built
  BY <1>2, <1>3, <1>4 DEF Copy, Places, InScript
<1> HIDE DEF c
<1>6. CopyOK(c)
  BY <1>1, <1>2, <1>3, <1>5 DEF CopyOK, IsNested
<1>7. ASSUME Len(copies[t]) = 2
      PROVE  /\ c.loaded = copies[t][2].loaded /\ c.args = copies[t][2].args
             /\ SubSeq(c.args, 1, c.argc) = copies[t][1].args
  <2>1. l = copies[t][2] /\ l.args = NewArgs(copies[t][1].args)
    BY <1>2, <1>7 DEF StackOK
  <2>2. copies[t][1].args \in Seq(Args \cup {NoRebuild})
    BY <1>2 DEF Copy
  <2> QED
    BY <1>5, <2>1, <2>2, NewArgsNested
<1> QED
  BY <1>1, <1>5, <1>6, <1>7, GoesOn

\* Only the copy at the bottom of a stack is anywhere but at its start, at work
\* or waiting, and only that one is without the flag.
LEMMA Alone ==
  ASSUME RebuildInv, NEW t \in Terminals, copies[t] # <<>>,
         \/ Last(copies[t]).at \notin {"called", "work"}
         \/ ~ IsNested(Last(copies[t])) /\ Last(copies[t]).at # "work"
  PROVE  Len(copies[t]) = 1
<1>1. /\ copies[t] \in Seq(Copy) /\ Len(copies[t]) \in {1, 2} /\ StackOK(copies[t])
      /\ Last(copies[t]) = copies[t][Len(copies[t])] /\ copies[t][1] \in Copy
  BY Here
<1>2. ASSUME Len(copies[t]) = 2 PROVE FALSE
  <2>1. /\ Last(copies[t]).at \in {"called", "work"}
        /\ Last(copies[t]).args = NewArgs(copies[t][1].args)
    BY <1>1, <1>2 DEF StackOK
  <2>2. copies[t][1].args \in Seq(Args \cup {NoRebuild})
    BY <1>1 DEF Copy
  <2>3. IsNested(Last(copies[t]))
    BY <2>1, <2>2, NewArgsNested DEF IsNested
  <2> QED
    BY <2>1, <2>3
<1> QED
  BY <1>1, <1>2

LEMMA StatSourceSafe ==
  ASSUME RebuildInv, NEW t \in Terminals, StatSource(t)
  PROVE  RebuildInv'
<1> DEFINE l == Last(copies[t])
<1>1. copies[t] # <<>> /\ l.at = "called" /\ ~ IsNested(l) /\ UNCHANGED Files
  BY DEF StatSource, Runs
<1>2. l \in Copy /\ CopyOK(l) /\ Len(copies[t]) = 1
  BY <1>1, Here, Alone
<1>3. ~ l.built /\ srcTime \in Times /\ srcVer \in Versions /\ exeVer \in Versions \cup {Absent}
      /\ StampsTell /\ exeTime \in Nat /\ srcTime \in Nat /\ srcVer \in Nat
  BY <1>1, <1>2, RebuildAssumption
  DEF CopyOK, RebuildInv, RebuildTypeOK, Times, Versions
<1>4. CASE Becomes(t, [l EXCEPT !.at = "stated", !.mtime = srcTime, !.asked = srcVer])
  <2> DEFINE c == [l EXCEPT !.at = "stated", !.mtime = srcTime, !.asked = srcVer]
  <2>0. Becomes(t, c)
    BY <1>4
  <2> HIDE DEF l
  <2>1. /\ c \in Copy /\ c.at = "stated" /\ c.mtime = srcTime /\ c.asked = srcVer
        /\ c.loaded = l.loaded /\ c.mine = l.mine /\ c.built = l.built
    BY <1>2, <1>3 DEF Copy, Places, InScript
  <2> HIDE DEF c
  <2>2. c.loaded # Absent
    BY <2>1 DEF Copy, Versions, Absent
  <2>3. c.mine /\ exeTime >= c.mtime => exeVer = c.asked
    BY <1>2, <1>3, <2>1, <2>2 DEF CopyOK, StampsTell, OutOfDate
  <2>4. CopyOK(c)
    BY <1>2, <1>3, <2>1, <2>3 DEF CopyOK
  <2> QED
    BY <1>1, <1>2, <2>0, <2>1, <2>4, GoesOn
<1>5. CASE Returns(t, FALSE)
  <2> DEFINE c == [l EXCEPT !.at = "work", !.told = FALSE]
  <2>1. Becomes(t, c)
    BY <1>5 DEF Returns
  <2> HIDE DEF l
  <2>2. /\ c \in Copy /\ c.at = "work" /\ c.told = FALSE /\ c.asked = l.asked
        /\ c.loaded = l.loaded /\ c.mine = l.mine /\ c.built = l.built
    BY <1>2 DEF Copy, Places, InScript
  <2> HIDE DEF c
  <2>3. CopyOK(c)
    BY <1>2, <1>3, <2>2 DEF CopyOK
  <2> QED
    BY <1>1, <1>2, <2>1, <2>2, <2>3, GoesOn
<1> QED
  BY <1>4, <1>5 DEF StatSource

LEMMA StatProgramSafe ==
  ASSUME RebuildInv, NEW t \in Terminals, StatProgram(t)
  PROVE  RebuildInv'
<1> DEFINE l == Last(copies[t])
<1>1. copies[t] # <<>> /\ l.at = "stated" /\ UNCHANGED Files
  BY DEF StatProgram, Runs
<1>2. l \in Copy /\ CopyOK(l) /\ Len(copies[t]) = 1
  BY <1>1, Here, Alone
<1>3. ~ l.built
  BY <1>1, <1>2 DEF CopyOK
<1>4. CASE Goes(t, "script")
  <2> DEFINE c == [l EXCEPT !.at = "script"]
  <2>1. Becomes(t, c)
    BY <1>4 DEF Goes
  <2> HIDE DEF l
  <2>2. /\ c \in Copy /\ c.at = "script" /\ c.asked = l.asked
        /\ c.loaded = l.loaded /\ c.mine = l.mine /\ c.built = l.built
    BY <1>2 DEF Copy, Places, InScript
  <2> HIDE DEF c
  <2>3. CopyOK(c)
    BY <1>2, <1>3, <2>2 DEF CopyOK
  <2> QED
    BY <1>1, <1>2, <2>1, <2>2, <2>3, GoesOn
<1>5. ASSUME NEW b \in BOOLEAN, Returns(t, b), b => ~ OutOfDate(l.mtime)
      PROVE  RebuildInv'
  <2> DEFINE c == [l EXCEPT !.at = "work", !.told = b]
  <2>1. Becomes(t, c)
    BY <1>5 DEF Returns
  <2> HIDE DEF l
  <2>2. /\ c \in Copy /\ c.at = "work" /\ c.told = b /\ c.asked = l.asked
        /\ c.loaded = l.loaded /\ c.mine = l.mine /\ c.built = l.built
    BY <1>2 DEF Copy, Places, InScript
  <2> HIDE DEF c
  <2>3. b => exeTime >= l.mtime
    <3>1. exeTime \in Nat /\ l.mtime \in Nat
      BY <1>2, RebuildAssumption DEF RebuildInv, RebuildTypeOK, Times, Copy
    <3> QED
      BY <1>5, <3>1 DEF OutOfDate
  <2>4. CopyOK(c)
    BY <1>1, <1>2, <1>3, <2>2, <2>3 DEF CopyOK
  <2> QED
    BY <1>1, <1>2, <2>1, <2>2, <2>4, GoesOn
<1>6. \/ Goes(t, "script")
      \/ ~ OutOfDate(l.mtime) /\ Returns(t, TRUE)
      \/ Returns(t, FALSE)
  BY DEF StatProgram
<1> QED
  BY <1>4, <1>5, <1>6

\* The script goes on or fails.
LEMMA ScriptGoesOnSafe ==
  ASSUME RebuildInv, NEW t \in Terminals,
         ScriptCompiles(t) \/ ScriptFails(t) \/ LinkFails(t)
  PROVE  RebuildInv'
<1> DEFINE l == Last(copies[t])
<1>1. copies[t] # <<>> /\ l.at \in InScript /\ UNCHANGED Files
  BY DEF ScriptCompiles, ScriptFails, LinkFails, Runs, InScript
<1>2. l \in Copy /\ CopyOK(l) /\ Len(copies[t]) = 1
  BY <1>1, Here, Alone DEF InScript
<1>3. ~ l.built /\ srcVer \in Versions
  BY <1>1, <1>2 DEF CopyOK, InScript, RebuildInv, RebuildTypeOK
<1>4. CASE ScriptCompiles(t)
  <2> DEFINE c == [l EXCEPT !.at = "compiled", !.read = srcVer]
  <2>1. Becomes(t, c)
    BY <1>4 DEF ScriptCompiles
  <2> HIDE DEF l
  <2>2. /\ c \in Copy /\ c.at = "compiled" /\ c.read = srcVer /\ c.asked = l.asked
        /\ c.loaded = l.loaded /\ c.mine = l.mine /\ c.built = l.built
    BY <1>2, <1>3 DEF Copy, Places, InScript
  <2> HIDE DEF c
  <2>3. CopyOK(c)
    BY <1>2, <1>3, <2>2 DEF CopyOK
  <2> QED
    BY <1>1, <1>2, <2>1, <2>2, <2>3, GoesOn
<1>5. CASE ScriptFails(t) \/ LinkFails(t)
  <2> DEFINE c == [l EXCEPT !.at = "rebuilt"]
  <2>1. Becomes(t, c)
    BY <1>5 DEF ScriptFails, LinkFails, Goes
  <2> HIDE DEF l
  <2>2. /\ c \in Copy /\ c.at = "rebuilt" /\ c.asked = l.asked
        /\ c.loaded = l.loaded /\ c.mine = l.mine /\ c.built = l.built
    BY <1>2 DEF Copy, Places, InScript
  <2> HIDE DEF c
  <2>3. CopyOK(c)
    BY <1>2, <1>3, <2>2 DEF CopyOK
  <2> QED
    BY <1>1, <1>2, <2>1, <2>2, <2>3, GoesOn
<1> QED
  BY <1>4, <1>5

\* The new program is run: what it was loaded from is as new as its caller asked.
LEMMA RunNewSafe ==
  ASSUME RebuildInv, NEW t \in Terminals, RunNew(t)
  PROVE  RebuildInv'
<1> DEFINE l == Last(copies[t])
           w == [l EXCEPT !.at = "waiting"]
           stack == Append(Front(copies[t]), w)
<1>1. copies[t] # <<>> /\ l.at = "rebuilt" /\ UNCHANGED Files
  BY DEF RunNew, Runs
<1>2. /\ l \in Copy /\ CopyOK(l) /\ Len(copies[t]) = 1 /\ copies[t] \in Seq(Copy)
      /\ l = copies[t][1]
  BY <1>1, Here, Alone
<1>3. \/ /\ exeVer # Absent
         /\ copies' = [copies EXCEPT ![t] = Append(stack, Started(NewArgs(l.args)))]
      \/ copies' = [copies EXCEPT ![t] = stack]
      \/ Returns(t, FALSE)
  BY DEF RunNew
<1> HIDE DEF l
<1>4. /\ w \in Copy /\ w.at = "waiting" /\ w.asked = l.asked /\ w.loaded = l.loaded
      /\ w.mine = l.mine /\ w.built = l.built /\ w.args = l.args
  BY <1>2 DEF Copy, Places, InScript
<1> HIDE DEF w
<1>5. CopyOK(w)
  BY <1>2, <1>4 DEF CopyOK
<1>6. stack \in Seq(Copy) /\ Len(stack) = 1 /\ stack[1] = w
  BY <1>1, <1>2, <1>4, TopReplaced
<1> HIDE DEF stack
<1>7. CASE /\ exeVer # Absent
           /\ copies' = [copies EXCEPT ![t] = Append(stack, Started(NewArgs(l.args)))]
  <2> DEFINE new == Started(NewArgs(l.args))
             s == Append(stack, new)
  <2>1. l.args \in Seq(Args \cup {NoRebuild})
    BY <1>2 DEF Copy
  <2>2. NewArgs(l.args) \in Seq(Args \cup {NoRebuild})
    BY <2>1, NewArgsNested
  <2>3. /\ new \in Copy /\ CopyOK(new) /\ new.at = "called" /\ new.args = NewArgs(l.args)
        /\ new.loaded = exeVer
    BY <1>7, <2>2, StartedOK DEF Started
  <2> HIDE DEF new
  <2>4. s \in Seq(Copy) /\ Len(s) = 2 /\ s[1] = w /\ s[2] = new
    <3>1. /\ s \in Seq(Copy) /\ Len(s) = Len(stack) + 1 /\ s[Len(stack) + 1] = new
          /\ \A i \in 1..Len(stack) : s[i] = stack[i]
      BY <1>6, <2>3, AppendProperties
    <3>2. 1 + 1 = 2 /\ 1 \in 1..1
      OBVIOUS
    <3> HIDE DEF s
    <3> QED
      BY <1>6, <3>1, <3>2
  <2>5. copies' = [copies EXCEPT ![t] = s]
    BY <1>7 DEF new
  <2> HIDE DEF s
  <2>6. w.built => new.loaded >= w.asked
    BY <1>1, <1>2, <1>4, <1>7, <2>3 DEF CopyOK
  <2>7. StackOK(s)
    BY <1>4, <2>3, <2>4, <2>6 DEF StackOK
  <2>8. \A k \in 1..Len(s) : CopyOK(s[k])
    <3>1. \A k \in 1..Len(s) : k = 1 \/ k = 2
      BY <2>4
    <3> QED
      BY <1>5, <2>3, <2>4, <3>1
  <2>9. Last(s).at # "linking"
    BY <2>3, <2>4 DEF Last
  <2> QED
    BY <1>1, <2>4, <2>5, <2>7, <2>8, <2>9, OneTerminal
<1>8. CASE copies' = [copies EXCEPT ![t] = stack]
  <2>1. StackOK(stack) /\ \A k \in 1..Len(stack) : CopyOK(stack[k])
    BY <1>5, <1>6 DEF StackOK
  <2>2. Last(stack).at # "linking"
    BY <1>4, <1>6 DEF Last
  <2> QED
    BY <1>1, <1>6, <1>8, <2>1, <2>2, OneTerminal
<1>9. CASE Returns(t, FALSE)
  <2> DEFINE c == [l EXCEPT !.at = "work", !.told = FALSE]
  <2>1. Becomes(t, c)
    BY <1>9 DEF Returns, l
  <2>2. /\ c \in Copy /\ c.at = "work" /\ c.told = FALSE /\ c.asked = l.asked
        /\ c.loaded = l.loaded /\ c.mine = l.mine /\ c.built = l.built
    BY <1>2 DEF Copy, Places, InScript
  <2> HIDE DEF c
  <2>3. CopyOK(c)
    BY <1>2, <2>2 DEF CopyOK
  <2> QED
    BY <1>1, <1>2, <2>1, <2>2, <2>3, GoesOn
<1> QED
  BY <1>3, <1>7, <1>8, <1>9

\* Ctrl-C: the copy that called system() goes on, the others end.
LEMMA InterruptSafe ==
  ASSUME RebuildInv, NEW t \in Terminals, Interrupt(t)
  PROVE  RebuildInv'
<1> DEFINE l == Last(copies[t])
           c == [l EXCEPT !.at = "rebuilt"]
           s == IF l.at \in InScript THEN <<c>> ELSE <<>>
<1>1. copies[t] # <<>> /\ UNCHANGED Files /\ copies' = [copies EXCEPT ![t] = s]
  BY DEF Interrupt
<1>2. l \in Copy /\ CopyOK(l)
  BY <1>1, Here
<1> HIDE DEF l
<1>3. /\ c \in Copy /\ c.at = "rebuilt" /\ c.asked = l.asked
      /\ c.loaded = l.loaded /\ c.mine = l.mine /\ c.built = l.built
  BY <1>2 DEF Copy, Places, InScript
<1> HIDE DEF c
<1>4. l.at \in InScript => CopyOK(c)
  BY <1>2, <1>3 DEF CopyOK, InScript
<1>5. CASE l.at \in InScript
  <2>1. s \in Seq(Copy) /\ Len(s) = 1 /\ s[1] = c
    BY <1>3, <1>5
  <2> HIDE DEF s
  <2>2. StackOK(s) /\ (\A k \in 1..Len(s) : CopyOK(s[k])) /\ Last(s).at # "linking"
    BY <1>3, <1>4, <1>5, <2>1 DEF StackOK, Last
  <2> QED
    BY <1>1, <2>1, <2>2, OneTerminal
<1>6. CASE l.at \notin InScript
  <2>1. s = <<>>
    BY <1>6
  <2> HIDE DEF s
  <2>2. s \in Seq(Copy) /\ Len(s) = 0
    BY <2>1, EmptySeq
  <2>3. StackOK(s) /\ (\A k \in 1..Len(s) : CopyOK(s[k]))
    BY <2>2 DEF StackOK
  <2> QED
    BY <1>1, <2>1, <2>2, <2>3, OneTerminal
<1> QED
  BY <1>5, <1>6

-----------------------------------------------------------------------------
(* The actions that change neo or neo.c                                     *)

\* The linker removes neo: no copy is what neo holds any more.
LEMMA ScriptLinksSafe ==
  ASSUME RebuildInv, NEW t \in Terminals, ScriptLinks(t)
  PROVE  RebuildInv'
<1>1. /\ clock' = clock /\ srcVer' = srcVer /\ srcTime' = srcTime
      /\ exeVer' = Absent /\ exeTime' = exeTime
      /\ copies[t] # <<>> /\ Last(copies[t]).at = "compiled"
  BY DEF ScriptLinks, Runs
<1>2. /\ Len(copies[t]) = 1 /\ copies[t][1].at = "compiled"
  <2>1. Len(copies[t]) = 1
    BY <1>1, Alone
  <2> QED
    BY <1>1, <2>1 DEF Last
<1> DEFINE At2(u, k) == IF u = t /\ k = 1 THEN "linking" ELSE copies[u][k].at
<1>3. ASSUME NEW u \in Terminals
      PROVE  /\ copies[u] \in Seq(Copy)
             /\ copies'[u] = [k \in 1..Len(copies[u]) |->
                               [copies[u][k] EXCEPT !.mine = FALSE, !.at = At2(u, k)]]
  <2>1. copies[u] \in Seq(Copy)
    BY DEF RebuildInv, RebuildTypeOK
  <2>2. DOMAIN copies[u] = 1..Len(copies[u])
    BY <2>1, LenProperties
  <2> QED
    BY <1>2, <2>1, <2>2 DEF ScriptLinks
<1>4. ASSUME NEW u \in Terminals, NEW k \in 1..Len(copies[u])
      PROVE  LET c == copies[u][k]
                 d == [c EXCEPT !.mine = FALSE, !.at = At2(u, k)]
             IN  /\ c \in Copy /\ CopyOK(c) /\ d \in Copy /\ d.at = At2(u, k)
                 /\ ~ d.mine /\ d.loaded = c.loaded /\ d.args = c.args /\ d.argc = c.argc
                 /\ d.read = c.read /\ d.asked = c.asked /\ d.built = c.built
  <2> DEFINE c == copies[u][k]
  <2>1. c \in Copy /\ CopyOK(c)
    BY <1>3, <1>4, ElementOfSeq DEF RebuildInv
  <2> HIDE DEF c
  <2>2. At2(u, k) \in Places
    BY <2>1 DEF Places, InScript, Copy, c
  <2> HIDE DEF At2
  <2> DEFINE d == [c EXCEPT !.mine = FALSE, !.at = At2(u, k)]
  <2>3. /\ d \in Copy /\ d.at = At2(u, k)
        /\ ~ d.mine /\ d.loaded = c.loaded /\ d.args = c.args /\ d.argc = c.argc
        /\ d.read = c.read /\ d.asked = c.asked /\ d.built = c.built
    BY <2>1, <2>2 DEF Copy
  <2> QED
    BY <2>1, <2>3 DEF c
<1>5. ASSUME NEW u \in Terminals
      PROVE  /\ copies'[u] \in Seq(Copy) /\ Len(copies'[u]) = Len(copies[u])
             /\ \A k \in 1..Len(copies[u]) :
                  /\ copies'[u][k].at = At2(u, k) /\ ~ copies'[u][k].mine
                  /\ copies'[u][k].loaded = copies[u][k].loaded
                  /\ copies'[u][k].args = copies[u][k].args
                  /\ copies'[u][k].argc = copies[u][k].argc
                  /\ copies'[u][k].read = copies[u][k].read
                  /\ copies'[u][k].asked = copies[u][k].asked
                  /\ copies'[u][k].built = copies[u][k].built
  <2> DEFINE e(k) == [copies[u][k] EXCEPT !.mine = FALSE, !.at = At2(u, k)]
             n == Len(copies[u])
  <2>1. n \in Nat /\ copies'[u] = [k \in 1..n |-> e(k)] /\ \A k \in 1..n : e(k) \in Copy
    BY <1>3, <1>4, LenProperties
  <2>2. [k \in 1..n |-> e(k)] \in Seq(Copy) /\ Len([k \in 1..n |-> e(k)]) = n
    <3> HIDE DEF e, n
    <3> QED
      BY <2>1
  <2>3. \A k \in 1..n : copies'[u][k] = e(k)
    <3> HIDE DEF e
    <3> QED
      BY <2>1
  <2>4. \A k \in 1..n :
          /\ e(k).at = At2(u, k) /\ ~ e(k).mine
          /\ e(k).loaded = copies[u][k].loaded
          /\ e(k).args = copies[u][k].args
          /\ e(k).argc = copies[u][k].argc
          /\ e(k).read = copies[u][k].read
          /\ e(k).asked = copies[u][k].asked
          /\ e(k).built = copies[u][k].built
    <3> HIDE DEF At2
    <3> QED
      BY <1>4
  <2> HIDE DEF e, At2
  <2> QED
    BY <2>1, <2>2, <2>3, <2>4
<1>6. RebuildTypeOK'
  BY <1>1, <1>5, <1>3 DEF RebuildInv, RebuildTypeOK, ScriptLinks
<1>7. StampsTell'
  BY <1>1 DEF StampsTell
<1>8. ASSUME NEW u \in Terminals PROVE StackOK(copies'[u])
  <2>1. StackOK(copies[u]) /\ Len(copies'[u]) = Len(copies[u])
    BY <1>5 DEF RebuildInv
  <2>2. CASE Len(copies[u]) = 2
    <3>1. 1 \in 1..Len(copies[u]) /\ 2 \in 1..Len(copies[u])
      BY <2>2
    <3>2. At2(u, 1) = "waiting" /\ At2(u, 2) = copies[u][2].at
      BY <1>2, <2>1, <2>2 DEF StackOK
    <3> HIDE DEF At2
    <3> QED
      BY <1>5, <2>1, <2>2, <3>1, <3>2 DEF StackOK
  <2> QED
    BY <2>1, <2>2 DEF StackOK
<1>9. ASSUME NEW u \in Terminals, NEW k \in 1..Len(copies'[u]) PROVE CopyOK(copies[u][k])'
  <2>1. k \in 1..Len(copies[u]) /\ CopyOK(copies[u][k])
    BY <1>4, <1>5, <1>9
  <2>2. u = t /\ k = 1 => copies[u][k].at = "compiled"
    BY <1>2
  <2>3. /\ copies'[u][k].at = At2(u, k) /\ ~ copies'[u][k].mine
        /\ copies'[u][k].loaded = copies[u][k].loaded
        /\ copies'[u][k].args = copies[u][k].args
        /\ copies'[u][k].argc = copies[u][k].argc
        /\ copies'[u][k].read = copies[u][k].read
        /\ copies'[u][k].asked = copies[u][k].asked
        /\ copies'[u][k].built = copies[u][k].built
    BY <1>5, <2>1
  <2> QED
    BY <1>1, <2>1, <2>2, <2>3 DEF CopyOK
<1>10. (\A u \in Terminals : StackOK(copies[u]))'
  BY <1>8 DEF StackOK
<1> QED
  BY <1>6, <1>7, <1>9, <1>10 DEF RebuildInv

\* What a copy that is linking has read is neo.c as it is, and the others follow
\* from that.
LEMMA ScriptDoneSafe ==
  ASSUME RebuildInv, NEW t \in Terminals, ScriptDone(t)
  PROVE  RebuildInv'
<1> DEFINE l == Last(copies[t])
           c == [l EXCEPT !.at = "rebuilt", !.built = TRUE]
           s == Append(Front(copies[t]), c)
<1>1. /\ clock' = clock /\ srcVer' = srcVer /\ srcTime' = srcTime
      /\ exeVer' = l.read /\ exeTime' = clock /\ copies' = [copies EXCEPT ![t] = s]
      /\ copies[t] # <<>> /\ l.at = "linking"
  BY DEF ScriptDone, Runs, Becomes
<1>2. /\ l \in Copy /\ CopyOK(l) /\ Len(copies[t]) = 1 /\ copies[t] \in Seq(Copy)
      /\ copies[t][1] = l
  BY <1>1, Here, Alone
<1>3. Linking
  BY <1>1 DEF Linking, Runs
<1>4. l.read = srcVer /\ exeVer \in {Absent, srcVer} /\ l.asked <= srcVer
  BY <1>1, <1>2 DEF CopyOK
<1> HIDE DEF l
<1>5. /\ c \in Copy /\ c.at = "rebuilt" /\ c.loaded = l.loaded
      /\ c.asked = l.asked /\ c.mine = l.mine
  BY <1>2 DEF Copy, Places, InScript
<1>6. s \in Seq(Copy) /\ Len(s) = 1 /\ s[1] = c
  BY <1>1, <1>2, <1>5, TopReplaced
<1> HIDE DEF c, s
<1>7. \A u \in Terminals : copies'[u] = IF u = t THEN s ELSE copies[u]
  BY <1>1 DEF RebuildInv, RebuildTypeOK
<1>8. RebuildTypeOK'
  BY <1>1, <1>4, <1>6 DEF RebuildInv, RebuildTypeOK
<1>9. StampsTell'
  BY <1>1, <1>4 DEF StampsTell
<1>10. (\A u \in Terminals : StackOK(copies[u]))'
  <2>1. StackOK(s)
    BY <1>6 DEF StackOK
  <2> QED
    BY <1>7, <2>1 DEF RebuildInv, StackOK
<1>11. \A x \in Copy : CopyOK(x) /\ x.mine => x.loaded = srcVer
  BY <1>4 DEF CopyOK, Copy, Versions, Absent
<1>12. srcVer \in Nat /\ Absent # srcVer
  BY RebuildAssumption DEF RebuildInv, RebuildTypeOK, Versions, Absent
<1>13. ASSUME NEW u \in Terminals, NEW k \in 1..Len(copies'[u]) PROVE CopyOK(copies[u][k])'
  <2>1. CASE u = t
    <3>1. copies'[u][k] = c
      BY <1>6, <1>7, <1>13, <2>1
    <3>2. c.mine => c.loaded = srcVer
      BY <1>2, <1>5, <1>11
    <3> QED
      BY <1>1, <1>4, <1>5, <1>12, <3>1, <3>2 DEF CopyOK
  <2>2. CASE u # t
    <3> DEFINE x == copies[u][k]
    <3>1. x \in Copy /\ CopyOK(x) /\ copies'[u][k] = x
      BY <1>7, <1>13, <2>2, ElementOfSeq DEF RebuildInv, RebuildTypeOK
    <3>2. x.mine => x.loaded = srcVer
      BY <1>11, <3>1
    <3>3. x.at = "stated" /\ x.mine => x.asked = srcVer
      BY <1>3, <3>1 DEF CopyOK
    <3> HIDE DEF x
    <3> QED
      BY <1>1, <1>4, <1>12, <3>1, <3>2, <3>3 DEF CopyOK
  <2> QED
    BY <2>1, <2>2
<1> QED
  BY <1>8, <1>9, <1>10, <1>13 DEF RebuildInv

\* No copy is compiling or linking unless it is the running one of its terminal.
LEMMA OnlyTopBuilds ==
  ASSUME RebuildInv, NEW t \in Terminals, NEW k \in 1..Len(copies[t]),
         copies[t][k].at \in {"compiled", "linking"}
  PROVE  Runs(t, copies[t][k].at)
<1>1. copies[t] \in Seq(Copy) /\ copies[t] # <<>>
  BY EmptySeq DEF RebuildInv, RebuildTypeOK
<1>2. /\ Len(copies[t]) \in {1, 2} /\ StackOK(copies[t])
  BY <1>1, Here
<1>3. k = Len(copies[t])
  <2>1. CASE Len(copies[t]) = 1
    BY <2>1
  <2>2. CASE Len(copies[t]) = 2
    <3>1. k = 1 \/ k = 2
      BY <2>2
    <3> QED
      BY <1>2, <2>2, <3>1 DEF StackOK
  <2> QED
    BY <1>2, <2>1, <2>2
<1> QED
  BY <1>1, <1>3 DEF Runs, Last

\* The clock, the editor, and a user who makes neo by hand.
LEMMA SurroundingsSafe ==
  ASSUME RebuildInv, Tick \/ Edit \/ Bootstrap
  PROVE  RebuildInv'
<1>1. copies' = copies
  BY DEF Tick, Edit, Bootstrap
<1>2. (\A u \in Terminals : StackOK(copies[u]))'
  BY <1>1 DEF RebuildInv, StackOK
<1>3. Linking' => Linking
  BY <1>1 DEF Linking, Runs
<1>4. \A u \in Terminals : \A k \in 1..Len(copies[u]) :
        copies[u][k] \in Copy /\ CopyOK(copies[u][k])
  BY ElementOfSeq DEF RebuildInv, RebuildTypeOK
<1>5. /\ srcVer \in Nat /\ MaxVer \in Nat /\ clock \in Nat /\ MaxClock \in Nat /\ exeTime \in Nat
      /\ srcVer >= 1
  BY RebuildAssumption DEF RebuildInv, RebuildTypeOK, Versions, Times
<1>6. CASE Tick
  <2>1. RebuildTypeOK' /\ StampsTell'
    BY <1>5, <1>6 DEF Tick, RebuildInv, RebuildTypeOK, StampsTell, OutOfDate, Times
  <2>2. ASSUME NEW u \in Terminals, NEW k \in 1..Len(copies'[u]) PROVE CopyOK(copies[u][k])'
    BY <1>1, <1>3, <1>4, <1>6, <2>2 DEF Tick, CopyOK
  <2> QED
    BY <1>2, <2>1, <2>2 DEF RebuildInv
<1>7. CASE Edit
  <2>1. RebuildTypeOK' /\ StampsTell'
    BY <1>5, <1>7 DEF Edit, RebuildInv, RebuildTypeOK, StampsTell, OutOfDate, Times, Versions
  <2>2. \A t \in Terminals : ~ Runs(t, "compiled") /\ ~ Runs(t, "linking")
    BY <1>7 DEF Edit
  <2>3. ~ Linking
    BY <2>2 DEF Linking
  <2>4. ASSUME NEW u \in Terminals, NEW k \in 1..Len(copies'[u]) PROVE CopyOK(copies[u][k])'
    <3> DEFINE x == copies[u][k]
    <3>1. x.at \notin {"compiled", "linking"}
      BY <1>1, <2>2, <2>4, OnlyTopBuilds
    <3>2. x \in Copy /\ CopyOK(x) /\ x.asked \in Nat /\ copies'[u][k] = x
      BY <1>1, <1>4, <2>4, RebuildAssumption DEF Copy, Versions
    <3>3. x.asked <= srcVer'
      BY <1>5, <1>7, <3>2 DEF Edit, CopyOK
    <3> HIDE DEF x
    <3> QED
      BY <1>3, <1>7, <2>3, <3>1, <3>2, <3>3 DEF Edit, CopyOK
  <2> QED
    BY <1>2, <2>1, <2>4 DEF RebuildInv
<1>8. CASE Bootstrap
  <2>1. RebuildTypeOK' /\ StampsTell'
    BY <1>8 DEF Bootstrap, RebuildInv, RebuildTypeOK, StampsTell
  <2>2. \A t \in Terminals : ~ Runs(t, "linking")
    BY <1>8 DEF Bootstrap
  <2>3. ~ Linking
    BY <2>2 DEF Linking
  <2>4. ASSUME NEW u \in Terminals, NEW k \in 1..Len(copies'[u]) PROVE CopyOK(copies[u][k])'
    <3> DEFINE x == copies[u][k]
    <3>1. x.at # "linking"
      BY <1>1, <2>2, <2>4, OnlyTopBuilds
    <3>2. x \in Copy /\ CopyOK(x) /\ copies'[u][k] = x
      BY <1>1, <1>4, <2>4
    <3>3. ~ x.mine
      BY <1>8, <3>2 DEF Bootstrap, CopyOK, Copy, Versions, Absent
    <3> HIDE DEF x
    <3> QED
      BY <1>3, <1>8, <2>3, <3>1, <3>2, <3>3 DEF Bootstrap, CopyOK
  <2> QED
    BY <1>2, <2>1, <2>4 DEF RebuildInv
<1> QED
  BY <1>6, <1>7, <1>8

LEMMA RebuildInductive ==
  ASSUME RebuildInv, [RebuildNext]_rebuildVars
  PROVE  RebuildInv'
<1>1. CASE UNCHANGED rebuildVars
  <2>1. /\ clock' = clock /\ srcVer' = srcVer /\ srcTime' = srcTime
        /\ exeVer' = exeVer /\ exeTime' = exeTime /\ copies' = copies
    BY <1>1 DEF rebuildVars
  <2>2. RebuildTypeOK' /\ StampsTell'
    BY <2>1 DEF RebuildInv, RebuildTypeOK, StampsTell, OutOfDate
  <2>3. (\A u \in Terminals : StackOK(copies[u]))'
    BY <2>1 DEF RebuildInv, StackOK
  <2>4. Linking' => Linking
    BY <2>1 DEF Linking, Runs
  <2>5. ASSUME NEW u \in Terminals, NEW k \in 1..Len(copies'[u]) PROVE CopyOK(copies[u][k])'
    <3>1. CopyOK(copies[u][k])
      BY <2>1, <2>5 DEF RebuildInv
    <3> QED
      BY <2>1, <2>4, <3>1 DEF CopyOK
  <2> QED
    BY <2>2, <2>3, <2>5 DEF RebuildInv
<1>2. ASSUME NEW t \in Terminals, ExitAfterNew(t) \/ WorkEnds(t) PROVE RebuildInv'
  BY <1>2, Pops DEF ExitAfterNew, WorkEnds, Runs
<1>3. ASSUME NEW t \in Terminals, InProgram(t) PROVE RebuildInv'
  BY <1>2, <1>3, SeesFlagSafe, StatSourceSafe, StatProgramSafe, ScriptGoesOnSafe,
     ScriptLinksSafe, ScriptDoneSafe, RunNewSafe DEF InProgram
<1>4. ASSUME NEW t \in Terminals, Start(t) \/ InProgram(t) \/ Interrupt(t) PROVE RebuildInv'
  BY <1>3, <1>4, StartSafe, InterruptSafe
<1>5. CASE Tick \/ Edit \/ Bootstrap
  BY <1>5, SurroundingsSafe
<1> QED
  BY <1>1, <1>4, <1>5 DEF RebuildNext

LEMMA RebuildInvariant == RebuildSpec => []RebuildInv
<1>1. RebuildInv /\ [RebuildNext]_rebuildVars => RebuildInv'
  BY RebuildInductive
<1> QED
  BY <1>1, RebuildInitial, PTL DEF RebuildSpec

\* What a copy that waits may become.
StillWaits(t) == copies'[t] = <<>> \/ copies'[t][1].at = "waiting"

LEMMA WaitingStays ==
  ASSUME RebuildInv, RebuildNext, NEW t \in Terminals, copies[t] # <<>>,
         copies[t][1].at = "waiting"
  PROVE  StillWaits(t)
<1> DEFINE l == Last(copies[t])
<1>1. /\ copies[t] \in Seq(Copy) /\ Len(copies[t]) \in {1, 2} /\ StackOK(copies[t])
      /\ l = copies[t][Len(copies[t])] /\ l \in Copy
  BY Here
<1>2. Len(copies[t]) = 1 => l.at = "waiting"
  BY <1>1
<1>3. Len(copies[t]) = 2 => l.at \in {"called", "work"} /\ IsNested(l)
  <2> SUFFICES ASSUME Len(copies[t]) = 2 PROVE l.at \in {"called", "work"} /\ IsNested(l)
    OBVIOUS
  <2>1. l.at \in {"called", "work"} /\ l.args = NewArgs(copies[t][1].args)
    BY <1>1 DEF StackOK
  <2>2. copies[t][1].args \in Seq(Args \cup {NoRebuild})
    BY Here DEF Copy
  <2> QED
    BY <2>1, <2>2, NewArgsNested DEF IsNested
<1>4. l.at \in {"waiting", "called", "work"} /\ (l.at = "called" => IsNested(l))
  BY <1>1, <1>2, <1>3
<1>5. \A u \in Terminals : copies[u] \in Seq(Copy)
  BY DEF RebuildInv, RebuildTypeOK
<1>6. ASSUME NEW u \in Terminals, NEW s, copies' = [copies EXCEPT ![u] = s],
             u = t => s = <<>> \/ s[1].at = "waiting"
      PROVE  StillWaits(t)
  BY <1>6 DEF StillWaits, RebuildInv, RebuildTypeOK
<1>7. ASSUME NEW u \in Terminals, copies' = [copies EXCEPT ![u] = Front(@)]
      PROVE  StillWaits(t)
  <2>1. copies' = [copies EXCEPT ![u] = Front(copies[u])]
    BY <1>7
  <2>2. Front(copies[t]) = <<>> \/ Front(copies[t])[1].at = "waiting"
    <3>1. /\ Front(copies[t]) \in Seq(Copy) /\ Len(Front(copies[t])) = Len(copies[t]) - 1
          /\ \A i \in 1..(Len(copies[t]) - 1) : Front(copies[t])[i] = copies[t][i]
      BY <1>1, TopDropped
    <3> QED
      BY <1>1, <3>1, EmptySeq
  <2> QED
    BY <1>6, <2>1, <2>2
<1>8. ASSUME NEW u \in Terminals, NEW c, Becomes(u, c), u = t => Len(copies[t]) = 2
      PROVE  StillWaits(t)
  <2> DEFINE s == Append(Front(copies[u]), c)
  <2>1. copies' = [copies EXCEPT ![u] = s]
    BY <1>8 DEF Becomes
  <2>2. u = t => s[1] = copies[t][1]
    <3> SUFFICES ASSUME u = t PROVE s[1] = copies[t][1]
      OBVIOUS
    <3>1. 1 \in 1..Len(copies[t]) /\ 1 # Len(copies[t])
      BY <1>8
    <3> DEFINE S == Copy \cup {c}
    <3>2. copies[t] \in Seq(S) /\ c \in S
      BY <1>1, SeqMonotonic
    <3> HIDE DEF S
    <3>3. \A k \in 1..Len(copies[t]) : Append(Front(copies[t]), c)[k] =
                                          IF k = Len(copies[t]) THEN c ELSE copies[t][k]
      BY <3>2, TopReplaced
    <3> QED
      BY <3>1, <3>3
  <2> HIDE DEF s
  <2> QED
    BY <1>6, <2>1, <2>2
\* An action that needs the running copy anywhere else is of another terminal.
<1>9. ASSUME NEW u \in Terminals, copies[u] # <<>>,
             \/ Last(copies[u]).at \notin {"waiting", "called", "work"}
             \/ Last(copies[u]).at = "called" /\ ~ IsNested(Last(copies[u]))
      PROVE  u # t
  BY <1>4, <1>9
<1>10. ASSUME NEW u \in Terminals, SeesFlag(u) PROVE StillWaits(t)
  <2>1. Last(copies[u]).at = "called" /\ \E c : Becomes(u, c)
    BY <1>10 DEF SeesFlag, Runs
  <2>2. u = t => Len(copies[t]) = 2
    BY <1>1, <1>2, <2>1
  <2> QED
    BY <1>8, <2>1, <2>2
<1>11. ASSUME NEW u \in Terminals,
              \/ StatSource(u) \/ StatProgram(u)
              \/ ScriptCompiles(u) \/ ScriptFails(u) \/ ScriptDone(u) \/ LinkFails(u)
       PROVE  StillWaits(t)
  <2>1. \E c : Becomes(u, c)
    BY <1>11 DEF StatSource, StatProgram, ScriptCompiles, ScriptFails, ScriptDone, LinkFails,
                 Goes, Returns
  <2>2. \/ Runs(u, "called") /\ ~ IsNested(Last(copies[u]))
        \/ \E place \in {"stated", "script", "compiled", "linking"} : Runs(u, place)
    BY <1>11 DEF StatSource, StatProgram, ScriptCompiles, ScriptFails, ScriptDone, LinkFails
  <2>3. u # t
    BY <1>9, <2>2 DEF Runs
  <2> QED
    BY <1>8, <2>1, <2>3
<1>12. ASSUME NEW u \in Terminals, ScriptLinks(u) PROVE StillWaits(t)
  <2>1. u # t
    <3>1. Runs(u, "compiled")
      BY <1>12 DEF ScriptLinks
    <3> QED
      BY <1>9, <3>1 DEF Runs
  <2>2. copies'[t] = [k \in DOMAIN copies[t] |->
                        [copies[t][k] EXCEPT !.mine = FALSE,
                           !.at = IF t = u /\ k = Len(copies[u]) THEN "linking" ELSE @]]
    BY <1>12 DEF ScriptLinks
  <2>3. 1 \in DOMAIN copies[t] /\ copies[t][1] \in Copy
    BY <1>1, Here, LenProperties
  <2>4. copies'[t][1] = [copies[t][1] EXCEPT !.mine = FALSE, !.at = @]
    BY <2>1, <2>2, <2>3
  <2>5. copies'[t][1].at = copies[t][1].at
    BY <2>3, <2>4 DEF Copy
  <2> QED
    BY <2>5 DEF StillWaits
<1>13. ASSUME NEW u \in Terminals, RunNew(u) \/ Start(u) PROVE StillWaits(t)
  <2>1. u # t
    <3>1. Runs(u, "rebuilt") \/ copies[u] = <<>>
      BY <1>13 DEF RunNew, Start
    <3> QED
      BY <1>9, <3>1 DEF Runs
  <2>2. \E s : copies' = [copies EXCEPT ![u] = s]
    BY <1>13 DEF RunNew, Start, Returns, Becomes
  <2> QED
    BY <1>6, <2>1, <2>2
<1>14. ASSUME NEW u \in Terminals, Interrupt(u) PROVE StillWaits(t)
  <2> DEFINE s == IF Last(copies[u]).at \in InScript
                  THEN <<[Last(copies[u]) EXCEPT !.at = "rebuilt"]>> ELSE <<>>
  <2>1. copies' = [copies EXCEPT ![u] = s] /\ copies[u] # <<>>
    BY <1>14 DEF Interrupt
  <2>2. u = t => s = <<>>
    <3>1. Last(copies[t]).at \notin InScript
      BY <1>4 DEF InScript
    <3> QED
      BY <3>1
  <2> HIDE DEF s
  <2> QED
    BY <1>6, <2>1, <2>2
<1>15. ASSUME NEW u \in Terminals, ExitAfterNew(u) \/ WorkEnds(u) PROVE StillWaits(t)
  BY <1>7, <1>15 DEF ExitAfterNew, WorkEnds
<1>16. CASE Tick \/ Edit \/ Bootstrap
  BY <1>16 DEF Tick, Edit, Bootstrap, StillWaits
<1> QED
  BY <1>10, <1>11, <1>12, <1>13, <1>14, <1>15, <1>16 DEF RebuildNext, InProgram

-----------------------------------------------------------------------------
(* What neorebuild keeps to, in every behaviour of any number of terminals. *)

(* Each variable keeps its type: no program is made of a neo.c there never  *)
(* was, and none is given fewer than no arguments.                          *)
THEOREM RebuildTypes == RebuildSpec => []RebuildTypeOK
<1>1. RebuildInv => RebuildTypeOK
  BY DEF RebuildInv
<1> QED
  BY <1>1, RebuildInvariant, PTL

(* The comparison of st_mtime in neorebuild is enough: a neo that is not    *)
(* older than neo.c was made of that neo.c.                                 *)
THEOREM StampsAreEnough == RebuildSpec => []StampsTell
<1>1. RebuildInv => StampsTell
  BY DEF RebuildInv
<1> QED
  BY <1>1, RebuildInvariant, PTL

(* A copy that neorebuild told to go on runs a current program, although    *)
(* neo.c was edited and neo replaced by others between its two stats.       *)
THEOREM OnlyCurrentWorks == RebuildSpec => []WorksCurrent
<1>1. ASSUME RebuildInv PROVE WorksCurrent
  <2> SUFFICES ASSUME NEW t \in Terminals, Runs(t, "work")
               PROVE  LET c == Last(copies[t])
                      IN  c.told /\ ~ IsNested(c) /\ c.mine => c.loaded = c.asked
    BY DEF WorksCurrent
  <2>1. CopyOK(Last(copies[t]))
    BY <1>1, Here DEF Runs
  <2> QED
    BY <2>1 DEF CopyOK, Runs
<1> QED
  BY <1>1, RebuildInvariant, PTL

(* The program run after a rebuild is at least as new as the neo.c its      *)
(* caller has looked at, whoever replaced neo in between.                   *)
THEOREM NewProgramIsNew == RebuildSpec => []NewIsNew
<1>1. RebuildInv => NewIsNew
  BY DEF RebuildInv, StackOK, NewIsNew
<1> QED
  BY <1>1, RebuildInvariant, PTL

(* A new program never runs a third one, however rebuilds fail.             *)
THEOREM NestsAtMostOnce == RebuildSpec => []NestsOnce
<1>1. RebuildInv => NestsOnce
  BY DEF RebuildInv, StackOK, NestsOnce
<1> QED
  BY <1>1, RebuildInvariant, PTL

(* The main program of the new neo sees the arguments of the old one, for   *)
(* argument lists of any length, with and without --no-rebuild in them.     *)
THEOREM ArgumentsPassOn == RebuildSpec => []SameArguments
<1>1. RebuildInv => SameArguments
  <2> SUFFICES ASSUME RebuildInv, NEW t \in Terminals, Runs(t, "work"), Len(copies[t]) = 2
               PROVE  SubSeq(copies[t][2].args, 1, copies[t][2].argc) = copies[t][1].args
    BY DEF SameArguments
  <2>1. StackOK(copies[t]) /\ copies[t][2].at = "work"
    BY DEF RebuildInv, Runs, Last
  <2> QED
    BY <2>1 DEF StackOK
<1> QED
  BY <1>1, RebuildInvariant, PTL

(* A copy that has run the new program only waits and ends.                 *)
THEOREM OnlyOneBuilds == RebuildSpec => HandsOver
<1> DEFINE A == \A t \in Terminals : copies[t] # <<>> /\ copies[t][1].at = "waiting" =>
                  copies'[t] = <<>> \/ copies'[t][1].at = "waiting"
<1>1. RebuildInv /\ [RebuildNext]_rebuildVars => [A]_rebuildVars
  BY WaitingStays DEF StillWaits
<1>2. RebuildSpec => [][A]_rebuildVars
  <2> HIDE DEF A
  <2> QED
    BY <1>1, RebuildInvariant, PTL DEF RebuildSpec
<1> QED
  BY <1>2 DEF HandsOver

=============================================================================
