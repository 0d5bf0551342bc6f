--------------------------- MODULE NeoCmd_proofs ---------------------------
(***************************************************************************)
(* Proofs about NeoCmd: no string is leaked, a sound command renders what   *)
(* was appended to it, and using it is never undefined.  They rest on one   *)
(* invariant, CmdInv, which ties the history (given, sound) to the array.   *)
(*                                                                          *)
(* And about DynArrOrder: what sort, max and min do to the array of such a  *)
(* command.  A merge takes, turn by turn, the first of what is left; a sort *)
(* is an induction over the length of the range.                            *)
(***************************************************************************)
EXTENDS NeoCmd, DynArrOrder, SequenceTheorems, WellFoundedInduction, TLAPS

\* What is stored lies in slots that the loops over the array can read.
Stored == \A i \in Index : cell[i] # Junk => i \in Slots /\ ~ isEmpty

\* The array holds the arguments given, each in a string of its own.
HoldsArguments ==
  /\ isEmpty <=> given = <<>>
  /\ given # <<>> => last = Len(given) - 1
  /\ \A i \in 0..(Len(given) - 1) :
       /\ i \in Index
       /\ cell[i] \in live
       /\ text[cell[i]] = given[i + 1]
  /\ \A i, j \in 0..(Len(given) - 1) : cell[i] = cell[j] => i = j

Holds == sound /\ cmd \in {"ready", "appending"} => HoldsArguments

CmdInv == /\ CmdTypeOK
          /\ TableCovers
          /\ Stored
          /\ NoLeak
          /\ isEmpty => last = 0
          /\ cmd = "none" => live = {}
          /\ cmd = "appending" => rendered = NoText
          /\ Holds
          /\ RenderFaithful
          /\ SoundIsDefined

-----------------------------------------------------------------------------
(* The array                                                                *)

\* A node number is a number.
LEMMA NodeNumber == \A i \in Index : i \in Nat /\ NodeOf(i) \in Nat
  BY ArrAssumption, SMT DEF Index, NodeOf

\* What dyn_arr_append does: it makes room at AppendTo, keeps every other item
\* and every node, and, when it succeeds, stores the new item there.
LEMMA AppendFacts ==
  ASSUME ArrTypeOK, TableCovers, isEmpty => last = 0,
         NEW s \in Items, NEW ok \in BOOLEAN, ArrAppend(s, ok)
  PROVE  /\ ArrTypeOK' /\ TableCovers'
         /\ AppendTo \in Index /\ last' = AppendTo /\ last' >= last
         /\ isEmpty' = FALSE
         /\ nodes \subseteq nodes' /\ len' >= len
         /\ ok => /\ cell' = [cell EXCEPT ![AppendTo] = s]
                  /\ NodeOf(AppendTo) \in nodes'
         /\ ~ ok => cell' = cell
<1> DEFINE n == NodeOf(AppendTo)
<1>1. AppendTo \in Index /\ n \in Nat /\ AppendTo \in Nat
  BY NodeNumber DEF ArrAppend
<1>2. last' = AppendTo /\ last' >= last /\ last' \in Nat
  BY <1>1 DEF ArrAppend, SetAt, AppendTo, ArrTypeOK
<1>3. ASSUME NEW m \in GrowLen(n) PROVE m \in Nat /\ m > n
  BY <1>1, <1>3 DEF GrowLen
<1>4. CASE ok
  <2>1. NodeFor(n) /\ cell' = [cell EXCEPT ![AppendTo] = s] /\ isEmpty' = FALSE
    BY <1>4 DEF ArrAppend, SetAt
  <2>2. nodes' = nodes \cup {n} /\ len' \in Nat /\ len' >= len /\ n < len'
    <3>1. CASE n < len
      BY <1>1, <2>1, <3>1 DEF NodeFor, ArrTypeOK
    <3>2. CASE ~ (n < len)
      <4>1. len' \in GrowLen(n) /\ nodes' = nodes \cup {n}
        BY <2>1, <3>2 DEF NodeFor
      <4> QED BY <1>1, <1>3, <3>2, <4>1 DEF ArrTypeOK
    <3> QED BY <3>1, <3>2
  <2>3. ArrTypeOK'
    BY <1>1, <1>2, <2>1, <2>2 DEF ArrTypeOK, Index
  <2>4. TableCovers'
    BY <1>1, <2>2 DEF TableCovers, ArrTypeOK
  <2> HIDE DEF n
  <2> QED BY <1>1, <1>2, <1>4, <2>1, <2>2, <2>3, <2>4 DEF n
<1>5. CASE ~ ok
  <2>1. NoNodeFor(n) /\ isEmpty' = FALSE
    BY <1>5 DEF ArrAppend, SetAt
  <2>2. nodes' = nodes /\ cell' = cell /\ len' \in Nat /\ len' >= len
    <3>1. CASE len' = len
      BY <2>1, <3>1 DEF NoNodeFor, ArrTypeOK
    <3>2. CASE n >= len /\ len' \in GrowLen(n)
      BY <1>1, <1>3, <2>1, <3>2 DEF NoNodeFor, ArrTypeOK
    <3> QED BY <2>1, <3>1, <3>2 DEF NoNodeFor
  <2>3. ArrTypeOK'
    BY <1>2, <2>1, <2>2 DEF ArrTypeOK, Index
  <2>4. TableCovers'
    BY <2>2 DEF TableCovers, ArrTypeOK
  <2> QED BY <1>1, <1>2, <1>5, <2>1, <2>2, <2>3, <2>4
<1> QED BY <1>4, <1>5

\* A slot that could be read before an append can be read after it.
LEMMA SlotsGrow ==
  ASSUME ArrTypeOK, last' \in Nat, len' \in Nat, last' >= last, len' >= len,
         nodes \subseteq nodes'
  PROVE  Slots \subseteq Slots'
  BY NodeNumber DEF Slots, Readable, ArrTypeOK, Index

\* cleanup_arg_array is defined when every slot holds a live string of its own.
LEMMA ReleaseDefined ==
  ASSUME NEW at, NEW slots, NEW next, live \subseteq Items,
         \A i \in slots : at[i] \in live,
         \A i, j \in slots : at[i] = at[j] => i = j,
         next # "undefined",
         Release(at, slots, next)
  PROVE  cmd' = next
<1>1. Junk \notin live
  BY ArrAssumption
<1>2. \A i \in slots : ~ MaybeNull(at[i])
  BY <1>1 DEF MaybeNull
<1> QED BY <1>1, <1>2 DEF Release

\* The slots of a sound command are those of its arguments.
LEMMA SoundSlots ==
  ASSUME CmdInv, sound, given # <<>>, cmd \in {"ready", "appending"}
  PROVE  /\ Slots = 0..(Len(given) - 1)
         /\ last = Len(given) - 1
         /\ \A i \in 0..last : i \in Slots /\ cell[i] \in live /\ text[cell[i]] = given[i + 1]
         /\ \A i, j \in 0..last : cell[i] = cell[j] => i = j
<1>1. /\ last = Len(given) - 1
      /\ \A i \in 0..last : i \in Index /\ cell[i] \in live /\ text[cell[i]] = given[i + 1]
      /\ \A i, j \in 0..last : cell[i] = cell[j] => i = j
  BY DEF CmdInv, Holds, HoldsArguments
<1>2. Junk \notin live
  BY ArrAssumption DEF CmdInv, CmdTypeOK
<1>3. \A i \in 0..last : i \in Slots
  BY <1>1, <1>2 DEF CmdInv, Stored
<1>4. Slots \subseteq 0..last
  BY NodeNumber DEF Slots, CmdInv, CmdTypeOK, ArrTypeOK
<1> QED BY <1>1, <1>3, <1>4

-----------------------------------------------------------------------------
(* The invariant                                                            *)

LEMMA CmdInitInv == CmdInit => CmdInv
<1> SUFFICES ASSUME CmdInit PROVE CmdInv
  OBVIOUS
<1>1. cell = Fresh /\ nodes = {} /\ len = 0 /\ last = 0 /\ isEmpty = TRUE
  BY DEF CmdInit, NoArr
<1>2. cell \in [Index -> Items \cup {Junk}] /\ \A i \in Index : cell[i] = Junk
  BY <1>1 DEF Fresh
<1>3. CmdTypeOK
  BY <1>1, <1>2 DEF CmdInit, CmdTypeOK, ArrTypeOK, NoText
<1>4. TableCovers /\ Stored
  BY <1>1, <1>2 DEF TableCovers, Stored
<1>5. NoLeak /\ Holds /\ RenderFaithful /\ SoundIsDefined
  BY DEF CmdInit, NoLeak, Holds, HoldsArguments, RenderFaithful, SoundIsDefined, NoText
<1> QED BY <1>1, <1>3, <1>4, <1>5 DEF CmdInv, CmdInit

LEMMA CreateInv == CmdInv /\ Create => CmdInv'
<1> SUFFICES ASSUME CmdInv, Create PROVE CmdInv'
  OBVIOUS
<1>1. /\ cell' = Fresh /\ last' = 0 /\ isEmpty' = TRUE /\ cmd' = "ready"
      /\ rendered' = NoText /\ given' = <<>> /\ sound' = TRUE
      /\ live' = live /\ text' = text /\ todo' = todo /\ live = {}
  BY DEF Create, ArrCreate, CmdInv
<1>2. cell' \in [Index -> Items \cup {Junk}] /\ \A i \in Index : cell'[i] = Junk
  BY <1>1 DEF Fresh
<1>3. len' \in Nat /\ nodes' \subseteq Nat /\ \A n \in nodes' : n < len'
  <2>1. MinArgs \div NodeSize \in Nat
    BY ArrAssumption, CmdAssumption
  <2> DEFINE n == IF MinArgs = 0 THEN 0 ELSE MinArgs \div NodeSize + 1
  <2>2. n \in Nat /\ len' = n /\ (nodes' = 0..(n - 1) \/ nodes' = 1..(n - 1))
    BY <2>1 DEF Create, ArrCreate
  <2> QED BY <2>2
<1>4. CmdTypeOK' /\ TableCovers' /\ Stored'
  BY <1>1, <1>2, <1>3 DEF CmdInv, CmdTypeOK, ArrTypeOK, TableCovers, Stored
<1>5. HoldsArguments'
  <2>1. Len(given') = 0
    BY <1>1
  <2> QED BY <1>1, <2>1 DEF HoldsArguments
<1>6. NoLeak' /\ Holds' /\ RenderFaithful' /\ SoundIsDefined'
  BY <1>1, <1>5 DEF NoLeak, Holds, RenderFaithful, SoundIsDefined
<1> QED BY <1>1, <1>4, <1>6 DEF CmdInv

LEMMA DeleteInv == CmdInv /\ Delete => CmdInv'
<1> SUFFICES ASSUME CmdInv, Delete PROVE CmdInv'
  OBVIOUS
<1>1. /\ cell' = Fresh /\ last' = 0 /\ isEmpty' = TRUE /\ nodes' = {} /\ len' = 0
      /\ rendered' = rendered /\ given' = given /\ sound' = sound
      /\ text' = text /\ todo' = todo /\ cmd = "ready"
  BY DEF Delete, ArrFree
<1>2. cell' \in [Index -> Items \cup {Junk}] /\ \A i \in Index : cell'[i] = Junk
  BY <1>1 DEF Fresh
\* Nothing was leaked, so nothing is left on the heap.
<1>3. \/ cmd' = "none" /\ live' = {}
      \/ cmd' = "undefined" /\ live' = live
  <2>1. live \subseteq Items /\ live \subseteq {cell[i] : i \in Slots}
    BY <1>1 DEF CmdInv, CmdTypeOK, NoLeak
  <2>2. Release(cell, Slots, "none")
    BY DEF Delete
  <2>3. Junk \notin live
    BY ArrAssumption, <2>1
  <2> QED BY <2>1, <2>2, <2>3 DEF Release
<1>4. CmdTypeOK' /\ TableCovers' /\ Stored'
  BY <1>1, <1>2, <1>3 DEF CmdInv, CmdTypeOK, ArrTypeOK, TableCovers, Stored
<1>5. NoLeak' /\ Holds' /\ RenderFaithful'
  BY <1>1, <1>3 DEF NoLeak, Holds, HoldsArguments, RenderFaithful, CmdInv
<1>6. SoundIsDefined'
  <2> SUFFICES ASSUME sound, given # <<>> PROVE cmd' = "none"
    BY <1>1 DEF SoundIsDefined
  <2>1. Release(cell, Slots, "none")
    BY DEF Delete
  <2> QED BY <1>1, <2>1, SoundSlots, ReleaseDefined DEF CmdInv, CmdTypeOK
<1> QED BY <1>1, <1>3, <1>4, <1>5, <1>6 DEF CmdInv

LEMMA CallAppendInv == CmdInv /\ (\E args \in ArgLists : CallAppend(args)) => CmdInv'
<1> SUFFICES ASSUME CmdInv, NEW args \in ArgLists, CallAppend(args) PROVE CmdInv'
  OBVIOUS
<1>1. args \in Seq(Texts \cup {Empty})
  BY CmdAssumption
<1>2. UNCHANGED <<len, nodes, cell, last, isEmpty, live, text, given, sound>>
  BY DEF CallAppend, arrVars
<1>3. cmd' = "appending" /\ cmd = "ready" /\ todo' = args /\ rendered' = NoText
  BY DEF CallAppend
<1>4. CmdTypeOK' /\ TableCovers' /\ Stored'
  BY <1>1, <1>2, <1>3 DEF CmdInv, CmdTypeOK, ArrTypeOK, TableCovers, Stored, Slots, Readable
<1>5. NoLeak' /\ Holds' /\ RenderFaithful' /\ SoundIsDefined'
  BY <1>2, <1>3 DEF CmdInv, NoLeak, Slots, Readable, Holds, HoldsArguments, RenderFaithful, SoundIsDefined
<1> QED BY <1>2, <1>3, <1>4, <1>5 DEF CmdInv

LEMMA AppendArgInv == CmdInv /\ AppendArg => CmdInv'
<1> SUFFICES ASSUME CmdInv, AppendArg PROVE CmdInv'
  OBVIOUS
<1> DEFINE arg == Head(todo)
           at  == AppendTo
<1>1. PICK s \in Items \ live : /\ ArrAppend(s, TRUE)
                               /\ live' = live \cup {s}
                               /\ text' = [text EXCEPT ![s] = arg]
  BY DEF AppendArg
<1>2. /\ cmd = "appending" /\ todo # <<>> /\ arg # Empty
      /\ given' = Append(given, arg) /\ todo' = Tail(todo)
      /\ cmd' = cmd /\ rendered' = rendered /\ sound' = sound /\ rendered = NoText
  BY DEF AppendArg, CmdInv
<1>3. arg \in Texts /\ todo' \in Seq(Texts \cup {Empty}) /\ given' \in Seq(Texts)
  BY <1>2 DEF CmdInv, CmdTypeOK
<1>4. /\ ArrTypeOK' /\ TableCovers'
      /\ at \in Index /\ last' = at /\ last' >= last /\ isEmpty' = FALSE
      /\ nodes \subseteq nodes' /\ len' >= len
      /\ cell' = [cell EXCEPT ![at] = s] /\ NodeOf(at) \in nodes'
  BY <1>1, AppendFacts DEF CmdInv, CmdTypeOK
<1>5. Slots \subseteq Slots'
  BY <1>4, SlotsGrow DEF CmdInv, CmdTypeOK, ArrTypeOK
<1>6. at \in Slots'
  BY <1>4, NodeNumber DEF Slots, Readable, TableCovers, ArrTypeOK
<1>7. cell'[at] = s /\ \A i \in Index : i # at => cell'[i] = cell[i]
  BY <1>4 DEF CmdInv, CmdTypeOK, ArrTypeOK
<1>8. at \notin Slots \/ cell[at] = Junk
  BY DEF AppendTo, Slots, CmdInv, Stored, CmdTypeOK, ArrTypeOK, Index
<1>9. CmdTypeOK'
  BY <1>1, <1>2, <1>3, <1>4 DEF CmdInv, CmdTypeOK
<1>10. Stored'
  BY <1>4, <1>5, <1>6, <1>7 DEF CmdInv, Stored
<1>11. NoLeak'
  <2> SUFFICES ASSUME NEW t \in live' PROVE \E i \in Slots' : cell'[i] = t
    BY DEF NoLeak
  <2>1. CASE t = s
    BY <1>6, <1>7, <2>1
  <2>2. CASE t \in live
    <3>1. PICK i \in Slots : cell[i] = t
      BY <1>2, <2>2 DEF CmdInv, NoLeak
    <3>2. t # Junk
      BY <2>2, ArrAssumption DEF CmdInv, CmdTypeOK
    <3> QED BY <1>5, <1>7, <1>8, <3>1, <3>2 DEF Slots
  <2> QED BY <1>1, <2>1, <2>2
<1>12. Holds'
  <2> SUFFICES ASSUME sound PROVE HoldsArguments'
    BY <1>2 DEF Holds, HoldsArguments
  <2> DEFINE n == Len(given)
  <2>1. n \in Nat /\ given' # <<>> /\ Len(given') = n + 1 /\ given'[n + 1] = arg
        /\ \A k \in 1..n : given'[k] = given[k]
    BY <1>2, <1>3 DEF CmdInv, CmdTypeOK
  <2>2. at = n
    <3>1. CASE given = <<>>
      BY <1>2, <3>1 DEF CmdInv, Holds, HoldsArguments, AppendTo
    <3>2. CASE given # <<>>
      <4>1. isEmpty = FALSE /\ last = n - 1
        BY <1>2, <3>2 DEF CmdInv, Holds, HoldsArguments
      <4> QED BY <2>1, <4>1 DEF AppendTo
    <3> QED BY <3>1, <3>2
  <2>3. \A i \in 0..(n - 1) : /\ i \in Index /\ i # at
                             /\ cell[i] \in live /\ cell[i] # s
                             /\ text[cell[i]] = given[i + 1]
    BY <1>1, <1>2, <2>1, <2>2 DEF CmdInv, Holds, HoldsArguments
  <2>4. \A i, j \in 0..(n - 1) : cell[i] = cell[j] => i = j
    BY <1>2 DEF CmdInv, Holds, HoldsArguments
  <2>5. \A i \in 0..n : /\ i \in Index /\ cell'[i] \in live'
                       /\ text'[cell'[i]] = given'[i + 1]
    <3> SUFFICES ASSUME NEW i \in 0..n
                 PROVE  i \in Index /\ cell'[i] \in live' /\ text'[cell'[i]] = given'[i + 1]
      OBVIOUS
    <3>1. CASE i = n
      BY <1>1, <1>4, <1>7, <2>1, <2>2, <3>1 DEF CmdInv, CmdTypeOK
    <3>2. CASE i # n
      <4>1. i \in 0..(n - 1) /\ i + 1 \in 1..n
        BY <2>1, <3>2
      <4>2. cell'[i] = cell[i] /\ cell[i] \in Items /\ cell[i] # s
        BY <1>7, <2>3, <4>1 DEF CmdInv, CmdTypeOK
      <4>3. text'[cell[i]] = text[cell[i]]
        BY <1>1, <4>2 DEF CmdInv, CmdTypeOK
      <4> QED BY <1>1, <2>1, <2>3, <4>1, <4>2, <4>3
    <3> QED BY <3>1, <3>2
  <2>6. \A i, j \in 0..n : cell'[i] = cell'[j] => i = j
    BY <1>4, <1>7, <2>1, <2>2, <2>3, <2>4
  <2>7. 0..(Len(given') - 1) = 0..n /\ last' = Len(given') - 1
    BY <1>4, <2>1, <2>2
  <2> QED BY <1>4, <2>1, <2>5, <2>6, <2>7 DEF HoldsArguments
<1>13. RenderFaithful' /\ SoundIsDefined'
  BY <1>2 DEF RenderFaithful, SoundIsDefined
<1> QED BY <1>2, <1>4, <1>9, <1>10, <1>11, <1>12, <1>13 DEF CmdInv

LEMMA AppendFailsInv == CmdInv /\ AppendFails => CmdInv'
<1> SUFFICES ASSUME CmdInv, AppendFails PROVE CmdInv'
  OBVIOUS
<1>1. /\ cmd = "appending" /\ todo' = <<>> /\ sound' = FALSE
      /\ text' = text /\ rendered' = rendered /\ given' = given /\ rendered = NoText
      /\ Release(cell', Slots', "ready")
  BY DEF AppendFails, CmdInv
<1>2. /\ ArrTypeOK' /\ TableCovers' /\ cell' = cell
      /\ last' >= last /\ nodes \subseteq nodes' /\ len' >= len
      /\ isEmpty' = FALSE \/ (isEmpty' = isEmpty /\ last' = last)
  <2>1. CASE UNCHANGED arrVars
    BY <2>1 DEF arrVars, CmdInv, CmdTypeOK, ArrTypeOK, TableCovers
  <2>2. CASE \E s \in Items \ live : ArrAppend(s, FALSE)
    BY <2>2, AppendFacts DEF CmdInv, CmdTypeOK
  <2> QED BY <2>1, <2>2 DEF AppendFails
<1>3. Slots \subseteq Slots'
  BY <1>2, SlotsGrow DEF CmdInv, CmdTypeOK, ArrTypeOK
\* Nothing was leaked, so nothing is left on the heap.
<1>4. \/ cmd' = "ready" /\ live' = {}
      \/ cmd' = "undefined" /\ live' = live
  <2>1. live \subseteq Items /\ \A t \in live : \E i \in Slots : cell[i] = t
    BY <1>1 DEF CmdInv, CmdTypeOK, NoLeak
  <2>2. live \subseteq {cell'[i] : i \in Slots'}
    BY <1>2, <1>3, <2>1
  <2>3. Junk \notin live
    BY ArrAssumption, <2>1
  <2> QED BY <1>1, <2>1, <2>2, <2>3 DEF Release
<1>5. CmdTypeOK'
  <2>1. <<>> \in Seq(Texts \cup {Empty})
    OBVIOUS
  <2>2. cmd' \in {"none", "ready", "appending", "undefined"} /\ live' \subseteq Items
    BY <1>4 DEF CmdInv, CmdTypeOK
  <2> QED BY <1>1, <1>2, <2>1, <2>2 DEF CmdInv, CmdTypeOK
<1>6. Stored'
  BY <1>2, <1>3 DEF CmdInv, Stored
<1>7. NoLeak' /\ Holds' /\ RenderFaithful' /\ SoundIsDefined'
  BY <1>1, <1>4 DEF NoLeak, Holds, HoldsArguments, RenderFaithful, SoundIsDefined
<1>8. isEmpty' => last' = 0
  BY <1>2 DEF CmdInv
<1> QED BY <1>1, <1>2, <1>4, <1>5, <1>6, <1>7, <1>8 DEF CmdInv

LEMMA AppendReturnsInv == CmdInv /\ AppendReturns => CmdInv'
<1> SUFFICES ASSUME CmdInv, AppendReturns PROVE CmdInv'
  OBVIOUS
<1>1. UNCHANGED <<len, nodes, cell, last, isEmpty, live, text, todo, rendered, given, sound>>
  BY DEF AppendReturns, arrVars
<1>2. cmd = "appending" /\ cmd' = "ready"
  BY DEF AppendReturns
<1>3. CmdTypeOK' /\ TableCovers' /\ Stored'
  BY <1>1, <1>2 DEF CmdInv, CmdTypeOK, ArrTypeOK, TableCovers, Stored, Slots, Readable
<1>4. NoLeak' /\ Holds' /\ RenderFaithful' /\ SoundIsDefined'
  BY <1>1, <1>2 DEF CmdInv, NoLeak, Slots, Readable, Holds, HoldsArguments, RenderFaithful, SoundIsDefined
<1> QED BY <1>1, <1>2, <1>3, <1>4 DEF CmdInv

\* Of a rendering, only its text matters, and a sound command renders its arguments.
LEMMA RenderInv == CmdInv /\ (Render \/ RenderFails) => CmdInv'
<1> SUFFICES ASSUME CmdInv, Render \/ RenderFails PROVE CmdInv'
  OBVIOUS
<1>1. UNCHANGED <<len, nodes, cell, last, isEmpty, cmd, live, text, todo, given, sound>>
      /\ cmd = "ready"
  BY DEF Render, RenderFails, arrVars
<1>2. CmdTypeOK' /\ TableCovers' /\ Stored'
  BY <1>1 DEF CmdInv, CmdTypeOK, ArrTypeOK, TableCovers, Stored, Slots, Readable
<1>3. NoLeak' /\ Holds' /\ SoundIsDefined'
  BY <1>1 DEF CmdInv, NoLeak, Slots, Readable, Holds, HoldsArguments, SoundIsDefined
<1>4. RenderFaithful'
  <2> SUFFICES ASSUME sound, given # <<>>, Render PROVE rendered' = given
    BY <1>1 DEF RenderFaithful, RenderFails
  <2>1. /\ last = Len(given) - 1
        /\ \A i \in 0..last : cell[i] \in live /\ text[cell[i]] = given[i + 1]
    BY <1>1, SoundSlots
  <2>2. Junk \notin live /\ given \in Seq(Texts) /\ Len(given) \in Nat /\ last \in Nat
    BY ArrAssumption DEF CmdInv, CmdTypeOK, ArrTypeOK
  <2>3. last + 1 = Len(given)
    BY <2>1, <2>2
  <2>4. \A k \in 1..Len(given) :
          (IF MaybeNull(cell[k - 1]) THEN Empty ELSE text[cell[k - 1]]) = given[k]
    <3> SUFFICES ASSUME NEW k \in 1..Len(given)
                 PROVE  (IF MaybeNull(cell[k - 1]) THEN Empty ELSE text[cell[k - 1]]) = given[k]
      OBVIOUS
    <3>1. k - 1 \in 0..last /\ (k - 1) + 1 = k
      BY <2>2, <2>3
    <3>2. cell[k - 1] \in live /\ text[cell[k - 1]] = given[k]
      BY <2>1, <3>1
    <3> QED BY <2>2, <3>2 DEF MaybeNull
  <2>5. rendered' = [k \in 1..Len(given) |-> given[k]]
    BY <2>3, <2>4 DEF Render
  <2> QED BY <2>2, <2>5
<1> QED BY <1>1, <1>2, <1>3, <1>4 DEF CmdInv

LEMMA RenderUndefinedInv == CmdInv /\ RenderUndefined => CmdInv'
<1> SUFFICES ASSUME CmdInv, RenderUndefined PROVE CmdInv'
  OBVIOUS
<1>1. UNCHANGED <<len, nodes, cell, last, isEmpty, live, text, todo, rendered, given, sound>>
  BY DEF RenderUndefined, arrVars
<1>2. cmd = "ready" /\ cmd' = "undefined"
  BY DEF RenderUndefined
<1>3. CmdTypeOK' /\ TableCovers' /\ Stored'
  BY <1>1, <1>2 DEF CmdInv, CmdTypeOK, ArrTypeOK, TableCovers, Stored, Slots, Readable
<1>4. NoLeak' /\ Holds' /\ RenderFaithful'
  BY <1>1, <1>2 DEF CmdInv, NoLeak, Holds, HoldsArguments, RenderFaithful
<1>5. SoundIsDefined'
  <2> SUFFICES ASSUME sound, given # <<>> PROVE FALSE
    BY <1>1 DEF SoundIsDefined
  <2> QED BY <1>2, SoundSlots DEF RenderUndefined
<1> QED BY <1>1, <1>2, <1>3, <1>4, <1>5 DEF CmdInv

\* The invariant holds of every command, whatever becomes of it.
THEOREM CmdInvariant == CmdSpec => []CmdInv
<1>1. CmdInit => CmdInv
  BY CmdInitInv
<1>2. CmdInv /\ [CmdNext]_cmdVars => CmdInv'
  <2> SUFFICES ASSUME CmdInv, [CmdNext]_cmdVars PROVE CmdInv'
    OBVIOUS
  <2>1. CASE CmdNext
    BY <2>1, CreateInv, DeleteInv, CallAppendInv, AppendArgInv, AppendFailsInv,
       AppendReturnsInv, RenderInv, RenderUndefinedInv DEF CmdNext
  <2>2. CASE UNCHANGED cmdVars
    BY <2>2 DEF cmdVars, arrVars, CmdInv, CmdTypeOK, ArrTypeOK, TableCovers, Stored, NoLeak,
                Slots, Readable, Holds, HoldsArguments, RenderFaithful, SoundIsDefined
  <2> QED BY <2>1, <2>2
<1> QED BY <1>1, <1>2, PTL DEF CmdSpec

\* Every variable of a command keeps its type.
THEOREM CmdTypeCorrect == CmdSpec => []CmdTypeOK
<1>1. CmdInv => CmdTypeOK
  BY DEF CmdInv
<1> QED BY <1>1, CmdInvariant, PTL

\* The node table always covers its nodes, so dyn_arr_set writes nowhere else.
THEOREM TableAlwaysCovers == CmdSpec => []TableCovers
<1>1. CmdInv => TableCovers
  BY DEF CmdInv
<1> QED BY <1>1, CmdInvariant, PTL

\* No argument string is ever leaked, whichever allocations fail.
THEOREM NothingLeaks == CmdSpec => []NoLeak
<1>1. CmdInv => NoLeak
  BY DEF CmdInv
<1> QED BY <1>1, CmdInvariant, PTL

\* neocmd_render renders what was appended.
THEOREM RendersFaithfully == CmdSpec => []RenderFaithful
<1>1. CmdInv => RenderFaithful
  BY DEF CmdInv
<1> QED BY <1>1, CmdInvariant, PTL

\* Rendering and deleting a sound command with arguments is always defined.
THEOREM SoundUseIsDefined == CmdSpec => []SoundIsDefined
<1>1. CmdInv => SoundIsDefined
  BY DEF CmdInv
<1> QED BY <1>1, CmdInvariant, PTL

-----------------------------------------------------------------------------
(* What sort, max and min do to the array.  First, numbers and recursion.    *)

\* Of some numbers, one is the first.
LEMMA FirstOf ==
  ASSUME NEW S \in SUBSET Nat, S # {}
  PROVE  \E h \in S : \A k \in S : h <= k
<1>1. IsWellFoundedOn(OpToRel(<, Nat), Nat)
  BY NatLessThanWellFounded
<1>2. PICK h \in S : \A k \in S : ~ (<<k, h>> \in OpToRel(<, Nat))
  BY <1>1, WFMin
<1>3. \A k \in S : ~ (k < h)
  BY <1>2 DEF OpToRel
<1> QED
  BY <1>3

\* g has a value for each number up to n: v0, and then each from the one before.
Recurs(g, V, v0, F, n) == /\ g \in [0..n -> V] /\ g[0] = v0
                          /\ \A i \in 1..n : g[i] = F[<<i, g[i - 1]>>]

\* There is such a g.
LEMMA Recursion ==
  ASSUME NEW V, NEW v0 \in V, NEW F \in [Nat \X V -> V], NEW n \in Nat
  PROVE  \E g : Recurs(g, V, v0, F, n)
<1> DEFINE S == {m \in Nat : ~ \E g : Recurs(g, V, v0, F, m)}
<1> SUFFICES ASSUME S # {} PROVE FALSE
  OBVIOUS
<1>1. S \in SUBSET Nat
  OBVIOUS
<1>2. PICK m \in S : \A k \in S : m <= k
  <2> HIDE DEF S
  <2> QED
    BY <1>1, FirstOf
<1>3. m # 0
  <2>1. Recurs([i \in 0..0 |-> v0], V, v0, F, 0)
    BY DEF Recurs
  <2> QED
    BY <1>2, <2>1
<1>4. m - 1 \in Nat /\ m - 1 \notin S
  BY <1>2, <1>3
<1>5. PICK g : Recurs(g, V, v0, F, m - 1)
  BY <1>4
<1> DEFINE h == [i \in 0..m |-> IF i = m THEN F[<<m, g[m - 1]>>] ELSE g[i]]
<1>6. m \in Nat /\ m - 1 \in 0..(m - 1) /\ 0 \in 0..(m - 1)
  BY <1>2, <1>4
<1>7. h \in [0..m -> V]
  BY <1>5, <1>6 DEF Recurs
<1>8. \A i \in 1..m : h[i] = F[<<i, h[i - 1]>>]
  <2> SUFFICES ASSUME NEW i \in 1..m PROVE h[i] = F[<<i, h[i - 1]>>]
    OBVIOUS
  <2>1. h[i - 1] = g[i - 1]
    BY <1>6
  <2>2. CASE i = m
    BY <1>6, <2>1, <2>2
  <2>3. CASE i # m
    <3>1. i \in 1..(m - 1) /\ h[i] = g[i]
      BY <1>6, <2>3
    <3> QED
      BY <1>5, <2>1, <3>1 DEF Recurs
  <2> QED
    BY <2>2, <2>3
<1>9. h[0] = v0
  BY <1>3, <1>5, <1>6 DEF Recurs
<1> HIDE DEF h
<1>10. Recurs(h, V, v0, F, m)
  BY <1>7, <1>8, <1>9 DEF Recurs
<1> QED
  BY <1>2, <1>10

\* H defines a function on D by its values for what is less by a measure up to N.
Recursive(H, D, V, size, N) ==
  /\ H \in [[D -> V] -> [D -> V]] /\ size \in [D -> 0..N]
  /\ \A f, g \in [D -> V], d \in D :
       (\A e \in D : size[e] < size[d] => f[e] = g[e]) => H[f][d] = H[g][d]

\* There is such a function.
LEMMA FixedPoint ==
  ASSUME NEW D, NEW V, NEW v0 \in V, NEW N \in Nat, NEW H, NEW size, Recursive(H, D, V, size, N)
  PROVE  \E f \in [D -> V] : H[f] = f
<1>. /\ H \in [[D -> V] -> [D -> V]] /\ size \in [D -> 0..N]
     /\ \A f, g \in [D -> V], d \in D :
          (\A e \in D : size[e] < size[d] => f[e] = g[e]) => H[f][d] = H[g][d]
  BY DEF Recursive
<1> DEFINE W == [D -> V]
           w0 == [d \in D |-> v0]
           F == [x \in Nat \X W |-> H[x[2]]]
           M == N + 1
<1>1. w0 \in W /\ F \in [Nat \X W -> W] /\ M \in Nat
  OBVIOUS
<1> HIDE DEF w0
<1>2. PICK g : Recurs(g, W, w0, F, M)
  <2> HIDE DEF W, F, M
  <2> QED
    BY <1>1, Recursion
<1>3. /\ \A i \in 0..M : g[i] \in W
      /\ \A i \in 1..M : g[i] = H[g[i - 1]]
  <2>1. g \in [0..M -> W] /\ \A i \in 1..M : g[i] = F[<<i, g[i - 1]>>]
    BY <1>2 DEF Recurs
  <2>2. ASSUME NEW i \in 1..M PROVE g[i] = H[g[i - 1]]
    <3>1. i \in Nat /\ i - 1 \in 0..M /\ g[i - 1] \in W
      BY <1>1, <2>1
    <3>2. F[<<i, g[i - 1]>>] = H[g[i - 1]]
      BY <3>1
    <3> QED
      BY <2>1, <3>2
  <2> QED
    BY <2>1, <2>2
<1> DEFINE Settled(n) == \A d \in D : size[d] < n => g[n][d] = g[n + 1][d]
           S == {n \in Nat : n <= N /\ ~ Settled(n)}
<1>4. S = {}
  <2> SUFFICES ASSUME S # {} PROVE FALSE
    OBVIOUS
  <2>1. S \in SUBSET Nat
    OBVIOUS
  <2>2. PICK n \in S : \A k \in S : n <= k
    <3> HIDE DEF S
    <3> QED
      BY <2>1, FirstOf
  <2>3. n \in 0..N /\ ~ Settled(n)
    BY <2>2
  <2>4. n # 0
    BY <2>3
  <2>5. n - 1 \in Nat /\ n - 1 <= N /\ Settled(n - 1)
    <3>1. n - 1 \in Nat /\ n - 1 <= N /\ ~ (n <= n - 1)
      BY <2>3, <2>4
    <3>2. n - 1 \notin S
      BY <2>2, <3>1
    <3> HIDE DEF Settled
    <3> QED
      BY <3>1, <3>2
  <2>6. n \in 1..M /\ n + 1 \in 1..M /\ n - 1 \in 0..M /\ n \in 0..M
        /\ n + 1 - 1 = n /\ n - 1 + 1 = n
    BY <2>3, <2>4
  <2>7. g[n] = H[g[n - 1]] /\ g[n + 1] = H[g[n]] /\ g[n] \in W /\ g[n - 1] \in W
    BY <1>3, <2>6
  <2>8. ASSUME NEW d \in D, size[d] < n PROVE g[n][d] = g[n + 1][d]
    <3> DEFINE f1 == g[n - 1]
               f2 == g[n]
    <3>1. \A e \in D : size[e] < size[d] => f1[e] = f2[e]
      <4>1. \A e \in D : size[e] < n - 1 => g[n - 1][e] = g[n][e]
        BY <2>5, <2>6
      <4>2. \A e \in D : size[e] < size[d] => size[e] < n - 1
        BY <2>3, <2>8
      <4> QED
        BY <4>1, <4>2
    <3>2. f1 \in [D -> V] /\ f2 \in [D -> V]
      BY <2>7
    <3>3. g[n] = H[f1] /\ g[n + 1] = H[f2]
      BY <2>7
    <3> HIDE DEF f1, f2
    <3>4. H[f1][d] = H[f2][d]
      BY <3>1, <3>2
    <3> QED
      BY <3>3, <3>4
  <2> QED
    BY <2>3, <2>8
<1>5. Settled(N)
  <2> HIDE DEF Settled
  <2> QED
    BY <1>4
<1> DEFINE f1 == g[N]
           f2 == g[N + 1]
<1>6. f1 \in [D -> V] /\ f2 \in [D -> V] /\ f2 = H[f1]
  <2> DEFINE n == N + 1
  <2>1. N \in 0..M /\ n \in 1..M /\ n \in 0..M /\ n - 1 = N
    OBVIOUS
  <2> HIDE DEF n, M
  <2>2. g[N] \in W /\ g[n] \in W /\ g[n] = H[g[N]]
    BY <1>3, <2>1
  <2> QED
    BY <2>2 DEF n
<1>7. \A d \in D : size[d] < N => f1[d] = f2[d]
  BY <1>5
<1> HIDE DEF f1, f2
<1>8. ASSUME NEW d \in D PROVE H[f2][d] = f2[d]
  <2>1. \A e \in D : size[e] < size[d] => f2[e] = f1[e]
    BY <1>7
  <2>2. H[f2][d] = H[f1][d]
    BY <1>6, <2>1
  <2> QED
    BY <1>6, <2>2
<1>9. H[f2] = f2
  <2>1. H[f2] \in [D -> V]
    BY <1>6
  <2> QED
    BY <1>6, <1>8, <2>1
<1> QED
  BY <1>6, <1>9

-----------------------------------------------------------------------------
(* Orders                                                                   *)

\* p shows that t is s in another order.
ByOrder(p, t, s, rank, stable) ==
  /\ p \in [1..Len(s) -> 1..Len(s)]
  /\ \A w \in 1..Len(s) : \E v \in 1..Len(s) : p[v] = w
  /\ Len(t) = Len(s)
  /\ \A k \in 1..Len(s) : t[k] = s[p[k]]
  /\ stable => \A i, j \in 1..Len(s) :
                 i < j /\ t[i] # NoNode /\ t[j] # NoNode /\ rank[t[i]] = rank[t[j]] => p[i] < p[j]

\* Such a p is what Reorders asks for.
LEMMA ReordersBy ==
  ASSUME NEW E, NEW t \in Seq(E), NEW s \in Seq(E), NEW rank, NEW stable
  PROVE  Reorders(t, s, rank, stable) <=> \E p : ByOrder(p, t, s, rank, stable)
<1>1. Len(s) \in Nat /\ Len(t) \in Nat
  OBVIOUS
<1>2. ASSUME NEW p, ByOrder(p, t, s, rank, stable) PROVE Reorders(t, s, rank, stable)
  <2>1. p \in Orders(Len(s))
    BY <1>2 DEF ByOrder, Orders
  <2>2. t = [k \in 1..Len(s) |-> s[p[k]]]
    <3>1. /\ t = [k \in 1..Len(t) |-> t[k]] /\ Len(t) = Len(s)
          /\ \A k \in 1..Len(s) : t[k] = s[p[k]]
      BY <1>2 DEF ByOrder
    <3> QED
      BY <3>1
  <2>3. stable => \A i, j \in 1..Len(s) :
          i < j /\ NoNode \notin {t[i], t[j]} /\ rank[t[i]] = rank[t[j]] => p[i] < p[j]
    BY <1>2 DEF ByOrder
  <2> QED
    BY <2>1, <2>2, <2>3 DEF Reorders
<1>3. ASSUME Reorders(t, s, rank, stable) PROVE \E p : ByOrder(p, t, s, rank, stable)
  <2>1. PICK p \in Orders(Len(s)) :
          /\ t = [k \in 1..Len(s) |-> s[p[k]]]
          /\ stable => \A i, j \in 1..Len(s) :
               i < j /\ NoNode \notin {t[i], t[j]} /\ rank[t[i]] = rank[t[j]] => p[i] < p[j]
    BY <1>3 DEF Reorders
  <2>2. /\ p \in [1..Len(s) -> 1..Len(s)]
        /\ \A w \in 1..Len(s) : \E v \in 1..Len(s) : p[v] = w
    BY DEF Orders
  <2>3. Len(t) = Len(s) /\ \A k \in 1..Len(s) : t[k] = s[p[k]]
    <3>1. DOMAIN t = 1..Len(s)
      BY <2>1
    <3>2. DOMAIN t = 1..Len(t)
      OBVIOUS
    <3>3. Len(t) = Len(s)
      BY <1>1, <3>1, <3>2
    <3> QED
      BY <2>1, <3>3
  <2>4. stable => \A i, j \in 1..Len(s) :
          i < j /\ t[i] # NoNode /\ t[j] # NoNode /\ rank[t[i]] = rank[t[j]] => p[i] < p[j]
    BY <2>1
  <2> QED
    BY <2>2, <2>3, <2>4 DEF ByOrder
<1> QED
  BY <1>2, <1>3

\* Every sequence is one of its own.
LEMMA ReordersSelf ==
  ASSUME NEW E, NEW s \in Seq(E), NEW rank, NEW stable
  PROVE  Reorders(s, s, rank, stable)
<1> DEFINE p == [k \in 1..Len(s) |-> k]
<1>1. p \in [1..Len(s) -> 1..Len(s)] /\ \A k \in 1..Len(s) : p[k] = k
  OBVIOUS
<1> HIDE DEF p
<1>2. ByOrder(p, s, s, rank, stable)
  BY <1>1 DEF ByOrder
<1> QED
  BY <1>2, ReordersBy

\* Two reorderings are one.
LEMMA ReordersTwice ==
  ASSUME NEW E, NEW t \in Seq(E), NEW u \in Seq(E), NEW s \in Seq(E), NEW rank, NEW stable,
         Reorders(t, u, rank, stable), Reorders(u, s, rank, stable)
  PROVE  Reorders(t, s, rank, stable)
<1>1. PICK q : ByOrder(q, t, u, rank, stable)
  BY ReordersBy
<1>2. PICK p : ByOrder(p, u, s, rank, stable)
  BY ReordersBy
<1> DEFINE n == Len(s)
           r == [k \in 1..n |-> p[q[k]]]
<1>3. /\ q \in [1..n -> 1..n] /\ p \in [1..n -> 1..n]
      /\ \A w \in 1..n : \E v \in 1..n : q[v] = w
      /\ \A w \in 1..n : \E v \in 1..n : p[v] = w
      /\ Len(t) = n /\ Len(u) = n
      /\ \A k \in 1..n : t[k] = u[q[k]] /\ u[k] = s[p[k]]
  BY <1>1, <1>2 DEF ByOrder
<1>4. stable => \A i, j \in 1..n :
        i < j /\ t[i] # NoNode /\ t[j] # NoNode /\ rank[t[i]] = rank[t[j]] => q[i] < q[j]
  BY <1>1, <1>3 DEF ByOrder
<1>5. stable => \A i, j \in 1..n :
        i < j /\ u[i] # NoNode /\ u[j] # NoNode /\ rank[u[i]] = rank[u[j]] => p[i] < p[j]
  BY <1>2 DEF ByOrder
<1> HIDE DEF n
<1>6. r \in [1..n -> 1..n] /\ \A k \in 1..n : r[k] = p[q[k]] /\ q[k] \in 1..n
  BY <1>3
<1> HIDE DEF r
<1>7. \A w \in 1..n : \E v \in 1..n : r[v] = w
  <2> SUFFICES ASSUME NEW w \in 1..n PROVE \E v \in 1..n : r[v] = w
    OBVIOUS
  <2>1. PICK x \in 1..n : p[x] = w
    BY <1>3
  <2>2. PICK v \in 1..n : q[v] = x
    BY <1>3
  <2> QED
    BY <1>6, <2>1, <2>2
<1>8. ASSUME NEW k \in 1..n PROVE t[k] = s[r[k]]
  <2>1. q[k] \in 1..n /\ r[k] = p[q[k]]
    BY <1>6
  <2>2. t[k] = u[q[k]] /\ u[q[k]] = s[p[q[k]]]
    BY <1>3, <2>1
  <2> QED
    BY <2>1, <2>2
<1>9. ASSUME stable, NEW i \in 1..n, NEW j \in 1..n, i < j, t[i] # NoNode, t[j] # NoNode,
             rank[t[i]] = rank[t[j]]
      PROVE  r[i] < r[j]
  <2>1. q[i] < q[j] /\ q[i] \in 1..n /\ q[j] \in 1..n
    BY <1>4, <1>6, <1>9
  <2>2. u[q[i]] = t[i] /\ u[q[j]] = t[j]
    BY <1>3
  <2>3. p[q[i]] < p[q[j]]
    BY <1>5, <1>9, <2>1, <2>2
  <2> QED
    BY <1>6, <2>3
<1>10. ByOrder(r, t, s, rank, stable)
  BY <1>3, <1>6, <1>7, <1>8, <1>9 DEF ByOrder, n
<1> QED
  BY <1>10, ReordersBy

\* What stands where in a sequence of two parts.
LEMMA JoinedTwo ==
  ASSUME NEW E, NEW a \in Seq(E), NEW b \in Seq(E), NEW m, m = Len(a), NEW n, n = Len(b)
  PROVE  /\ a \o b \in Seq(E) /\ Len(a \o b) = m + n
         /\ \A k \in 1..m : (a \o b)[k] = a[k]
         /\ \A k \in 1..n : (a \o b)[m + k] = b[k]
<1> DEFINE c == a \o b
<1>1. m \in Nat /\ n \in Nat
  OBVIOUS
<1>2. c \in Seq(E) /\ Len(c) = m + n
  OBVIOUS
<1>3. \A k \in 1..(m + n) : c[k] = IF k <= m THEN a[k] ELSE b[k - m]
  BY ConcatProperties
<1> HIDE DEF c
<1>4. \A k \in 1..m : c[k] = a[k]
  BY <1>1, <1>3
<1>5. ASSUME NEW k \in 1..n PROVE c[m + k] = b[k]
  <2> DEFINE h == m + k
  <2>1. h \in 1..(m + n) /\ ~ (h <= m) /\ h - m = k
    BY <1>1
  <2> HIDE DEF h
  <2>2. c[h] = b[h - m]
    BY <1>3, <2>1
  <2> QED
    BY <2>1, <2>2 DEF h
<1> QED
  BY <1>2, <1>4, <1>5 DEF c

\* Parts that are reordered make a whole that is.
LEMMA ReordersParts ==
  ASSUME NEW E, NEW t1 \in Seq(E), NEW t2 \in Seq(E), NEW s1 \in Seq(E), NEW s2 \in Seq(E),
         NEW rank, NEW stable, Reorders(t1, s1, rank, stable), Reorders(t2, s2, rank, stable)
  PROVE  Reorders(t1 \o t2, s1 \o s2, rank, stable)
<1>1. PICK p : ByOrder(p, t1, s1, rank, stable)
  BY ReordersBy
<1>2. PICK q : ByOrder(q, t2, s2, rank, stable)
  BY ReordersBy
<1> DEFINE m == Len(s1)
           n == Len(s2)
           t == t1 \o t2
           s == s1 \o s2
           r == [k \in 1..(m + n) |-> IF k <= m THEN p[k] ELSE m + q[k - m]]
<1>3. /\ m \in Nat /\ n \in Nat
      /\ p \in [1..m -> 1..m] /\ q \in [1..n -> 1..n]
      /\ \A w \in 1..m : \E v \in 1..m : p[v] = w
      /\ \A w \in 1..n : \E v \in 1..n : q[v] = w
      /\ Len(t1) = m /\ Len(t2) = n
      /\ \A k \in 1..m : t1[k] = s1[p[k]]
      /\ \A k \in 1..n : t2[k] = s2[q[k]]
  BY <1>1, <1>2 DEF ByOrder
<1>4. stable => \A i, j \in 1..m :
        i < j /\ t1[i] # NoNode /\ t1[j] # NoNode /\ rank[t1[i]] = rank[t1[j]] => p[i] < p[j]
  BY <1>1 DEF ByOrder
<1>5. stable => \A i, j \in 1..n :
        i < j /\ t2[i] # NoNode /\ t2[j] # NoNode /\ rank[t2[i]] = rank[t2[j]] => q[i] < q[j]
  BY <1>2 DEF ByOrder
<1>6. /\ s \in Seq(E) /\ t \in Seq(E) /\ Len(s) = m + n /\ Len(t) = m + n
      /\ \A k \in 1..m : s[k] = s1[k] /\ t[k] = t1[k]
      /\ \A k \in 1..n : s[m + k] = s2[k] /\ t[m + k] = t2[k]
  <2>1. /\ s \in Seq(E) /\ Len(s) = m + n
        /\ (\A k \in 1..m : s[k] = s1[k]) /\ (\A k \in 1..n : s[m + k] = s2[k])
    BY JoinedTwo
  <2>2. Len(t1) = m /\ Len(t2) = n
    BY <1>3
  <2> HIDE DEF m, n
  <2>3. /\ t \in Seq(E) /\ Len(t) = m + n
        /\ (\A k \in 1..m : t[k] = t1[k]) /\ (\A k \in 1..n : t[m + k] = t2[k])
    BY <2>2, JoinedTwo
  <2> HIDE DEF s, t
  <2> QED
    BY <2>1, <2>3
<1> HIDE DEF m, n, s, t
<1>7. /\ r \in [1..(m + n) -> 1..(m + n)]
      /\ \A k \in 1..m : r[k] = p[k] /\ p[k] \in 1..m
      /\ \A k \in 1..n : r[m + k] = m + q[k] /\ q[k] \in 1..n
  <2>1. \A k \in 1..m : k \in 1..(m + n) /\ k <= m /\ p[k] \in 1..m
    BY <1>3
  <2>2. \A k \in 1..n : m + k \in 1..(m + n) /\ ~ (m + k <= m) /\ m + k - m = k /\ q[k] \in 1..n
    BY <1>3
  <2>3. \A k \in 1..(m + n) : k <= m \/ k - m \in 1..n
    BY <1>3
  <2>4. ASSUME NEW k \in 1..(m + n)
        PROVE  (IF k <= m THEN p[k] ELSE m + q[k - m]) \in 1..(m + n)
    <3>1. CASE k <= m
      <4>1. p[k] \in 1..m
        BY <1>3, <3>1
      <4> QED
        BY <1>3, <3>1, <4>1
    <3>2. CASE ~ (k <= m)
      <4> DEFINE y == q[k - m]
      <4>1. y \in 1..n
        <5>1. k - m \in 1..n
          BY <2>3, <3>2
        <5> HIDE DEF r
        <5> QED
          BY <1>3, <5>1
      <4>2. m \in Nat /\ n \in Nat
        BY <1>3
      <4> HIDE DEF y
      <4>3. m + y \in 1..(m + n)
        BY <4>1, <4>2
      <4> QED
        BY <3>2, <4>3 DEF y
    <3> QED
      BY <3>1, <3>2
  <2>5. r \in [1..(m + n) -> 1..(m + n)]
    BY <2>4
  <2>6. \A k \in 1..m : r[k] = p[k] /\ p[k] \in 1..m
    BY <2>1
  <2>7. ASSUME NEW k \in 1..n PROVE r[m + k] = m + q[k] /\ q[k] \in 1..n
    <3> DEFINE h == m + k
    <3>1. h \in 1..(m + n) /\ ~ (h <= m) /\ h - m = k /\ q[k] \in 1..n
      <4>1. m \in Nat /\ n \in Nat /\ q[k] \in 1..n
        BY <1>3, <2>2
      <4> QED
        BY <4>1
    <3> HIDE DEF h
    <3>2. r[h] = m + q[h - m]
      BY <3>1
    <3> QED
      BY <3>1, <3>2 DEF h
  <2> QED
    BY <2>5, <2>6, <2>7
<1> HIDE DEF r
<1>8. \A k \in 1..(m + n) : k \in 1..m \/ \E h \in 1..n : k = m + h
  <2> SUFFICES ASSUME NEW k \in 1..(m + n), k \notin 1..m PROVE \E h \in 1..n : k = m + h
    OBVIOUS
  <2>1. k - m \in 1..n /\ k = m + (k - m)
    BY <1>3
  <2> QED
    BY <2>1
<1>9. \A w \in 1..(m + n) : \E v \in 1..(m + n) : r[v] = w
  <2> SUFFICES ASSUME NEW w \in 1..(m + n) PROVE \E v \in 1..(m + n) : r[v] = w
    OBVIOUS
  <2>1. CASE w \in 1..m
    <3>1. PICK v \in 1..m : p[v] = w
      BY <1>3, <2>1
    <3>2. r[v] = w /\ v \in 1..(m + n)
      <4>1. r[v] = p[v]
        BY <1>7
      <4> QED
        BY <1>3, <3>1, <4>1
    <3> QED
      BY <3>2
  <2>2. ASSUME NEW h \in 1..n, w = m + h PROVE \E v \in 1..(m + n) : r[v] = w
    <3>1. PICK v \in 1..n : q[v] = h
      BY <1>3
    <3>2. r[m + v] = w /\ m + v \in 1..(m + n)
      BY <1>3, <1>7, <2>2, <3>1
    <3> QED
      BY <3>2
  <2> QED
    BY <1>8, <2>1, <2>2
<1>10. \A k \in 1..(m + n) : t[k] = s[r[k]]
  <2> SUFFICES ASSUME NEW k \in 1..(m + n) PROVE t[k] = s[r[k]]
    OBVIOUS
  <2>1. CASE k \in 1..m
    <3>1. t[k] = t1[k] /\ r[k] = p[k] /\ p[k] \in 1..m
      BY <1>6, <1>7, <2>1
    <3>2. s[p[k]] = s1[p[k]]
      BY <1>6, <3>1
    <3>3. t1[k] = s1[p[k]]
      BY <1>3, <2>1
    <3> QED
      BY <3>1, <3>2, <3>3
  <2>2. ASSUME NEW h \in 1..n, k = m + h PROVE t[k] = s[r[k]]
    <3>1. t[k] = t2[h] /\ r[k] = m + q[h] /\ q[h] \in 1..n
      BY <1>6, <1>7, <2>2
    <3>2. s[m + q[h]] = s2[q[h]]
      BY <1>6, <3>1
    <3>3. t2[h] = s2[q[h]]
      BY <1>3
    <3> QED
      BY <3>1, <3>2, <3>3
  <2> QED
    BY <1>8, <2>1, <2>2
<1>11. ASSUME stable, NEW i \in 1..(m + n), NEW j \in 1..(m + n), i < j, t[i] # NoNode,
              t[j] # NoNode, rank[t[i]] = rank[t[j]]
       PROVE  r[i] < r[j]
  <2>1. CASE i \in 1..m /\ j \in 1..m
    <3>1. t[i] = t1[i] /\ t[j] = t1[j] /\ r[i] = p[i] /\ r[j] = p[j]
      BY <1>6, <1>7, <2>1
    <3> QED
      BY <1>4, <1>11, <2>1, <3>1
  <2>2. ASSUME i \in 1..m, NEW h \in 1..n, j = m + h PROVE r[i] < r[j]
    <3>1. r[i] \in 1..m /\ r[j] = m + q[h] /\ q[h] \in 1..n
      BY <1>7, <2>2
    <3> DEFINE x == r[i]
               y == q[h]
    <3>2. x \in 1..m /\ y \in 1..n /\ m \in Nat
      BY <1>3, <3>1
    <3> HIDE DEF x, y
    <3>3. x < m + y
      BY <3>2
    <3> QED
      BY <3>1, <3>3 DEF x, y
  <2>3. ASSUME NEW g \in 1..n, i = m + g, NEW h \in 1..n, j = m + h PROVE r[i] < r[j]
    <3>1. t[i] = t2[g] /\ t[j] = t2[h] /\ r[i] = m + q[g] /\ r[j] = m + q[h]
          /\ q[g] \in 1..n /\ q[h] \in 1..n
      BY <1>6, <1>7, <2>3
    <3>2. g < h
      BY <1>3, <1>11, <2>3
    <3>3. q[g] < q[h]
      BY <1>5, <1>11, <3>1, <3>2
    <3> QED
      BY <1>3, <3>1, <3>3
  <2>4. ~ (i \notin 1..m /\ j \in 1..m)
    BY <1>3, <1>11
  <2> QED
    BY <1>8, <2>1, <2>2, <2>3, <2>4
<1>12. ByOrder(r, t, s, rank, stable)
  BY <1>6, <1>7, <1>9, <1>10, <1>11 DEF ByOrder
<1>13. Reorders(t, s, rank, stable)
  BY <1>6, <1>12, ReordersBy
<1> QED
  BY <1>13 DEF t, s

-----------------------------------------------------------------------------
(* The merge                                                                *)

\* rank ranks the items G.
Ranking(rank, G) == rank \in [G -> Nat]

\* t holds the items of c at the positions T, in order: q tells the position of each.
\* They are the first of all, and if stable the first of equals.
Taken(T, q, t, c, rank, stable) ==
  /\ T \subseteq 1..Len(c) /\ q \in [1..Len(t) -> T]
  /\ \A w \in T : \E k \in 1..Len(t) : q[k] = w
  /\ \A k \in 1..Len(t) : t[k] = c[q[k]]
  /\ \A i, j \in 1..Len(t) : i < j => rank[t[i]] <= rank[t[j]]
  /\ \A i \in T, u \in (1..Len(c)) \ T : rank[c[i]] <= rank[c[u]]
  /\ stable => /\ \A i, j \in 1..Len(t) : i < j /\ rank[t[i]] = rank[t[j]] => q[i] < q[j]
               /\ \A i \in T, u \in (1..Len(c)) \ T : u < i => rank[c[i]] < rank[c[u]]

\* w is a position that can be taken next.
ComesNext(w, T, c, rank, stable) ==
  /\ w \in (1..Len(c)) \ T
  /\ \A u \in (1..Len(c)) \ T : rank[c[w]] <= rank[c[u]]
  /\ stable => \A u \in (1..Len(c)) \ T : u < w => rank[c[w]] < rank[c[u]]

\* The next item can be taken.
LEMMA TakeNext ==
  ASSUME NEW G, NEW c \in Seq(G), NEW t \in Seq(G), NEW rank, Ranking(rank, G), NEW stable,
         NEW T, NEW q, Taken(T, q, t, c, rank, stable), NEW w, ComesNext(w, T, c, rank, stable)
  PROVE  \E p : Taken(T \cup {w}, p, Append(t, c[w]), c, rank, stable)
<1> DEFINE n == Len(c)
           m == Len(t)
           p == [k \in 1..(m + 1) |-> IF k = m + 1 THEN w ELSE q[k]]
           S == T \cup {w}
           a == Append(t, c[w])
<1>1. /\ n \in Nat /\ m \in Nat /\ T \subseteq 1..n /\ w \in 1..n /\ w \notin T
      /\ q \in [1..m -> T] /\ c[w] \in G
      /\ \A v \in T : \E k \in 1..m : q[k] = v
      /\ \A k \in 1..m : t[k] = c[q[k]]
      /\ \A i, j \in 1..m : i < j => rank[t[i]] <= rank[t[j]]
      /\ \A i \in T, u \in (1..n) \ T : rank[c[i]] <= rank[c[u]]
      /\ \A u \in (1..n) \ T : rank[c[w]] <= rank[c[u]]
  BY DEF Taken, ComesNext
<1>2. stable => /\ \A i, j \in 1..m : i < j /\ rank[t[i]] = rank[t[j]] => q[i] < q[j]
                /\ \A i \in T, u \in (1..n) \ T : u < i => rank[c[i]] < rank[c[u]]
                /\ \A u \in (1..n) \ T : u < w => rank[c[w]] < rank[c[u]]
  BY DEF Taken, ComesNext
<1>3. /\ a \in Seq(G) /\ Len(a) = m + 1 /\ a[m + 1] = c[w]
      /\ \A k \in 1..m : a[k] = t[k]
  BY <1>1
<1>4. \A v \in 1..n : c[v] \in G /\ rank[c[v]] \in Nat
  BY DEF Ranking
<1> HIDE DEF n, m, a
<1>5. /\ p \in [1..(m + 1) -> S] /\ p[m + 1] = w
      /\ \A k \in 1..m : p[k] = q[k] /\ q[k] \in T /\ k # m + 1 /\ k \in 1..(m + 1)
  BY <1>1
<1>6. \A k \in 1..(m + 1) : k = m + 1 \/ k \in 1..m
  BY <1>1
<1> HIDE DEF p
<1>7. \A v \in S : \E k \in 1..(m + 1) : p[k] = v
  <2> SUFFICES ASSUME NEW v \in S PROVE \E k \in 1..(m + 1) : p[k] = v
    OBVIOUS
  <2>1. CASE v = w
    BY <1>1, <1>5, <2>1
  <2>2. CASE v \in T
    <3>1. PICK k \in 1..m : q[k] = v
      BY <1>1, <2>2
    <3> QED
      BY <1>5, <3>1
  <2> QED
    BY <2>1, <2>2
<1>8. \A k \in 1..(m + 1) : a[k] = c[p[k]]
  BY <1>1, <1>3, <1>5, <1>6
<1>9. ASSUME NEW k \in 1..m PROVE rank[a[k]] <= rank[c[w]]
  <2>1. q[k] \in T /\ a[k] = c[q[k]]
    BY <1>1, <1>3, <1>5
  <2>2. w \in (1..n) \ T
    BY <1>1
  <2> QED
    BY <1>1, <2>1, <2>2
<1>10. \A i, j \in 1..(m + 1) : i < j => rank[a[i]] <= rank[a[j]]
  <2> SUFFICES ASSUME NEW i \in 1..(m + 1), NEW j \in 1..(m + 1), i < j
               PROVE  rank[a[i]] <= rank[a[j]]
    OBVIOUS
  <2>1. i \in 1..m
    BY <1>1
  <2>2. CASE j = m + 1
    BY <1>3, <1>9, <2>1, <2>2
  <2>3. CASE j \in 1..m
    BY <1>1, <1>3, <2>1, <2>3
  <2> QED
    BY <1>6, <2>2, <2>3
<1>11. \A i \in S, u \in (1..n) \ S : rank[c[i]] <= rank[c[u]]
  BY <1>1
<1>12. ASSUME stable, NEW i \in 1..(m + 1), NEW j \in 1..(m + 1), i < j, rank[a[i]] = rank[a[j]]
       PROVE  p[i] < p[j]
  <2>1. i \in 1..m
    BY <1>1, <1>12
  <2>2. CASE j = m + 1
    <3>1. q[i] \in T /\ p[i] = q[i] /\ p[j] = w /\ a[i] = c[q[i]] /\ a[j] = c[w]
      BY <1>1, <1>3, <1>5, <2>1, <2>2
    <3>2. ~ (w < q[i])
      <4>1. w < q[i] => rank[c[q[i]]] < rank[c[w]]
        BY <1>1, <1>2, <1>12, <3>1
      <4>2. rank[c[q[i]]] = rank[c[w]] /\ rank[c[w]] \in Nat
        BY <1>1, <1>4, <1>12, <3>1
      <4> QED
        BY <4>1, <4>2
    <3> DEFINE x == q[i]
    <3>3. x \in 1..n /\ w \in 1..n /\ x # w /\ ~ (w < x)
      BY <1>1, <3>1, <3>2
    <3> HIDE DEF x
    <3>4. x < w
      BY <1>1, <3>3
    <3> QED
      BY <3>1, <3>4 DEF x
  <2>3. CASE j \in 1..m
    BY <1>2, <1>3, <1>5, <1>12, <2>1, <2>3
  <2> QED
    BY <1>6, <2>2, <2>3
<1>13. stable => \A i \in S, u \in (1..n) \ S : u < i => rank[c[i]] < rank[c[u]]
  BY <1>1, <1>2
<1>14. Taken(S, p, a, c, rank, stable)
  <2>1. S \subseteq 1..n
    BY <1>1
  <2> HIDE DEF S
  <2> QED
    BY <1>3, <1>5, <1>7, <1>8, <1>10, <1>11, <1>12, <1>13, <2>1 DEF Taken, n
<1> QED
  BY <1>14 DEF a, S

\* When nothing is left, t is c in another order.
LEMMA AllTaken ==
  ASSUME NEW E, NEW c \in Seq(E), NEW t \in Seq(E), NEW rank, NEW stable, NEW q,
         Len(t) = Len(c), Taken(1..Len(c), q, t, c, rank, stable)
  PROVE  Reorders(t, c, rank, stable) /\ InOrder(t, rank)
<1>1. ByOrder(q, t, c, rank, stable)
  BY DEF Taken, ByOrder
<1>2. InOrder(t, rank)
  <2>1. DOMAIN t = 1..Len(t)
    OBVIOUS
  <2>2. \A i, j \in 1..Len(t) : i < j => rank[t[i]] <= rank[t[j]]
    BY DEF Taken
  <2> QED
    BY <2>1, <2>2 DEF InOrder
<1> QED
  BY <1>1, <1>2, ReordersBy

\* m is the state of a merge of x and y after k turns.
Halves(m, k, x, y, E) ==
  /\ m \in [l : 0..Len(x), r : 0..Len(y), items : Seq(E)]
  /\ m.l + m.r = k /\ Len(m.items) = k

NoneTaken == [l |-> 0, r |-> 0, items |-> <<>>]

\* n is what one turn of its loops makes of m.
Turned(n, m, x, y, rank, strict) ==
  IF TakesLeft(m, x, y, rank, strict)
  THEN m.l < Len(x) /\ n.l = m.l + 1 /\ n.r = m.r /\ n.items = Append(m.items, x[m.l + 1])
  ELSE m.r < Len(y) /\ n.l = m.l /\ n.r = m.r + 1 /\ n.items = Append(m.items, y[m.r + 1])

\* What a turn takes is there to be taken.
LEMMA MergeTurns ==
  ASSUME NEW E, NEW x \in Seq(E), NEW y \in Seq(E), NEW rank, NEW strict, NEW k \in Nat,
         NEW m, Halves(m, k, x, y, E), k < Len(x) + Len(y)
  PROVE  LET n == MergeTurn(m, x, y, rank, strict)
         IN  Halves(n, k + 1, x, y, E) /\ Turned(n, m, x, y, rank, strict)
<1> DEFINE n == MergeTurn(m, x, y, rank, strict)
           l == m.l
           r == m.r
           s == m.items
           X == Len(x)
           Y == Len(y)
<1>1. /\ X \in Nat /\ Y \in Nat /\ l \in 0..X /\ r \in 0..Y /\ s \in Seq(E)
      /\ l + r = k /\ Len(s) = k /\ k < X + Y
  BY DEF Halves
<1>2. TakesLeft(m, x, y, rank, strict) => l < X
  <2>1. r = Y => l < X
    BY <1>1
  <2> QED
    BY <2>1 DEF TakesLeft
<1>3. ~ TakesLeft(m, x, y, rank, strict) => r < Y
  <2>1. r # Y => r < Y
    BY <1>1
  <2> QED
    BY <2>1 DEF TakesLeft
<1>4. CASE TakesLeft(m, x, y, rank, strict)
  <2>1. n = [l |-> l + 1, r |-> r, items |-> Append(s, x[l + 1])]
    BY <1>4, SMTT(30) DEF MergeTurn
  <2>2. l + 1 \in 1..X /\ l + 1 \in 0..X /\ l + 1 + r = k + 1
    BY <1>1, <1>2, <1>4
  <2>3. x[l + 1] \in E
    BY <2>2
  <2>4. Append(s, x[l + 1]) \in Seq(E) /\ Len(Append(s, x[l + 1])) = k + 1
    BY <1>1, <2>3
  <2> HIDE DEF l, r, s, X, Y, n, Turned
  <2>5. Halves(n, k + 1, x, y, E)
    BY <1>1, <2>1, <2>2, <2>4 DEF Halves, X, Y
  <2> QED
    BY <1>2, <1>4, <2>1, <2>5 DEF l, r, s, X, Y, n, Turned
<1>5. CASE ~ TakesLeft(m, x, y, rank, strict)
  <2>1. n = [l |-> l, r |-> r + 1, items |-> Append(s, y[r + 1])]
    BY <1>5, SMTT(30) DEF MergeTurn
  <2>2. r + 1 \in 1..Y /\ r + 1 \in 0..Y /\ l + (r + 1) = k + 1
    BY <1>1, <1>3, <1>5
  <2>3. y[r + 1] \in E
    BY <2>2
  <2>4. Append(s, y[r + 1]) \in Seq(E) /\ Len(Append(s, y[r + 1])) = k + 1
    BY <1>1, <2>3
  <2> HIDE DEF l, r, s, X, Y, n, Turned
  <2>5. Halves(n, k + 1, x, y, E)
    BY <1>1, <2>1, <2>2, <2>4 DEF Halves, X, Y
  <2> QED
    BY <1>3, <1>5, <2>1, <2>5 DEF l, r, s, X, Y, n, Turned
<1> QED
  BY <1>4, <1>5

\* The states of a merge.
Merges(g, x, y, rank, strict, E) ==
  /\ g[0] = NoneTaken
  /\ \A k \in 0..(Len(x) + Len(y)) : Halves(g[k], k, x, y, E)
  /\ \A k \in 1..(Len(x) + Len(y)) : g[k] = MergeTurn(g[k - 1], x, y, rank, strict)
  /\ Merged(x, y, rank, strict) = g[Len(x) + Len(y)].items

\* The merge is a loop: there are its states.
LEMMA MergeLoop ==
  ASSUME NEW E, NEW x \in Seq(E), NEW y \in Seq(E), NEW rank, NEW strict
  PROVE  \E g : Merges(g, x, y, rank, strict, E)
<1> DEFINE n == Len(x) + Len(y)
           V == [l : Nat, r : Nat, items : Seq(E)]
           Turn(m) == MergeTurn(m, x, y, rank, strict)
           F == [z \in Nat \X V |-> IF Turn(z[2]) \in V THEN Turn(z[2]) ELSE NoneTaken]
<1>1. n \in Nat /\ NoneTaken \in V /\ F \in [Nat \X V -> V]
  <2>1. n \in Nat
    OBVIOUS
  <2>2. NoneTaken \in V
    BY DEF NoneTaken
  <2> HIDE DEF V, Turn
  <2> QED
    BY <2>1, <2>2
<1>2. PICK g : Recurs(g, V, NoneTaken, F, n)
  <2> HIDE DEF V, F, n
  <2> QED
    BY <1>1, Recursion
<1>3. g \in [0..n -> V] /\ g[0] = NoneTaken /\ \A k \in 1..n : g[k] = F[<<k, g[k - 1]>>]
  BY <1>2 DEF Recurs
<1>4. \A m, k : Halves(m, k, x, y, E) => m \in V
  BY DEF Halves
<1>5. ASSUME NEW k \in Nat, k < n, Halves(g[k], k, x, y, E)
      PROVE  /\ g[k + 1] = MergeTurn(g[k], x, y, rank, strict)
             /\ Halves(g[k + 1], k + 1, x, y, E)
  <2>1. Halves(Turn(g[k]), k + 1, x, y, E)
    BY <1>5, MergeTurns
  <2>2. Turn(g[k]) \in V /\ g[k] \in V
    BY <1>4, <1>5, <2>1
  <2> DEFINE i == k + 1
  <2>3. i \in 1..n /\ i \in Nat /\ i - 1 = k
    BY <1>1, <1>5
  <2> HIDE DEF i, n, V, Turn
  <2>4. g[i] = F[<<i, g[k]>>]
    BY <1>3, <2>3
  <2>5. F[<<i, g[k]>>] = Turn(g[k])
    BY <2>2, <2>3
  <2> QED
    BY <2>1, <2>4, <2>5 DEF i, Turn
<1>6. \A k \in 0..n : Halves(g[k], k, x, y, E)
  <2> DEFINE S == {k \in Nat : k <= n /\ ~ Halves(g[k], k, x, y, E)}
  <2> SUFFICES ASSUME S # {} PROVE FALSE
    BY <1>1
  <2>1. S \in SUBSET Nat
    OBVIOUS
  <2>2. PICK k \in S : \A h \in S : k <= h
    <3> HIDE DEF S
    <3> QED
      BY <2>1, FirstOf
  <2>3. k \in Nat /\ k <= n /\ ~ Halves(g[k], k, x, y, E)
    BY <2>2
  <2>4. CASE k = 0
    <3>1. Len(x) \in Nat /\ Len(y) \in Nat /\ <<>> \in Seq(E) /\ Len(<<>>) = 0
      OBVIOUS
    <3>2. Halves(NoneTaken, 0, x, y, E)
      BY <3>1 DEF Halves, NoneTaken
    <3> QED
      BY <1>3, <2>3, <2>4, <3>2
  <2>5. CASE k # 0
    <3> DEFINE h == k - 1
    <3>1. h \in Nat /\ h < n /\ h <= n /\ ~ (k <= h) /\ h + 1 = k
      BY <1>1, <2>3, <2>5
    <3>2. Halves(g[h], h, x, y, E)
      BY <2>2, <3>1
    <3> HIDE DEF h, n
    <3>3. Halves(g[h + 1], h + 1, x, y, E)
      BY <1>5, <3>1, <3>2
    <3> QED
      BY <2>3, <3>1, <3>3
  <2> QED
    BY <2>4, <2>5
<1>7. ASSUME NEW k \in 1..n PROVE g[k] = MergeTurn(g[k - 1], x, y, rank, strict)
  <2> DEFINE h == k - 1
  <2>1. h \in Nat /\ h \in 0..n /\ h < n /\ h + 1 = k
    BY <1>1
  <2> HIDE DEF h, n
  <2>2. g[h + 1] = MergeTurn(g[h], x, y, rank, strict)
    BY <1>5, <1>6, <2>1
  <2> QED
    BY <2>1, <2>2 DEF h
<1> DEFINE Self(f) == f = [k \in 0..n |-> IF k = 0 THEN NoneTaken
                                          ELSE MergeTurn(f[k - 1], x, y, rank, strict)]
           merging == CHOOSE f : Self(f)
<1>8. Self(g)
  <2>1. \A k \in 0..n : k = 0 \/ k \in 1..n
    BY <1>1
  <2> HIDE DEF n
  <2>2. \A k \in 0..n : g[k] = IF k = 0 THEN NoneTaken
                               ELSE MergeTurn(g[k - 1], x, y, rank, strict)
    BY <1>3, <1>7, <2>1
  <2>3. g = [k \in 0..n |-> g[k]]
    BY <1>3
  <2> QED
    BY <2>2, <2>3
<1>9. Self(merging)
  <2> HIDE DEF Self
  <2> QED
    BY <1>8
<1>10. Merged(x, y, rank, strict) = merging[n].items
  BY DEF Merged, NoneTaken
<1> HIDE DEF merging
<1>11. \A k \in 0..n : merging[k] = g[k]
  <2> DEFINE S == {k \in Nat : k <= n /\ merging[k] # g[k]}
  <2> SUFFICES ASSUME S # {} PROVE FALSE
    BY <1>1
  <2>1. S \in SUBSET Nat
    OBVIOUS
  <2>2. PICK k \in S : \A h \in S : k <= h
    <3> HIDE DEF S
    <3> QED
      BY <2>1, FirstOf
  <2>3. k \in Nat /\ k <= n /\ merging[k] # g[k] /\ k \in 0..n
    BY <1>1, <2>2
  <2> HIDE DEF n
  <2>4. CASE k = 0
    BY <1>3, <1>9, <2>3, <2>4
  <2>5. CASE k # 0
    <3> DEFINE h == k - 1
    <3>1. h \in Nat /\ h <= n /\ ~ (k <= h) /\ k \in 1..n
      BY <1>1, <2>3, <2>5
    <3>2. merging[h] = g[h]
      BY <2>2, <3>1
    <3>3. merging[k] = MergeTurn(merging[h], x, y, rank, strict)
      BY <1>9, <2>3, <2>5
    <3>4. g[k] = MergeTurn(g[h], x, y, rank, strict)
      BY <1>7, <3>1
    <3> QED
      BY <2>3, <3>2, <3>3, <3>4
  <2> QED
    BY <2>4, <2>5
<1>12. Merged(x, y, rank, strict) = g[n].items
  <2>1. n \in 0..n
    BY <1>1
  <2> HIDE DEF n
  <2> QED
    BY <1>10, <1>11, <2>1
<1> QED
  BY <1>3, <1>6, <1>7, <1>12 DEF Merges

\* A merge returns all the items of two halves.
LEMMA MergedType ==
  ASSUME NEW E, NEW x \in Seq(E), NEW y \in Seq(E), NEW rank, NEW strict
  PROVE  /\ Merged(x, y, rank, strict) \in Seq(E)
         /\ Len(Merged(x, y, rank, strict)) = Len(x) + Len(y)
<1> DEFINE n == Len(x) + Len(y)
<1>1. PICK g : Merges(g, x, y, rank, strict, E)
  BY MergeLoop
<1>2. n \in 0..n
  OBVIOUS
<1>3. Halves(g[n], n, x, y, E) /\ Merged(x, y, rank, strict) = g[n].items
  BY <1>1, <1>2 DEF Merges
<1> QED
  BY <1>3 DEF Halves

\* The positions that are taken when l items of the first half, n long, and r of the second are.
At(l, r, n) == (1..l) \cup ((n + 1)..(n + r))

\* A range in order, index by index.
LEMMA InOrderBy ==
  ASSUME NEW E, NEW x \in Seq(E), NEW rank
  PROVE  InOrder(x, rank) <=> \A i, j \in 1..Len(x) : i < j => rank[x[i]] <= rank[x[j]]
<1>1. DOMAIN x = 1..Len(x)
  OBVIOUS
<1> QED
  BY <1>1 DEF InOrder

\* The merge takes what comes first.
LEMMA LeftFirst ==
  ASSUME NEW G, NEW x \in Seq(G), NEW y \in Seq(G), NEW rank, Ranking(rank, G), NEW strict,
         InOrder(x, rank), InOrder(y, rank), NEW l \in 0..Len(x), NEW r \in 0..Len(y), l < Len(x),
         r = Len(y) \/ Before(rank, strict, x[l + 1], y[r + 1])
  PROVE  ComesNext(l + 1, At(l, r, Len(x)), x \o y, rank, ~ strict)
<1> DEFINE X == Len(x)
           Y == Len(y)
           c == x \o y
           w == l + 1
           U == (1..(X + Y)) \ At(l, r, X)
<1>1. /\ X \in Nat /\ Y \in Nat /\ Len(c) = X + Y
      /\ \A k \in 1..X : c[k] = x[k] /\ c[k] \in G
      /\ \A k \in 1..Y : c[X + k] = y[k] /\ y[k] \in G
  BY JoinedTwo
<1>. rank \in [G -> Nat]
  BY DEF Ranking
<1>2. \A i, j \in 1..X : i < j => rank[x[i]] <= rank[x[j]]
  BY InOrderBy
<1>3. \A i, j \in 1..Y : i < j => rank[y[i]] <= rank[y[j]]
  BY InOrderBy
<1>4. w \in 1..X /\ r \in 0..Y /\ l \in 0..X
  BY <1>1
<1>5. r = Y \/ rank[x[w]] <= rank[y[r + 1]]
  BY DEF Before
<1> HIDE DEF X, Y, c
<1>6. \A u \in U : u \in w..X \/ u - X \in (r + 1)..Y
  BY <1>1, <1>4 DEF At
<1>7. w \in U
  BY <1>1, <1>4 DEF At
<1> HIDE DEF U
<1>8. ASSUME NEW u \in w..X PROVE rank[c[w]] <= rank[c[u]]
  <2>1. u \in 1..X /\ (w = u \/ w < u)
    BY <1>1, <1>4
  <2>2. c[w] = x[w] /\ c[u] = x[u] /\ rank[x[w]] \in Nat
    BY <1>1, <1>4, <2>1
  <2> QED
    BY <1>2, <1>4, <2>1, <2>2
<1>9. ASSUME NEW h \in (r + 1)..Y PROVE rank[c[w]] <= rank[c[X + h]]
  <2>1. h \in 1..Y /\ r + 1 \in 1..Y /\ (r + 1 = h \/ r + 1 < h) /\ r # Y
    <3>1. Y \in Nat /\ r \in 0..Y
      BY <1>1, <1>4
    <3> QED
      BY <3>1
  <2>2. /\ c[w] = x[w] /\ c[X + h] = y[h] /\ rank[x[w]] \in Nat
        /\ rank[y[r + 1]] \in Nat /\ rank[y[h]] \in Nat
    BY <1>1, <1>4, <2>1
  <2>3. rank[y[r + 1]] <= rank[y[h]]
    <3>1. CASE r + 1 = h
      <4>1. rank[y[r + 1]] = rank[y[h]]
        BY <3>1
      <4> QED
        BY <2>2, <4>1
    <3>2. CASE r + 1 < h
      BY <1>3, <2>1, <3>2
    <3> QED
      BY <2>1, <3>1, <3>2
  <2> QED
    BY <1>5, <2>1, <2>2, <2>3
<1>10. ASSUME NEW u \in U PROVE rank[c[w]] <= rank[c[u]] /\ ~ (u < w)
  <2>1. CASE u \in w..X
    BY <1>4, <1>8, <2>1
  <2>2. ASSUME NEW h \in (r + 1)..Y, u = X + h PROVE rank[c[w]] <= rank[c[u]] /\ ~ (u < w)
    <3>1. ~ (u < w)
      BY <1>1, <1>4, <2>2
    <3> HIDE DEF w
    <3> QED
      BY <1>9, <2>2, <3>1
  <2>3. u \in w..X \/ \E h \in (r + 1)..Y : u = X + h
    <3>1. u \in 1..(X + Y)
      BY DEF U
    <3>2. u = X + (u - X)
      BY <1>1, <3>1
    <3> QED
      BY <1>6, <3>2
  <2> QED
    BY <2>1, <2>2, <2>3
<1>11. ComesNext(w, At(l, r, X), c, rank, ~ strict)
  BY <1>1, <1>7, <1>10 DEF ComesNext, U
<1> QED
  BY <1>11 DEF X, c

\* And so it does when it takes an item of the second half.
LEMMA RightFirst ==
  ASSUME NEW G, NEW x \in Seq(G), NEW y \in Seq(G), NEW rank, Ranking(rank, G), NEW strict,
         InOrder(x, rank), InOrder(y, rank), NEW l \in 0..Len(x), NEW r \in 0..Len(y), r < Len(y),
         l = Len(x) \/ ~ Before(rank, strict, x[l + 1], y[r + 1])
  PROVE  ComesNext(Len(x) + (r + 1), At(l, r, Len(x)), x \o y, rank, ~ strict)
<1> DEFINE X == Len(x)
           Y == Len(y)
           c == x \o y
           w == X + (r + 1)
           U == (1..(X + Y)) \ At(l, r, X)
<1>1. /\ X \in Nat /\ Y \in Nat /\ Len(c) = X + Y
      /\ \A k \in 1..X : c[k] = x[k] /\ x[k] \in G
      /\ \A k \in 1..Y : c[X + k] = y[k] /\ y[k] \in G
  BY JoinedTwo
<1>. rank \in [G -> Nat]
  BY DEF Ranking
<1>2. \A i, j \in 1..X : i < j => rank[x[i]] <= rank[x[j]]
  BY InOrderBy
<1>3. \A i, j \in 1..Y : i < j => rank[y[i]] <= rank[y[j]]
  BY InOrderBy
<1>4. r + 1 \in 1..Y /\ r \in 0..Y /\ l \in 0..X
  BY <1>1
<1>5. l = X \/ /\ ~ (rank[x[l + 1]] < rank[y[r + 1]])
               /\ ~ strict => rank[x[l + 1]] # rank[y[r + 1]]
  BY DEF Before
<1>6. c[w] = y[r + 1] /\ rank[y[r + 1]] \in Nat
  BY <1>1, <1>4
<1> HIDE DEF X, Y, c
<1>7. \A u \in U : u \in (l + 1)..X \/ u - X \in (r + 1)..Y
  BY <1>1, <1>4 DEF At
<1>8. w \in U
  BY <1>1, <1>4 DEF At
<1>9. \A u \in U : \/ u \in (l + 1)..X
                   \/ \E h \in (r + 1)..Y : u = X + h
  <2> SUFFICES ASSUME NEW u \in U, u \notin (l + 1)..X PROVE \E h \in (r + 1)..Y : u = X + h
    OBVIOUS
  <2>1. u = X + (u - X) /\ u - X \in (r + 1)..Y
    BY <1>1, <1>7
  <2> QED
    BY <2>1
<1> HIDE DEF U
<1>10. ASSUME NEW u \in (l + 1)..X
       PROVE  rank[c[w]] <= rank[c[u]] /\ (~ strict => rank[c[w]] < rank[c[u]])
  <2>1. u \in 1..X /\ l + 1 \in 1..X /\ (l + 1 = u \/ l + 1 < u) /\ l # X
    BY <1>1, <1>4
  <2>2. /\ c[u] = x[u] /\ rank[x[u]] \in Nat /\ rank[x[l + 1]] \in Nat
    BY <1>1, <2>1
  <2>3. rank[x[l + 1]] <= rank[x[u]]
    BY <1>2, <2>1, <2>2
  <2>4. /\ ~ (rank[x[l + 1]] < rank[y[r + 1]])
        /\ ~ strict => rank[x[l + 1]] # rank[y[r + 1]]
    BY <1>5, <2>1
  <2> DEFINE rl == rank[x[l + 1]]
             ru == rank[x[u]]
             ry == rank[y[r + 1]]
  <2>5. rl \in Nat /\ ru \in Nat /\ ry \in Nat /\ rl <= ru /\ ~ (rl < ry) /\ (~ strict => rl # ry)
    BY <1>6, <2>2, <2>3, <2>4
  <2> HIDE DEF rl, ru, ry
  <2>6. ry <= ru /\ (~ strict => ry < ru)
    BY <2>5
  <2> QED
    BY <1>6, <2>2, <2>6 DEF ru, ry
<1>11. ASSUME NEW h \in (r + 1)..Y PROVE rank[c[w]] <= rank[c[X + h]] /\ ~ (X + h < w)
  <2>1. h \in 1..Y /\ (r + 1 = h \/ r + 1 < h) /\ ~ (X + h < w)
    BY <1>1, <1>4
  <2>2. c[X + h] = y[h]
    BY <1>1, <2>1
  <2>3. rank[y[r + 1]] <= rank[y[h]]
    BY <1>3, <1>4, <1>6, <2>1
  <2> QED
    BY <1>6, <2>1, <2>2, <2>3
<1> HIDE DEF w
<1>12. ASSUME NEW u \in U
       PROVE  rank[c[w]] <= rank[c[u]] /\ (~ strict /\ u < w => rank[c[w]] < rank[c[u]])
  BY <1>9, <1>10, <1>11
<1>13. ComesNext(w, At(l, r, X), c, rank, ~ strict)
  BY <1>1, <1>8, <1>12 DEF ComesNext, U
<1> QED
  BY <1>13 DEF X, c, w

\* The state of a merge that has taken what comes first.
FirstTaken(m, x, y, rank, strict) ==
  \E q : Taken(At(m.l, m.r, Len(x)), q, m.items, x \o y, rank, ~ strict)

\* Each turn takes what comes first.
LEMMA TurnTakesFirst ==
  ASSUME NEW G, NEW x \in Seq(G), NEW y \in Seq(G), NEW rank, NEW strict, Ranking(rank, G),
         InOrder(x, rank), InOrder(y, rank), NEW k \in Nat, k < Len(x) + Len(y),
         NEW m, Halves(m, k, x, y, G), FirstTaken(m, x, y, rank, strict)
  PROVE  FirstTaken(MergeTurn(m, x, y, rank, strict), x, y, rank, strict)
<1> DEFINE n == MergeTurn(m, x, y, rank, strict)
<1>0. Turned(n, m, x, y, rank, strict)
  BY MergeTurns
<1> DEFINE l == m.l
           r == m.r
           X == Len(x)
           Y == Len(y)
           c == x \o y
<1>1. /\ X \in Nat /\ Y \in Nat /\ Len(c) = X + Y /\ c \in Seq(G)
      /\ \A i \in 1..X : c[i] = x[i]
      /\ \A i \in 1..Y : c[X + i] = y[i]
  BY JoinedTwo
<1>2. l \in 0..X /\ r \in 0..Y /\ m.items \in Seq(G)
  BY DEF Halves
<1>3. PICK q : Taken(At(l, r, X), q, m.items, c, rank, ~ strict)
  BY DEF FirstTaken
<1>4. IF TakesLeft(m, x, y, rank, strict)
      THEN l < X /\ n.l = l + 1 /\ n.r = r /\ n.items = Append(m.items, x[l + 1])
      ELSE r < Y /\ n.l = l /\ n.r = r + 1 /\ n.items = Append(m.items, y[r + 1])
  BY <1>0 DEF Turned
<1>5. CASE TakesLeft(m, x, y, rank, strict)
  <2>1. l < X /\ n.l = l + 1 /\ n.r = r /\ n.items = Append(m.items, x[l + 1])
    BY <1>4, <1>5
  <2>2. r = Y \/ Before(rank, strict, x[l + 1], y[r + 1])
    BY <1>5 DEF TakesLeft
  <2>3. ComesNext(l + 1, At(l, r, X), c, rank, ~ strict)
    BY <1>2, <2>1, <2>2, LeftFirst
  <2>4. \E p : Taken(At(l, r, X) \cup {l + 1}, p, Append(m.items, c[l + 1]), c, rank, ~ strict)
    BY <1>1, <1>2, <1>3, <2>3, TakeNext
  <2>5. c[l + 1] = x[l + 1]
    BY <1>1, <1>2, <2>1
  <2>6. At(l, r, X) \cup {l + 1} = At(l + 1, r, X)
    BY <1>1, <1>2 DEF At
  <2> HIDE DEF n, c, X
  <2> QED
    BY <2>1, <2>4, <2>5, <2>6 DEF FirstTaken, n, c, X
<1>6. CASE ~ TakesLeft(m, x, y, rank, strict)
  <2>1. r < Y /\ n.l = l /\ n.r = r + 1 /\ n.items = Append(m.items, y[r + 1])
    BY <1>4, <1>6
  <2>2. l = X \/ ~ Before(rank, strict, x[l + 1], y[r + 1])
    BY <1>1, <1>2, <1>6 DEF TakesLeft
  <2> DEFINE w == X + (r + 1)
  <2>3. ComesNext(w, At(l, r, X), c, rank, ~ strict)
    BY <1>2, <2>1, <2>2, RightFirst
  <2>4. \E p : Taken(At(l, r, X) \cup {w}, p, Append(m.items, c[w]), c, rank, ~ strict)
    BY <1>1, <1>2, <1>3, <2>3, TakeNext
  <2>5. c[w] = y[r + 1]
    BY <1>1, <1>2, <2>1
  <2>6. At(l, r, X) \cup {w} = At(l, r + 1, X)
    <3>1. r \in Nat /\ X \in Nat
      BY <1>1, <1>2
    <3> HIDE DEF X, r
    <3>2. ((X + 1)..(X + r)) \cup {X + (r + 1)} = (X + 1)..(X + (r + 1))
      BY <3>1
    <3> QED
      BY <3>2 DEF At
  <2> HIDE DEF n, c, X, w
  <2> QED
    BY <2>1, <2>4, <2>5, <2>6 DEF FirstTaken, n, c, X
<1> QED
  BY <1>5, <1>6

\* The merge of two ordered halves is their items in order.
LEMMA MergedRight ==
  ASSUME NEW G, NEW x \in Seq(G), NEW y \in Seq(G), NEW rank, NEW strict, Ranking(rank, G),
         InOrder(x, rank), InOrder(y, rank)
  PROVE  /\ Reorders(Merged(x, y, rank, strict), x \o y, rank, ~ strict)
         /\ InOrder(Merged(x, y, rank, strict), rank)
<1> DEFINE n == Len(x) + Len(y)
           c == x \o y
<1>0. PICK g : Merges(g, x, y, rank, strict, G)
  BY MergeLoop
<1>1. /\ g[0] = NoneTaken
      /\ \A k \in 0..n : Halves(g[k], k, x, y, G)
      /\ \A k \in 1..n : g[k] = MergeTurn(g[k - 1], x, y, rank, strict)
      /\ Merged(x, y, rank, strict) = g[n].items
  BY <1>0 DEF Merges
<1>2. n \in Nat /\ c \in Seq(G) /\ Len(c) = n
  BY JoinedTwo
<1>3. FirstTaken(NoneTaken, x, y, rank, strict)
  <2> DEFINE q == [i \in {} |-> 0]
  <2>1. At(0, 0, Len(x)) = {}
    BY DEF At
  <2>2. Taken({}, q, <<>>, c, rank, ~ strict)
    BY DEF Taken
  <2> HIDE DEF q
  <2> QED
    BY <2>1, <2>2 DEF FirstTaken, NoneTaken
<1>4. \A k \in 0..n : FirstTaken(g[k], x, y, rank, strict)
  <2> DEFINE S == {k \in Nat : k <= n /\ ~ FirstTaken(g[k], x, y, rank, strict)}
  <2> SUFFICES ASSUME S # {} PROVE FALSE
    BY <1>2
  <2>1. S \in SUBSET Nat
    OBVIOUS
  <2>2. PICK k \in S : \A h \in S : k <= h
    <3> HIDE DEF S
    <3> QED
      BY <2>1, FirstOf
  <2>3. k \in Nat /\ k <= n /\ ~ FirstTaken(g[k], x, y, rank, strict)
    BY <2>2
  <2>4. k # 0
    BY <1>1, <1>3, <2>3
  <2> DEFINE h == k - 1
  <2>5. h \in Nat /\ h < n /\ h <= n /\ ~ (k <= h) /\ k \in 1..n /\ h \in 0..n
    BY <1>2, <2>3, <2>4
  <2>6. FirstTaken(g[h], x, y, rank, strict)
    BY <2>2, <2>5
  <2>7. g[k] = MergeTurn(g[h], x, y, rank, strict) /\ Halves(g[h], h, x, y, G)
    BY <1>1, <2>5
  <2> HIDE DEF h, S
  <2> QED
    BY <2>3, <2>5, <2>6, <2>7, TurnTakesFirst
<1> DEFINE m == g[n]
<1>5. Halves(m, n, x, y, G) /\ FirstTaken(m, x, y, rank, strict)
  <2>1. n \in 0..n
    BY <1>2
  <2> HIDE DEF n
  <2> QED
    BY <1>1, <1>4, <2>1
<1>6. m.items \in Seq(G) /\ Len(m.items) = n /\ m.l = Len(x) /\ m.r = Len(y)
  BY <1>5 DEF Halves
<1>7. At(Len(x), Len(y), Len(x)) = 1..n
  BY DEF At
<1>8. PICK q : Taken(1..n, q, m.items, c, rank, ~ strict)
  BY <1>5, <1>6, <1>7 DEF FirstTaken
<1>9. Reorders(m.items, c, rank, ~ strict) /\ InOrder(m.items, rank)
  <2> HIDE DEF m, n, c
  <2> QED
    BY <1>2, <1>6, <1>8, AllTaken
<1> QED
  BY <1>1, <1>9

-----------------------------------------------------------------------------
(* The sort                                                                 *)

\* A range of more than one item has two halves that are not empty.
LEMMA MidBetween ==
  ASSUME NEW a \in Nat, NEW b \in Nat, a < b
  PROVE  Mid(a, b) \in Nat /\ a <= Mid(a, b) /\ Mid(a, b) < b
<1> DEFINE h == (b - a) \div 2
<1>1. h \in Nat /\ h < b - a
  OBVIOUS
<1> HIDE DEF h
<1>2. a + h \in Nat /\ a <= a + h /\ a + h < b
  BY <1>1
<1> QED
  BY <1>2 DEF Mid, h

\* Indices, numbers and items of a part of a sequence.
LEMMA PartOf ==
  ASSUME NEW E, NEW s \in Seq(E), NEW a \in 1..Len(s), NEW b \in 1..Len(s), a <= b
  PROVE  /\ SubSeq(s, a, b) \in Seq(E) /\ Len(SubSeq(s, a, b)) = b - a + 1
         /\ \A k \in 1..(b - a + 1) : SubSeq(s, a, b)[k] = s[a + k - 1]
<1>1. Len(s) \in Nat /\ a \in Nat /\ b \in Nat
  OBVIOUS
<1>2. SubSeq(s, a, b) \in Seq(E)
  BY <1>1, SubSeqProperties
<1>3. Len(SubSeq(s, a, b)) = b - a + 1
  BY <1>1, SubSeqProperties
<1>4. \A k \in 1..(b - a + 1) : SubSeq(s, a, b)[k] = s[a + k - 1]
  BY <1>1, SubSeqProperties
<1> QED
  BY <1>2, <1>3, <1>4

\* A part is cut in two.
LEMMA PartsOf ==
  ASSUME NEW E, NEW s \in Seq(E), NEW a \in 1..Len(s), NEW b \in 1..Len(s),
         NEW m \in 1..Len(s), a <= m, m < b
  PROVE  SubSeq(s, a, m) \o SubSeq(s, m + 1, b) = SubSeq(s, a, b)
<1> DEFINE x == SubSeq(s, a, m)
           y == SubSeq(s, m + 1, b)
           z == SubSeq(s, a, b)
           c == x \o y
           X == m - a + 1
           Y == b - m
<1>1. /\ X \in Nat /\ Y \in Nat /\ X + Y = b - a + 1 /\ m + 1 \in 1..Len(s) /\ m + 1 <= b
      /\ b - (m + 1) + 1 = Y /\ a <= b /\ a + X = m + 1
  OBVIOUS
<1>2. x \in Seq(E) /\ Len(x) = X /\ \A k \in 1..X : x[k] = s[a + k - 1]
  BY PartOf
<1>3. y \in Seq(E) /\ Len(y) = Y /\ \A k \in 1..Y : y[k] = s[m + 1 + k - 1]
  BY <1>1, PartOf
<1>4. z \in Seq(E) /\ Len(z) = X + Y /\ \A k \in 1..(X + Y) : z[k] = s[a + k - 1]
  BY <1>1, PartOf
<1> HIDE DEF x, y, z
<1>5. /\ c \in Seq(E) /\ Len(c) = X + Y
      /\ \A k \in 1..X : c[k] = x[k]
      /\ \A k \in 1..Y : c[X + k] = y[k]
  <2>1. x \in Seq(E) /\ y \in Seq(E) /\ Len(x) = X /\ Len(y) = Y
    BY <1>2, <1>3
  <2> HIDE DEF X, Y
  <2> QED
    BY <2>1, JoinedTwo
<1> HIDE DEF c
<1>6. ASSUME NEW k \in 1..(X + Y) PROVE c[k] = z[k]
  <2>1. CASE k \in 1..X
    BY <1>2, <1>4, <1>5, <2>1
  <2>2. CASE k \notin 1..X
    <3> DEFINE h == k - X
    <3>1. h \in 1..Y /\ k = X + h /\ m + 1 + h - 1 = a + k - 1
      BY <1>1, <2>2
    <3> HIDE DEF h, X, Y
    <3>2. c[k] = y[h] /\ y[h] = s[m + 1 + h - 1]
      BY <1>3, <1>5, <3>1
    <3> QED
      BY <1>4, <3>1, <3>2
  <2> QED
    BY <2>1, <2>2
<1>7. c = z
  <2> HIDE DEF X, Y
  <2> QED
    BY <1>4, <1>5, <1>6
<1> QED
  BY <1>7 DEF c, x, y, z

\* How a sort of a range of more than one item ends.
SortEnds(o, s, a, b, left, right, rank, strict) ==
  \/ \E l \in left : o = Outcome(FALSE, l.items \o SubSeq(s, Mid(a, b) + 1, b), l.set)
  \/ \E l \in left, r \in right :
       o = Outcome(FALSE, l.items \o r.items,
                   IF r.set > 0 THEN Mid(a, b) - a + 1 + r.set ELSE l.set)
  \/ \E l \in left, r \in right :
       /\ l.ok /\ r.ok /\ ~ HasHoles(SubSeq(s, a, b))
       /\ o = Outcome(TRUE, Merged(l.items, r.items, rank, strict), b - a + 1)

\* There is no other end.
LEMMA SortFromEnds ==
  ASSUME NEW s, NEW a, NEW b, NEW left, NEW right, NEW rank, NEW strict,
         NEW o \in SortFrom(s, a, b, left, right, rank, strict)
  PROVE  SortEnds(o, s, a, b, left, right, rank, strict)
<1> DEFINE Set(l, r) == IF r.set > 0 THEN Mid(a, b) - a + 1 + r.set ELSE l.set
           holes == HasHoles(SubSeq(s, a, b))
           L == {Outcome(FALSE, l.items \o SubSeq(s, Mid(a, b) + 1, b), l.set) :
                   l \in {i \in left : ~ i.ok}}
           M == {Outcome(FALSE, h[1].items \o h[2].items, Set(h[1], h[2])) :
                   h \in {p \in left \X right : p[1].ok /\ (AllocFails \/ holes \/ ~ p[2].ok)}}
           N == {Outcome(TRUE, Merged(h[1].items, h[2].items, rank, strict), b - a + 1) :
                   h \in {p \in left \X right : p[1].ok /\ p[2].ok /\ ~ holes}}
<1>1. o \in L \/ o \in M \/ o \in N
  BY DEF SortFrom
<1>2. CASE o \in L
  BY <1>2 DEF SortEnds
<1>3. CASE o \in M
  <2>1. PICK h \in left \X right : o = Outcome(FALSE, h[1].items \o h[2].items, Set(h[1], h[2]))
    BY <1>3
  <2>2. h[1] \in left /\ h[2] \in right
    OBVIOUS
  <2> QED
    BY <2>1, <2>2 DEF SortEnds
<1>4. CASE o \in N
  <2>1. PICK h \in left \X right :
          /\ h[1].ok /\ h[2].ok /\ ~ holes
          /\ o = Outcome(TRUE, Merged(h[1].items, h[2].items, rank, strict), b - a + 1)
    BY <1>4
  <2>2. h[1] \in left /\ h[2] \in right
    OBVIOUS
  <2> QED
    BY <2>1, <2>2 DEF SortEnds
<1> QED
  BY <1>1, <1>2, <1>3, <1>4

Outcomes(E) == [ok : BOOLEAN, items : Seq(E), set : Nat]

\* What an outcome consists of.
LEMMA OutcomeIn ==
  ASSUME NEW E, NEW ok \in BOOLEAN, NEW items \in Seq(E), NEW set \in Nat
  PROVE  /\ Outcome(ok, items, set) \in Outcomes(E)
         /\ Outcome(ok, items, set).ok = ok
         /\ Outcome(ok, items, set).items = items
         /\ Outcome(ok, items, set).set = set
  BY DEF Outcome, Outcomes

\* Outcomes of halves make outcomes.
LEMMA SortFromType ==
  ASSUME NEW E, NEW s \in Seq(E), NEW a \in 1..Len(s), NEW b \in 1..Len(s), a < b,
         NEW left \in SUBSET Outcomes(E), NEW right \in SUBSET Outcomes(E), NEW rank, NEW strict
  PROVE  SortFrom(s, a, b, left, right, rank, strict) \in SUBSET Outcomes(E)
<1> SUFFICES ASSUME NEW o \in SortFrom(s, a, b, left, right, rank, strict)
             PROVE  o \in Outcomes(E)
  OBVIOUS
<1>7. SortEnds(o, s, a, b, left, right, rank, strict)
  BY SortFromEnds
<1> DEFINE m == Mid(a, b)
<1>1. m \in Nat /\ a <= m /\ m < b /\ a \in Nat /\ b \in Nat /\ m + 1 \in 1..Len(s)
  <2>1. a \in Nat /\ b \in Nat /\ Len(s) \in Nat /\ b <= Len(s)
    OBVIOUS
  <2>2. m \in Nat /\ a <= m /\ m < b
    BY <2>1, MidBetween
  <2> HIDE DEF m
  <2> QED
    BY <2>1, <2>2
<1>2. SubSeq(s, m + 1, b) \in Seq(E)
  <2> HIDE DEF m
  <2>1. m + 1 <= b
    BY <1>1
  <2> QED
    BY <1>1, <2>1, PartOf
<1>3. \A l \in Outcomes(E) : l.items \in Seq(E) /\ l.set \in Nat
  BY DEF Outcomes
<1>4. ASSUME NEW l \in left, o = Outcome(FALSE, l.items \o SubSeq(s, m + 1, b), l.set)
      PROVE  o \in Outcomes(E)
  <2> HIDE DEF m
  <2>1. l.items \o SubSeq(s, m + 1, b) \in Seq(E) /\ l.set \in Nat
    BY <1>2, <1>3
  <2> QED
    BY <1>4, <2>1, OutcomeIn
<1>5. ASSUME NEW l \in left, NEW r \in right,
             o = Outcome(FALSE, l.items \o r.items,
                         IF r.set > 0 THEN m - a + 1 + r.set ELSE l.set)
      PROVE  o \in Outcomes(E)
  <2> HIDE DEF m
  <2> DEFINE set == IF r.set > 0 THEN m - a + 1 + r.set ELSE l.set
  <2>1. l.items \o r.items \in Seq(E)
    BY <1>3
  <2>2. set \in Nat
    BY <1>1, <1>3
  <2> HIDE DEF set
  <2>3. o = Outcome(FALSE, l.items \o r.items, set)
    BY <1>5 DEF set
  <2> QED
    BY <2>1, <2>2, <2>3, OutcomeIn
<1>6. ASSUME NEW l \in left, NEW r \in right,
             o = Outcome(TRUE, Merged(l.items, r.items, rank, strict), b - a + 1)
      PROVE  o \in Outcomes(E)
  <2>1. l.items \in Seq(E) /\ r.items \in Seq(E)
    BY <1>3
  <2>2. Merged(l.items, r.items, rank, strict) \in Seq(E)
    BY <2>1, MergedType
  <2>3. b - a + 1 \in Nat
    BY <1>1
  <2> QED
    BY <1>6, <2>2, <2>3, OutcomeIn
<1> QED
  BY <1>4, <1>5, <1>6, <1>7 DEF SortEnds

\* f holds the outcomes for each range of s.
Sorts(f, s, rank, strict) ==
  \A range \in (1..Len(s)) \X (1..Len(s)) :
    f[range] = SortStep(f, s, range[1], range[2], rank, strict)

\* The halves of a range.
LEMMA HalvesOf ==
  ASSUME NEW n \in Nat, NEW d \in (1..n) \X (1..n), d[1] < d[2]
  PROVE  /\ <<d[1], Mid(d[1], d[2])>> \in (1..n) \X (1..n)
         /\ <<Mid(d[1], d[2]) + 1, d[2]>> \in (1..n) \X (1..n)
         /\ d[1] <= Mid(d[1], d[2]) /\ Mid(d[1], d[2]) + 1 <= d[2]
         /\ Mid(d[1], d[2]) \in Nat
<1> DEFINE a == d[1]
           b == d[2]
           m == Mid(a, b)
<1>1. a \in 1..n /\ b \in 1..n /\ a < b
  OBVIOUS
<1> HIDE DEF a, b
<1>2. m \in Nat /\ a <= m /\ m < b
  <2>1. a \in Nat /\ b \in Nat
    BY <1>1
  <2> QED
    BY <1>1, <2>1, MidBetween
<1> HIDE DEF m
<1>3. m \in 1..n /\ m + 1 \in 1..n /\ m + 1 <= b
  BY <1>1, <1>2
<1>4. <<a, m>> \in (1..n) \X (1..n) /\ <<m + 1, b>> \in (1..n) \X (1..n)
  BY <1>1, <1>3
<1> QED
  BY <1>2, <1>3, <1>4 DEF a, b, m

\* A step of the recursion of sort makes outcomes.
LEMMA SortStepType ==
  ASSUME NEW E, NEW s \in Seq(E), NEW rank, NEW strict,
         NEW f \in [(1..Len(s)) \X (1..Len(s)) -> SUBSET Outcomes(E)],
         NEW d \in (1..Len(s)) \X (1..Len(s))
  PROVE  SortStep(f, s, d[1], d[2], rank, strict) \in SUBSET Outcomes(E)
<1> DEFINE a == d[1]
           b == d[2]
<1>1. a \in 1..Len(s) /\ b \in 1..Len(s) /\ Len(s) \in Nat
  OBVIOUS
<1>2. Outcome(FALSE, <<>>, 0) \in Outcomes(E)
  <2>1. <<>> \in Seq(E)
    OBVIOUS
  <2> QED
    BY <2>1, OutcomeIn
<1>3. Outcome(TRUE, <<s[a]>>, 0) \in Outcomes(E)
  <2>1. s[a] \in E
    BY <1>1
  <2>2. <<s[a]>> \in Seq(E)
    BY <2>1
  <2> QED
    BY <2>2, OutcomeIn
<1>4. ASSUME a < b
      PROVE  SortFrom(s, a, b, f[<<a, Mid(a, b)>>], f[<<Mid(a, b) + 1, b>>], rank, strict)
               \in SUBSET Outcomes(E)
  <2> DEFINE left == f[<<a, Mid(a, b)>>]
             right == f[<<Mid(a, b) + 1, b>>]
  <2>1. left \in SUBSET Outcomes(E) /\ right \in SUBSET Outcomes(E)
    <3>1. <<a, Mid(a, b)>> \in (1..Len(s)) \X (1..Len(s))
          /\ <<Mid(a, b) + 1, b>> \in (1..Len(s)) \X (1..Len(s))
      BY <1>1, <1>4, HalvesOf
    <3> QED
      BY <3>1
  <2> HIDE DEF left, right, a, b
  <2> QED
    BY <1>1, <1>4, <2>1, SortFromType DEF left, right
<1>5. a > b \/ a = b \/ a < b
  BY <1>1
<1> QED
  BY <1>1, <1>2, <1>3, <1>4, <1>5 DEF SortStep

\* f and g agree on the ranges up to n that are smaller than the range d.
AgreeBelow(f, g, d, n) ==
  \A e \in (1..n) \X (1..n) :
    e[1] <= e[2] /\ d[1] < d[2] /\ e[2] - e[1] < d[2] - d[1] => f[e] = g[e]

\* A step of the recursion of sort looks at smaller ranges only.
LEMMA SortStepLocal ==
  ASSUME NEW n \in Nat, NEW s, NEW f, NEW g, NEW rank, NEW strict,
         NEW d \in (1..n) \X (1..n), AgreeBelow(f, g, d, n)
  PROVE  SortStep(f, s, d[1], d[2], rank, strict) = SortStep(g, s, d[1], d[2], rank, strict)
<1> DEFINE a == d[1]
           b == d[2]
<1>1. a \in 1..n /\ b \in 1..n
  OBVIOUS
<1>2. ASSUME a < b
      PROVE  f[<<a, Mid(a, b)>>] = g[<<a, Mid(a, b)>>]
             /\ f[<<Mid(a, b) + 1, b>>] = g[<<Mid(a, b) + 1, b>>]
  <2> DEFINE m == Mid(a, b)
             x == <<a, m>>
             y == <<m + 1, b>>
  <2>1. /\ x \in (1..n) \X (1..n) /\ y \in (1..n) \X (1..n)
        /\ a <= m /\ m + 1 <= b /\ m \in Nat
    BY <1>2, HalvesOf
  <2>2. x[1] = a /\ x[2] = m /\ y[1] = m + 1 /\ y[2] = b
    OBVIOUS
  <2>3. m - a < b - a /\ b - (m + 1) < b - a
    <3> HIDE DEF m, a, b
    <3> QED
      BY <1>1, <1>2, <2>1
  <2> HIDE DEF m, x, y, a, b
  <2>4. f[x] = g[x] /\ f[y] = g[y]
    <3>1. x[1] <= x[2] /\ y[1] <= y[2] /\ x[2] - x[1] < b - a /\ y[2] - y[1] < b - a
      BY <2>1, <2>2, <2>3
    <3> QED
      BY <1>2, <2>1, <3>1 DEF a, b, AgreeBelow
  <2> QED
    BY <2>4 DEF m, x, y, a, b
<1>3. ~ (a > b) /\ a # b => a < b
  BY <1>1
<1> QED
  BY <1>2, <1>3 DEF SortStep

\* sort is a recursion that ends: its outcomes satisfy its equation.
LEMMA SortLoop ==
  ASSUME NEW E, NEW s \in Seq(E), s # <<>>, NEW rank, NEW strict
  PROVE  \E f : /\ Sorts(f, s, rank, strict)
                /\ SortOutcomes(s, rank, strict) = f[<<1, Len(s)>>]
<1> DEFINE n == Len(s)
           D == (1..n) \X (1..n)
           V == SUBSET Outcomes(E)
           H == [f \in [D -> V] |-> [d \in D |-> SortStep(f, s, d[1], d[2], rank, strict)]]
           size == [d \in D |-> IF d[1] <= d[2] THEN d[2] - d[1] ELSE 0]
           Self(f) == f = [d \in D |-> SortStep(f, s, d[1], d[2], rank, strict)]
           sort == CHOOSE f : Self(f)
<1>1. n \in Nat
  OBVIOUS
<1>2. {} \in V
  OBVIOUS
<1>3. H \in [[D -> V] -> [D -> V]]
  <2>1. \A f \in [D -> V] : \A d \in D : SortStep(f, s, d[1], d[2], rank, strict) \in V
    BY SortStepType
  <2> HIDE DEF D, V
  <2>2. \A f \in [D -> V] : [d \in D |-> SortStep(f, s, d[1], d[2], rank, strict)] \in [D -> V]
    BY <2>1
  <2> QED
    BY <2>2
<1>4. size \in [D -> 0..n]
  <2>1. ASSUME NEW d \in D PROVE (IF d[1] <= d[2] THEN d[2] - d[1] ELSE 0) \in 0..n
    <3> DEFINE a == d[1]
               b == d[2]
    <3>1. a \in 1..n /\ b \in 1..n
      OBVIOUS
    <3> HIDE DEF a, b, n
    <3>2. (IF a <= b THEN b - a ELSE 0) \in 0..n
      BY <1>1, <3>1
    <3> QED
      BY <3>2 DEF a, b
  <2> QED
    BY <2>1
<1> DEFINE W == [D -> V]
<1>5. ASSUME NEW f \in W, NEW g \in W, NEW d \in D,
             \A e \in D : size[e] < size[d] => f[e] = g[e]
      PROVE  H[f][d] = H[g][d]
  <2>1. ASSUME NEW e \in D, e[1] <= e[2], d[1] < d[2], e[2] - e[1] < d[2] - d[1]
        PROVE  f[e] = g[e]
    <3>1. size[e] = e[2] - e[1]
      BY <2>1
    <3>2. size[d] = d[2] - d[1]
      <4>1. d[1] <= d[2]
        BY <2>1, <1>1
      <4> QED
        BY <4>1
    <3> HIDE DEF size
    <3> QED
      BY <1>5, <2>1, <3>1, <3>2
  <2>2. SortStep(f, s, d[1], d[2], rank, strict) = SortStep(g, s, d[1], d[2], rank, strict)
    <3>1. AgreeBelow(f, g, d, n)
      BY <2>1 DEF AgreeBelow
    <3>2. d \in (1..n) \X (1..n)
      OBVIOUS
    <3> HIDE DEF W, n, D, H, size
    <3> QED
      BY <1>1, <3>1, <3>2, SortStepLocal
  <2>3. /\ H[f][d] = SortStep(f, s, d[1], d[2], rank, strict)
        /\ H[g][d] = SortStep(g, s, d[1], d[2], rank, strict)
    <3> HIDE DEF D, V
    <3> QED
      OBVIOUS
  <2> QED
    BY <2>2, <2>3
<1>6. \E f \in [D -> V] : H[f] = f
  <2> HIDE DEF D, V, H, size, n
  <2>1. Recursive(H, D, V, size, n)
    BY <1>3, <1>4, <1>5 DEF Recursive
  <2> QED
    BY <1>1, <1>2, <2>1, FixedPoint
<1>7. Self(sort)
  <2>1. PICK f \in [D -> V] : H[f] = f
    BY <1>6
  <2>2. Self(f)
    <3> HIDE DEF D, V
    <3> QED
      BY <2>1
  <2> HIDE DEF Self
  <2> QED
    BY <2>2
<1>8. SortOutcomes(s, rank, strict) = sort[<<1, n>>]
  BY DEF SortOutcomes
<1> HIDE DEF sort
<1>9. Sorts(sort, s, rank, strict)
  BY <1>7 DEF Sorts
<1> QED
  BY <1>8, <1>9

\* A sequence of items of G is one of G.
LEMMA ItemsOf ==
  ASSUME NEW G, NEW E, NEW t \in Seq(E), \A k \in 1..Len(t) : t[k] \in G
  PROVE  t \in Seq(G)
<1>1. Len(t) \in Nat /\ t = [k \in 1..Len(t) |-> t[k]]
  OBVIOUS
<1>2. \E n \in Nat : t \in [1..n -> G]
  <2>1. t \in [1..Len(t) -> G]
    BY <1>1
  <2> QED
    BY <1>1, <2>1
<1> QED
  BY <1>2, SeqDef

\* A part without holes holds ranked items.
LEMMA WithoutHoles ==
  ASSUME NEW G, NEW E, E = G \cup {NoNode}, NEW s \in Seq(E), NEW t \in Seq(E),
         NEW rank, NEW stable, Reorders(t, s, rank, stable), ~ HasHoles(s)
  PROVE  t \in Seq(G)
<1>1. PICK p : ByOrder(p, t, s, rank, stable)
  BY ReordersBy
<1>2. /\ p \in [1..Len(s) -> 1..Len(s)] /\ Len(t) = Len(s)
      /\ \A k \in 1..Len(s) : t[k] = s[p[k]]
  BY <1>1 DEF ByOrder
<1>3. \A k \in 1..Len(s) : s[k] \in G
  <2>1. DOMAIN s = 1..Len(s)
    OBVIOUS
  <2>2. \A k \in 1..Len(s) : s[k] \in E /\ s[k] # NoNode
    BY <2>1 DEF HasHoles
  <2> QED
    BY <2>2
<1>4. \A k \in 1..Len(t) : t[k] \in G
  BY <1>2, <1>3
<1> QED
  BY <1>4, ItemsOf

\* What a sort of the items of s from a to b may leave.
Sorted(o, s, a, b, rank, strict, E) ==
  /\ o.items \in Seq(E) /\ o.set \in Nat
  /\ Reorders(o.items, SubSeq(s, a, b), rank, ~ strict)
  /\ o.ok => InOrder(o.items, rank) /\ (a < b => ~ HasHoles(SubSeq(s, a, b)))
  /\ o.set <= b - a + 1 /\ (a = b => o.set = 0)

\* Two halves are sorted into a whole.
LEMMA HalvesSort ==
  ASSUME NEW G, NEW E, E = G \cup {NoNode}, NEW s \in Seq(E), NEW rank, Ranking(rank, G),
         NEW strict, NEW a \in 1..Len(s), NEW b \in 1..Len(s), a < b, NEW left, NEW right,
         \A l \in left : Sorted(l, s, a, Mid(a, b), rank, strict, E),
         \A r \in right : Sorted(r, s, Mid(a, b) + 1, b, rank, strict, E),
         NEW o, SortEnds(o, s, a, b, left, right, rank, strict)
  PROVE  Sorted(o, s, a, b, rank, strict, E)
<1> DEFINE m == Mid(a, b)
           x == SubSeq(s, a, m)
           y == SubSeq(s, m + 1, b)
           z == SubSeq(s, a, b)
<1>1. m \in Nat /\ a <= m /\ m < b /\ a \in Nat /\ b \in Nat /\ m + 1 \in 1..Len(s)
      /\ m \in 1..Len(s)
  <2>1. a \in Nat /\ b \in Nat /\ Len(s) \in Nat /\ b <= Len(s) /\ 1 <= a
    OBVIOUS
  <2>2. m \in Nat /\ a <= m /\ m < b
    BY <2>1, MidBetween
  <2> HIDE DEF m
  <2> QED
    BY <2>1, <2>2
<1>2. /\ \A l \in left : Sorted(l, s, a, m, rank, strict, E)
      /\ \A r \in right : Sorted(r, s, m + 1, b, rank, strict, E)
  OBVIOUS
<1>3. \/ \E l \in left : o = Outcome(FALSE, l.items \o y, l.set)
      \/ \E l \in left, r \in right :
           o = Outcome(FALSE, l.items \o r.items,
                       IF r.set > 0 THEN m - a + 1 + r.set ELSE l.set)
      \/ \E l \in left, r \in right :
           /\ l.ok /\ r.ok /\ ~ HasHoles(z)
           /\ o = Outcome(TRUE, Merged(l.items, r.items, rank, strict), b - a + 1)
  BY DEF SortEnds
<1> HIDE DEF m
<1>4. x \in Seq(E) /\ y \in Seq(E) /\ z \in Seq(E)
  <2>1. m + 1 <= b /\ a <= b
    BY <1>1
  <2> QED
    BY <1>1, <2>1, PartOf
<1>5. x \o y = z
  BY <1>1, PartsOf
<1>6. ASSUME NEW l \in left
      PROVE  /\ l.items \in Seq(E) /\ l.set \in Nat /\ l.set <= m - a + 1
             /\ Reorders(l.items, x, rank, ~ strict)
             /\ l.ok => InOrder(l.items, rank)
  BY <1>2 DEF Sorted
<1>7. ASSUME NEW r \in right
      PROVE  /\ r.items \in Seq(E) /\ r.set \in Nat /\ r.set <= b - (m + 1) + 1
             /\ Reorders(r.items, y, rank, ~ strict)
             /\ r.ok => InOrder(r.items, rank)
  BY <1>2 DEF Sorted
<1> HIDE DEF x, y, z
<1>8. ASSUME NEW ok \in BOOLEAN, NEW items \in Seq(E), NEW set \in Nat,
             o = Outcome(ok, items, set), Reorders(items, z, rank, ~ strict),
             ok => InOrder(items, rank) /\ ~ HasHoles(z), set <= b - a + 1
      PROVE  Sorted(o, s, a, b, rank, strict, E)
  <2>1. o.ok = ok /\ o.items = items /\ o.set = set
    BY <1>8, OutcomeIn
  <2>2. a # b
    BY <1>1
  <2> QED
    BY <1>8, <2>1, <2>2 DEF Sorted, z
<1>9. ASSUME NEW l \in left, o = Outcome(FALSE, l.items \o y, l.set)
      PROVE  Sorted(o, s, a, b, rank, strict, E)
  <2>1. Reorders(y, y, rank, ~ strict)
    BY <1>4, ReordersSelf
  <2> DEFINE items == l.items \o y
             set == l.set
  <2>2. items \in Seq(E) /\ set \in Nat /\ Reorders(items, z, rank, ~ strict)
    <3>1. l.items \in Seq(E) /\ Reorders(l.items, x, rank, ~ strict)
      BY <1>6
    <3>2. Reorders(items, x \o y, rank, ~ strict)
      BY <1>4, <2>1, <3>1, ReordersParts
    <3> QED
      BY <1>4, <1>5, <1>6, <3>1, <3>2
  <2>3. set <= b - a + 1
    BY <1>1, <1>6
  <2>4. o = Outcome(FALSE, items, set)
    BY <1>9
  <2> HIDE DEF items, set
  <2> QED
    BY <1>8, <2>2, <2>3, <2>4
<1>10. ASSUME NEW l \in left, NEW r \in right
       PROVE  /\ l.items \o r.items \in Seq(E)
              /\ Reorders(l.items \o r.items, z, rank, ~ strict)
  <2>1. l.items \in Seq(E) /\ Reorders(l.items, x, rank, ~ strict)
    BY <1>6
  <2>2. r.items \in Seq(E) /\ Reorders(r.items, y, rank, ~ strict)
    BY <1>7
  <2>3. Reorders(l.items \o r.items, x \o y, rank, ~ strict)
    BY <1>4, <2>1, <2>2, ReordersParts
  <2> QED
    BY <1>5, <2>1, <2>2, <2>3
<1>11. ASSUME NEW l \in left, NEW r \in right,
              o = Outcome(FALSE, l.items \o r.items,
                          IF r.set > 0 THEN m - a + 1 + r.set ELSE l.set)
       PROVE  Sorted(o, s, a, b, rank, strict, E)
  <2> DEFINE items == l.items \o r.items
             ls == l.set
             rs == r.set
             set == IF rs > 0 THEN m - a + 1 + rs ELSE ls
  <2>1. ls \in Nat /\ ls <= m - a + 1 /\ rs \in Nat /\ rs <= b - (m + 1) + 1
    BY <1>6, <1>7
  <2>2. items \in Seq(E) /\ Reorders(items, z, rank, ~ strict)
    BY <1>10
  <2>3. o = Outcome(FALSE, items, set)
    BY <1>11
  <2> HIDE DEF items, ls, rs
  <2>4. set \in Nat /\ set <= b - a + 1
    BY <1>1, <2>1
  <2> HIDE DEF set
  <2> QED
    BY <1>8, <2>2, <2>3, <2>4
<1>12. ASSUME NEW l \in left, NEW r \in right, l.ok, r.ok, ~ HasHoles(z),
              o = Outcome(TRUE, Merged(l.items, r.items, rank, strict), b - a + 1)
       PROVE  Sorted(o, s, a, b, rank, strict, E)
  <2> DEFINE items == Merged(l.items, r.items, rank, strict)
             both == l.items \o r.items
  <2>1. both \in Seq(E) /\ Reorders(both, z, rank, ~ strict)
    BY <1>10
  <2>2. l.items \in Seq(E) /\ r.items \in Seq(E) /\ InOrder(l.items, rank) /\ InOrder(r.items, rank)
    BY <1>6, <1>7, <1>12
  <2>3. both \in Seq(G)
    <3> HIDE DEF both
    <3> QED
      BY <1>4, <1>12, <2>1, WithoutHoles
  <2>4. l.items \in Seq(G) /\ r.items \in Seq(G)
    <3> DEFINE u == l.items
               v == r.items
               h == Len(u)
               k == Len(v)
    <3>1. /\ u \in Seq(E) /\ v \in Seq(E) /\ h \in Nat /\ k \in Nat
          /\ h = Len(u) /\ k = Len(v) /\ both = u \o v
      BY <2>2
    <3> HIDE DEF both, u, v, h, k
    <3>2. /\ Len(both) = h + k
          /\ \A i \in 1..h : both[i] = u[i]
          /\ \A i \in 1..k : both[h + i] = v[i]
      BY <3>1, JoinedTwo
    <3>3. \A i \in 1..(h + k) : both[i] \in G
      BY <2>3, <3>2
    <3>4. (\A i \in 1..h : u[i] \in G) /\ (\A i \in 1..k : v[i] \in G)
      <4>1. \A i \in 1..h : i \in 1..(h + k)
        BY <3>1
      <4>2. \A i \in 1..k : h + i \in 1..(h + k)
        BY <3>1
      <4> QED
        BY <3>2, <3>3, <4>1, <4>2
    <3>5. u \in Seq(G)
      BY <3>1, <3>4, ItemsOf
    <3>6. v \in Seq(G)
      BY <3>1, <3>4, ItemsOf
    <3> QED
      BY <3>5, <3>6 DEF u, v
  <2>5. Reorders(items, both, rank, ~ strict) /\ InOrder(items, rank)
    BY <2>2, <2>4, MergedRight
  <2>6. items \in Seq(E)
    BY <2>2, MergedType
  <2>7. Reorders(items, z, rank, ~ strict)
    <3> HIDE DEF items, both
    <3> QED
      BY <1>4, <2>1, <2>5, <2>6, ReordersTwice
  <2> DEFINE set == b - a + 1
  <2>8. set \in Nat /\ set <= b - a + 1
    BY <1>1
  <2>9. o = Outcome(TRUE, items, set)
    BY <1>12
  <2> HIDE DEF items, set
  <2> QED
    BY <1>8, <1>12, <2>5, <2>6, <2>7, <2>8, <2>9
<1> QED
  BY <1>3, <1>9, <1>11, <1>12

\* The outcomes of a sort of any range are sorted.
LEMMA RangesSort ==
  ASSUME NEW G, NEW E, E = G \cup {NoNode}, NEW s \in Seq(E), NEW rank, Ranking(rank, G),
         NEW strict, NEW f, Sorts(f, s, rank, strict)
  PROVE  \A a, b \in 1..Len(s) : a <= b =>
           \A o \in f[<<a, b>>] : Sorted(o, s, a, b, rank, strict, E)
<1> DEFINE n == Len(s)
           Right(a, b) == \A o \in f[<<a, b>>] : Sorted(o, s, a, b, rank, strict, E)
           S == {k \in Nat : \E a, b \in 1..n : a <= b /\ b - a = k /\ ~ Right(a, b)}
<1>1. n \in Nat
  OBVIOUS
<1>2. S = {}
  <2> SUFFICES ASSUME S # {} PROVE FALSE
    OBVIOUS
  <2>1. S \in SUBSET Nat
    OBVIOUS
  <2>2. PICK k \in S : \A h \in S : k <= h
    <3> HIDE DEF S
    <3> QED
      BY <2>1, FirstOf
  <2>3. PICK a \in 1..n, b \in 1..n : a <= b /\ b - a = k /\ ~ Right(a, b)
    BY <2>2
  <2>4. f[<<a, b>>] = SortStep(f, s, a, b, rank, strict)
    <3> DEFINE d == <<a, b>>
    <3>1. d \in (1..Len(s)) \X (1..Len(s)) /\ d[1] = a /\ d[2] = b
      OBVIOUS
    <3> HIDE DEF d
    <3>2. f[d] = SortStep(f, s, d[1], d[2], rank, strict)
      BY <3>1 DEF Sorts
    <3> QED
      BY <3>1, <3>2 DEF d
  <2>5. PICK o \in f[<<a, b>>] : ~ Sorted(o, s, a, b, rank, strict, E)
    BY <2>3
  <2>6. CASE a = b
    <3>1. o = Outcome(TRUE, <<s[a]>>, 0)
      <4>1. ~ (a > b)
        BY <2>6
      <4>2. SortStep(f, s, a, b, rank, strict) = {Outcome(TRUE, <<s[a]>>, 0)}
        BY <2>6, <4>1 DEF SortStep
      <4> QED
        BY <2>4, <2>5, <4>2
    <3> DEFINE u == <<s[a]>>
    <3>2. u \in Seq(E) /\ Len(u) = 1 /\ u[1] = s[a]
      OBVIOUS
    <3>3. o.ok = TRUE /\ o.items = u /\ o.set = 0
      <4>1. o = Outcome(TRUE, u, 0)
        BY <3>1
      <4> HIDE DEF u
      <4> QED
        BY <4>1 DEF Outcome
    <3>4. SubSeq(s, a, a) = u
      <4>1. /\ SubSeq(s, a, a) \in Seq(E) /\ Len(SubSeq(s, a, a)) = 1
            /\ SubSeq(s, a, a)[1] = s[a]
        <5>1. a - a + 1 = 1 /\ a + 1 - 1 = a /\ a <= a
          OBVIOUS
        <5>2. /\ SubSeq(s, a, a) \in Seq(E) /\ Len(SubSeq(s, a, a)) = a - a + 1
              /\ \A i \in 1..(a - a + 1) : SubSeq(s, a, a)[i] = s[a + i - 1]
          BY <5>1, PartOf
        <5> QED
          BY <5>1, <5>2
      <4> HIDE DEF u
      <4> DEFINE v == SubSeq(s, a, a)
      <4>2. v \in Seq(E) /\ Len(v) = 1 /\ v[1] = u[1]
        BY <3>2, <4>1
      <4> HIDE DEF v
      <4>3. v = u
        BY <3>2, <4>2
      <4> QED
        BY <4>3 DEF v
    <3> HIDE DEF u
    <3>5. Reorders(u, u, rank, ~ strict)
      BY <3>2, ReordersSelf
    <3>6. InOrder(u, rank)
      <4>1. \A i, j \in 1..Len(u) : i < j => rank[u[i]] <= rank[u[j]]
        BY <3>2
      <4> QED
        BY <3>2, <4>1, InOrderBy
    <3>7. 0 <= b - a + 1 /\ ~ (a < b)
      BY <2>6
    <3>8. Sorted(o, s, a, b, rank, strict, E)
      BY <2>6, <3>2, <3>3, <3>4, <3>5, <3>6, <3>7 DEF Sorted
    <3> QED
      BY <2>5, <3>8
  <2>7. CASE a # b
    <3> DEFINE m == Mid(a, b)
               left == f[<<a, m>>]
               right == f[<<m + 1, b>>]
    <3>1. a < b /\ a \in Nat /\ b \in Nat
      BY <2>3, <2>7
    <3>2. m \in Nat /\ a <= m /\ m < b
      BY <3>1, MidBetween
    <3>3. o \in SortFrom(s, a, b, left, right, rank, strict)
      <4>1. ~ (a > b)
        BY <2>3
      <4> QED
        BY <2>4, <2>5, <2>7, <4>1 DEF SortStep
    <3> HIDE DEF m
    <3>4. /\ m \in 1..n /\ m + 1 \in 1..n /\ m + 1 <= b
          /\ m - a \in Nat /\ m - a < k /\ b - (m + 1) \in Nat /\ b - (m + 1) < k
      BY <1>1, <2>3, <3>1, <3>2
    <3>5. k \in Nat
      BY <2>2
    <3>6. ASSUME NEW c \in 1..n, NEW d \in 1..n, c <= d, d - c \in Nat, d - c < k
          PROVE  Right(c, d)
      <4>1. d - c \notin S
        <5> HIDE DEF S
        <5> QED
          BY <2>2, <3>5, <3>6
      <4> QED
        BY <3>6, <4>1
    <3>7. Right(a, m) /\ Right(m + 1, b)
      <4> HIDE DEF Right, n
      <4> QED
        BY <3>2, <3>4, <3>6
    <3>8. SortEnds(o, s, a, b, left, right, rank, strict)
      <4> HIDE DEF left, right
      <4> QED
        BY <3>3, SortFromEnds
    <3>9. /\ \A l \in left : Sorted(l, s, a, Mid(a, b), rank, strict, E)
          /\ \A r \in right : Sorted(r, s, Mid(a, b) + 1, b, rank, strict, E)
      BY <3>7 DEF m
    <3> HIDE DEF left, right, S
    <3>10. Sorted(o, s, a, b, rank, strict, E)
      BY <3>1, <3>8, <3>9, HalvesSort
    <3> QED
      BY <2>5, <3>10
  <2> QED
    BY <2>6, <2>7
<1>3. ASSUME NEW a \in 1..n, NEW b \in 1..n, a <= b PROVE Right(a, b)
  <2>1. b - a \in Nat
    BY <1>1, <1>3
  <2>2. b - a \notin S
    <3> HIDE DEF S
    <3> QED
      BY <1>2
  <2> HIDE DEF Right
  <2> QED
    BY <1>3, <2>1, <2>2
<1> QED
  BY <1>3

\* A sort does what it should.
LEMMA SortRight ==
  ASSUME NEW G, NEW E, E = G \cup {NoNode}, NEW s \in Seq(E), s # <<>>, NEW rank,
         Ranking(rank, G), NEW strict
  PROVE  /\ SortsRight(s, rank, strict)
         /\ \A o \in SortOutcomes(s, rank, strict) :
              o.set \in Nat /\ o.set <= Len(s) /\ (Len(s) = 1 => o.set = 0)
<1>1. PICK f : /\ Sorts(f, s, rank, strict)
               /\ SortOutcomes(s, rank, strict) = f[<<1, Len(s)>>]
  BY SortLoop
<1> DEFINE n == Len(s)
<1>2. n \in Nat /\ 1 \in 1..n /\ n \in 1..n /\ 1 <= n
  OBVIOUS
<1>3. \A o \in f[<<1, n>>] : Sorted(o, s, 1, n, rank, strict, E)
  <2>1. \A a, b \in 1..n : a <= b => \A o \in f[<<a, b>>] : Sorted(o, s, a, b, rank, strict, E)
    BY <1>1, RangesSort
  <2> HIDE DEF n
  <2> QED
    BY <1>2, <2>1
<1>4. SubSeq(s, 1, n) = s
  <2> DEFINE t == SubSeq(s, 1, n)
  <2>1. t \in Seq(E) /\ Len(t) = n /\ \A k \in 1..n : t[k] = s[k]
    <3>1. n - 1 + 1 = n /\ \A k \in 1..n : 1 + k - 1 = k
      BY <1>2
    <3>2. /\ t \in Seq(E) /\ Len(t) = n - 1 + 1
          /\ \A k \in 1..(n - 1 + 1) : t[k] = s[1 + k - 1]
      BY <1>2, PartOf
    <3> QED
      BY <3>1, <3>2
  <2> HIDE DEF t
  <2>2. t = s
    BY <2>1
  <2> QED
    BY <2>2 DEF t
<1>5. ASSUME NEW o \in SortOutcomes(s, rank, strict)
      PROVE  /\ Reorders(o.items, s, rank, ~ strict)
             /\ o.ok /\ n > 1 => ~ HasHoles(s) /\ InOrder(o.items, rank)
             /\ o.set \in Nat /\ o.set <= n /\ (n = 1 => o.set = 0)
  <2>1. Sorted(o, s, 1, n, rank, strict, E)
    BY <1>1, <1>3
  <2> HIDE DEF n
  <2>2. n > 1 => 1 < n
    BY <1>2
  <2>3. n - 1 + 1 = n
    BY <1>2
  <2> QED
    BY <1>4, <2>1, <2>2, <2>3 DEF Sorted
<1> QED
  BY <1>5 DEF SortsRight

-----------------------------------------------------------------------------
(* The extremes                                                             *)

\* The order in which items beat each other.
LEMMA BeatsOrder ==
  ASSUME NEW G, NEW rank, Ranking(rank, G), NEW highest, NEW x \in G, NEW y \in G, NEW z \in G
  PROVE  /\ Beats(x, y, rank, highest) <=> IF highest THEN rank[y] < rank[x] ELSE rank[x] < rank[y]
         /\ Beats(x, y, rank, highest) /\ ~ Beats(z, y, rank, highest) => Beats(x, z, rank, highest)
         /\ ~ Beats(x, x, rank, highest)
         /\ Beats(x, z, rank, highest) => ~ Beats(z, x, rank, highest)
         /\ rank[x] \in Nat /\ rank[y] \in Nat
<1> DEFINE rx == rank[x]
           ry == rank[y]
           rz == rank[z]
<1>1. rx \in Nat /\ ry \in Nat /\ rz \in Nat
  BY DEF Ranking
<1>2. /\ Beats(x, y, rank, highest) <=> IF highest THEN ry < rx ELSE rx < ry
      /\ Beats(z, y, rank, highest) <=> IF highest THEN ry < rz ELSE rz < ry
      /\ Beats(x, z, rank, highest) <=> IF highest THEN rz < rx ELSE rx < rz
      /\ Beats(z, x, rank, highest) <=> IF highest THEN rx < rz ELSE rz < rx
      /\ Beats(x, x, rank, highest) <=> rx < rx
  BY DEF Beats, Before
<1> HIDE DEF rx, ry, rz
<1>3. /\ ry < rx /\ ~ (ry < rz) => rz < rx
      /\ rx < ry /\ ~ (rz < ry) => rx < rz
      /\ ~ (rx < rx) /\ (rx < rz => ~ (rz < rx)) /\ (rz < rx => ~ (rx < rz))
  BY <1>1
<1>4. Beats(x, y, rank, highest) /\ ~ Beats(z, y, rank, highest) => Beats(x, z, rank, highest)
  BY <1>2, <1>3
<1>5. ~ Beats(x, x, rank, highest)
  BY <1>2, <1>3
<1>6. Beats(x, z, rank, highest) => ~ Beats(z, x, rank, highest)
  BY <1>2, <1>3
<1> QED
  BY <1>1, <1>2, <1>4, <1>5, <1>6 DEF rx, ry

\* x is the first of the first k items that no other of them beats.
Leads(x, k, s, rank, highest) ==
  \E j \in 1..k :
    /\ s[j] = x /\ x # NoNode
    /\ \A h \in 1..k : s[h] # NoNode => ~ Beats(s[h], x, rank, highest)
    /\ \A h \in 1..(j - 1) : s[h] # NoNode => Beats(x, s[h], rank, highest)

\* A new item beats the leader, or not.
LEMMA LeadsOn ==
  ASSUME NEW G, NEW E, E = G \cup {NoNode}, NEW s \in Seq(E), NEW rank, Ranking(rank, G),
         NEW highest, NEW k \in Nat, k < Len(s), NEW x, Leads(x, k, s, rank, highest)
  PROVE  Leads(IF s[k + 1] # NoNode /\ Beats(s[k + 1], x, rank, highest) THEN s[k + 1] ELSE x,
               k + 1, s, rank, highest)
<1> DEFINE n == Len(s)
           Bt(u, v) == Beats(u, v, rank, highest)
           i == k + 1
           y == s[i]
<1>1. PICK j \in 1..k :
        /\ s[j] = x /\ x # NoNode
        /\ \A h \in 1..k : s[h] # NoNode => ~ Bt(s[h], x)
        /\ \A h \in 1..(j - 1) : s[h] # NoNode => Bt(x, s[h])
  BY DEF Leads
<1>2. n \in Nat /\ k \in Nat /\ k < n /\ i \in 1..n /\ \A h \in 1..i : h = i \/ h \in 1..k
  OBVIOUS
<1>3. \A h \in 1..n : s[h] # NoNode => s[h] \in G
  OBVIOUS
<1>4. x \in G
  BY <1>1, <1>2, <1>3
<1>5. \A h \in 1..k : h \in 1..n
  BY <1>2
<1>6. i - 1 = k /\ i \in 1..i
  BY <1>2
<1> HIDE DEF i, n
<1>7. CASE y # NoNode /\ Bt(y, x)
  <2>1. y \in G
    BY <1>2, <1>3, <1>7
  <2>2. ASSUME NEW h \in 1..k, s[h] # NoNode PROVE Bt(y, s[h])
    <3>1. s[h] \in G /\ ~ Bt(s[h], x)
      BY <1>1, <1>3, <1>5, <2>2
    <3> DEFINE z == s[h]
    <3> HIDE DEF z, y
    <3>2. z \in G /\ ~ Beats(z, x, rank, highest) /\ Beats(y, x, rank, highest)
      BY <1>7, <3>1 DEF z
    <3>3. Beats(y, z, rank, highest)
      BY <1>4, <2>1, <3>2, BeatsOrder
    <3> QED
      BY <3>3 DEF z
  <2>3. ASSUME NEW h \in 1..i, s[h] # NoNode PROVE ~ Bt(s[h], y)
    <3> DEFINE z == s[h]
    <3>1. z \in G
      BY <1>2, <1>3, <1>5, <2>3
    <3>2. z = y \/ Bt(y, z)
      BY <1>2, <2>2, <2>3
    <3> HIDE DEF z, y
    <3>3. /\ ~ Beats(y, y, rank, highest)
          /\ Beats(y, z, rank, highest) => ~ Beats(z, y, rank, highest)
      BY <2>1, <3>1, BeatsOrder
    <3> QED
      BY <3>2, <3>3 DEF z
  <2>4. Leads(y, i, s, rank, highest)
    BY <1>6, <1>7, <2>2, <2>3 DEF Leads
  <2> QED
    BY <1>7, <2>4 DEF i
<1>8. CASE ~ (y # NoNode /\ Bt(y, x))
  <2>1. \A h \in 1..i : s[h] # NoNode => ~ Bt(s[h], x)
    BY <1>1, <1>2, <1>8
  <2>2. j \in 1..i
    BY <1>2 DEF i
  <2>3. Leads(x, i, s, rank, highest)
    BY <1>1, <2>1, <2>2 DEF Leads
  <2> QED
    BY <1>8, <2>3 DEF i
<1> QED
  BY <1>7, <1>8

\* The leader so far.
LeaderStep(f, s, k, rank, highest) ==
  IF k = 1 THEN s[1]
  ELSE IF s[k] # NoNode /\ Beats(s[k], f[k - 1], rank, highest) THEN s[k]
  ELSE f[k - 1]

\* The loop of max and min, whose leaders satisfy its equation.
LEMMA LeaderLoop ==
  ASSUME NEW E, NEW s \in Seq(E), s # <<>>, s[1] # NoNode, NEW rank, NEW highest
  PROVE  \E f : /\ \A k \in 1..Len(s) : f[k] = LeaderStep(f, s, k, rank, highest)
                /\ Extreme(s, rank, highest) = f[Len(s)]
<1> DEFINE n == Len(s)
           D == 1..n
           W == [D -> E]
           H == [f \in W |-> [k \in D |-> LeaderStep(f, s, k, rank, highest)]]
           size == [k \in D |-> k]
           Self(f) == f = [k \in D |-> LeaderStep(f, s, k, rank, highest)]
           best == CHOOSE f : Self(f)
<1>1. n \in Nat /\ 1 \in D /\ s[1] \in E
  OBVIOUS
<1>2. H \in [W -> W]
  <2>1. ASSUME NEW f \in W, NEW k \in D PROVE LeaderStep(f, s, k, rank, highest) \in E
    <3>1. s[1] \in E /\ s[k] \in E
      OBVIOUS
    <3>2. k # 1 => f[k - 1] \in E
      <4>1. k # 1 => k - 1 \in D
        BY <1>1
      <4> HIDE DEF D
      <4> QED
        BY <4>1
    <3> QED
      BY <3>1, <3>2 DEF LeaderStep
  <2> HIDE DEF D
  <2>2. \A f \in W : [k \in D |-> LeaderStep(f, s, k, rank, highest)] \in W
    BY <2>1
  <2> HIDE DEF W
  <2> QED
    BY <2>2
<1>3. size \in [D -> 0..n]
  BY <1>1
<1>4. ASSUME NEW f \in W, NEW g \in W, NEW d \in D,
             \A e \in D : size[e] < size[d] => f[e] = g[e]
      PROVE  H[f][d] = H[g][d]
  <2>1. d # 1 => f[d - 1] = g[d - 1]
    <3>1. d # 1 => d - 1 \in D /\ d - 1 < d
      BY <1>1
    <3>2. d # 1 => size[d - 1] < size[d]
      BY <3>1
    <3> HIDE DEF size, D
    <3> QED
      BY <1>4, <3>1, <3>2
  <2>2. LeaderStep(f, s, d, rank, highest) = LeaderStep(g, s, d, rank, highest)
    <3> HIDE DEF W, D, H, size
    <3> QED
      BY <2>1 DEF LeaderStep
  <2>3. H[f][d] = LeaderStep(f, s, d, rank, highest) /\ H[g][d] = LeaderStep(g, s, d, rank, highest)
    <3> HIDE DEF D, W
    <3> QED
      OBVIOUS
  <2> QED
    BY <2>2, <2>3
<1>5. \E f \in [D -> E] : H[f] = f
  <2> HIDE DEF D, H, size, n
  <2>1. Recursive(H, D, E, size, n)
    BY <1>2, <1>3, <1>4 DEF Recursive
  <2> QED
    BY <1>1, <2>1, FixedPoint
<1>6. Self(best)
  <2>1. PICK f \in W : H[f] = f
    BY <1>5
  <2>2. Self(f)
    <3> HIDE DEF D, W
    <3> QED
      BY <2>1
  <2> HIDE DEF Self
  <2> QED
    BY <2>2
<1>7. Extreme(s, rank, highest) = best[n]
  BY DEF Extreme, LeaderStep
<1> HIDE DEF best
<1>8. \A k \in 1..n : best[k] = LeaderStep(best, s, k, rank, highest)
  BY <1>6
<1> QED
  BY <1>7, <1>8

\* max and min find the first of the extreme items.
LEMMA ExtremeLeads ==
  ASSUME NEW G, NEW E, E = G \cup {NoNode}, NEW s \in Seq(E), s # <<>>, s[1] # NoNode,
         NEW rank, Ranking(rank, G), NEW highest
  PROVE  Leads(Extreme(s, rank, highest), Len(s), s, rank, highest)
<1>1. PICK f : /\ \A k \in 1..Len(s) : f[k] = LeaderStep(f, s, k, rank, highest)
               /\ Extreme(s, rank, highest) = f[Len(s)]
  BY LeaderLoop
<1> DEFINE n == Len(s)
           S == {k \in Nat : k \in 1..n /\ ~ Leads(f[k], k, s, rank, highest)}
<1>2. n \in Nat /\ n \in 1..n /\ 1 \in 1..n /\ s[1] \in G
  OBVIOUS
<1>3. S = {}
  <2> SUFFICES ASSUME S # {} PROVE FALSE
    OBVIOUS
  <2>1. S \in SUBSET Nat
    OBVIOUS
  <2>2. PICK k \in S : \A h \in S : k <= h
    <3> HIDE DEF S
    <3> QED
      BY <2>1, FirstOf
  <2>3. k \in Nat /\ k \in 1..n /\ ~ Leads(f[k], k, s, rank, highest)
    BY <2>2
  <2>4. f[k] = LeaderStep(f, s, k, rank, highest)
    BY <1>1, <2>3
  <2>5. CASE k = 1
    <3>1. f[k] = s[1]
      BY <2>4, <2>5 DEF LeaderStep
    <3>2. ~ Beats(s[1], s[1], rank, highest)
      BY <1>2, BeatsOrder
    <3>3. 1..1 = {1} /\ 1..(1 - 1) = {}
      OBVIOUS
    <3>4. Leads(s[1], 1, s, rank, highest)
      BY <3>2, <3>3 DEF Leads
    <3> QED
      BY <2>3, <2>5, <3>1, <3>4
  <2>6. CASE k # 1
    <3> DEFINE h == k - 1
    <3>1. h \in Nat /\ h \in 1..n /\ h < n /\ ~ (k <= h) /\ h + 1 = k
      BY <1>2, <2>3, <2>6
    <3>2. h \notin S
      <4> HIDE DEF S
      <4> QED
        BY <2>2, <3>1
    <3>3. Leads(f[h], h, s, rank, highest)
      BY <3>1, <3>2
    <3>4. f[k] = IF s[k] # NoNode /\ Beats(s[k], f[h], rank, highest) THEN s[k] ELSE f[h]
      BY <2>4, <2>6 DEF LeaderStep
    <3> DEFINE x == f[h]
    <3> HIDE DEF h, S, n, x
    <3>5. Leads(IF s[h + 1] # NoNode /\ Beats(s[h + 1], x, rank, highest) THEN s[h + 1] ELSE x,
                h + 1, s, rank, highest)
      <4>1. h \in Nat /\ h < Len(s) /\ Leads(x, h, s, rank, highest)
        BY <3>1, <3>3 DEF x, n
      <4> QED
        BY <4>1, LeadsOn
    <3> QED
      BY <2>3, <3>1, <3>4, <3>5 DEF x
  <2> QED
    BY <2>5, <2>6
<1>4. Leads(f[n], n, s, rank, highest)
  BY <1>2, <1>3
<1> QED
  BY <1>1, <1>4

\* Which is the highest rank for max and the lowest for min.
LEMMA ExtremesRight ==
  ASSUME NEW G, NEW E, E = G \cup {NoNode}, NEW s \in Seq(E), s # <<>>, s[1] # NoNode,
         NEW rank, Ranking(rank, G)
  PROVE  FirstHighest(MaxItem(s, rank), s, rank) /\ FirstLowest(MinItem(s, rank), s, rank)
<1> DEFINE n == Len(s)
<1>1. DOMAIN s = 1..n /\ n \in Nat
  OBVIOUS
<1>2. \A h \in 1..n : s[h] # NoNode => s[h] \in G
  OBVIOUS
<1> HIDE DEF n
<1>3. ASSUME NEW highest, NEW x, Leads(x, n, s, rank, highest)
      PROVE  \E k \in 1..n :
               /\ s[k] = x /\ x # NoNode
               /\ \A h \in 1..n : s[h] # NoNode =>
                    IF highest THEN rank[s[h]] <= rank[x] ELSE rank[x] <= rank[s[h]]
               /\ \A h \in 1..(k - 1) : s[h] # NoNode =>
                    IF highest THEN rank[s[h]] < rank[x] ELSE rank[x] < rank[s[h]]
  <2>1. PICK j \in 1..n :
          /\ s[j] = x /\ x # NoNode
          /\ \A h \in 1..n : s[h] # NoNode => ~ Beats(s[h], x, rank, highest)
          /\ \A h \in 1..(j - 1) : s[h] # NoNode => Beats(x, s[h], rank, highest)
    BY <1>3 DEF Leads
  <2>2. x \in G
    BY <1>2, <2>1
  <2>3. ASSUME NEW h \in 1..n, s[h] # NoNode
        PROVE  IF highest THEN rank[s[h]] <= rank[x] ELSE rank[x] <= rank[s[h]]
    <3>1. s[h] \in G /\ ~ Beats(s[h], x, rank, highest)
      BY <1>2, <2>1, <2>3
    <3> DEFINE y == s[h]
    <3> HIDE DEF y
    <3>2. y \in G /\ ~ Beats(y, x, rank, highest)
      BY <3>1 DEF y
    <3>3. /\ Beats(y, x, rank, highest) <=> IF highest THEN rank[x] < rank[y] ELSE rank[y] < rank[x]
          /\ rank[x] \in Nat /\ rank[y] \in Nat
      BY <2>2, <3>2, BeatsOrder
    <3>4. IF highest THEN rank[y] <= rank[x] ELSE rank[x] <= rank[y]
      BY <3>2, <3>3
    <3> QED
      BY <3>4 DEF y
  <2>4. ASSUME NEW h \in 1..(j - 1), s[h] # NoNode
        PROVE  IF highest THEN rank[s[h]] < rank[x] ELSE rank[x] < rank[s[h]]
    <3>1. h \in 1..n
      BY <1>1
    <3>2. s[h] \in G /\ Beats(x, s[h], rank, highest)
      BY <1>2, <2>1, <2>4, <3>1
    <3> DEFINE y == s[h]
    <3> HIDE DEF y
    <3>3. y \in G /\ Beats(x, y, rank, highest)
      BY <3>2 DEF y
    <3>4. Beats(x, y, rank, highest) <=> IF highest THEN rank[y] < rank[x] ELSE rank[x] < rank[y]
      BY <2>2, <3>3, BeatsOrder
    <3>5. IF highest THEN rank[y] < rank[x] ELSE rank[x] < rank[y]
      BY <3>3, <3>4
    <3> QED
      BY <3>5 DEF y
  <2> QED
    BY <2>1, <2>3, <2>4
<1>4. \A highest : Leads(Extreme(s, rank, highest), n, s, rank, highest)
  BY ExtremeLeads DEF n
<1>5. FirstHighest(MaxItem(s, rank), s, rank)
  <2>1. Leads(MaxItem(s, rank), n, s, rank, TRUE)
    BY <1>4 DEF MaxItem
  <2> QED
    BY <1>1, <1>3, <2>1 DEF FirstHighest
<1>6. FirstLowest(MinItem(s, rank), s, rank)
  <2>1. Leads(MinItem(s, rank), n, s, rank, FALSE)
    BY <1>4 DEF MinItem
  <2> QED
    BY <1>1, <1>3, <2>1 DEF FirstLowest
<1> QED
  BY <1>5, <1>6

-----------------------------------------------------------------------------
(* The theorem                                                              *)

\* The property of one state.
LEMMA OrderHolds == CmdInv => OrderExact
<1> SUFFICES ASSUME CmdInv PROVE OrderExact
  OBVIOUS
<1> DEFINE G == Items \cup {Junk}
           E == G \cup {NoNode}
<1>1. /\ cell \in [Index -> G] /\ last \in Nat /\ isEmpty \in BOOLEAN
      /\ isEmpty => last = 0 /\ MaxIndex \in Nat
  BY ArrAssumption DEF CmdInv, CmdTypeOK, ArrTypeOK
<1>2. ASSUME NEW a \in Index, NEW b \in Index, a <= b
      PROVE  /\ RangeOf(a, b) \in Seq(E) /\ Len(RangeOf(a, b)) = b - a + 1
             /\ RangeOf(a, b) # <<>> /\ a \in Nat /\ b \in Nat
  <2> DEFINE n == b - a + 1
             s == RangeOf(a, b)
  <2>1. a \in Nat /\ b \in Nat /\ n \in Nat /\ n # 0
    BY <1>1, <1>2 DEF Index
  <2>2. \A k \in 1..n : a + k - 1 \in Index
    <3>1. a \in 0..MaxIndex /\ b \in 0..MaxIndex /\ MaxIndex \in Nat
      BY ArrAssumption DEF Index
    <3> SUFFICES ASSUME NEW k \in 1..n PROVE a + k - 1 \in 0..MaxIndex
      BY DEF Index
    <3> QED
      BY <1>2, <3>1
  <2>3. \A k \in 1..n : (IF Readable(a + k - 1) THEN cell[a + k - 1] ELSE NoNode) \in E
    BY <1>1, <2>2
  <2>4. s = [k \in 1..n |-> IF Readable(a + k - 1) THEN cell[a + k - 1] ELSE NoNode]
    BY DEF RangeOf
  <2> HIDE DEF n, s, E
  <2>5. s \in [1..n -> E]
    BY <2>3, <2>4
  <2>6. s \in Seq(E)
    BY <2>1, <2>5, SeqDef
  <2>7. Len(s) = n
    BY <2>1, <2>5, <2>6
  <2>8. s # <<>>
    BY <2>1, <2>7
  <2> QED
    BY <2>1, <2>6, <2>7, <2>8 DEF n, s
<1>3. ASSUME NEW rank \in Ranks PROVE Ranking(rank, G)
  BY OrderAssumption DEF Ranking
<1>4. ASSUME NEW a \in Index, NEW b \in Index, a <= b, NEW rank \in Ranks, NEW strict
      PROVE  /\ SortsRight(RangeOf(a, b), rank, strict)
             /\ b <= last => \A o \in SortOutcomes(RangeOf(a, b), rank, strict) :
                               LastAfter(a, o) = last /\ EmptyAfter(o) = isEmpty
  <2> DEFINE s == RangeOf(a, b)
  <2>1. s \in Seq(E) /\ Len(s) = b - a + 1 /\ s # <<>> /\ a \in Nat /\ b \in Nat
    BY <1>2, <1>4
  <2>2. Ranking(rank, G)
    BY <1>3
  <2> HIDE DEF s, G
  <2>3. /\ SortsRight(s, rank, strict)
        /\ \A o \in SortOutcomes(s, rank, strict) :
             o.set \in Nat /\ o.set <= Len(s) /\ (Len(s) = 1 => o.set = 0)
    BY <2>1, <2>2, SortRight
  <2>4. ASSUME b <= last, NEW o \in SortOutcomes(s, rank, strict)
        PROVE  LastAfter(a, o) = last /\ EmptyAfter(o) = isEmpty
    <3> DEFINE set == o.set
    <3>1. set \in Nat /\ set <= b - a + 1 /\ (b - a + 1 = 1 => set = 0)
      BY <2>1, <2>3
    <3> HIDE DEF set
    <3>2. ~ (a + set - 1 > last)
      BY <1>1, <2>1, <2>4, <3>1
    <3>3. isEmpty => set = 0
      BY <1>1, <1>4, <2>1, <2>4, <3>1
    <3>4. LastAfter(a, o) = last
      BY <3>2 DEF LastAfter, set
    <3>5. EmptyAfter(o) = isEmpty
      BY <1>1, <3>3 DEF EmptyAfter, set
    <3> QED
      BY <3>4, <3>5
  <2> QED
    BY <2>3, <2>4 DEF s
<1>5. ASSUME NEW a \in Index, NEW b \in Index, a <= b, NEW rank \in Ranks,
             RangeOf(a, b)[1] # NoNode
      PROVE  /\ FirstHighest(MaxItem(RangeOf(a, b), rank), RangeOf(a, b), rank)
             /\ FirstLowest(MinItem(RangeOf(a, b), rank), RangeOf(a, b), rank)
  <2> DEFINE s == RangeOf(a, b)
  <2>1. s \in Seq(E) /\ s # <<>>
    BY <1>2, <1>5
  <2>2. Ranking(rank, G) /\ s[1] # NoNode
    BY <1>3, <1>5
  <2> HIDE DEF s, G
  <2>3. FirstHighest(MaxItem(s, rank), s, rank) /\ FirstLowest(MinItem(s, rank), s, rank)
    BY <2>1, <2>2, ExtremesRight
  <2> QED
    BY <2>3 DEF s
<1> QED
  BY <1>4, <1>5 DEF OrderExact

\* In every array that commands make, whatever memory runs out and whichever nodes are
\* missing: a sort loses no item and doubles none, keeps equals in their order if the
\* comparison says so, and returns true only for a range in order; max and min return the
\* first of the extreme items.  (dyn_arr_sort, dyn_arr_max and dyn_arr_min.)
THEOREM SortsExactly == CmdSpec => []OrderExact
  BY CmdInvariant, OrderHolds, PTL

=============================================================================
