------------------------------- MODULE DynArr -------------------------------
(***************************************************************************)
(* The dynamic array of dynarr.c as neobuild uses it: created with a        *)
(* minimum size and no default value, appended to, read, freed.             *)
(*                                                                          *)
(* The array is a table of len entries, each NULL or a node of NodeSize     *)
(* items.  Memory that malloc has just given holds Junk.  malloc, calloc    *)
(* and realloc may each fail when AllocFails.                               *)
(***************************************************************************)
EXTENDS Naturals, FiniteSets

CONSTANTS Items,      \* what the array holds
          Junk,       \* an item nobody stored
          NodeSize,   \* MAX_NODE_SIZE
          MaxIndex,   \* bound: the largest index in use
          AllocFails

ASSUME ArrAssumption == /\ Junk \notin Items
                        /\ NodeSize \in Nat \ {0}
                        /\ MaxIndex \in Nat
                        /\ AllocFails \in BOOLEAN

VARIABLES len,        \* entries of the node table
          nodes,      \* entries that are not NULL
          cell,       \* the items in the nodes
          last,       \* last_index
          isEmpty

arrVars == <<len, nodes, cell, last, isEmpty>>

Index == 0..MaxIndex
NodeOf(i) == i \div NodeSize
Fresh == [i \in Index |-> Junk]

ArrTypeOK == /\ len \in Nat
             /\ nodes \subseteq Nat
             /\ cell \in [Index -> Items \cup {Junk}]
             /\ last \in Nat
             /\ isEmpty \in BOOLEAN

\* No array: before dyn_arr_create and after dyn_arr_free.
NoArr == /\ len = 0 /\ nodes = {} /\ cell = Fresh
         /\ last = 0 /\ isEmpty = TRUE

ArrFree == /\ len' = 0 /\ nodes' = {} /\ cell' = Fresh
           /\ last' = 0 /\ isEmpty' = TRUE

-----------------------------------------------------------------------------
\* A failing malloc of the first node is not noticed: the entry stays NULL.  (The
\* malloc of a later one, or of the table, makes dyn_arr_create return NULL.)
ArrCreate(min) ==
  LET n == IF min = 0 THEN 0 ELSE min \div NodeSize + 1
  IN  /\ len' = n
      /\ \/ nodes' = 0..(n - 1)
         \/ AllocFails /\ nodes' = 1..(n - 1)
      /\ cell' = Fresh /\ last' = 0 /\ isEmpty' = TRUE

\* Mutant: the new length is the node number rounded up to a power of two.
MutGrowLen(n) == {m \in n..(2 * n) : \E k \in 0..30 : m = 2 ^ k /\ 2 ^ k < 2 * n}

\* 1U << (log2(n) + 1), the new length of the table when node n does not fit: the
\* first power of two after n.  For n = 0 the conversion of log2(0) is undefined
\* and any bit may be shifted to (bound: one of the first three).
GrowLen(n) == {m \in (n + 1)..(IF n = 0 THEN 4 ELSE 2 * n) : \E k \in 0..30 : m = 2 ^ k}

\* dyn_arr_set has found, or has made, node n.
NodeFor(n) ==
  /\ IF n < len THEN len' = len ELSE len' \in GrowLen(n)
  /\ nodes' = nodes \cup {n}

\* It has not, for lack of memory; the table may have grown.
NoNodeFor(n) ==
  /\ AllocFails /\ n \notin nodes
  /\ len' = len \/ (n >= len /\ len' \in GrowLen(n))
  /\ UNCHANGED <<nodes, cell>>

\* dyn_arr_set, which raises last_index first; ok is its result.
SetAt(i, x, ok) ==
  /\ last' = IF i > last THEN i ELSE last
  /\ \/ ok /\ NodeFor(NodeOf(i)) /\ cell' = [cell EXCEPT ![i] = x]
     \/ ~ ok /\ NoNodeFor(NodeOf(i))

\* dyn_arr_append, which clears is_empty first.
AppendTo == IF isEmpty THEN 0 ELSE last + 1

\* Mutant: the first item is stored at index 1.
MutArrAppend(x, ok) ==
  /\ last + 1 \in Index
  /\ SetAt(last + 1, x, ok)
  /\ isEmpty' = FALSE

ArrAppend(x, ok) ==
  /\ AppendTo \in Index
  /\ SetAt(AppendTo, x, ok)
  /\ isEmpty' = FALSE

\* dyn_arr_get can read index i.
Readable(i) == NodeOf(i) < len /\ NodeOf(i) \in nodes
=============================================================================
