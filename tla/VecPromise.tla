----------------------------- MODULE VecPromise -----------------------------
(***************************************************************************)
(* What the vector macros promise: each vector is a sequence of elements.   *)
(* Indexes count from 0, and an operation at an index outside the sequence  *)
(* does nothing.  Running out of memory ends the program.                   *)
(***************************************************************************)
EXTENDS Naturals, Sequences, SequencesExt

CONSTANTS Vectors, Elements

VARIABLES seq, ended

vars == <<seq, ended>>

Init == seq = [v \in Vectors |-> <<>>] /\ ended = FALSE

Becomes(v, s) == seq' = [seq EXCEPT ![v] = s]

Put(v, i, e) == i < Len(seq[v]) /\ Becomes(v, ReplaceAt(seq[v], i + 1, e))

Insert(v, i, e) == i <= Len(seq[v]) /\ Becomes(v, InsertAt(seq[v], i + 1, e))

Delete(v, i) == i < Len(seq[v]) /\ Becomes(v, RemoveAt(seq[v], i + 1))

Truncate(v, n) == n <= Len(seq[v]) /\ Becomes(v, SubSeq(seq[v], 1, n))

Copy(d, s) == d # s /\ Becomes(d, seq[s])

Extend(d, s) == d # s /\ Becomes(d, seq[d] \o seq[s])

Change == \E v \in Vectors :
            \/ \E i \in 0..Len(seq[v]), e \in Elements : Put(v, i, e) \/ Insert(v, i, e)
            \/ \E i \in 0..Len(seq[v]) : Delete(v, i) \/ Truncate(v, i)
            \/ \E s \in Vectors : Copy(v, s) \/ Extend(v, s)

Next == /\ ~ ended
        /\ \/ Change /\ UNCHANGED ended
           \/ ended' = TRUE /\ UNCHANGED seq

Spec == Init /\ [][Next]_vars
=============================================================================
