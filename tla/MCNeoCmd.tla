------------------------------ MODULE MCNeoCmd ------------------------------
(* NeoCmd for TLC: appends of up to two arguments, nodes of two items. *)
EXTENDS NeoCmd, DynArrOrder, TLC

MCArgLists == UNION {[1..n -> Texts \cup {Empty}] : n \in 0..2}

\* A comparison of the strings and of what lies where none was stored, with a tie.  The
\* strings are handed out in any order, so one will do.
CONSTANTS s1, s2, s3, s4
MCRanks == {(s1 :> 2) @@ (s2 :> 1) @@ (s3 :> 1) @@ (s4 :> 0) @@ (Junk :> 1)}
=============================================================================
