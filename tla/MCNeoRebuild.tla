---------------------------- MODULE MCNeoRebuild ----------------------------
(* NeoRebuild for TLC: up to two arguments; a user may give the flag, first or last. *)
EXTENDS NeoRebuild

MCArgLists == {<<>>, <<NoRebuild>>} \cup UNION {{<<a, a>>, <<a, NoRebuild>>, <<NoRebuild, a>>} : a \in Args}
=============================================================================
