------------------------------ MODULE MCNeoVec ------------------------------
(* NeoVec for TLC. *)
EXTENDS NeoVec

MCSizes == 0..3
=============================================================================
