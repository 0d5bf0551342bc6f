----------------------------- MODULE MCNeoBuild -----------------------------
(* NeoBuild for TLC: one source, every fault, a caller that may do anything. *)
EXTENDS NeoBuild

MCPid == 2..4
=============================================================================
