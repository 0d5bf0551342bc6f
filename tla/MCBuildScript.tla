--------------------------- MODULE MCBuildScript ---------------------------
(* BuildScript for TLC: two sources, three seconds, one tool at a time. *)
EXTENDS BuildScript

MCPid == 2..3
=============================================================================
