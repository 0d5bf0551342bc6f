---------------------------- MODULE BuildPromise ----------------------------
(***************************************************************************)
(* What an incremental build promises its user: a pass over the sources may *)
(* fail, and may then leave anything behind, but when it reports that the   *)
(* executable is up to date, no source is stale, i.e. every source is in    *)
(* the executable in its current version.  A new version of a source makes  *)
(* the last report void.                                                    *)
(***************************************************************************)
CONSTANT Sources

VARIABLES stale,     \* the sources the executable does not hold as they are now
          report     \* of the last pass, "none" before and during one

vars == <<stale, report>>

Init == stale = Sources /\ report = "none"

\* A source is edited between two passes.
Modify(s) == /\ stale' = stale \cup {s}
             /\ report' = "none"

Begin == report' = "none" /\ UNCHANGED stale

\* A pass at work on the executable.
Work == /\ report = "none" /\ UNCHANGED report
        /\ stale' \in SUBSET Sources

Finish == /\ report = "none" /\ UNCHANGED stale
          /\ \/ report' = "failed"
             \/ stale = {} /\ report' = "uptodate"

Next == Begin \/ Work \/ Finish \/ \E s \in Sources : Modify(s)

Spec == Init /\ [][Next]_vars
=============================================================================
