------------------------------ MODULE MCMemAlloc ------------------------------
(* MemAlloc for TLC: users of one size of blocks, of several, and of several alignments. *)
EXTENDS MemAlloc

Use(build, blocks, sizes, resizes, alignments) ==
  [build |-> build, blocks |-> blocks,
   sizes |-> sizes, resizes |-> resizes, alignments |-> alignments]

MCCallers ==
  {Use("inline", 3, {1, 6}, {9}, {2, 4}), Use("inline", 3, {6}, {3, 12}, {2, 3}),
   Use("segmented", 4, {2, 4}, {4}, {2}), Use("segmented", 3, {6}, {}, {2, 4}),
   Use("segmented", 3, {9}, {5}, {2}), Use("segmented", 3, {5, 10}, {}, {2})}
MCBins == <<[size |-> 2, count |-> 2]>>
MCAlignments == {2, 4}

OwnerSymmetry == Permutations(Owner)
=============================================================================
