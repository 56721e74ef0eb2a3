------------------------- MODULE MCFencedCheckpoint -------------------------
(***************************************************************************)
(* FencedCheckpoint on small sets of runs and workers.  Workers are        *)
(* interchangeable, and so are runs.                                       *)
(***************************************************************************)
EXTENDS FencedCheckpoint, TLC

Symmetry == Permutations(Workers) \union Permutations(Runs)
=============================================================================
