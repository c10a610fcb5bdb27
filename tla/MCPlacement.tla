----------------------------- MODULE MCPlacement -----------------------------
(* Two workers are needed for a placement to be swapped and for a stale      *)
(* caller to name the wrong one; rows do not interact, so two sandboxes only *)
(* check that the ticker, which writes every row at once, mixes none up.     *)
EXTENDS Placement, TLC

Symmetry == Permutations(Workers) \cup Permutations(Sandboxes)
=============================================================================
