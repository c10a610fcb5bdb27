----------------------------- MODULE MCLifecycle -----------------------------
(***************************************************************************)
(* Instances of Lifecycle.                                                 *)
(***************************************************************************)
EXTENDS Lifecycle, TLC

Symmetry == Permutations(Workers) \cup Permutations(Sandboxes) \cup Permutations(Requests)
=============================================================================
