---------------------------- MODULE MCComLifetime ----------------------------
(* Bounds for model checking ComLifetime. *)
EXTENDS ComLifetime, TLC

\* Allocations are alike.
Symmetry == Permutations(Objects)
=============================================================================
