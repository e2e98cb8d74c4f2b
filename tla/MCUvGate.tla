------------------------------ MODULE MCUvGate ------------------------------
(* Bounds for model checking UvGate. *)
EXTENDS UvGate, TLC

\* Dispatches and responses have no identity beyond being different.
Symmetry == Permutations(Dispatches) \cup Permutations(Buffers)
=============================================================================
