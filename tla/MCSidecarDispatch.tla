-------------------------- MODULE MCSidecarDispatch --------------------------
(* Finite instances of SidecarDispatch. *)
EXTENDS SidecarDispatch, TLC

\* Calls, states and connections have no identity beyond being different.
CallSymmetry == Permutations(Calls)
ArcSymmetry == Permutations(Arcs)
PipeSymmetry == Permutations(Pipes)
Symmetry == CallSymmetry \cup ArcSymmetry \cup PipeSymmetry
=============================================================================
