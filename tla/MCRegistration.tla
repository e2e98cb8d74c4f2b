---------------------------- MODULE MCRegistration ----------------------------
(* Bounds for model checking Registration. *)
EXTENDS Registration, TLC

\* Tools are alike, and so are keys.
Symmetry == Permutations(Tools) \cup Permutations(Keys)
=============================================================================
