--------------------------- MODULE MCVaultRequests ---------------------------
(* Bounds for model checking VaultRequests. *)
EXTENDS VaultRequests, TLC

\* Credential ids are random: none is special.
Symmetry == Permutations(Creds)
=============================================================================
