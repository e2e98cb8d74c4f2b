----------------------------- MODULE MCVaultSync -----------------------------
(* Bounds for model checking VaultSync. *)
EXTENDS VaultSync, TLC

\* Credentials and tasks have no identity beyond being different.
Symmetry == Permutations(Creds) \cup Permutations(Tasks)
=============================================================================
