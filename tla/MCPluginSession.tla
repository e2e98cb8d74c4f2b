--------------------------- MODULE MCPluginSession ---------------------------
(***************************************************************************)
(* TLC instances of PluginSession: one KeePass process or two, a current   *)
(* sidecar or two, and a command-line tool built before the hello carried  *)
(* the op-sign key.                                                        *)
(***************************************************************************)
EXTENDS PluginSession, TLC

CONSTANTS p1, p2, s1, s2, t1

\* Nonces are compared with = alone.
NonceSymmetry == Permutations(Nonces)
=============================================================================
