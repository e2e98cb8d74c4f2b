------------------------------ MODULE ServerLife ------------------------------
(***************************************************************************)
(* What an out-of-process COM server owes to those who use it, as the      *)
(* header of exe_server.rs puts it: the process is up while anybody uses   *)
(* it, it stops by itself only when nobody does, and once it has begun to  *)
(* stop nobody comes to use it any more.  How uses are counted is left to  *)
(* the implementation (ComLifetime).                                       *)
(***************************************************************************)
CONSTANT Uses  \* what a client can hold on to: an object, a lock

VARIABLES
  up,    \* the process serves
  inUse  \* the uses somebody has begun and not ended

vars == <<up, inUse>>

Init == up = FALSE /\ inUse = {}

\* An activation starts the process.
Start ==
  /\ ~up
  /\ inUse = {}
  /\ up' = TRUE
  /\ UNCHANGED inUse

Begin(u) ==
  /\ up
  /\ inUse' = inUse \cup {u}
  /\ UNCHANGED up

End(u) ==
  /\ up
  /\ inUse' = inUse \ {u}
  /\ UNCHANGED up

\* The server decides to end.
Stop ==
  /\ up
  /\ inUse = {}
  /\ up' = FALSE
  /\ UNCHANGED inUse

\* The last use ends, and with it the server.
EndLast(u) ==
  /\ up
  /\ inUse \subseteq {u}
  /\ up' = FALSE
  /\ inUse' = {}

\* The process is killed, whoever uses it.
Die ==
  /\ up' = FALSE
  /\ inUse' = {}

Next == Start \/ Stop \/ Die \/ \E u \in Uses : Begin(u) \/ End(u) \/ EndLast(u)

Spec == Init /\ [][Next]_vars
=============================================================================
