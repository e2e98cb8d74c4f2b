---------------------------- MODULE PasskeyLedger ----------------------------
(***************************************************************************)
(* What a vault of passkeys owes to the relying parties, whatever happens  *)
(* in memory: each of them has registered credentials and remembers the    *)
(* highest sign counter it has seen.  The file is never behind them.       *)
(***************************************************************************)
EXTENDS Integers

CONSTANTS Creds, Counts, None

VARIABLES
  file,  \* each credential's counter in the file, or None
  seen,  \* the highest counter the credential's relying party has seen
  known, \* credentials whose registration was answered with success
  gone   \* credentials somebody has deleted

vars == <<file, seen, known, gone>>

Init ==
  /\ file = [c \in Creds |-> None]
  /\ seen = [c \in Creds |-> None]
  /\ known = {}
  /\ gone = {}

\* The file is written: no counter goes back or falls behind what has been seen, and no
\* registered credential is lost that nobody has deleted.
Write ==
  /\ \A c \in Creds : file[c] # None /\ file'[c] # None => file'[c] >= file[c]
  /\ \A c \in Creds : file'[c] # None => seen[c] # None /\ file'[c] >= seen[c]
  /\ \A c \in known \ gone : file'[c] # None

Save == Write /\ UNCHANGED <<seen, known, gone>>

\* A credential id is given out.
Issue(c) ==
  /\ seen[c] = None
  /\ seen' = [seen EXCEPT ![c] = 0]
  /\ UNCHANGED <<file, known, gone>>

\* A registration is answered: the credential is in the file.
Register(c) ==
  /\ Write
  /\ file'[c] # None \/ c \in gone
  /\ known' = known \cup {c}
  /\ UNCHANGED <<seen, gone>>

\* An assertion is answered: its counter is new to the relying party, and is in the file
\* already.
Assert(c, n) ==
  /\ seen[c] # None
  /\ n > seen[c]
  /\ IF file[c] = None THEN c \in gone ELSE file[c] >= n
  /\ seen' = [seen EXCEPT ![c] = n]
  /\ UNCHANGED <<file, known, gone>>

Delete(c) ==
  /\ gone' = gone \cup {c}
  /\ UNCHANGED <<file, seen, known>>

Next ==
  \/ Save
  \/ \E c \in Creds : Issue(c) \/ Register(c) \/ Delete(c) \/ \E n \in Counts : Assert(c, n)

Spec == Init /\ [][Next]_vars
=============================================================================
