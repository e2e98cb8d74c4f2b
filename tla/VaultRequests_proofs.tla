------------------------ MODULE VaultRequests_proofs ------------------------
(***************************************************************************)
(* Theorems about VaultRequests, for any set of credentials and any last   *)
(* sign counter.                                                           *)
(***************************************************************************)
EXTENDS VaultRequests, TLAPS

----------------------------------------------------------------------------
(* The inductive invariant, first what holds whatever the user does.       *)

\* Memory holds entries only while the database is open, and every entry's id has
\* been given out.
EntriesKnown ==
  /\ ~open => \A c \in Creds : mem[c] = None
  /\ \A c \in Creds : mem[c] # None => released[c] # None
  /\ \A c \in Creds : disk[c] # None => released[c] # None
  /\ stage \in {"find", "set", "saveCount", "sign"} => released[held] # None

\* An entry that IncrementSignCount holds, and that still belongs to the database,
\* has not changed since its counter was read.
EntryHeld ==
  /\ stage = "set" /\ ~detached => mem[held] # None /\ count = mem[held] + 1
  /\ detached => stage = "set"

\* Memory is never behind the file.
MemNotBehind ==
  \A c \in Creds : mem[c] # None /\ disk[c] # None => mem[c] >= disk[c]

\* The prompt's latch is the user's only answer in this process, and the handler
\* has come through the gates one after the other.
GatesPassed ==
  /\ said = (IF latch = None THEN {} ELSE {latch})
  /\ stage \in {"uv", "asking"} => Bypass \/ req.signed
  /\ stage = "asking" => req.uv = "v1" /\ latch = None
  /\ stage \in {"verify", "uv", "asking"} => req.op \in RawOps

IInv ==
  /\ TypeOK
  /\ EntriesKnown
  /\ EntryHeld
  /\ MemNotBehind
  /\ GatesPassed
  /\ ConsentBehindUse

(* What holds if the database is not locked and unlocked again within one  *)
(* request: an entry the handler has added or found is the database's, or  *)
(* it has been deleted, or the database is closed.                         *)

\* An entry taken out of the open database under IncrementSignCount is gone.
DetachedGone == stage = "set" /\ open /\ detached => mem[held] = None

\* No counter in the vault is below one a relying party has seen, and the one that
\* is on its way out is in the vault first.
CountsReleased ==
  /\ \A c \in Creds : mem[c] # None => mem[c] >= released[c]
  /\ \A c \in Creds : disk[c] # None => disk[c] >= released[c]
  /\ stage \in {"set", "saveCount"} => count > released[held]
  /\ stage \in {"saveCount", "sign"} /\ req.op # "sign" /\ mem[held] # None
       => mem[held] >= count
  /\ stage = "sign" /\ req.op # "sign" /\ disk[held] # None => disk[held] >= count

\* A registered credential is in the file, and in memory while the database is open.
RegisteredHeld ==
  /\ open => \A c \in registered \ removed : mem[c] # None
  /\ stage = "saveNew" /\ open => held \in removed \/ mem[held] # None

\* An entry whose counter is about to be saved or signed was there when it was found, and
\* then has gone only because somebody deleted it.
LostOnlyRemoved ==
  stage \in {"set", "saveCount", "sign"} /\ req.op # "sign"
    => /\ open /\ mem[held] = None => held \in removed
       /\ stage = "sign" /\ disk[held] = None => held \in removed

\* Ids of the excludeList that were looked up and not found are not there later.
ExcludedAbsent ==
  /\ stage \in {"verify", "uv", "asking", "parse"} => left = req.ids
  /\ stage \in {"exclude", "add", "saveNew"} /\ req.op = "make"
       => /\ stage # "exclude" => left = {}
          /\ \A c \in req.ids \ left : mem[c] # None => stage = "saveNew" /\ c = held

OnceInv ==
  /\ DetachedGone
  /\ CountsReleased
  /\ AssertionCountFresh
  /\ RegisteredHeld
  /\ RegisteredKept
  /\ LostOnlyRemoved
  /\ ExcludedAbsent

----------------------------------------------------------------------------
(* One lemma per conjunct: every step preserves it.                         *)

\* What an answer leaves of the request.
Ends ==
  /\ stage' = "idle"
  /\ reply' \in Answers
  /\ req' = None
  /\ left' = {}
  /\ held' = None
  /\ count' = 0

LEMMA RefuseEnds == ASSUME NEW code \in ErrorCode, Refuse(code) PROVE Ends
  BY DEF Refuse, Done, Ends, Answers

LEMMA DoneEnds ==
  ASSUME NEW over \in AuthData \cup {None}, NEW auth \in AuthData \cup {None},
         Done(Ok(over, auth))
  PROVE  Ends
  BY DEF Ok, Done, Ends, Answers

LEMMA RequestType ==
  ASSUME NEW r \in Requests
  PROVE  /\ r # None
         /\ r.ids \in SUBSET Creds
         /\ r.op \in RawOps \cup {"sign", "delete", "create", "list", "other"}
<1>1. r # None
  BY ConstantsAssumption
<1> QED
  BY <1>1 DEF Requests, RawOps

\* Every step keeps the types, and a record is selected before it is used.
LEMMA TypeStep == TypeOK /\ [Next]_vars => TypeOK'
<1> SUFFICES ASSUME TypeOK, [Next]_vars PROVE TypeOK'
  OBVIOUS
<1> USE ConstantsAssumption, RefuseEnds, DoneEnds, RequestType DEF TypeOK, Stage, Counts, ErrorCode, AuthData, RawOps, vars, database, handler, locals, history
<1>1. ASSUME NEW r \in Requests, Receive(r) PROVE TypeOK'
  BY <1>1 DEF Receive, FirstStage, RawOps, Ends
<1>2. ASSUME VerifyRequest PROVE TypeOK'
  BY <1>2 DEF VerifyRequest, GoTo, Ends
<1>3. ASSUME VerifyUv PROVE TypeOK'
  BY <1>3 DEF VerifyUv, GoTo, Ends
<1>4. ASSUME NEW d \in {"yes", "no"}, AnswerPrompt(d) PROVE TypeOK'
  BY <1>4 DEF AnswerPrompt, GoTo, Ends
<1>5. ASSUME PromptFails PROVE TypeOK'
  BY <1>5 DEF PromptFails, Ends
<1>6. ASSUME Parse PROVE TypeOK'
  BY <1>6 DEF Parse, ParseMakeCredentialCbor, ParseGetAssertionCbor, GoTo, Ends
<1>7. ASSUME NEW c \in Creds, CheckExcluded(c) PROVE TypeOK'
  BY <1>7 DEF CheckExcluded, Present, Ends
<1>8. ASSUME NEW c \in Creds, SelectById(c) PROVE TypeOK'
  BY <1>8 DEF SelectById, Present, GoTo, Ends
<1>9. ASSUME NEW c \in Creds, RemoveEntry(c) PROVE TypeOK'
  BY <1>9 DEF RemoveEntry, Present, GoTo, Ends
<1>10. ASSUME NotExcluded PROVE TypeOK'
  BY <1>10 DEF NotExcluded, GoTo, Ends
<1>11. ASSUME AddEntry PROVE TypeOK'
  BY <1>11 DEF AddEntry, NewIds, GoTo, Ends
<1>12. ASSUME SaveNew PROVE TypeOK'
  BY <1>12 DEF SaveNew, Save, Ends
<1>13. ASSUME SelectDiscoverable PROVE TypeOK'
  BY <1>13 DEF SelectDiscoverable, Present, GoTo, Ends
<1>14. ASSUME SelectNothing PROVE TypeOK'
  BY <1>14 DEF SelectNothing, Ends
<1>15. ASSUME FindEntry PROVE TypeOK'
  BY <1>15 DEF FindEntry, Present, GoTo, Ends
<1>16. ASSUME SetCount PROVE TypeOK'
  BY <1>16 DEF SetCount, GoTo, Ends
<1>17. ASSUME SaveCount PROVE TypeOK'
  BY <1>17 DEF SaveCount, Save, GoTo, Ends
<1>18. ASSUME GetAssertion PROVE TypeOK'
  BY <1>18 DEF GetAssertion, Ends
<1>19. ASSUME SignAssertion PROVE TypeOK'
  BY <1>19 DEF SignAssertion, Ends
<1>20. ASSUME SaveRemoval PROVE TypeOK'
  BY <1>20 DEF SaveRemoval, Save, Ends
<1>21. ASSUME Read PROVE TypeOK'
  BY <1>21 DEF Read, Ends
<1>22. ASSUME OpenVault PROVE TypeOK'
  BY <1>22 DEF OpenVault, Ends
<1>23. ASSUME CloseVault PROVE TypeOK'
  BY <1>23 DEF CloseVault, NoEntries, Ends
<1>24. ASSUME UserSaves PROVE TypeOK'
  BY <1>24 DEF UserSaves, Ends
<1>25. ASSUME NEW c \in Creds, UserDeletes(c) PROVE TypeOK'
  BY <1>25 DEF UserDeletes, Present, Ends
<1>26. ASSUME Crash PROVE TypeOK'
  <2>1. open' \in BOOLEAN /\ detached' \in BOOLEAN
    BY <1>26 DEF Crash
  <2>2. mem' \in [Creds -> Counts \cup {None}]
    BY <1>26 DEF Crash, NoEntries
  <2>3. disk' \in [Creds -> Counts \cup {None}]
    BY <1>26 DEF Crash
  <2>4. stage' = "idle" /\ stage' \in Stage
    BY <1>26 DEF Crash
  <2>5. /\ req' \in Requests \cup {None}
        /\ left' \subseteq Creds
        /\ held' \in Creds \cup {None}
    BY <1>26 DEF Crash
  <2>6. count' \in Counts
    BY <1>26 DEF Crash
  <2>7. latch' \in {None, "yes", "no"} /\ reply' \in Answers \cup {None}
    BY <1>26 DEF Crash
  <2>8. /\ said' \subseteq {"yes", "no"}
        /\ released' \in [Creds -> Counts \cup {None}]
        /\ registered' \subseteq Creds
        /\ removed' \subseteq Creds
    BY <1>26 DEF Crash
  <2> QED
    BY <2>1, <2>2, <2>3, <2>4, <2>5, <2>6, <2>7, <2>8
<1>27. CASE UNCHANGED vars
  BY <1>27
<1> QED
  BY <1>1, <1>2, <1>3, <1>4, <1>5, <1>6, <1>7, <1>8, <1>9, <1>10, <1>11, <1>12,
     <1>13, <1>14, <1>15, <1>16, <1>17, <1>18, <1>19, <1>20, <1>21, <1>22, <1>23,
     <1>24, <1>25, <1>26, <1>27 DEF Next, Listener, KeePass

\* Entries appear when they are added, or read from the file, and vanish when the database
\* closes.
LEMMA EntriesKnownStep ==
  TypeOK /\ EntryHeld /\ EntriesKnown /\ [Next]_vars
    => EntriesKnown'
<1> SUFFICES ASSUME TypeOK, EntryHeld, EntriesKnown, [Next]_vars PROVE EntriesKnown'
  OBVIOUS
<1> USE ConstantsAssumption DEF TypeOK, Requests, RawOps, Stage, Counts, EntriesKnown, EntryHeld, vars, database, handler, locals, history
<1>1. ASSUME NEW r \in Requests, Receive(r) PROVE EntriesKnown'
  BY <1>1 DEF Receive, Refuse, Done, FirstStage, RawOps
<1>2. ASSUME VerifyRequest PROVE EntriesKnown'
  BY <1>2 DEF VerifyRequest, GoTo, Refuse, Done
<1>3. ASSUME VerifyUv PROVE EntriesKnown'
  BY <1>3 DEF VerifyUv, GoTo, Refuse, Done
<1>4. ASSUME NEW d \in {"yes", "no"}, AnswerPrompt(d) PROVE EntriesKnown'
  BY <1>4 DEF AnswerPrompt, GoTo, Refuse, Done
<1>5. ASSUME PromptFails PROVE EntriesKnown'
  BY <1>5 DEF PromptFails, Refuse, Done
<1>6. ASSUME Parse PROVE EntriesKnown'
  BY <1>6 DEF Parse, ParseMakeCredentialCbor, ParseGetAssertionCbor, GoTo, Refuse, Done
<1>7. ASSUME NEW c \in Creds, CheckExcluded(c) PROVE EntriesKnown'
  BY <1>7 DEF CheckExcluded, Present, Refuse, Done
<1>8. ASSUME NEW c \in Creds, SelectById(c) PROVE EntriesKnown'
  BY <1>8 DEF SelectById, Present, GoTo
<1>9. ASSUME NEW c \in Creds, RemoveEntry(c) PROVE EntriesKnown'
  BY <1>9 DEF RemoveEntry, Present, GoTo, Done, Ok
<1>10. ASSUME NotExcluded PROVE EntriesKnown'
  BY <1>10 DEF NotExcluded, GoTo, Refuse, Done
<1>11. ASSUME AddEntry PROVE EntriesKnown'
  BY <1>11 DEF AddEntry, NewIds, GoTo, Refuse, Done
<1>12. ASSUME SaveNew PROVE EntriesKnown'
  BY <1>12 DEF SaveNew, Save, Refuse, Done, Ok
<1>13. ASSUME SelectDiscoverable PROVE EntriesKnown'
  BY <1>13 DEF SelectDiscoverable, Present, GoTo, Refuse, Done
<1>14. ASSUME SelectNothing PROVE EntriesKnown'
  BY <1>14 DEF SelectNothing, Refuse, Done
<1>15. ASSUME FindEntry PROVE EntriesKnown'
  BY <1>15 DEF FindEntry, Present, GoTo, Refuse, Done
<1>16. ASSUME SetCount PROVE EntriesKnown'
  BY <1>16 DEF SetCount, GoTo
<1>17. ASSUME SaveCount PROVE EntriesKnown'
  BY <1>17 DEF SaveCount, Save, GoTo, Refuse, Done
<1>18. ASSUME GetAssertion PROVE EntriesKnown'
  BY <1>18 DEF GetAssertion, Done, Ok
<1>19. ASSUME SignAssertion PROVE EntriesKnown'
  BY <1>19 DEF SignAssertion, Refuse, Done, Ok
<1>20. ASSUME SaveRemoval PROVE EntriesKnown'
  BY <1>20 DEF SaveRemoval, Save, Refuse, Done, Ok
<1>21. ASSUME Read PROVE EntriesKnown'
  BY <1>21 DEF Read, Done, Ok
<1>22. ASSUME OpenVault PROVE EntriesKnown'
  BY <1>22 DEF OpenVault
<1>23. ASSUME CloseVault PROVE EntriesKnown'
  BY <1>23 DEF CloseVault, NoEntries
<1>24. ASSUME UserSaves PROVE EntriesKnown'
  BY <1>24 DEF UserSaves
<1>25. ASSUME NEW c \in Creds, UserDeletes(c) PROVE EntriesKnown'
  BY <1>25 DEF UserDeletes, Present
<1>26. ASSUME Crash PROVE EntriesKnown'
  BY <1>26 DEF Crash, NoEntries
<1>27. CASE UNCHANGED vars
  BY <1>27
<1> QED
  BY <1>1, <1>2, <1>3, <1>4, <1>5, <1>6, <1>7, <1>8, <1>9, <1>10, <1>11, <1>12,
     <1>13, <1>14, <1>15, <1>16, <1>17, <1>18, <1>19, <1>20, <1>21, <1>22, <1>23,
     <1>24, <1>25, <1>26, <1>27 DEF Next, Listener, KeePass

\* Nothing changes an entry between the reading of its counter and the update.
LEMMA EntryHeldStep == TypeOK /\ EntriesKnown /\ EntryHeld /\ [Next]_vars => EntryHeld'
<1> SUFFICES ASSUME TypeOK, EntriesKnown, EntryHeld, [Next]_vars PROVE EntryHeld'
  OBVIOUS
<1> USE ConstantsAssumption DEF TypeOK, Requests, RawOps, Stage, Counts, EntryHeld, EntriesKnown, vars, database, handler, locals, history
<1>1. ASSUME NEW r \in Requests, Receive(r) PROVE EntryHeld'
  BY <1>1 DEF Receive, Refuse, Done, FirstStage, RawOps
<1>2. ASSUME VerifyRequest PROVE EntryHeld'
  BY <1>2 DEF VerifyRequest, GoTo, Refuse, Done
<1>3. ASSUME VerifyUv PROVE EntryHeld'
  BY <1>3 DEF VerifyUv, GoTo, Refuse, Done
<1>4. ASSUME NEW d \in {"yes", "no"}, AnswerPrompt(d) PROVE EntryHeld'
  BY <1>4 DEF AnswerPrompt, GoTo, Refuse, Done
<1>5. ASSUME PromptFails PROVE EntryHeld'
  BY <1>5 DEF PromptFails, Refuse, Done
<1>6. ASSUME Parse PROVE EntryHeld'
  BY <1>6 DEF Parse, ParseMakeCredentialCbor, ParseGetAssertionCbor, GoTo, Refuse, Done
<1>7. ASSUME NEW c \in Creds, CheckExcluded(c) PROVE EntryHeld'
  BY <1>7 DEF CheckExcluded, Present, Refuse, Done
<1>8. ASSUME NEW c \in Creds, SelectById(c) PROVE EntryHeld'
  BY <1>8 DEF SelectById, Present, GoTo
<1>9. ASSUME NEW c \in Creds, RemoveEntry(c) PROVE EntryHeld'
  BY <1>9 DEF RemoveEntry, Present, GoTo, Done, Ok
<1>10. ASSUME NotExcluded PROVE EntryHeld'
  BY <1>10 DEF NotExcluded, GoTo, Refuse, Done
<1>11. ASSUME AddEntry PROVE EntryHeld'
  BY <1>11 DEF AddEntry, NewIds, GoTo, Refuse, Done
<1>12. ASSUME SaveNew PROVE EntryHeld'
  BY <1>12 DEF SaveNew, Save, Refuse, Done, Ok
<1>13. ASSUME SelectDiscoverable PROVE EntryHeld'
  BY <1>13 DEF SelectDiscoverable, Present, GoTo, Refuse, Done
<1>14. ASSUME SelectNothing PROVE EntryHeld'
  BY <1>14 DEF SelectNothing, Refuse, Done
<1>15. ASSUME FindEntry PROVE EntryHeld'
  BY <1>15 DEF FindEntry, Present, GoTo, Refuse, Done
<1>16. ASSUME SetCount PROVE EntryHeld'
  BY <1>16 DEF SetCount, GoTo
<1>17. ASSUME SaveCount PROVE EntryHeld'
  BY <1>17 DEF SaveCount, Save, GoTo, Refuse, Done
<1>18. ASSUME GetAssertion PROVE EntryHeld'
  BY <1>18 DEF GetAssertion, Done, Ok
<1>19. ASSUME SignAssertion PROVE EntryHeld'
  BY <1>19 DEF SignAssertion, Refuse, Done, Ok
<1>20. ASSUME SaveRemoval PROVE EntryHeld'
  BY <1>20 DEF SaveRemoval, Save, Refuse, Done, Ok
<1>21. ASSUME Read PROVE EntryHeld'
  BY <1>21 DEF Read, Done, Ok
<1>22. ASSUME OpenVault PROVE EntryHeld'
  BY <1>22 DEF OpenVault
<1>23. ASSUME CloseVault PROVE EntryHeld'
  BY <1>23 DEF CloseVault, NoEntries
<1>24. ASSUME UserSaves PROVE EntryHeld'
  BY <1>24 DEF UserSaves
<1>25. ASSUME NEW c \in Creds, UserDeletes(c) PROVE EntryHeld'
  BY <1>25 DEF UserDeletes, Present
<1>26. ASSUME Crash PROVE EntryHeld'
  BY <1>26 DEF Crash, NoEntries
<1>27. CASE UNCHANGED vars
  BY <1>27
<1> QED
  BY <1>1, <1>2, <1>3, <1>4, <1>5, <1>6, <1>7, <1>8, <1>9, <1>10, <1>11, <1>12,
     <1>13, <1>14, <1>15, <1>16, <1>17, <1>18, <1>19, <1>20, <1>21, <1>22, <1>23,
     <1>24, <1>25, <1>26, <1>27 DEF Next, Listener, KeePass

\* Counters only grow in memory, and only reach the file from there.
LEMMA MemNotBehindStep ==
  TypeOK /\ EntriesKnown /\ EntryHeld /\ MemNotBehind /\ [Next]_vars
    => MemNotBehind'
<1> SUFFICES ASSUME TypeOK, EntriesKnown, EntryHeld, MemNotBehind, [Next]_vars
             PROVE  MemNotBehind'
  OBVIOUS
<1> USE ConstantsAssumption DEF TypeOK, Requests, RawOps, Stage, Counts, MemNotBehind, EntriesKnown, EntryHeld, vars, database, handler, locals, history
<1>1. ASSUME NEW r \in Requests, Receive(r) PROVE MemNotBehind'
  BY <1>1 DEF Receive, Refuse, Done, FirstStage, RawOps
<1>2. ASSUME VerifyRequest PROVE MemNotBehind'
  BY <1>2 DEF VerifyRequest, GoTo, Refuse, Done
<1>3. ASSUME VerifyUv PROVE MemNotBehind'
  BY <1>3 DEF VerifyUv, GoTo, Refuse, Done
<1>4. ASSUME NEW d \in {"yes", "no"}, AnswerPrompt(d) PROVE MemNotBehind'
  BY <1>4 DEF AnswerPrompt, GoTo, Refuse, Done
<1>5. ASSUME PromptFails PROVE MemNotBehind'
  BY <1>5 DEF PromptFails, Refuse, Done
<1>6. ASSUME Parse PROVE MemNotBehind'
  BY <1>6 DEF Parse, ParseMakeCredentialCbor, ParseGetAssertionCbor, GoTo, Refuse, Done
<1>7. ASSUME NEW c \in Creds, CheckExcluded(c) PROVE MemNotBehind'
  BY <1>7 DEF CheckExcluded, Present, Refuse, Done
<1>8. ASSUME NEW c \in Creds, SelectById(c) PROVE MemNotBehind'
  BY <1>8 DEF SelectById, Present, GoTo
<1>9. ASSUME NEW c \in Creds, RemoveEntry(c) PROVE MemNotBehind'
  BY <1>9 DEF RemoveEntry, Present, GoTo, Done, Ok
<1>10. ASSUME NotExcluded PROVE MemNotBehind'
  BY <1>10 DEF NotExcluded, GoTo, Refuse, Done
<1>11. ASSUME AddEntry PROVE MemNotBehind'
  BY <1>11 DEF AddEntry, NewIds, GoTo, Refuse, Done
<1>12. ASSUME SaveNew PROVE MemNotBehind'
  BY <1>12 DEF SaveNew, Save, Refuse, Done, Ok
<1>13. ASSUME SelectDiscoverable PROVE MemNotBehind'
  BY <1>13 DEF SelectDiscoverable, Present, GoTo, Refuse, Done
<1>14. ASSUME SelectNothing PROVE MemNotBehind'
  BY <1>14 DEF SelectNothing, Refuse, Done
<1>15. ASSUME FindEntry PROVE MemNotBehind'
  BY <1>15 DEF FindEntry, Present, GoTo, Refuse, Done
<1>16. ASSUME SetCount PROVE MemNotBehind'
  BY <1>16 DEF SetCount, GoTo
<1>17. ASSUME SaveCount PROVE MemNotBehind'
  BY <1>17 DEF SaveCount, Save, GoTo, Refuse, Done
<1>18. ASSUME GetAssertion PROVE MemNotBehind'
  BY <1>18 DEF GetAssertion, Done, Ok
<1>19. ASSUME SignAssertion PROVE MemNotBehind'
  BY <1>19 DEF SignAssertion, Refuse, Done, Ok
<1>20. ASSUME SaveRemoval PROVE MemNotBehind'
  BY <1>20 DEF SaveRemoval, Save, Refuse, Done, Ok
<1>21. ASSUME Read PROVE MemNotBehind'
  BY <1>21 DEF Read, Done, Ok
<1>22. ASSUME OpenVault PROVE MemNotBehind'
  BY <1>22 DEF OpenVault
<1>23. ASSUME CloseVault PROVE MemNotBehind'
  BY <1>23 DEF CloseVault, NoEntries
<1>24. ASSUME UserSaves PROVE MemNotBehind'
  BY <1>24 DEF UserSaves
<1>25. ASSUME NEW c \in Creds, UserDeletes(c) PROVE MemNotBehind'
  BY <1>25 DEF UserDeletes, Present
<1>26. ASSUME Crash PROVE MemNotBehind'
  BY <1>26 DEF Crash, NoEntries
<1>27. CASE UNCHANGED vars
  BY <1>27
<1> QED
  BY <1>1, <1>2, <1>3, <1>4, <1>5, <1>6, <1>7, <1>8, <1>9, <1>10, <1>11, <1>12,
     <1>13, <1>14, <1>15, <1>16, <1>17, <1>18, <1>19, <1>20, <1>21, <1>22, <1>23,
     <1>24, <1>25, <1>26, <1>27 DEF Next, Listener, KeePass

\* The gates come one after the other, and the latch closes once.
LEMMA GatesStep == TypeOK /\ GatesPassed /\ [Next]_vars => GatesPassed'
<1> SUFFICES ASSUME TypeOK, GatesPassed, [Next]_vars PROVE GatesPassed'
  OBVIOUS
<1> USE ConstantsAssumption DEF TypeOK, Requests, RawOps, Stage, Counts, GatesPassed, vars, database, handler, locals, history
<1>1. ASSUME NEW r \in Requests, Receive(r) PROVE GatesPassed'
  BY <1>1 DEF Receive, Refuse, Done, FirstStage, RawOps
<1>2. ASSUME VerifyRequest PROVE GatesPassed'
  BY <1>2 DEF VerifyRequest, GoTo, Refuse, Done
<1>3. ASSUME VerifyUv PROVE GatesPassed'
  BY <1>3 DEF VerifyUv, GoTo, Refuse, Done
<1>4. ASSUME NEW d \in {"yes", "no"}, AnswerPrompt(d) PROVE GatesPassed'
  BY <1>4 DEF AnswerPrompt, GoTo, Refuse, Done
<1>5. ASSUME PromptFails PROVE GatesPassed'
  BY <1>5 DEF PromptFails, Refuse, Done
<1>6. ASSUME Parse PROVE GatesPassed'
  BY <1>6 DEF Parse, ParseMakeCredentialCbor, ParseGetAssertionCbor, GoTo, Refuse, Done
<1>7. ASSUME NEW c \in Creds, CheckExcluded(c) PROVE GatesPassed'
  BY <1>7 DEF CheckExcluded, Present, Refuse, Done
<1>8. ASSUME NEW c \in Creds, SelectById(c) PROVE GatesPassed'
  BY <1>8 DEF SelectById, Present, GoTo
<1>9. ASSUME NEW c \in Creds, RemoveEntry(c) PROVE GatesPassed'
  BY <1>9 DEF RemoveEntry, Present, GoTo, Done, Ok
<1>10. ASSUME NotExcluded PROVE GatesPassed'
  BY <1>10 DEF NotExcluded, GoTo, Refuse, Done
<1>11. ASSUME AddEntry PROVE GatesPassed'
  BY <1>11 DEF AddEntry, NewIds, GoTo, Refuse, Done
<1>12. ASSUME SaveNew PROVE GatesPassed'
  BY <1>12 DEF SaveNew, Save, Refuse, Done, Ok
<1>13. ASSUME SelectDiscoverable PROVE GatesPassed'
  BY <1>13 DEF SelectDiscoverable, Present, GoTo, Refuse, Done
<1>14. ASSUME SelectNothing PROVE GatesPassed'
  BY <1>14 DEF SelectNothing, Refuse, Done
<1>15. ASSUME FindEntry PROVE GatesPassed'
  BY <1>15 DEF FindEntry, Present, GoTo, Refuse, Done
<1>16. ASSUME SetCount PROVE GatesPassed'
  BY <1>16 DEF SetCount, GoTo
<1>17. ASSUME SaveCount PROVE GatesPassed'
  BY <1>17 DEF SaveCount, Save, GoTo, Refuse, Done
<1>18. ASSUME GetAssertion PROVE GatesPassed'
  BY <1>18 DEF GetAssertion, Done, Ok
<1>19. ASSUME SignAssertion PROVE GatesPassed'
  BY <1>19 DEF SignAssertion, Refuse, Done, Ok
<1>20. ASSUME SaveRemoval PROVE GatesPassed'
  BY <1>20 DEF SaveRemoval, Save, Refuse, Done, Ok
<1>21. ASSUME Read PROVE GatesPassed'
  BY <1>21 DEF Read, Done, Ok
<1>22. ASSUME OpenVault PROVE GatesPassed'
  BY <1>22 DEF OpenVault
<1>23. ASSUME CloseVault PROVE GatesPassed'
  BY <1>23 DEF CloseVault, NoEntries
<1>24. ASSUME UserSaves PROVE GatesPassed'
  BY <1>24 DEF UserSaves
<1>25. ASSUME NEW c \in Creds, UserDeletes(c) PROVE GatesPassed'
  BY <1>25 DEF UserDeletes, Present
<1>26. ASSUME Crash PROVE GatesPassed'
  BY <1>26 DEF Crash, NoEntries
<1>27. CASE UNCHANGED vars
  BY <1>27
<1> QED
  BY <1>1, <1>2, <1>3, <1>4, <1>5, <1>6, <1>7, <1>8, <1>9, <1>10, <1>11, <1>12,
     <1>13, <1>14, <1>15, <1>16, <1>17, <1>18, <1>19, <1>20, <1>21, <1>22, <1>23,
     <1>24, <1>25, <1>26, <1>27 DEF Next, Listener, KeePass

\* Nothing gets past the gates on another way.
LEMMA ConsentStep ==
  TypeOK /\ GatesPassed /\ ConsentBehindUse /\ [Next]_vars
    => ConsentBehindUse'
<1> SUFFICES ASSUME TypeOK, GatesPassed, ConsentBehindUse, [Next]_vars
             PROVE  ConsentBehindUse'
  OBVIOUS
<1> USE ConstantsAssumption DEF TypeOK, Requests, RawOps, Stage, Counts, GatesPassed, ConsentBehindUse, vars, database, handler, locals, history
<1>1. ASSUME NEW r \in Requests, Receive(r) PROVE ConsentBehindUse'
  BY <1>1 DEF Receive, Refuse, Done, FirstStage, RawOps
<1>2. ASSUME VerifyRequest PROVE ConsentBehindUse'
  BY <1>2 DEF VerifyRequest, GoTo, Refuse, Done
<1>3. ASSUME VerifyUv PROVE ConsentBehindUse'
  BY <1>3 DEF VerifyUv, GoTo, Refuse, Done
<1>4. ASSUME NEW d \in {"yes", "no"}, AnswerPrompt(d) PROVE ConsentBehindUse'
  BY <1>4 DEF AnswerPrompt, GoTo, Refuse, Done
<1>5. ASSUME PromptFails PROVE ConsentBehindUse'
  BY <1>5 DEF PromptFails, Refuse, Done
<1>6. ASSUME Parse PROVE ConsentBehindUse'
  BY <1>6 DEF Parse, ParseMakeCredentialCbor, ParseGetAssertionCbor, GoTo, Refuse, Done
<1>7. ASSUME NEW c \in Creds, CheckExcluded(c) PROVE ConsentBehindUse'
  BY <1>7 DEF CheckExcluded, Present, Refuse, Done
<1>8. ASSUME NEW c \in Creds, SelectById(c) PROVE ConsentBehindUse'
  BY <1>8 DEF SelectById, Present, GoTo
<1>9. ASSUME NEW c \in Creds, RemoveEntry(c) PROVE ConsentBehindUse'
  BY <1>9 DEF RemoveEntry, Present, GoTo, Done, Ok
<1>10. ASSUME NotExcluded PROVE ConsentBehindUse'
  BY <1>10 DEF NotExcluded, GoTo, Refuse, Done
<1>11. ASSUME AddEntry PROVE ConsentBehindUse'
  BY <1>11 DEF AddEntry, NewIds, GoTo, Refuse, Done
<1>12. ASSUME SaveNew PROVE ConsentBehindUse'
  BY <1>12 DEF SaveNew, Save, Refuse, Done, Ok
<1>13. ASSUME SelectDiscoverable PROVE ConsentBehindUse'
  BY <1>13 DEF SelectDiscoverable, Present, GoTo, Refuse, Done
<1>14. ASSUME SelectNothing PROVE ConsentBehindUse'
  BY <1>14 DEF SelectNothing, Refuse, Done
<1>15. ASSUME FindEntry PROVE ConsentBehindUse'
  BY <1>15 DEF FindEntry, Present, GoTo, Refuse, Done
<1>16. ASSUME SetCount PROVE ConsentBehindUse'
  BY <1>16 DEF SetCount, GoTo
<1>17. ASSUME SaveCount PROVE ConsentBehindUse'
  BY <1>17 DEF SaveCount, Save, GoTo, Refuse, Done
<1>18. ASSUME GetAssertion PROVE ConsentBehindUse'
  BY <1>18 DEF GetAssertion, Done, Ok
<1>19. ASSUME SignAssertion PROVE ConsentBehindUse'
  BY <1>19 DEF SignAssertion, Refuse, Done, Ok
<1>20. ASSUME SaveRemoval PROVE ConsentBehindUse'
  BY <1>20 DEF SaveRemoval, Save, Refuse, Done, Ok
<1>21. ASSUME Read PROVE ConsentBehindUse'
  BY <1>21 DEF Read, Done, Ok
<1>22. ASSUME OpenVault PROVE ConsentBehindUse'
  BY <1>22 DEF OpenVault
<1>23. ASSUME CloseVault PROVE ConsentBehindUse'
  BY <1>23 DEF CloseVault, NoEntries
<1>24. ASSUME UserSaves PROVE ConsentBehindUse'
  BY <1>24 DEF UserSaves
<1>25. ASSUME NEW c \in Creds, UserDeletes(c) PROVE ConsentBehindUse'
  BY <1>25 DEF UserDeletes, Present
<1>26. ASSUME Crash PROVE ConsentBehindUse'
  BY <1>26 DEF Crash, NoEntries
<1>27. CASE UNCHANGED vars
  BY <1>27
<1> QED
  BY <1>1, <1>2, <1>3, <1>4, <1>5, <1>6, <1>7, <1>8, <1>9, <1>10, <1>11, <1>12,
     <1>13, <1>14, <1>15, <1>16, <1>17, <1>18, <1>19, <1>20, <1>21, <1>22, <1>23,
     <1>24, <1>25, <1>26, <1>27 DEF Next, Listener, KeePass

\* Only a deletion takes an entry out of an open database.
LEMMA DetachedStep ==
  ~Reopens /\ TypeOK /\ EntriesKnown /\ EntryHeld /\ DetachedGone /\ [Next]_vars
    => DetachedGone'
<1> SUFFICES ASSUME ~Reopens, TypeOK, EntriesKnown, EntryHeld, DetachedGone, [Next]_vars
             PROVE  DetachedGone'
  OBVIOUS
<1> USE ConstantsAssumption DEF TypeOK, Requests, RawOps, Stage, Counts, DetachedGone, EntriesKnown, EntryHeld, vars, database, handler, locals, history
<1>1. ASSUME NEW r \in Requests, Receive(r) PROVE DetachedGone'
  BY <1>1 DEF Receive, Refuse, Done, FirstStage, RawOps
<1>2. ASSUME VerifyRequest PROVE DetachedGone'
  BY <1>2 DEF VerifyRequest, GoTo, Refuse, Done
<1>3. ASSUME VerifyUv PROVE DetachedGone'
  BY <1>3 DEF VerifyUv, GoTo, Refuse, Done
<1>4. ASSUME NEW d \in {"yes", "no"}, AnswerPrompt(d) PROVE DetachedGone'
  BY <1>4 DEF AnswerPrompt, GoTo, Refuse, Done
<1>5. ASSUME PromptFails PROVE DetachedGone'
  BY <1>5 DEF PromptFails, Refuse, Done
<1>6. ASSUME Parse PROVE DetachedGone'
  BY <1>6 DEF Parse, ParseMakeCredentialCbor, ParseGetAssertionCbor, GoTo, Refuse, Done
<1>7. ASSUME NEW c \in Creds, CheckExcluded(c) PROVE DetachedGone'
  BY <1>7 DEF CheckExcluded, Present, Refuse, Done
<1>8. ASSUME NEW c \in Creds, SelectById(c) PROVE DetachedGone'
  BY <1>8 DEF SelectById, Present, GoTo
<1>9. ASSUME NEW c \in Creds, RemoveEntry(c) PROVE DetachedGone'
  BY <1>9 DEF RemoveEntry, Present, GoTo, Done, Ok
<1>10. ASSUME NotExcluded PROVE DetachedGone'
  BY <1>10 DEF NotExcluded, GoTo, Refuse, Done
<1>11. ASSUME AddEntry PROVE DetachedGone'
  BY <1>11 DEF AddEntry, NewIds, GoTo, Refuse, Done
<1>12. ASSUME SaveNew PROVE DetachedGone'
  BY <1>12 DEF SaveNew, Save, Refuse, Done, Ok
<1>13. ASSUME SelectDiscoverable PROVE DetachedGone'
  BY <1>13 DEF SelectDiscoverable, Present, GoTo, Refuse, Done
<1>14. ASSUME SelectNothing PROVE DetachedGone'
  BY <1>14 DEF SelectNothing, Refuse, Done
<1>15. ASSUME FindEntry PROVE DetachedGone'
  BY <1>15 DEF FindEntry, Present, GoTo, Refuse, Done
<1>16. ASSUME SetCount PROVE DetachedGone'
  BY <1>16 DEF SetCount, GoTo
<1>17. ASSUME SaveCount PROVE DetachedGone'
  BY <1>17 DEF SaveCount, Save, GoTo, Refuse, Done
<1>18. ASSUME GetAssertion PROVE DetachedGone'
  BY <1>18 DEF GetAssertion, Done, Ok
<1>19. ASSUME SignAssertion PROVE DetachedGone'
  BY <1>19 DEF SignAssertion, Refuse, Done, Ok
<1>20. ASSUME SaveRemoval PROVE DetachedGone'
  BY <1>20 DEF SaveRemoval, Save, Refuse, Done, Ok
<1>21. ASSUME Read PROVE DetachedGone'
  BY <1>21 DEF Read, Done, Ok
<1>22. ASSUME OpenVault PROVE DetachedGone'
  BY <1>22 DEF OpenVault
<1>23. ASSUME CloseVault PROVE DetachedGone'
  BY <1>23 DEF CloseVault, NoEntries
<1>24. ASSUME UserSaves PROVE DetachedGone'
  BY <1>24 DEF UserSaves
<1>25. ASSUME NEW c \in Creds, UserDeletes(c) PROVE DetachedGone'
  BY <1>25 DEF UserDeletes, Present
<1>26. ASSUME Crash PROVE DetachedGone'
  BY <1>26 DEF Crash, NoEntries
<1>27. CASE UNCHANGED vars
  BY <1>27
<1> QED
  BY <1>1, <1>2, <1>3, <1>4, <1>5, <1>6, <1>7, <1>8, <1>9, <1>10, <1>11, <1>12,
     <1>13, <1>14, <1>15, <1>16, <1>17, <1>18, <1>19, <1>20, <1>21, <1>22, <1>23,
     <1>24, <1>25, <1>26, <1>27 DEF Next, Listener, KeePass

\* A counter is in the file before it is released.
LEMMA CountsStep ==
  ~Reopens /\ TypeOK /\ EntriesKnown /\ EntryHeld /\ DetachedGone /\ CountsReleased /\ [Next]_vars
    => CountsReleased'
<1> SUFFICES ASSUME ~Reopens, TypeOK, EntriesKnown, EntryHeld, DetachedGone, CountsReleased, [Next]_vars
             PROVE  CountsReleased'
  OBVIOUS
<1> USE ConstantsAssumption DEF TypeOK, Requests, RawOps, Stage, Counts, CountsReleased, EntriesKnown, EntryHeld, DetachedGone, vars, database, handler, locals, history
<1>1. ASSUME NEW r \in Requests, Receive(r) PROVE CountsReleased'
  BY <1>1 DEF Receive, Refuse, Done, FirstStage, RawOps
<1>2. ASSUME VerifyRequest PROVE CountsReleased'
  BY <1>2 DEF VerifyRequest, GoTo, Refuse, Done
<1>3. ASSUME VerifyUv PROVE CountsReleased'
  BY <1>3 DEF VerifyUv, GoTo, Refuse, Done
<1>4. ASSUME NEW d \in {"yes", "no"}, AnswerPrompt(d) PROVE CountsReleased'
  BY <1>4 DEF AnswerPrompt, GoTo, Refuse, Done
<1>5. ASSUME PromptFails PROVE CountsReleased'
  BY <1>5 DEF PromptFails, Refuse, Done
<1>6. ASSUME Parse PROVE CountsReleased'
  BY <1>6 DEF Parse, ParseMakeCredentialCbor, ParseGetAssertionCbor, GoTo, Refuse, Done
<1>7. ASSUME NEW c \in Creds, CheckExcluded(c) PROVE CountsReleased'
  BY <1>7 DEF CheckExcluded, Present, Refuse, Done
<1>8. ASSUME NEW c \in Creds, SelectById(c) PROVE CountsReleased'
  BY <1>8 DEF SelectById, Present, GoTo
<1>9. ASSUME NEW c \in Creds, RemoveEntry(c) PROVE CountsReleased'
  BY <1>9 DEF RemoveEntry, Present, GoTo, Done, Ok
<1>10. ASSUME NotExcluded PROVE CountsReleased'
  BY <1>10 DEF NotExcluded, GoTo, Refuse, Done
<1>11. ASSUME AddEntry PROVE CountsReleased'
  BY <1>11 DEF AddEntry, NewIds, GoTo, Refuse, Done
<1>12. ASSUME SaveNew PROVE CountsReleased'
  BY <1>12 DEF SaveNew, Save, Refuse, Done, Ok
<1>13. ASSUME SelectDiscoverable PROVE CountsReleased'
  BY <1>13 DEF SelectDiscoverable, Present, GoTo, Refuse, Done
<1>14. ASSUME SelectNothing PROVE CountsReleased'
  BY <1>14 DEF SelectNothing, Refuse, Done
<1>15. ASSUME FindEntry PROVE CountsReleased'
  BY <1>15 DEF FindEntry, Present, GoTo, Refuse, Done
<1>16. ASSUME SetCount PROVE CountsReleased'
  BY <1>16 DEF SetCount, GoTo
<1>17. ASSUME SaveCount PROVE CountsReleased'
  BY <1>17 DEF SaveCount, Save, GoTo, Refuse, Done
<1>18. ASSUME GetAssertion PROVE CountsReleased'
  BY <1>18 DEF GetAssertion, Done, Ok
<1>19. ASSUME SignAssertion PROVE CountsReleased'
  BY <1>19 DEF SignAssertion, Refuse, Done, Ok
<1>20. ASSUME SaveRemoval PROVE CountsReleased'
  BY <1>20 DEF SaveRemoval, Save, Refuse, Done, Ok
<1>21. ASSUME Read PROVE CountsReleased'
  BY <1>21 DEF Read, Done, Ok
<1>22. ASSUME OpenVault PROVE CountsReleased'
  BY <1>22 DEF OpenVault
<1>23. ASSUME CloseVault PROVE CountsReleased'
  BY <1>23 DEF CloseVault, NoEntries
<1>24. ASSUME UserSaves PROVE CountsReleased'
  BY <1>24 DEF UserSaves
<1>25. ASSUME NEW c \in Creds, UserDeletes(c) PROVE CountsReleased'
  BY <1>25 DEF UserDeletes, Present
<1>26. ASSUME Crash PROVE CountsReleased'
  BY <1>26 DEF Crash, NoEntries
<1>27. CASE UNCHANGED vars
  BY <1>27
<1> QED
  BY <1>1, <1>2, <1>3, <1>4, <1>5, <1>6, <1>7, <1>8, <1>9, <1>10, <1>11, <1>12,
     <1>13, <1>14, <1>15, <1>16, <1>17, <1>18, <1>19, <1>20, <1>21, <1>22, <1>23,
     <1>24, <1>25, <1>26, <1>27 DEF Next, Listener, KeePass

\* An entry in use goes only with a deletion.
LEMMA LostStep ==
  ~Reopens /\ TypeOK /\ EntryHeld /\ DetachedGone /\ LostOnlyRemoved /\ [Next]_vars
    => LostOnlyRemoved'
<1> SUFFICES ASSUME ~Reopens, TypeOK, EntryHeld, DetachedGone, LostOnlyRemoved, [Next]_vars
             PROVE  LostOnlyRemoved'
  OBVIOUS
<1> USE ConstantsAssumption
    DEF TypeOK, Requests, RawOps, Stage, Counts, LostOnlyRemoved, EntryHeld, DetachedGone,
        vars, database, handler, locals, history
<1>1. ASSUME NEW r \in Requests, Receive(r) PROVE LostOnlyRemoved'
  BY <1>1 DEF Receive, Refuse, Done, FirstStage, RawOps
<1>2. ASSUME VerifyRequest PROVE LostOnlyRemoved'
  BY <1>2 DEF VerifyRequest, GoTo, Refuse, Done
<1>3. ASSUME VerifyUv PROVE LostOnlyRemoved'
  BY <1>3 DEF VerifyUv, GoTo, Refuse, Done
<1>4. ASSUME NEW d \in {"yes", "no"}, AnswerPrompt(d) PROVE LostOnlyRemoved'
  BY <1>4 DEF AnswerPrompt, GoTo, Refuse, Done
<1>5. ASSUME PromptFails PROVE LostOnlyRemoved'
  BY <1>5 DEF PromptFails, Refuse, Done
<1>6. ASSUME Parse PROVE LostOnlyRemoved'
  BY <1>6 DEF Parse, ParseMakeCredentialCbor, ParseGetAssertionCbor, GoTo, Refuse, Done
<1>7. ASSUME NEW c \in Creds, CheckExcluded(c) PROVE LostOnlyRemoved'
  BY <1>7 DEF CheckExcluded, Present, Refuse, Done
<1>8. ASSUME NEW c \in Creds, SelectById(c) PROVE LostOnlyRemoved'
  BY <1>8 DEF SelectById, Present, GoTo
<1>9. ASSUME NEW c \in Creds, RemoveEntry(c) PROVE LostOnlyRemoved'
  BY <1>9 DEF RemoveEntry, Present, GoTo, Done, Ok
<1>10. ASSUME NotExcluded PROVE LostOnlyRemoved'
  BY <1>10 DEF NotExcluded, GoTo, Refuse, Done
<1>11. ASSUME AddEntry PROVE LostOnlyRemoved'
  BY <1>11 DEF AddEntry, NewIds, GoTo, Refuse, Done
<1>12. ASSUME SaveNew PROVE LostOnlyRemoved'
  BY <1>12 DEF SaveNew, Save, Refuse, Done, Ok
<1>13. ASSUME SelectDiscoverable PROVE LostOnlyRemoved'
  BY <1>13 DEF SelectDiscoverable, Present, GoTo, Refuse, Done
<1>14. ASSUME SelectNothing PROVE LostOnlyRemoved'
  BY <1>14 DEF SelectNothing, Refuse, Done
<1>15. ASSUME FindEntry PROVE LostOnlyRemoved'
  BY <1>15 DEF FindEntry, Present, GoTo, Refuse, Done
<1>16. ASSUME SetCount PROVE LostOnlyRemoved'
  BY <1>16 DEF SetCount, GoTo
<1>17. ASSUME SaveCount PROVE LostOnlyRemoved'
  BY <1>17 DEF SaveCount, Save, GoTo, Refuse, Done
<1>18. ASSUME GetAssertion PROVE LostOnlyRemoved'
  BY <1>18 DEF GetAssertion, Done, Ok
<1>19. ASSUME SignAssertion PROVE LostOnlyRemoved'
  BY <1>19 DEF SignAssertion, Refuse, Done, Ok
<1>20. ASSUME SaveRemoval PROVE LostOnlyRemoved'
  BY <1>20 DEF SaveRemoval, Save, Refuse, Done, Ok
<1>21. ASSUME Read PROVE LostOnlyRemoved'
  BY <1>21 DEF Read, Done, Ok
<1>22. ASSUME OpenVault PROVE LostOnlyRemoved'
  BY <1>22 DEF OpenVault
<1>23. ASSUME CloseVault PROVE LostOnlyRemoved'
  BY <1>23 DEF CloseVault, NoEntries
<1>24. ASSUME UserSaves PROVE LostOnlyRemoved'
  BY <1>24 DEF UserSaves
<1>25. ASSUME NEW c \in Creds, UserDeletes(c) PROVE LostOnlyRemoved'
  BY <1>25 DEF UserDeletes, Present
<1>26. ASSUME Crash PROVE LostOnlyRemoved'
  BY <1>26 DEF Crash, NoEntries
<1>27. CASE UNCHANGED vars
  BY <1>27
<1> QED
  BY <1>1, <1>2, <1>3, <1>4, <1>5, <1>6, <1>7, <1>8, <1>9, <1>10, <1>11, <1>12,
     <1>13, <1>14, <1>15, <1>16, <1>17, <1>18, <1>19, <1>20, <1>21, <1>22, <1>23,
     <1>24, <1>25, <1>26, <1>27 DEF Next, Listener, KeePass

\* IncrementSignCount returns more than what has been released.
LEMMA CountFreshStep ==
  ~Reopens /\ TypeOK /\ EntriesKnown /\ CountsReleased /\ AssertionCountFresh /\ [Next]_vars
    => AssertionCountFresh'
<1> SUFFICES ASSUME ~Reopens, TypeOK, EntriesKnown, CountsReleased, AssertionCountFresh, [Next]_vars
             PROVE  AssertionCountFresh'
  OBVIOUS
<1> USE ConstantsAssumption DEF TypeOK, Requests, RawOps, Stage, Counts, CountsReleased, EntriesKnown, AssertionCountFresh, vars, database, handler, locals, history
<1>1. ASSUME NEW r \in Requests, Receive(r) PROVE AssertionCountFresh'
  BY <1>1 DEF Receive, Refuse, Done, FirstStage, RawOps
<1>2. ASSUME VerifyRequest PROVE AssertionCountFresh'
  BY <1>2 DEF VerifyRequest, GoTo, Refuse, Done
<1>3. ASSUME VerifyUv PROVE AssertionCountFresh'
  BY <1>3 DEF VerifyUv, GoTo, Refuse, Done
<1>4. ASSUME NEW d \in {"yes", "no"}, AnswerPrompt(d) PROVE AssertionCountFresh'
  BY <1>4 DEF AnswerPrompt, GoTo, Refuse, Done
<1>5. ASSUME PromptFails PROVE AssertionCountFresh'
  BY <1>5 DEF PromptFails, Refuse, Done
<1>6. ASSUME Parse PROVE AssertionCountFresh'
  BY <1>6 DEF Parse, ParseMakeCredentialCbor, ParseGetAssertionCbor, GoTo, Refuse, Done
<1>7. ASSUME NEW c \in Creds, CheckExcluded(c) PROVE AssertionCountFresh'
  BY <1>7 DEF CheckExcluded, Present, Refuse, Done
<1>8. ASSUME NEW c \in Creds, SelectById(c) PROVE AssertionCountFresh'
  BY <1>8 DEF SelectById, Present, GoTo
<1>9. ASSUME NEW c \in Creds, RemoveEntry(c) PROVE AssertionCountFresh'
  BY <1>9 DEF RemoveEntry, Present, GoTo, Done, Ok
<1>10. ASSUME NotExcluded PROVE AssertionCountFresh'
  BY <1>10 DEF NotExcluded, GoTo, Refuse, Done
<1>11. ASSUME AddEntry PROVE AssertionCountFresh'
  BY <1>11 DEF AddEntry, NewIds, GoTo, Refuse, Done
<1>12. ASSUME SaveNew PROVE AssertionCountFresh'
  BY <1>12 DEF SaveNew, Save, Refuse, Done, Ok
<1>13. ASSUME SelectDiscoverable PROVE AssertionCountFresh'
  BY <1>13 DEF SelectDiscoverable, Present, GoTo, Refuse, Done
<1>14. ASSUME SelectNothing PROVE AssertionCountFresh'
  BY <1>14 DEF SelectNothing, Refuse, Done
<1>15. ASSUME FindEntry PROVE AssertionCountFresh'
  BY <1>15 DEF FindEntry, Present, GoTo, Refuse, Done
<1>16. ASSUME SetCount PROVE AssertionCountFresh'
  BY <1>16 DEF SetCount, GoTo
<1>17. ASSUME SaveCount PROVE AssertionCountFresh'
  BY <1>17 DEF SaveCount, Save, GoTo, Refuse, Done
<1>18. ASSUME GetAssertion PROVE AssertionCountFresh'
  BY <1>18 DEF GetAssertion, Done, Ok
<1>19. ASSUME SignAssertion PROVE AssertionCountFresh'
  BY <1>19 DEF SignAssertion, Refuse, Done, Ok
<1>20. ASSUME SaveRemoval PROVE AssertionCountFresh'
  BY <1>20 DEF SaveRemoval, Save, Refuse, Done, Ok
<1>21. ASSUME Read PROVE AssertionCountFresh'
  BY <1>21 DEF Read, Done, Ok
<1>22. ASSUME OpenVault PROVE AssertionCountFresh'
  BY <1>22 DEF OpenVault
<1>23. ASSUME CloseVault PROVE AssertionCountFresh'
  BY <1>23 DEF CloseVault, NoEntries
<1>24. ASSUME UserSaves PROVE AssertionCountFresh'
  BY <1>24 DEF UserSaves
<1>25. ASSUME NEW c \in Creds, UserDeletes(c) PROVE AssertionCountFresh'
  BY <1>25 DEF UserDeletes, Present
<1>26. ASSUME Crash PROVE AssertionCountFresh'
  BY <1>26 DEF Crash, NoEntries
<1>27. CASE UNCHANGED vars
  BY <1>27
<1> QED
  BY <1>1, <1>2, <1>3, <1>4, <1>5, <1>6, <1>7, <1>8, <1>9, <1>10, <1>11, <1>12,
     <1>13, <1>14, <1>15, <1>16, <1>17, <1>18, <1>19, <1>20, <1>21, <1>22, <1>23,
     <1>24, <1>25, <1>26, <1>27 DEF Next, Listener, KeePass

\* A registered credential stays in memory until it is deleted.
LEMMA RegisteredHeldStep ==
  ~Reopens /\ TypeOK /\ EntriesKnown /\ RegisteredHeld /\ RegisteredKept /\ [Next]_vars
    => RegisteredHeld'
<1> SUFFICES ASSUME ~Reopens, TypeOK, EntriesKnown, RegisteredHeld, RegisteredKept, [Next]_vars
             PROVE  RegisteredHeld'
  OBVIOUS
<1> USE ConstantsAssumption DEF TypeOK, Requests, RawOps, Stage, Counts, RegisteredHeld, RegisteredKept, EntriesKnown, vars, database, handler, locals, history
<1>1. ASSUME NEW r \in Requests, Receive(r) PROVE RegisteredHeld'
  BY <1>1 DEF Receive, Refuse, Done, FirstStage, RawOps
<1>2. ASSUME VerifyRequest PROVE RegisteredHeld'
  BY <1>2 DEF VerifyRequest, GoTo, Refuse, Done
<1>3. ASSUME VerifyUv PROVE RegisteredHeld'
  BY <1>3 DEF VerifyUv, GoTo, Refuse, Done
<1>4. ASSUME NEW d \in {"yes", "no"}, AnswerPrompt(d) PROVE RegisteredHeld'
  BY <1>4 DEF AnswerPrompt, GoTo, Refuse, Done
<1>5. ASSUME PromptFails PROVE RegisteredHeld'
  BY <1>5 DEF PromptFails, Refuse, Done
<1>6. ASSUME Parse PROVE RegisteredHeld'
  BY <1>6 DEF Parse, ParseMakeCredentialCbor, ParseGetAssertionCbor, GoTo, Refuse, Done
<1>7. ASSUME NEW c \in Creds, CheckExcluded(c) PROVE RegisteredHeld'
  BY <1>7 DEF CheckExcluded, Present, Refuse, Done
<1>8. ASSUME NEW c \in Creds, SelectById(c) PROVE RegisteredHeld'
  BY <1>8 DEF SelectById, Present, GoTo
<1>9. ASSUME NEW c \in Creds, RemoveEntry(c) PROVE RegisteredHeld'
  BY <1>9 DEF RemoveEntry, Present, GoTo, Done, Ok
<1>10. ASSUME NotExcluded PROVE RegisteredHeld'
  BY <1>10 DEF NotExcluded, GoTo, Refuse, Done
<1>11. ASSUME AddEntry PROVE RegisteredHeld'
  BY <1>11 DEF AddEntry, NewIds, GoTo, Refuse, Done
<1>12. ASSUME SaveNew PROVE RegisteredHeld'
  BY <1>12 DEF SaveNew, Save, Refuse, Done, Ok
<1>13. ASSUME SelectDiscoverable PROVE RegisteredHeld'
  BY <1>13 DEF SelectDiscoverable, Present, GoTo, Refuse, Done
<1>14. ASSUME SelectNothing PROVE RegisteredHeld'
  BY <1>14 DEF SelectNothing, Refuse, Done
<1>15. ASSUME FindEntry PROVE RegisteredHeld'
  BY <1>15 DEF FindEntry, Present, GoTo, Refuse, Done
<1>16. ASSUME SetCount PROVE RegisteredHeld'
  BY <1>16 DEF SetCount, GoTo
<1>17. ASSUME SaveCount PROVE RegisteredHeld'
  BY <1>17 DEF SaveCount, Save, GoTo, Refuse, Done
<1>18. ASSUME GetAssertion PROVE RegisteredHeld'
  BY <1>18 DEF GetAssertion, Done, Ok
<1>19. ASSUME SignAssertion PROVE RegisteredHeld'
  BY <1>19 DEF SignAssertion, Refuse, Done, Ok
<1>20. ASSUME SaveRemoval PROVE RegisteredHeld'
  BY <1>20 DEF SaveRemoval, Save, Refuse, Done, Ok
<1>21. ASSUME Read PROVE RegisteredHeld'
  BY <1>21 DEF Read, Done, Ok
<1>22. ASSUME OpenVault PROVE RegisteredHeld'
  BY <1>22 DEF OpenVault
<1>23. ASSUME CloseVault PROVE RegisteredHeld'
  BY <1>23 DEF CloseVault, NoEntries
<1>24. ASSUME UserSaves PROVE RegisteredHeld'
  BY <1>24 DEF UserSaves
<1>25. ASSUME NEW c \in Creds, UserDeletes(c) PROVE RegisteredHeld'
  BY <1>25 DEF UserDeletes, Present
<1>26. ASSUME Crash PROVE RegisteredHeld'
  BY <1>26 DEF Crash, NoEntries
<1>27. CASE UNCHANGED vars
  BY <1>27
<1> HIDE DEF TypeOK, RegisteredHeld, RegisteredKept, EntriesKnown, vars, database, handler,
         locals, history
<1> QED
  BY <1>1, <1>2, <1>3, <1>4, <1>5, <1>6, <1>7, <1>8, <1>9, <1>10, <1>11, <1>12,
     <1>13, <1>14, <1>15, <1>16, <1>17, <1>18, <1>19, <1>20, <1>21, <1>22, <1>23,
     <1>24, <1>25, <1>26, <1>27 DEF Next, Listener, KeePass

\* A registration is answered after the file has it.
LEMMA RegisteredKeptStep ==
  ~Reopens /\ TypeOK /\ RegisteredHeld /\ RegisteredKept /\ [Next]_vars
    => RegisteredKept'
<1> SUFFICES ASSUME ~Reopens, TypeOK, RegisteredHeld, RegisteredKept, [Next]_vars
             PROVE  RegisteredKept'
  OBVIOUS
<1> USE ConstantsAssumption DEF TypeOK, Requests, RawOps, Stage, Counts, RegisteredHeld, RegisteredKept, vars, database, handler, locals, history
<1>1. ASSUME NEW r \in Requests, Receive(r) PROVE RegisteredKept'
  BY <1>1 DEF Receive, Refuse, Done, FirstStage, RawOps
<1>2. ASSUME VerifyRequest PROVE RegisteredKept'
  BY <1>2 DEF VerifyRequest, GoTo, Refuse, Done
<1>3. ASSUME VerifyUv PROVE RegisteredKept'
  BY <1>3 DEF VerifyUv, GoTo, Refuse, Done
<1>4. ASSUME NEW d \in {"yes", "no"}, AnswerPrompt(d) PROVE RegisteredKept'
  BY <1>4 DEF AnswerPrompt, GoTo, Refuse, Done
<1>5. ASSUME PromptFails PROVE RegisteredKept'
  BY <1>5 DEF PromptFails, Refuse, Done
<1>6. ASSUME Parse PROVE RegisteredKept'
  BY <1>6 DEF Parse, ParseMakeCredentialCbor, ParseGetAssertionCbor, GoTo, Refuse, Done
<1>7. ASSUME NEW c \in Creds, CheckExcluded(c) PROVE RegisteredKept'
  BY <1>7 DEF CheckExcluded, Present, Refuse, Done
<1>8. ASSUME NEW c \in Creds, SelectById(c) PROVE RegisteredKept'
  BY <1>8 DEF SelectById, Present, GoTo
<1>9. ASSUME NEW c \in Creds, RemoveEntry(c) PROVE RegisteredKept'
  BY <1>9 DEF RemoveEntry, Present, GoTo, Done, Ok
<1>10. ASSUME NotExcluded PROVE RegisteredKept'
  BY <1>10 DEF NotExcluded, GoTo, Refuse, Done
<1>11. ASSUME AddEntry PROVE RegisteredKept'
  BY <1>11 DEF AddEntry, NewIds, GoTo, Refuse, Done
<1>12. ASSUME SaveNew PROVE RegisteredKept'
  BY <1>12 DEF SaveNew, Save, Refuse, Done, Ok
<1>13. ASSUME SelectDiscoverable PROVE RegisteredKept'
  BY <1>13 DEF SelectDiscoverable, Present, GoTo, Refuse, Done
<1>14. ASSUME SelectNothing PROVE RegisteredKept'
  BY <1>14 DEF SelectNothing, Refuse, Done
<1>15. ASSUME FindEntry PROVE RegisteredKept'
  BY <1>15 DEF FindEntry, Present, GoTo, Refuse, Done
<1>16. ASSUME SetCount PROVE RegisteredKept'
  BY <1>16 DEF SetCount, GoTo
<1>17. ASSUME SaveCount PROVE RegisteredKept'
  BY <1>17 DEF SaveCount, Save, GoTo, Refuse, Done
<1>18. ASSUME GetAssertion PROVE RegisteredKept'
  BY <1>18 DEF GetAssertion, Done, Ok
<1>19. ASSUME SignAssertion PROVE RegisteredKept'
  BY <1>19 DEF SignAssertion, Refuse, Done, Ok
<1>20. ASSUME SaveRemoval PROVE RegisteredKept'
  BY <1>20 DEF SaveRemoval, Save, Refuse, Done, Ok
<1>21. ASSUME Read PROVE RegisteredKept'
  BY <1>21 DEF Read, Done, Ok
<1>22. ASSUME OpenVault PROVE RegisteredKept'
  BY <1>22 DEF OpenVault
<1>23. ASSUME CloseVault PROVE RegisteredKept'
  BY <1>23 DEF CloseVault, NoEntries
<1>24. ASSUME UserSaves PROVE RegisteredKept'
  BY <1>24 DEF UserSaves
<1>25. ASSUME NEW c \in Creds, UserDeletes(c) PROVE RegisteredKept'
  BY <1>25 DEF UserDeletes, Present
<1>26. ASSUME Crash PROVE RegisteredKept'
  BY <1>26 DEF Crash, NoEntries
<1>27. CASE UNCHANGED vars
  BY <1>27
<1> QED
  BY <1>1, <1>2, <1>3, <1>4, <1>5, <1>6, <1>7, <1>8, <1>9, <1>10, <1>11, <1>12,
     <1>13, <1>14, <1>15, <1>16, <1>17, <1>18, <1>19, <1>20, <1>21, <1>22, <1>23,
     <1>24, <1>25, <1>26, <1>27 DEF Next, Listener, KeePass

\* A credential that was not found cannot come back within the request.
LEMMA ExcludedStep ==
  ~Reopens /\ TypeOK /\ EntriesKnown /\ ExcludedAbsent /\ [Next]_vars
    => ExcludedAbsent'
<1> SUFFICES ASSUME ~Reopens, TypeOK, EntriesKnown, ExcludedAbsent, [Next]_vars
             PROVE  ExcludedAbsent'
  OBVIOUS
<1> USE ConstantsAssumption DEF TypeOK, Requests, RawOps, Stage, Counts, ExcludedAbsent, EntriesKnown, vars, database, handler, locals, history
<1>1. ASSUME NEW r \in Requests, Receive(r) PROVE ExcludedAbsent'
  BY <1>1 DEF Receive, Refuse, Done, FirstStage, RawOps
<1>2. ASSUME VerifyRequest PROVE ExcludedAbsent'
  BY <1>2 DEF VerifyRequest, GoTo, Refuse, Done
<1>3. ASSUME VerifyUv PROVE ExcludedAbsent'
  BY <1>3 DEF VerifyUv, GoTo, Refuse, Done
<1>4. ASSUME NEW d \in {"yes", "no"}, AnswerPrompt(d) PROVE ExcludedAbsent'
  BY <1>4 DEF AnswerPrompt, GoTo, Refuse, Done
<1>5. ASSUME PromptFails PROVE ExcludedAbsent'
  BY <1>5 DEF PromptFails, Refuse, Done
<1>6. ASSUME Parse PROVE ExcludedAbsent'
  BY <1>6 DEF Parse, ParseMakeCredentialCbor, ParseGetAssertionCbor, GoTo, Refuse, Done
<1>7. ASSUME NEW c \in Creds, CheckExcluded(c) PROVE ExcludedAbsent'
  BY <1>7 DEF CheckExcluded, Present, Refuse, Done
<1>8. ASSUME NEW c \in Creds, SelectById(c) PROVE ExcludedAbsent'
  BY <1>8 DEF SelectById, Present, GoTo
<1>9. ASSUME NEW c \in Creds, RemoveEntry(c) PROVE ExcludedAbsent'
  BY <1>9 DEF RemoveEntry, Present, GoTo, Done, Ok
<1>10. ASSUME NotExcluded PROVE ExcludedAbsent'
  BY <1>10 DEF NotExcluded, GoTo, Refuse, Done
<1>11. ASSUME AddEntry PROVE ExcludedAbsent'
  <2>1. CASE ~open
    BY <1>11, <2>1 DEF AddEntry, Refuse, Done
  <2>2. CASE open
    <3>1. PICK c \in NewIds : mem' = [mem EXCEPT ![c] = 0] /\ held' = c
      BY <1>11, <2>2 DEF AddEntry
    <3>2. req' = req /\ left' = left /\ stage = "add" /\ stage' = "saveNew"
      BY <1>11, <2>2 DEF AddEntry, GoTo
    <3>3. \A x \in Creds : x # c => mem'[x] = mem[x]
      BY <3>1
    <3>4. ASSUME req.op = "make", NEW x \in req.ids, mem'[x] # None PROVE x = c
      <4>1. x \in Creds
        BY <3>2, RequestType
      <4> QED
        BY <3>2, <3>3, <3>4, <4>1
    <3> QED
      BY <3>1, <3>2, <3>4
  <2> QED
    BY <2>1, <2>2
<1>12. ASSUME SaveNew PROVE ExcludedAbsent'
  BY <1>12 DEF SaveNew, Save, Refuse, Done, Ok
<1>13. ASSUME SelectDiscoverable PROVE ExcludedAbsent'
  BY <1>13 DEF SelectDiscoverable, Present, GoTo, Refuse, Done
<1>14. ASSUME SelectNothing PROVE ExcludedAbsent'
  BY <1>14 DEF SelectNothing, Refuse, Done
<1>15. ASSUME FindEntry PROVE ExcludedAbsent'
  BY <1>15 DEF FindEntry, Present, GoTo, Refuse, Done
<1>16. ASSUME SetCount PROVE ExcludedAbsent'
  BY <1>16 DEF SetCount, GoTo
<1>17. ASSUME SaveCount PROVE ExcludedAbsent'
  BY <1>17 DEF SaveCount, Save, GoTo, Refuse, Done
<1>18. ASSUME GetAssertion PROVE ExcludedAbsent'
  BY <1>18 DEF GetAssertion, Done, Ok
<1>19. ASSUME SignAssertion PROVE ExcludedAbsent'
  BY <1>19 DEF SignAssertion, Refuse, Done, Ok
<1>20. ASSUME SaveRemoval PROVE ExcludedAbsent'
  BY <1>20 DEF SaveRemoval, Save, Refuse, Done, Ok
<1>21. ASSUME Read PROVE ExcludedAbsent'
  BY <1>21 DEF Read, Done, Ok
<1>22. ASSUME OpenVault PROVE ExcludedAbsent'
  BY <1>22 DEF OpenVault
<1>23. ASSUME CloseVault PROVE ExcludedAbsent'
  BY <1>23 DEF CloseVault, NoEntries
<1>24. ASSUME UserSaves PROVE ExcludedAbsent'
  BY <1>24 DEF UserSaves
<1>25. ASSUME NEW c \in Creds, UserDeletes(c) PROVE ExcludedAbsent'
  BY <1>25 DEF UserDeletes, Present
<1>26. ASSUME Crash PROVE ExcludedAbsent'
  BY <1>26 DEF Crash, NoEntries
<1>27. CASE UNCHANGED vars
  BY <1>27
<1> QED
  BY <1>1, <1>2, <1>3, <1>4, <1>5, <1>6, <1>7, <1>8, <1>9, <1>10, <1>11, <1>12,
     <1>13, <1>14, <1>15, <1>16, <1>17, <1>18, <1>19, <1>20, <1>21, <1>22, <1>23,
     <1>24, <1>25, <1>26, <1>27 DEF Next, Listener, KeePass

----------------------------------------------------------------------------
(* The theorems.                                                           *)

LEMMA InitHolds == Init => IInv /\ OnceInv
<1> SUFFICES ASSUME Init PROVE IInv /\ OnceInv
  OBVIOUS
<1> USE ConstantsAssumption DEF Init, NoEntries
<1>1. TypeOK
  <2>1. open \in BOOLEAN /\ detached \in BOOLEAN
    OBVIOUS
  <2>2. mem \in [Creds -> Counts \cup {None}] /\ disk \in [Creds -> Counts \cup {None}]
    OBVIOUS
  <2>3. stage \in Stage /\ stage = "idle"
    BY DEF Stage
  <2>4. req \in Requests \cup {None} /\ left \subseteq Creds /\ held \in Creds \cup {None}
    OBVIOUS
  <2>5. count \in Counts
    BY DEF Counts
  <2>6. latch \in {None, "yes", "no"} /\ reply \in Answers \cup {None}
    OBVIOUS
  <2>7. said \subseteq {"yes", "no"} /\ released \in [Creds -> Counts \cup {None}]
    OBVIOUS
  <2>8. registered \subseteq Creds /\ removed \subseteq Creds
    OBVIOUS
  <2> QED
    BY <2>1, <2>2, <2>3, <2>4, <2>5, <2>6, <2>7, <2>8 DEF TypeOK
<1>2. EntriesKnown /\ EntryHeld /\ MemNotBehind
  BY DEF EntriesKnown, EntryHeld, MemNotBehind
<1>3. GatesPassed /\ ConsentBehindUse
  BY DEF GatesPassed, ConsentBehindUse
<1>4. DetachedGone /\ CountsReleased /\ AssertionCountFresh
  BY DEF DetachedGone, CountsReleased, AssertionCountFresh
<1>5. RegisteredHeld /\ RegisteredKept /\ LostOnlyRemoved /\ ExcludedAbsent
  BY DEF RegisteredHeld, RegisteredKept, LostOnlyRemoved, ExcludedAbsent
<1> QED
  BY <1>1, <1>2, <1>3, <1>4, <1>5 DEF IInv, OnceInv

LEMMA StepHolds == IInv /\ [Next]_vars => IInv'
  BY TypeStep, EntriesKnownStep, EntryHeldStep, MemNotBehindStep, GatesStep, ConsentStep
  DEF IInv

LEMMA Invariance == Spec => []IInv
<1>1. Init => IInv
  BY InitHolds
<1>2. IInv /\ [Next]_vars => IInv'
  BY StepHolds
<1> QED
  BY <1>1, <1>2, PTL DEF Spec

LEMMA OnceStepHolds == ~Reopens /\ IInv /\ OnceInv /\ [Next]_vars => OnceInv'
  BY DetachedStep, CountsStep, CountFreshStep, RegisteredHeldStep, RegisteredKeptStep,
     LostStep, ExcludedStep
  DEF IInv, OnceInv

LEMMA OnceInvariance == ASSUME ~Reopens PROVE Spec => []OnceInv
<1>1. Init => OnceInv
  BY InitHolds
<1>2. IInv /\ OnceInv /\ [Next]_vars => OnceInv'
  BY OnceStepHolds
<1> QED
  BY <1>1, <1>2, Invariance, PTL DEF Spec

\* VaultRequests' types: in particular no counter passes uint.MaxValue, and a record
\* has been selected in every stage that uses one.
THEOREM TypeCorrect == Spec => []TypeOK
<1>1. IInv => TypeOK
  BY DEF IInv
<1> QED
  BY <1>1, Invariance, PTL

\* VaultHandler's gates: no raw method gets past them without a verified request and
\* either a verified user or the consent of one who never declined.
THEOREM ConsentNeeded == Spec => []ConsentBehindUse
<1>1. IInv => ConsentBehindUse
  BY DEF IInv
<1> QED
  BY <1>1, Invariance, PTL

\* KeePassPasskeyStore: no save, of the plugin or of the user, writes an older counter
\* to the file, even if the database is locked and unlocked within a request.
THEOREM DiskMonotone == Spec => DiskCountNeverFalls
<1> DEFINE Grows == \A c \in Creds : disk[c] # None /\ disk'[c] # None => disk'[c] >= disk[c]
<1>1. IInv /\ [Next]_vars => Grows
  <2> SUFFICES ASSUME IInv, [Next]_vars PROVE Grows
    OBVIOUS
  <2>1. disk' = disk \/ disk' = mem
    BY DEF Next, Listener, KeePass, vars, database, Receive, VerifyRequest, VerifyUv,
       AnswerPrompt, PromptFails, Parse, ParseMakeCredentialCbor,
       ParseGetAssertionCbor, CheckExcluded, SelectById, RemoveEntry,
       NotExcluded, AddEntry, SaveNew, SelectDiscoverable, SelectNothing, FindEntry,
       SetCount, SaveCount, GetAssertion, SignAssertion, SaveRemoval, Read, OpenVault, CloseVault, UserSaves,
       UserDeletes, Crash, Save
  <2> QED
    BY <2>1 DEF IInv, MemNotBehind, TypeOK, Counts
<1>2. [IInv /\ [Next]_vars]_vars => [Grows]_vars
  BY <1>1
<1> QED
  BY <1>1, Invariance, PTL DEF Spec, DiskCountNeverFalls

\* KeePassPasskeyStore.IncrementSignCount, unless the database is locked and unlocked
\* again within the request: no assertion repeats a counter, whatever save fails and
\* whenever the user locks, deletes or loses the process.
THEOREM CountsNeverRepeat == ASSUME ~Reopens PROVE Spec => []AssertionCountFresh
<1>1. OnceInv => AssertionCountFresh
  BY DEF OnceInv
<1> QED
  BY <1>1, OnceInvariance, PTL

\* KeePassPasskeyStore.Add, under the same condition: what was answered with success
\* survives crashes and discarded changes.
THEOREM RegistrationsKept == ASSUME ~Reopens PROVE Spec => []RegisteredKept
<1>1. OnceInv => RegisteredKept
  BY DEF OnceInv
<1> QED
  BY <1>1, OnceInvariance, PTL

\* VaultHandler.HandleMakeCredentialRaw, under the same condition: the excludeList is
\* honoured although it is checked id by id before the entry is added.
THEOREM ExcludeListHonoured == ASSUME ~Reopens PROVE Spec => []ExcludeHonoured
<1>1. IInv /\ OnceInv => ExcludeHonoured
  BY DEF IInv, OnceInv, ExcludedAbsent, ExcludeHonoured
<1> QED
  BY <1>1, Invariance, OnceInvariance, PTL

----------------------------------------------------------------------------
(* The requests implement PasskeyLedger.                                   *)

\* What a save leaves in the file: memory, which is behind neither the file nor the
\* relying parties.
LEMMA SaveWrites ==
  ASSUME IInv, OnceInv, OnceInv', disk' \in {disk, mem}, UNCHANGED <<released, removed>>,
         registered \subseteq registered'
  PROVE  Ledger!Write
<1>1. \A c \in Creds : disk[c] # None /\ disk'[c] # None => disk'[c] >= disk[c]
  BY DEF IInv, MemNotBehind, TypeOK, Counts
<1>2. \A c \in Creds : disk'[c] # None => released[c] # None /\ disk'[c] >= released[c]
  BY DEF IInv, EntriesKnown, OnceInv, CountsReleased
<1>3. \A c \in registered \ removed : disk'[c] # None
  BY DEF OnceInv, RegisteredKept
<1> QED
  BY <1>1, <1>2, <1>3 DEF Ledger!Write

LEMMA InitImplements == Init => Ledger!Init
BY DEF Init, NoEntries, Ledger!Init

LEMMA StepImplements ==
  ASSUME IInv, OnceInv, OnceInv', [Next]_vars
  PROVE  [Ledger!Next]_(Ledger!vars)
<1> USE DEF Ledger!vars, history, database
<1>1. ASSUME disk' \in {disk, mem}, UNCHANGED <<released, registered, removed>>
      PROVE  [Ledger!Next]_(Ledger!vars)
  BY <1>1, SaveWrites DEF Ledger!Next, Ledger!Save
<1>2. CASE \/ \E r \in Requests : Receive(r)
           \/ VerifyRequest \/ VerifyUv \/ PromptFails \/ Parse
           \/ \E d \in {"yes", "no"} : AnswerPrompt(d)
           \/ \E c \in Creds : CheckExcluded(c) \/ SelectById(c)
           \/ NotExcluded \/ SelectDiscoverable \/ SelectNothing
           \/ FindEntry \/ SetCount \/ SignAssertion \/ Read
  BY <1>1, <1>2
     DEF Receive, VerifyRequest, VerifyUv, PromptFails, Parse,
         ParseMakeCredentialCbor, ParseGetAssertionCbor, AnswerPrompt,
         CheckExcluded, SelectById, NotExcluded, SelectDiscoverable, SelectNothing,
         FindEntry, SetCount, SignAssertion, Read
<1>3. CASE SaveCount \/ SaveRemoval \/ OpenVault \/ CloseVault \/ UserSaves \/ Crash
  BY <1>1, <1>3
     DEF SaveCount, SaveRemoval, OpenVault, CloseVault, UserSaves, Crash, Save
<1>4. CASE AddEntry
  <2>1. CASE open
    <3>1. PICK c \in NewIds : released' = [released EXCEPT ![c] = 0]
      BY <1>4, <2>1 DEF AddEntry
    <3>2. Ledger!Issue(c) /\ c \in Creds
      BY <1>4, <3>1 DEF AddEntry, NewIds, Ledger!Issue
    <3> QED
      BY <3>2 DEF Ledger!Next
  <2>2. CASE ~open
    BY <1>1, <1>4, <2>2 DEF AddEntry
  <2> QED
    BY <2>1, <2>2
<1>5. CASE SaveNew
  <2>1. held \in Creds
    BY <1>5 DEF SaveNew, IInv, TypeOK
  <2>2. CASE Save /\ registered' = registered \cup {held}
    <3>1. Ledger!Write
      BY <1>5, <2>2, SaveWrites DEF SaveNew, Save
    <3>2. disk'[held] # None \/ held \in removed
      BY <1>5, <2>1, <2>2 DEF SaveNew, OnceInv, RegisteredKept
    <3>3. Ledger!Register(held)
      BY <1>5, <2>2, <3>1, <3>2 DEF SaveNew, Ledger!Register
    <3> QED
      BY <2>1, <3>3 DEF Ledger!Next
  <2>3. CASE UNCHANGED <<disk, registered>>
    BY <1>1, <1>5, <2>3 DEF SaveNew
  <2> QED
    BY <1>5, <2>2, <2>3 DEF SaveNew
<1>6. CASE GetAssertion
  <2>1. /\ stage = "sign" /\ req.op # "sign"
        /\ held \in Creds /\ count \in Counts
        /\ released' = [released EXCEPT ![held] = count]
        /\ UNCHANGED <<disk, registered, removed>>
    BY <1>6 DEF GetAssertion, IInv, TypeOK
  <2>2. released[held] # None /\ count > released[held]
    BY <2>1 DEF OnceInv, AssertionCountFresh
  <2>3. IF disk[held] = None THEN held \in removed ELSE disk[held] >= count
    BY <2>1 DEF OnceInv, LostOnlyRemoved, CountsReleased
  <2>4. Ledger!Assert(held, count)
    BY <2>1, <2>2, <2>3 DEF Ledger!Assert
  <2> QED
    BY <2>1, <2>4 DEF Ledger!Next
<1>7. ASSUME NEW c \in Creds, RemoveEntry(c) \/ UserDeletes(c)
      PROVE  [Ledger!Next]_(Ledger!vars)
  <2>1. /\ removed' \in {removed, removed \cup {c}}
        /\ UNCHANGED <<disk, released, registered>>
    BY <1>7 DEF RemoveEntry, UserDeletes
  <2> QED
    BY <2>1 DEF Ledger!Next, Ledger!Delete
<1>8. CASE UNCHANGED vars
  BY <1>1, <1>8 DEF vars
<1> QED
  BY <1>2, <1>3, <1>4, <1>5, <1>6, <1>7, <1>8 DEF Next, Listener, KeePass

\* VaultHandler and KeePassPasskeyStore, unless the database is locked and unlocked again
\* within a request, keep the promises of PasskeyLedger across failing saves, crashes
\* and whatever the user does: the file is ahead of every answer.
THEOREM RequestsImplementLedger == ASSUME ~Reopens PROVE Spec => ImplementsLedger
<1>1. IInv /\ OnceInv /\ OnceInv' /\ [Next]_vars => [Ledger!Next]_(Ledger!vars)
  BY StepImplements
<1> QED
  BY <1>1, InitImplements, Invariance, OnceInvariance, PTL
     DEF Spec, ImplementsLedger, Ledger!Spec
=============================================================================
