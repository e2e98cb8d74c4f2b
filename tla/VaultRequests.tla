---------------------------- MODULE VaultRequests ----------------------------
(***************************************************************************)
(* The plugin executes vault requests (VaultHandler, UvFallbackPrompt,     *)
(* KeePassPasskeyStore) on its listener thread, one after the other, while *)
(* the user works in KeePass on the UI thread: locks and unlocks the       *)
(* database, deletes entries, saves, or loses the process.                 *)
(*                                                                         *)
(* The database exists twice, in memory and in the .kdbx file.  Both map a *)
(* credential to its sign counter, or to None.  The order of the entries,  *)
(* their other fields and the keys themselves are left out.                *)
(*                                                                         *)
(* An operator X_Something is X with a bug a change of the code could      *)
(* bring in.  No specification uses it; it shows what a property guards.   *)
(***************************************************************************)
EXTENDS Integers

CONSTANTS
  Creds,     \* credential ids; a new one is random, so it was never used before
  MaxCount,  \* uint.MaxValue, the last sign counter
  Bypass,    \* KEEPASSKEYWIN_SKIP_PLUGIN_SIG_VERIFY is set
  Reopens,   \* may the user lock and unlock again while one request executes?
  None

\* makeCredentialRaw, getAssertionRaw with an allowList or without, createPasskey,
\* signAssertion, deleteCredential, listCredentials and enumerateForSync, others.
RawOps == {"make", "getAllowed", "getDiscoverable"}

\* ids: excludeList, allowList, or the credentials of the request's rpId.
\* signed: pbRequestSignature verifies.  uv: the tier, and whether its signature
\* verifies.
Requests ==
  {r \in [op : RawOps, ids : SUBSET Creds, signed : BOOLEAN,
           uv : {"v2", "v2Invalid", "v1", "unknownTier"}] :
     r.op = "getAllowed" => r.ids # {}}
  \cup [op : {"sign", "delete"}, ids : {{c} : c \in Creds}, signed : {FALSE}, uv : {None}]
  \cup [op : {"create", "list", "other"}, ids : {{}}, signed : {FALSE}, uv : {None}]

Counts == 0..MaxCount

\* Whose authenticator data: built here, or what signAssertion's caller sent.
AuthData == {"plugins", "callers"}

ErrorCode == {"vaultLocked", "credentialNotFound", "credentialExcluded", "invalidParams",
              "invalidOption", "unsupportedAlgorithm", "methodNotFound", "internalError"}

\* over: the authenticator data a signature covers; auth: the one in the result.
Answers == [code : ErrorCode \cup {"ok"}, over : AuthData \cup {None},
            auth : AuthData \cup {None}]

ASSUME ConstantsAssumption ==
  /\ MaxCount \in Nat
  /\ Bypass \in BOOLEAN
  /\ Reopens \in BOOLEAN
  /\ None \notin Creds \cup AuthData \cup Requests \cup Answers \cup {"yes", "no"}
  /\ None \notin Counts

VARIABLES
  open,      \* PwDatabase.IsOpen
  mem,       \* the Passkeys group in memory: each credential's counter
  disk,      \* the Passkeys group in the .kdbx file
  stage,     \* where the handler stands
  req,       \* the request it executes
  left,      \* ids of an excludeList or allowList not looked up yet
  held,      \* credential whose record or entry the handler holds
  detached,  \* that entry no longer belongs to the open database
  count,     \* the counter IncrementSignCount is about to return
  latch,     \* UvFallbackPrompt: None until decided
  reply,     \* answer to the last request
  said,      \* history: the user's answers to the prompt in this process
  released,  \* history: highest counter each credential's answers carried
  registered, \* history: credentials whose registration was answered with success
  removed    \* history: credentials that a request or the user has deleted

database == <<open, mem, disk>>
locals == <<left, held, count>>
handler == <<stage, req, locals, latch, reply>>
history == <<said, released, registered, removed>>
vars == <<database, handler, detached, history>>

Stage == {"idle", "verify", "uv", "asking", "parse", "exclude", "add", "saveNew",
          "select", "find", "set", "saveCount", "sign", "remove", "saveRemoval", "read"}

TypeOK ==
  /\ open \in BOOLEAN
  /\ mem \in [Creds -> Counts \cup {None}]
  /\ disk \in [Creds -> Counts \cup {None}]
  /\ stage \in Stage
  /\ req \in Requests \cup {None}
  /\ left \subseteq Creds
  /\ held \in Creds \cup {None}
  /\ detached \in BOOLEAN
  /\ count \in Counts
  /\ latch \in {None, "yes", "no"}
  /\ reply \in Answers \cup {None}
  /\ said \subseteq {"yes", "no"}
  /\ released \in [Creds -> Counts \cup {None}]
  /\ registered \subseteq Creds
  /\ removed \subseteq Creds
  \* The handler executes a request, and looks up ids the request named.
  /\ stage # "idle" => req # None /\ left \subseteq req.ids
  /\ stage \in {"find", "set", "saveCount", "sign", "saveNew"} => held # None

NoEntries == [c \in Creds |-> None]

Init ==
  /\ open = FALSE
  /\ mem = NoEntries
  /\ disk = NoEntries
  /\ stage = "idle"
  /\ req = None
  /\ left = {}
  /\ held = None
  /\ detached = FALSE
  /\ count = 0
  /\ latch = None
  /\ reply = None
  /\ said = {}
  /\ released = NoEntries
  /\ registered = {}
  /\ removed = {}

----------------------------------------------------------------------------
(* Helpers.                                                                *)

\* FindPasskeysGroup and the search in it: a closed database has no group.
Present(c) == open /\ mem[c] # None

\* A random credential id that never was in the vault.
NewIds == {c \in Creds : released[c] = None}

\* The handler goes on with the request.
GoTo(next) ==
  /\ stage' = next
  /\ UNCHANGED <<req, reply>>

\* The request is over: its answer is written to the pipe, its locals are gone.
Done(answer) ==
  /\ stage' = "idle"
  /\ reply' = answer
  /\ req' = None
  /\ left' = {}
  /\ held' = None
  /\ count' = 0

Ok(over, auth) == [code |-> "ok", over |-> over, auth |-> auth]

Refuse(code) == Done([code |-> code, over |-> None, auth |-> None])

\* PwDatabase.Save of the database that is active now; it throws if none is open.
Save ==
  /\ open
  /\ disk' = mem

\* Where the handler of a method begins.
FirstStage(op) ==
  CASE op \in RawOps -> "verify"
    [] op = "create" -> "add"
    [] op = "sign" -> "select"
    [] op = "delete" -> "remove"
    [] op = "list" -> "read"

----------------------------------------------------------------------------
(* The listener thread: dispatch and the gates of the raw methods.         *)

\* VaultHandler.Handle: RequireVaultOpen, then the method's handler, which refuses
\* parameters that are missing or malformed.  (Bound: no registration begins once
\* every credential id has been used.)
Receive(r) ==
  /\ stage = "idle"
  /\ r.op \in {"make", "create"} => NewIds # {}
  /\ IF ~open THEN Refuse("vaultLocked")
     ELSE IF r.op = "other" THEN Refuse("methodNotFound")
     ELSE \/ /\ stage' = FirstStage(r.op)
             /\ req' = r
             /\ left' = r.ids
             /\ reply' = None
             /\ UNCHANGED <<held, count>>
          \/ Refuse("invalidParams")
  /\ UNCHANGED <<database, latch, detached, history>>

\* VerifyAndDecodeCbor: the bypass, or the request's signature.
VerifyRequest ==
  /\ stage = "verify"
  /\ IF Bypass \/ req.signed
       THEN GoTo("uv") /\ UNCHANGED locals
       ELSE Refuse("invalidParams")
  /\ UNCHANGED <<database, latch, detached, history>>

\* VerifyUvSignatureOrPrompt: a v2 signature decides; without one the latched
\* decision of the user does, who is asked if there is none yet.
VerifyUv ==
  /\ stage = "uv"
  /\ IF req.uv = "v2" \/ (req.uv = "v1" /\ latch = "yes")
       THEN GoTo("parse") /\ UNCHANGED locals
     ELSE IF req.uv = "v1" /\ latch = None
       THEN GoTo("asking") /\ UNCHANGED locals
     ELSE Refuse("invalidParams")
  /\ UNCHANGED <<database, latch, detached, history>>

\* The user answers; UvFallbackPrompt keeps the answer for the process.
AnswerPrompt_AsksAgain(decision) ==
  /\ stage = "asking"
  /\ latch' = IF decision = "yes" THEN "yes" ELSE None
  /\ said' = said \cup {decision}
  /\ IF decision = "yes"
       THEN GoTo("parse") /\ UNCHANGED locals
       ELSE Refuse("invalidParams")
  /\ UNCHANGED <<database, detached, released, registered, removed>>

AnswerPrompt(decision) ==
  /\ stage = "asking"
  /\ latch' = decision
  /\ said' = said \cup {decision}
  /\ IF decision = "yes"
       THEN GoTo("parse") /\ UNCHANGED locals
       ELSE Refuse("invalidParams")
  /\ UNCHANGED <<database, detached, released, registered, removed>>

\* The prompt throws: no window to ask in.  Nothing is latched.
PromptFails ==
  /\ stage = "asking"
  /\ Refuse("invalidParams")
  /\ UNCHANGED <<database, latch, detached, history>>

\* The content of the CBOR is an input: malformed, a required key missing, none of the
\* two algorithms asked for, or a request to go on with.
ParseMakeCredentialCbor ==
  /\ req.op = "make"
  /\ \/ GoTo("exclude") /\ UNCHANGED locals
     \/ Refuse("invalidParams")
     \/ Refuse("unsupportedAlgorithm")

\* Likewise, and the check of options.up behind it.
ParseGetAssertionCbor ==
  /\ req.op # "make"
  /\ \/ GoTo("select") /\ UNCHANGED locals
     \/ Refuse("invalidParams")
     \/ Refuse("invalidOption")

Parse ==
  /\ stage = "parse"
  /\ ParseMakeCredentialCbor \/ ParseGetAssertionCbor
  /\ UNCHANGED <<database, latch, detached, history>>

----------------------------------------------------------------------------
(* The listener thread: makeCredentialRaw, createPasskey.                  *)

\* One FindById of the loop over the excludeList.
CheckExcluded(c) ==
  /\ stage = "exclude"
  /\ c \in left
  /\ IF Present(c)
       THEN Refuse("credentialExcluded")
       ELSE /\ left' = left \ {c}
            /\ UNCHANGED <<stage, req, reply, held, count>>
  /\ UNCHANGED <<database, latch, detached, history>>

\* The loop stops after the first id that is not found.
NotExcluded_Early ==
  /\ stage = "exclude"
  /\ left # req.ids \/ left = {}
  /\ GoTo("add")
  /\ UNCHANGED <<database, locals, latch, detached, history>>

\* No credential of the excludeList was found: SelectAlgorithm, which finds one of those
\* the parser has let pass, the new key pair and the record.
NotExcluded ==
  /\ stage = "exclude"
  /\ left = {}
  /\ GoTo("add")
  /\ UNCHANGED <<database, locals, latch, detached, history>>

\* Add: the new entry in memory.  A closed database has no root group to add to.
AddEntry ==
  /\ stage = "add"
  /\ IF open
       THEN \E c \in NewIds :
              /\ mem' = [mem EXCEPT ![c] = 0]
              /\ held' = c
              /\ released' = [released EXCEPT ![c] = 0]
              /\ GoTo("saveNew")
              /\ UNCHANGED <<left, count>>
       ELSE Refuse("internalError") /\ UNCHANGED <<mem, released>>
  /\ UNCHANGED <<open, disk, latch, detached, said, registered, removed>>

SaveNew_InBackground ==
  /\ stage = "saveNew"
  /\ registered' = registered \cup {held}
  /\ Done(Ok(None, "plugins"))
  /\ UNCHANGED <<database, latch, detached, said, released, removed>>

\* Add: the file.  Save throws if the database is closed or cannot be written.
SaveNew ==
  /\ stage = "saveNew"
  /\ \/ /\ Save
        /\ registered' = registered \cup {held}
        /\ Done(Ok(None, "plugins"))
     \/ Refuse("internalError") /\ UNCHANGED <<disk, registered>>
  /\ UNCHANGED <<open, mem, latch, detached, said, released, removed>>

----------------------------------------------------------------------------
(* The listener thread: getAssertionRaw, signAssertion.                    *)

\* FindByRpId: any credential of the relying party, or none.
SelectDiscoverable ==
  /\ stage = "select"
  /\ req.op = "getDiscoverable"
  /\ \/ \E c \in req.ids :
          /\ Present(c)
          /\ held' = c
          /\ GoTo("find")
          /\ UNCHANGED <<left, count>>
     \/ /\ \A c \in req.ids : ~Present(c)
        /\ Refuse("credentialNotFound")
  /\ UNCHANGED <<database, latch, detached, history>>

SelectById_KeepsNothing(c) ==
  /\ stage = "select"
  /\ req.op # "getDiscoverable"
  /\ c \in left
  /\ GoTo(IF ~Present(c) THEN "select" ELSE IF req.op = "sign" THEN "sign" ELSE "find")
  /\ left' = left \ {c}
  /\ UNCHANGED <<database, held, count, latch, detached, history>>

\* One FindById: of the loop over the allowList, or signAssertion's only one.
SelectById(c) ==
  /\ stage = "select"
  /\ req.op # "getDiscoverable"
  /\ c \in left
  /\ IF Present(c)
       THEN /\ held' = c
            /\ GoTo(IF req.op = "sign" THEN "sign" ELSE "find")
       ELSE UNCHANGED <<held, stage, req, reply>>
  /\ left' = left \ {c}
  /\ UNCHANGED <<database, count, latch, detached, history>>

\* No id of the allowList was found.
SelectNothing ==
  /\ stage = "select"
  /\ req.op # "getDiscoverable"
  /\ left = {}
  /\ Refuse("credentialNotFound")
  /\ UNCHANGED <<database, latch, detached, history>>

\* IncrementSignCount: find the entry again, read its counter, which may be full.
FindEntry ==
  /\ stage = "find"
  /\ IF Present(held) /\ mem[held] # MaxCount
       THEN /\ count' = mem[held] + 1
            /\ GoTo("set")
            /\ UNCHANGED <<left, held>>
       ELSE Refuse("internalError")
  /\ UNCHANGED <<database, latch, detached, history>>

\* IncrementSignCount: the entry it found gets the new counter.
SetCount ==
  /\ stage = "set"
  /\ mem' = IF detached THEN mem ELSE [mem EXCEPT ![held] = count]
  /\ detached' = FALSE
  /\ GoTo("saveCount")
  /\ UNCHANGED <<open, disk, locals, latch, history>>

SaveCount_InBackground ==
  /\ stage = "saveCount"
  /\ GoTo("sign")
  /\ UNCHANGED <<database, locals, latch, detached, history>>

\* A failed save takes the new counter back, although the user may have saved it.
SaveCount_RollsBack ==
  /\ stage = "saveCount"
  /\ \/ Save /\ GoTo("sign") /\ UNCHANGED <<mem, locals>>
     \/ /\ Refuse("internalError")
        /\ mem' = IF Present(held) THEN [mem EXCEPT ![held] = count - 1] ELSE mem
        /\ UNCHANGED disk
  /\ UNCHANGED <<open, latch, detached, history>>

\* IncrementSignCount: the file.
SaveCount ==
  /\ stage = "saveCount"
  /\ \/ Save /\ GoTo("sign") /\ UNCHANGED locals
     \/ Refuse("internalError") /\ UNCHANGED disk
  /\ UNCHANGED <<open, mem, latch, detached, history>>

\* getAssertionRaw signs authenticator data with the new counter and returns both.
GetAssertion ==
  /\ stage = "sign"
  /\ req.op # "sign"
  /\ Done(Ok("plugins", "plugins"))
  /\ released' = [released EXCEPT ![held] = count]
  /\ UNCHANGED <<database, latch, detached, said, registered, removed>>

\* signAssertion decodes and signs what its caller sent, and returns authenticator
\* data of its own, with counter zero.
SignAssertion ==
  /\ stage = "sign"
  /\ req.op = "sign"
  /\ \/ Done(Ok("callers", "plugins"))
     \/ Refuse("invalidParams")
  /\ UNCHANGED <<database, latch, detached, history>>

----------------------------------------------------------------------------
(* The listener thread: deleteCredential, listings.                        *)

\* Delete: the entry in memory, if there is one.
RemoveEntry(c) ==
  /\ stage = "remove"
  /\ c \in req.ids
  /\ IF Present(c)
       THEN /\ mem' = [mem EXCEPT ![c] = None]
            /\ removed' = removed \cup {c}
            /\ GoTo("saveRemoval")
            /\ UNCHANGED locals
       ELSE Done(Ok(None, None)) /\ UNCHANGED <<mem, removed>>
  /\ UNCHANGED <<open, disk, latch, detached, said, released, registered>>

\* Delete: the file.
SaveRemoval ==
  /\ stage = "saveRemoval"
  /\ \/ Save /\ Done(Ok(None, None))
     \/ Refuse("internalError") /\ UNCHANGED disk
  /\ UNCHANGED <<open, mem, latch, detached, history>>

\* listCredentials, enumerateForSync: a closed database lists nothing.
Read ==
  /\ stage = "read"
  /\ Done(Ok(None, None))
  /\ UNCHANGED <<database, latch, detached, history>>

----------------------------------------------------------------------------
(* KeePass around the plugin: the user, the workspace lock, the process.   *)

\* While the prompt is open its message box keeps the user from the main window;
\* the workspace lock does not need the user.
UserFree == stage # "asking"

\* The user unlocks the database: memory is what the file holds.
OpenVault ==
  /\ ~open
  /\ UserFree
  /\ Reopens \/ stage = "idle"
  /\ open' = TRUE
  /\ mem' = disk
  /\ UNCHANGED <<disk, handler, detached, history>>

\* Lock or close, at any moment, with or without saving unsaved changes.  Entries
\* the handler still holds belong to no database any more.
CloseVault ==
  /\ open
  /\ open' = FALSE
  /\ mem' = NoEntries
  /\ disk' \in {mem, disk}
  /\ detached' = (stage = "set")
  /\ UNCHANGED <<handler, history>>

UserSaves ==
  /\ open
  /\ UserFree
  /\ disk' = mem
  /\ UNCHANGED <<open, mem, handler, detached, history>>

\* The user deletes the entry; the file follows with the next save.
UserDeletes(c) ==
  /\ Present(c)
  /\ UserFree
  /\ mem' = [mem EXCEPT ![c] = None]
  /\ removed' = removed \cup {c}
  /\ detached' = (detached \/ (stage = "set" /\ held = c))
  /\ UNCHANGED <<open, disk, handler, said, released, registered>>

\* The KeePass process ends at any moment.  Only the file is left.
Crash ==
  /\ open' = FALSE
  /\ mem' = NoEntries
  /\ stage' = "idle"
  /\ req' = None
  /\ left' = {}
  /\ held' = None
  /\ detached' = FALSE
  /\ count' = 0
  /\ latch' = None
  /\ reply' = None
  /\ said' = {}
  /\ UNCHANGED <<disk, released, registered, removed>>

----------------------------------------------------------------------------
Listener ==
  \/ \E r \in Requests : Receive(r)
  \/ VerifyRequest \/ VerifyUv
  \/ \E decision \in {"yes", "no"} : AnswerPrompt(decision)
  \/ PromptFails \/ Parse
  \/ \E c \in Creds : CheckExcluded(c) \/ SelectById(c) \/ RemoveEntry(c)
  \/ NotExcluded \/ AddEntry \/ SaveNew
  \/ SelectDiscoverable \/ SelectNothing
  \/ FindEntry \/ SetCount \/ SaveCount \/ GetAssertion \/ SignAssertion
  \/ SaveRemoval \/ Read

KeePass == OpenVault \/ CloseVault \/ UserSaves \/ (\E c \in Creds : UserDeletes(c)) \/ Crash

Next == Listener \/ KeePass

Spec == Init /\ [][Next]_vars

----------------------------------------------------------------------------
(* Properties.                                                             *)

\* KeePassPasskeyStore: "a lost increment manifests as a replayed signCount".  The
\* counter an assertion is about to carry is higher than every counter a relying
\* party has seen, across failed saves, locks and crashes.
AssertionCountFresh ==
  stage = "sign" /\ req.op # "sign"
    => released[held] # None /\ count > released[held]

\* The counter in the file never goes back: neither the listener's saves nor the
\* user's, on either side of an increment, write an older one.
DiskCountNeverFalls ==
  [][\A c \in Creds :
       disk[c] # None /\ disk'[c] # None => disk'[c] >= disk[c]]_vars

\* A registration that was answered with success survives every crash and every
\* close without saving: the credential is in the file until somebody deletes it.
RegisteredKept == \A c \in registered \ removed : disk[c] # None

\* makeCredentialRaw adds an entry only while no credential of the excludeList is in
\* the vault, although each was looked up in an earlier step of its own, the vault
\* may have been closed meanwhile, and a closed vault contains nothing.
ExcludeHonoured ==
  /\ stage = "saveNew" /\ req.op = "make" /\ open
  => \A c \in req.ids : mem[c] # None => c = held

\* Past the gates of a raw method its request was verified, and the user either was
\* verified by signature or asked in this process, agreed and never declined.
ConsentBehindUse ==
  /\ req # None /\ req.op \in RawOps
  /\ stage \notin {"idle", "verify", "uv", "asking"}
  => /\ Bypass \/ req.signed
     /\ req.uv = "v2" \/ (req.uv = "v1" /\ said = {"yes"})

\* VaultHandler.SignAssertion: "signature covers authData || clientDataHash", and
\* the result carries a signature and authData.  So it covers that authData.  (It
\* does not: it covers the caller's, and the result has the plugin's.)
SignatureCoversResult ==
  reply # None => reply.over = None \/ reply.over = reply.auth

Ledger == INSTANCE PasskeyLedger
            WITH file <- disk, seen <- released, known <- registered, gone <- removed

\* Seen from outside, the requests keep PasskeyLedger: an answer never precedes what it
\* promises in the file, and no save by the plugin or the user takes that back.
ImplementsLedger == Ledger!Spec
=============================================================================
