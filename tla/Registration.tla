----------------------------- MODULE Registration -----------------------------
(***************************************************************************)
(* The registration with Windows and the key that comes with it.  The      *)
(* register and unregister commands add the authenticator's class to       *)
(* Windows and take it away.  Windows signs every request with a key of    *)
(* the registration; a sidecar process fetches the public half once, keeps *)
(* the outcome for as long as it lives and sends it to the plugin in       *)
(* hello, and the plugin verifies each request's signature with it.        *)
(*                                                                         *)
(* An operator X_Something is X with a bug a change of the code could      *)
(* bring in.  No specification uses it; it shows what a property guards.   *)
(***************************************************************************)
EXTENDS Naturals

CONSTANTS
  Tools,    \* runs of keepasskeywin-provider.exe register and unregister
  Sidecars, \* processes activated by COM
  Keys,     \* operation signing keys Windows makes
  NoKey,    \* no registration, no request, no session
  Unset,    \* a cache nobody has asked yet
  Failed    \* a cache that holds the error of its only fetch

ASSUME ConstantsAssumption ==
  /\ NoKey \notin Keys
  /\ Unset \notin Keys
  /\ Failed \notin Keys
  /\ Unset # Failed

\* What webauthn.dll may export, each under any of the names the code tries: all the
\* entry points webauthn_ext requires, one that returns the key, one that frees it.
EntryPoints == {"plugin", "getKey", "freeKey"}

Commands == {"register", "unregister"}

VARIABLES
  exports,    \* what this build's webauthn.dll exports
  registered, \* the key of our class' registration with Windows
  pc,         \* where each tool is
  command,    \* what it was asked to do
  hr,         \* what AddAuthenticator has returned to it
  apartment,  \* tools between CoInitializeEx and CoUninitialize
  responses,  \* AddAuthenticator's responses each tool has not freed
  calm,       \* history: tools whose calls have succeeded, undisturbed by others
  up,         \* the processes that run
  cache,      \* OP_SIGN_KEY_CACHE
  buffers,    \* the key buffers each process has not freed
  request,    \* the key that has signed the request in hand
  session,    \* the key sent in the connection's hello
  verdict,    \* what became of the last request
  steady      \* history: processes whose fetch has not failed, and that have met no change
              \* of the registration since they had a key or a request

toolVars == <<pc, command, hr, apartment, responses, calm>>
sidecarVars == <<up, cache, buffers, request, session, verdict, steady>>
vars == <<exports, registered, toolVars, sidecarVars>>

MaybeKey == Keys \cup {NoKey}

ToolSteps == {"add", "free", "remove", "retry", "freeRetry", "unregister"}

\* Besides the types: only a tool that works is in an apartment or has a response in
\* hand, and a process that has ended leaves nothing.
TypeOK ==
  /\ exports \subseteq EntryPoints
  /\ registered \in MaybeKey
  /\ pc \in [Tools -> ToolSteps \cup {"idle", "ok", "failed"}]
  /\ command \in [Tools -> Commands]
  /\ hr \in [Tools -> {"ok", "exists", "error"}]
  /\ apartment = {t \in Tools : pc[t] \in ToolSteps}
  /\ responses \in [Tools -> Nat]
  /\ calm \subseteq Tools
  /\ up \subseteq Sidecars
  /\ cache \in [Sidecars -> Keys \cup {Unset, Failed}]
  /\ buffers \in [Sidecars -> Nat]
  /\ request \in [Sidecars -> MaybeKey]
  /\ session \in [Sidecars -> MaybeKey]
  /\ verdict \in [Sidecars -> {"none", "accepted", "rejected", "refused"}]
  /\ steady \subseteq Sidecars
  /\ \A s \in Sidecars \ up :
       buffers[s] = 0 /\ request[s] = NoKey /\ session[s] = NoKey

\* Any build, and whatever earlier runs have left behind.
Init ==
  /\ exports \in SUBSET EntryPoints
  /\ registered \in MaybeKey
  /\ pc = [t \in Tools |-> "idle"]
  /\ command = [t \in Tools |-> "register"]
  /\ hr = [t \in Tools |-> "ok"]
  /\ apartment = {}
  /\ responses = [t \in Tools |-> 0]
  /\ calm = {}
  /\ up = {}
  /\ cache = [s \in Sidecars |-> Unset]
  /\ buffers = [s \in Sidecars |-> 0]
  /\ request = [s \in Sidecars |-> NoKey]
  /\ session = [s \in Sidecars |-> NoKey]
  /\ verdict = [s \in Sidecars |-> "none"]
  /\ steady = {}

----------------------------------------------------------------------------
(* Windows.                                                                *)

\* The registration after a call of t, and who notices: the other tools, and processes
\* that have a key or a request already.
Registers(t, key) ==
  /\ registered' = key
  /\ IF key = registered
       THEN UNCHANGED <<calm, steady>>
       ELSE /\ calm' = calm \cap {t}
            /\ steady' = {s \in steady : cache[s] = Unset /\ request[s] = NoKey}

\* A call of t that has failed and changed nothing.
FailsFor(t) ==
  /\ calm' = calm \ {t}
  /\ UNCHANGED <<registered, steady>>

\* AddAuthenticator's HRESULT.  The documents have it update a registration that is
\* there; in practice it answers NTE_EXISTS.
AddReturns(t, r) ==
  CASE r = "ok" -> \E k \in Keys : Registers(t, k)
    [] r = "exists" -> registered # NoKey /\ Registers(t, registered)
    [] r = "error" -> FailsFor(t)

\* RemoveAuthenticator's HRESULT.
RemoveReturns(t, r) ==
  CASE r = "ok" -> registered # NoKey /\ Registers(t, NoKey)
    [] r = "notFound" -> registered = NoKey /\ Registers(t, NoKey)
    [] r = "error" -> FailsFor(t)

----------------------------------------------------------------------------
(* The commands.                                                           *)

\* The command returns, and its ComUninitGuard is dropped.
Return(t, result) ==
  /\ pc' = [pc EXCEPT ![t] = result]
  /\ apartment' = apartment \ {t}

NoBindings_InApartment(t) ==
  /\ "plugin" \notin exports
  /\ pc' = [pc EXCEPT ![t] = "failed"]
  /\ UNCHANGED apartment
  /\ FailsFor(t)

\* bindings(): webauthn.dll without one of the required entry points.
NoBindings(t) ==
  /\ "plugin" \notin exports
  /\ Return(t, "failed")
  /\ FailsFor(t)

\* cmd_register, cmd_unregister: CoInitializeEx.
Run(t, c) ==
  /\ pc[t] \in {"idle", "ok", "failed"}
  /\ command' = [command EXCEPT ![t] = c]
  /\ responses' = [responses EXCEPT ![t] = 0]
  /\ hr' = [hr EXCEPT ![t] = "ok"]
  /\ \/ /\ pc' = [pc EXCEPT ![t] = IF c = "register" THEN "add" ELSE "unregister"]
        /\ apartment' = apartment \cup {t}
        /\ calm' = calm \cup {t}
     \/ /\ pc' = [pc EXCEPT ![t] = "failed"]
        /\ calm' = calm \ {t}
        /\ UNCHANGED apartment
  /\ UNCHANGED <<exports, registered, sidecarVars>>

\* add_authenticator, the first time and again.  Windows allocates a response when it
\* succeeds, and the code takes it that it may when it does not.
AddAuthenticator(t) ==
  /\ pc[t] \in {"add", "retry"}
  /\ \/ NoBindings(t) /\ UNCHANGED <<hr, responses>>
     \/ /\ "plugin" \in exports
        /\ \E r \in {"ok", "exists", "error"}, allocated \in BOOLEAN :
             /\ r = "ok" => allocated
             /\ AddReturns(t, r)
             /\ hr' = [hr EXCEPT ![t] = r]
             /\ responses' = [responses EXCEPT ![t] = IF allocated THEN @ + 1 ELSE @]
        /\ pc' = [pc EXCEPT ![t] = IF @ = "add" THEN "free" ELSE "freeRetry"]
        /\ UNCHANGED apartment
  /\ UNCHANGED <<exports, command, up, cache, buffers, request, session, verdict>>

\* free_add_authenticator_response, a no-op on null.
FreeResponse(t) == responses' = [responses EXCEPT ![t] = IF @ > 0 THEN @ - 1 ELSE @]

Judge_FreesOnSuccess(t) ==
  /\ pc[t] = "free"
  /\ IF hr[t] = "ok" THEN FreeResponse(t) ELSE UNCHANGED responses
  /\ IF hr[t] = "exists"
       THEN pc' = [pc EXCEPT ![t] = "remove"] /\ UNCHANGED apartment
       ELSE Return(t, IF hr[t] = "ok" THEN "ok" ELSE "failed")
  /\ UNCHANGED <<exports, registered, command, hr, calm, sidecarVars>>

\* As the documents have it: to register again updates what is there.
Judge_NoRetry(t) ==
  /\ pc[t] = "free"
  /\ FreeResponse(t)
  /\ Return(t, IF hr[t] = "ok" THEN "ok" ELSE "failed")
  /\ UNCHANGED <<exports, registered, command, hr, calm, sidecarVars>>

\* The response is freed before the HRESULT is looked at: NTE_EXISTS leads to a second
\* attempt, any other error ends the command.
Judge(t) ==
  /\ pc[t] = "free"
  /\ FreeResponse(t)
  /\ IF hr[t] = "exists"
       THEN pc' = [pc EXCEPT ![t] = "remove"] /\ UNCHANGED apartment
       ELSE Return(t, IF hr[t] = "ok" THEN "ok" ELSE "failed")
  /\ UNCHANGED <<exports, registered, command, hr, calm, sidecarVars>>

\* The removal's own result is not looked at.
RemoveStale(t) ==
  /\ pc[t] = "remove"
  /\ \E r \in {"ok", "notFound", "error"} : RemoveReturns(t, r)
  /\ pc' = [pc EXCEPT ![t] = "retry"]
  /\ UNCHANGED <<exports, command, hr, apartment, responses, up, cache, buffers, request,
                 session, verdict>>

\* Whatever the second attempt fails with is final.
JudgeRetry(t) ==
  /\ pc[t] = "freeRetry"
  /\ FreeResponse(t)
  /\ Return(t, IF hr[t] = "ok" THEN "ok" ELSE "failed")
  /\ UNCHANGED <<exports, registered, command, hr, calm, sidecarVars>>

\* Nothing to remove is a success too.
Unregister(t) ==
  /\ pc[t] = "unregister"
  /\ \/ NoBindings(t)
     \/ /\ "plugin" \in exports
        /\ \E r \in {"ok", "notFound", "error"} :
             RemoveReturns(t, r) /\ Return(t, IF r = "error" THEN "failed" ELSE "ok")
  /\ UNCHANGED <<exports, command, hr, responses, up, cache, buffers, request, session,
                 verdict>>

\* The tool is stopped between two of its calls; what it owned goes with it.
Interrupted(t) ==
  /\ pc[t] \in ToolSteps
  /\ Return(t, "idle")
  /\ responses' = [responses EXCEPT ![t] = 0]
  /\ UNCHANGED <<exports, registered, command, hr, calm, sidecarVars>>

----------------------------------------------------------------------------
(* The sidecar's key.                                                      *)

\* COM activates the class: a process whose OnceLock is empty.
Activate(s) ==
  /\ s \notin up
  /\ up' = up \cup {s}
  /\ verdict' = [verdict EXCEPT ![s] = "none"]
  /\ steady' = steady \cup {s}
  /\ UNCHANGED <<exports, registered, toolVars, cache, buffers, request, session>>

\* A request arrives, signed with the key of the registration there is.
Request(s) ==
  /\ s \in up
  /\ request[s] = NoKey
  /\ registered # NoKey
  /\ request' = [request EXCEPT ![s] = registered]
  /\ verdict' = [verdict EXCEPT ![s] = "none"]
  /\ UNCHANGED <<exports, registered, toolVars, up, cache, buffers, session, steady>>

\* load_key_bindings: one of the functions that return the key, under any of its names.
HasGetKey == "getKey" \in exports

\* probe_free_key: optional.
HasFreeKey == "freeKey" \in exports

\* fetch_key_from_dll: every failure is the same error.  A buffer that came with an error
\* is freed, one that came with an empty key is not.
FetchFails(s) ==
  /\ cache' = [cache EXCEPT ![s] = Failed]
  /\ steady' = steady \ {s}
  /\ \/ UNCHANGED buffers
     \/ /\ HasGetKey
        /\ buffers' = [buffers EXCEPT ![s] = @ + 1]

\* The bytes are copied out and Windows' buffer is freed, if this build can.
FetchSucceeds(s) ==
  /\ HasGetKey
  /\ registered # NoKey
  /\ cache' = [cache EXCEPT ![s] = registered]
  /\ buffers' = IF HasFreeKey THEN buffers ELSE [buffers EXCEPT ![s] = @ + 1]
  /\ UNCHANGED steady

\* get_signing_key_bytes, on the way to hello, of an activation or of a retry: once,
\* whatever comes of it.
FetchKey(s) ==
  /\ s \in up
  /\ session[s] = NoKey
  /\ cache[s] = Unset
  /\ FetchFails(s) \/ FetchSucceeds(s)
  /\ UNCHANGED <<exports, registered, toolVars, up, request, session, verdict>>

\* get_op_sign_pub_key_bytes_for_hello, in an activation or with a request in hand: None
\* fails the handshake, and the request that needs it.
Hello(s) ==
  /\ s \in up
  /\ session[s] = NoKey
  /\ \/ /\ cache[s] = Failed
        /\ request[s] # NoKey
        /\ verdict' = [verdict EXCEPT ![s] = "refused"]
        /\ request' = [request EXCEPT ![s] = NoKey]
        /\ UNCHANGED session
     \/ /\ cache[s] \notin {Unset, Failed}
        /\ session' = [session EXCEPT ![s] = cache[s]]
        /\ UNCHANGED <<verdict, request>>
  /\ UNCHANGED <<exports, registered, toolVars, up, cache, buffers, steady>>

\* The plugin verifies the request's signature with the key of the session.
Verify(s) ==
  /\ request[s] # NoKey
  /\ session[s] # NoKey
  /\ verdict' = [verdict EXCEPT ![s] = IF request[s] = session[s] THEN "accepted"
                                                                  ELSE "rejected"]
  /\ request' = [request EXCEPT ![s] = NoKey]
  /\ UNCHANGED <<exports, registered, toolVars, up, cache, buffers, session, steady>>

\* The connection breaks; the next activation, or the request's retry, says hello again.
Disconnect(s) ==
  /\ session[s] # NoKey
  /\ session' = [session EXCEPT ![s] = NoKey]
  /\ UNCHANGED <<exports, registered, toolVars, up, cache, buffers, request, verdict,
                 steady>>

ProcessEnds_KeyPersisted(s) ==
  /\ s \in up
  /\ up' = up \ {s}
  /\ buffers' = [buffers EXCEPT ![s] = 0]
  /\ request' = [request EXCEPT ![s] = NoKey]
  /\ session' = [session EXCEPT ![s] = NoKey]
  /\ UNCHANGED <<exports, registered, toolVars, cache, verdict, steady>>

\* The process ends, and with it the cached key or error.
ProcessEnds(s) ==
  /\ s \in up
  /\ up' = up \ {s}
  /\ cache' = [cache EXCEPT ![s] = Unset]
  /\ buffers' = [buffers EXCEPT ![s] = 0]
  /\ request' = [request EXCEPT ![s] = NoKey]
  /\ session' = [session EXCEPT ![s] = NoKey]
  /\ UNCHANGED <<exports, registered, toolVars, verdict, steady>>

----------------------------------------------------------------------------
Tool(t) ==
  \/ \E c \in Commands : Run(t, c)
  \/ AddAuthenticator(t) \/ Judge(t) \/ RemoveStale(t) \/ JudgeRetry(t)
  \/ Unregister(t) \/ Interrupted(t)

Sidecar(s) ==
  \/ Activate(s) \/ Request(s) \/ FetchKey(s) \/ Hello(s) \/ Verify(s)
  \/ Disconnect(s) \/ ProcessEnds(s)

Next == (\E t \in Tools : Tool(t)) \/ (\E s \in Sidecars : Sidecar(s))

Spec == Init /\ [][Next]_vars

----------------------------------------------------------------------------
(* Properties.                                                             *)

\* cmd_register frees every response on every path, "so the op-signing key is never
\* leaked"; a process that lives on holds one key buffer at most, and none if it could
\* free it, unless Windows answered with an error or an empty key.
KeysFreed ==
  /\ \A t \in Tools :
       /\ responses[t] <= 1
       /\ pc[t] \in {"ok", "failed"} => responses[t] = 0
  /\ \A s \in Sidecars :
       /\ buffers[s] <= 1
       /\ buffers[s] > 0 => cache[s] = Failed \/ "freeKey" \notin exports

\* Both commands can be repeated: whatever earlier runs, finished, failed or interrupted,
\* have left behind, one that nobody disturbs and no call of which fails succeeds, and
\* the class is registered or not as it was told.
Idempotent ==
  \A t \in calm :
    pc[t] \in {"ok", "failed"} =>
      pc[t] = "ok" /\ (registered # NoKey <=> command[t] = "register")

\* A request Windows has signed is turned away only if the process' fetch failed, or the
\* registration has changed since it fetched its key or the request was signed: the key
\* it keeps from its activation on is not out of date otherwise.
TurnedAwayForCause ==
  \A s \in steady : verdict[s] \in {"none", "accepted"}
=============================================================================
