--------------------------- MODULE SidecarDispatch ---------------------------
(***************************************************************************)
(* The COM sidecar as one process: the class factory (cf_create_instance), *)
(* the process-wide SHARED_STATE slot, the authenticator methods that go   *)
(* over the cached pipe (dispatch_operation, cancel_operation and          *)
(* get_lock_status, all through take_call_with_retry) and the background   *)
(* reconcile task's use of the pipe.                                       *)
(*                                                                         *)
(* COM calls run on one STA thread, last in first out (variable order):    *)
(* while a call waits in sta_block_on, or in the system's dialog for the   *)
(* user verification, the thread pumps messages and may start another one. *)
(* The futures of all these calls, and the reconcile task, run on the      *)
(* runtime's worker threads meanwhile.  The plugin is reduced to its one   *)
(* pipe instance (variable server); it may stop and start at any moment.   *)
(*                                                                         *)
(* An operator X_Something is X with a bug a change of the code could      *)
(* bring in.  No specification uses it; it shows what a property guards.   *)
(***************************************************************************)
EXTENDS Naturals, Sequences

CONSTANTS
  Calls,     \* COM method calls that can be under way at once
  Arcs,      \* KeePassKeyWinAuthenticatorState allocations
  Pipes,     \* PipeClient values
  Nobody,    \* the plugin's pipe instance waits for a client
  Other,     \* the plugin's pipe instance serves another process
  Down,      \* there is no pipe instance: no plugin serves
  None

\* makeCredential and getAssertion run dispatch_operation, the others their own.
Op == {"dispatch", "cancel", "lockStatus"}

\* Where a call stands.  "uv" to "denied": the user verification; "writing" to
\* "ran": inside PipeClient::call; "done": the future has finished.
CallState == {"idle", "uv", "verified", "denied", "writing", "sent", "ran",
              "reconnecting", "done"}

\* How a call ended.  "missing": there was no pipe to take; "noConnect": the
\* retry's reconnect or handshake failed; "io": a transport error not retried.
Result == {"ok", "locked", "refused", "unknownMethod", "missing", "noConnect", "io"}

ReconcileState == {"none", "spawned", "calling"}

ASSUME ConstantsAssumption ==
  /\ Nobody # Other /\ Nobody # Down /\ Other # Down
  /\ {Nobody, Other, Down, None} \cap Pipes = {}
  /\ None \notin Arcs \cup Op \cup Result \cup {Nobody, Other, Down}

VARIABLES
  server,     \* who holds the client end of the plugin's pipe instance
  slot,       \* SHARED_STATE
  arcPipe,    \* the pipe field of every allocation
  objs,       \* allocations behind the objects the host holds
  order,      \* calls on the STA thread's stack, the innermost last
  pc, op, arc, held, retried, res,  \* of each call: see CallState and Result;
                                    \* held is the pipe its future owns
  rpc, rpipe, \* of each allocation's reconcile task: its state and its pipe
  ran,        \* history: times the plugin of this life has executed the call
  hurt        \* history: the plugin went down under the call's live pipe

callVars == <<order, pc, op, arc, held, retried, res, ran, hurt>>
stateVars == <<slot, arcPipe, objs>>
reconcileVars == <<rpc, rpipe>>
vars == <<server, callVars, stateVars, reconcileVars>>

TypeOK ==
  /\ server \in Pipes \cup {Nobody, Other, Down}
  /\ slot \in Arcs \cup {None}
  /\ arcPipe \in [Arcs -> Pipes \cup {None}]
  /\ objs \subseteq Arcs
  /\ order \in Seq(Calls)
  /\ pc \in [Calls -> CallState]
  /\ op \in [Calls -> Op \cup {None}]
  /\ arc \in [Calls -> Arcs \cup {None}]
  /\ held \in [Calls -> Pipes \cup {None}]
  /\ retried \in [Calls -> BOOLEAN]
  /\ res \in [Calls -> Result \cup {None}]
  /\ rpc \in [Arcs -> ReconcileState]
  /\ rpipe \in [Arcs -> Pipes \cup {None}]
  /\ ran \in [Calls -> Nat]
  /\ hurt \in [Calls -> BOOLEAN]
  \* A call's future owns a pipe from the take, or the reconnect, to the return.
  /\ \A c \in Calls :
       held[c] # None <=> \/ pc[c] \in {"writing", "sent", "ran"}
                          \/ pc[c] = "done" /\ res[c] \notin {"missing", "noConnect"}
  /\ \A a \in Arcs : rpipe[a] # None <=> rpc[a] = "calling"

Init ==
  /\ server \in {Nobody, Down}
  /\ slot = None
  /\ arcPipe = [a \in Arcs |-> None]
  /\ objs = {}
  /\ order = <<>>
  /\ pc = [c \in Calls |-> "idle"]
  /\ op = [c \in Calls |-> None]
  /\ arc = [c \in Calls |-> None]
  /\ held = [c \in Calls |-> None]
  /\ retried = [c \in Calls |-> FALSE]
  /\ res = [c \in Calls |-> None]
  /\ rpc = [a \in Arcs |-> "none"]
  /\ rpipe = [a \in Arcs |-> None]
  /\ ran = [c \in Calls |-> 0]
  /\ hurt = [c \in Calls |-> FALSE]

----------------------------------------------------------------------------
(* Helpers.                                                                *)

\* The call whose code the STA thread is executing.
Innermost(c) == order # <<>> /\ order[Len(order)] = c

\* The STA thread can start a new COM call: it is in its message loop, or the
\* innermost call is inside CoWaitForMultipleHandles or the system's UV dialog.
Pumping ==
  \A c \in Calls :
    Innermost(c) => pc[c] \in {"uv", "writing", "sent", "ran", "reconnecting"}

\* No connection of this process: Arcs and PipeClients that nobody refers to.
UnusedArc(a) ==
  /\ a # slot /\ a \notin objs /\ rpc[a] = "none"
  /\ \A c \in Calls : arc[c] # a

UnusedPipe(p) ==
  /\ p # server
  /\ \A c \in Calls : held[c] # p
  /\ \A a \in Arcs : arcPipe[a] # p /\ rpipe[a] # p

\* What the plugin answers.  VaultHandler.Handle first requires an open vault; it
\* has no case for getLockStatus and none for cancelOperation.
Answers(o) == IF o = "dispatch" THEN {"ok", "locked", "refused"}
              ELSE {"locked", "unknownMethod"}

\* classify_rpc_error: a write to a pipe without a peer is BrokenPipe; a read may
\* also see the end of the file, which serde_json then fails to parse.
BreakKinds_NoEof(state) == IF state = "writing" THEN {"stale"} ELSE {}

BreakKinds(state) == IF state = "writing" THEN {"stale"} ELSE {"stale", "eof"}

\* The entry of take_call_with_retry: take the pipe out of the state, or give up
\* if it is not there.
TakePipe(c, a) ==
  /\ arcPipe' = [arcPipe EXCEPT ![a] = None]
  /\ held' = [held EXCEPT ![c] = arcPipe[a]]
  /\ pc' = [pc EXCEPT ![c] = IF arcPipe[a] = None THEN "done" ELSE "writing"]
  /\ res' = [res EXCEPT ![c] = IF arcPipe[a] = None THEN "missing" ELSE None]

\* The pipe is dropped: the plugin's instance is free for the next client.
Hangup(p) == server' = IF server = p THEN Nobody ELSE server

----------------------------------------------------------------------------
(* The class factory.                                                      *)

\* cf_create_instance finds SHARED_STATE set: the new object shares it.
ReuseState ==
  /\ Pumping
  /\ slot # None
  /\ objs' = objs \cup {slot}
  /\ UNCHANGED <<server, slot, arcPipe, callVars, reconcileVars>>

\* Caching the new state.
CacheState_Never(a) == UNCHANGED slot

CacheState(a) == slot' = a

\* cf_create_instance connects, without pumping, and caches the state; then it
\* spawns the reconcile task.
ConnectState(a, p) ==
  /\ Pumping
  /\ slot = None
  /\ UnusedArc(a)
  /\ UnusedPipe(p)
  /\ server = Nobody
  /\ server' = p
  /\ arcPipe' = [arcPipe EXCEPT ![a] = p]
  /\ CacheState(a)
  /\ objs' = objs \cup {a}
  /\ rpc' = [rpc EXCEPT ![a] = "spawned"]
  /\ UNCHANGED <<callVars, rpipe>>

\* The connect, the nonce or the handshake fails: the object gets a state of its
\* own that has no pipe and is not cached.
FailState(a) ==
  /\ Pumping
  /\ slot = None
  /\ UnusedArc(a)
  /\ arcPipe' = [arcPipe EXCEPT ![a] = None]
  /\ objs' = objs \cup {a}
  /\ UNCHANGED <<server, slot, callVars, reconcileVars>>

\* The host gives up its last object on that state.
ReleaseObject(a) ==
  /\ Pumping
  /\ a \in objs
  /\ objs' = objs \ {a}
  /\ UNCHANGED <<server, slot, arcPipe, callVars, reconcileVars>>

----------------------------------------------------------------------------
(* The authenticator methods.                                              *)

\* The host calls a method of an object.  cancelOperation and getLockStatus go
\* straight to the pipe, the other two to the user verification.
EnterMethod(c, o, a) ==
  /\ Pumping
  /\ a \in objs
  /\ pc[c] = "idle"
  /\ order' = Append(order, c)
  /\ op' = [op EXCEPT ![c] = o]
  /\ arc' = [arc EXCEPT ![c] = a]
  /\ IF o = "dispatch"
       THEN /\ pc' = [pc EXCEPT ![c] = "uv"]
            /\ UNCHANGED <<arcPipe, held, res>>
       ELSE TakePipe(c, a)
  /\ UNCHANGED <<server, slot, objs, retried, ran, hurt, reconcileVars>>

\* The user answers PerformUserVerification.
VerifyUser(c) ==
  /\ pc[c] = "uv"
  /\ \E answer \in {"verified", "denied"} : pc' = [pc EXCEPT ![c] = answer]
  /\ UNCHANGED <<server, stateVars, order, op, arc, held, retried, res, ran, hurt,
                 reconcileVars>>

\* dispatch_operation resumes after the verification and takes the pipe.
TakeVerified(c) ==
  /\ Innermost(c)
  /\ pc[c] = "verified"
  /\ TakePipe(c, arc[c])
  /\ UNCHANGED <<server, slot, objs, order, op, arc, retried, ran, hurt, reconcileVars>>

\* PipeClient::call writes the request to a pipe whose other end is there.
SendRequest(c) ==
  /\ pc[c] = "writing"
  /\ held[c] = server
  /\ pc' = [pc EXCEPT ![c] = "sent"]
  /\ UNCHANGED <<server, stateVars, order, op, arc, held, retried, res, ran, hurt,
                 reconcileVars>>

\* The plugin executes the request and writes its answer.
PluginExecutes(c) ==
  /\ pc[c] = "sent"
  /\ held[c] = server
  /\ pc' = [pc EXCEPT ![c] = "ran"]
  /\ ran' = [ran EXCEPT ![c] = @ + 1]
  /\ UNCHANGED <<server, stateVars, order, op, arc, held, retried, res, hurt,
                 reconcileVars>>

\* The errors take_call_with_retry answers with a reconnect.
Retries_EveryError(kind) == kind # "ok"
Retries_EofOnly(kind) == kind = "eof"

Retries(kind) == kind = "stale"

EndAttempt_NoDrop(c, kind, r) ==
  IF ~retried[c] /\ Retries(kind)
    THEN /\ pc' = [pc EXCEPT ![c] = "reconnecting"]
         /\ retried' = [retried EXCEPT ![c] = TRUE]
         /\ UNCHANGED <<server, held, res>>
    ELSE /\ pc' = [pc EXCEPT ![c] = "done"]
         /\ res' = [res EXCEPT ![c] = r]
         /\ UNCHANGED <<server, held, retried>>

\* The first attempt is over: hang up and reconnect, or keep the pipe and finish
\* with result r.  The second attempt always finishes.
EndAttempt(c, kind, r) ==
  IF ~retried[c] /\ Retries(kind)
    THEN /\ pc' = [pc EXCEPT ![c] = "reconnecting"]
         /\ retried' = [retried EXCEPT ![c] = TRUE]
         /\ held' = [held EXCEPT ![c] = None]
         /\ Hangup(held[c])
         /\ UNCHANGED res
    ELSE /\ pc' = [pc EXCEPT ![c] = "done"]
         /\ res' = [res EXCEPT ![c] = r]
         /\ UNCHANGED <<server, held, retried>>

\* PipeClient::call reads the answer, also one written just before the plugin
\* closed its end.
ReceiveAnswer(c) ==
  /\ pc[c] = "ran"
  /\ \E r \in Answers(op[c]) : EndAttempt(c, r, r)
  /\ UNCHANGED <<stateVars, order, op, arc, ran, hurt, reconcileVars>>

\* The write or the read fails because the plugin's end is gone.
BreakCall(c) ==
  /\ pc[c] \in {"writing", "sent", "ran"}
  /\ held[c] # server
  /\ \E kind \in BreakKinds(pc[c]) : EndAttempt(c, kind, "io")
  /\ UNCHANGED <<stateVars, order, op, arc, ran, hurt, reconcileVars>>

\* The retry's connect_and_handshake succeeds and the same request is sent again.
Reconnect(c, p) ==
  /\ pc[c] = "reconnecting"
  /\ UnusedPipe(p)
  /\ server = Nobody
  /\ server' = p
  /\ held' = [held EXCEPT ![c] = p]
  /\ pc' = [pc EXCEPT ![c] = "writing"]
  /\ UNCHANGED <<stateVars, order, op, arc, retried, res, ran, hurt, reconcileVars>>

\* It fails: no plugin, no nonce, another client on the pipe, or refused.
ReconnectFails(c) ==
  /\ pc[c] = "reconnecting"
  /\ pc' = [pc EXCEPT ![c] = "done"]
  /\ res' = [res EXCEPT ![c] = "noConnect"]
  /\ UNCHANGED <<server, stateVars, order, op, arc, held, retried, ran, hurt,
                 reconcileVars>>

\* clear_shared_state.
ClearSharedState_Skipped == UNCHANGED slot

ClearSharedState == slot' = None

\* The end of take_call_with_retry: the live pipe goes back into the state, a
\* failed reconnect clears SHARED_STATE.
RestoreState_ClearsOnIo(c) ==
  /\ IF res[c] \in {"noConnect", "io"} THEN slot' = None ELSE UNCHANGED slot
  /\ IF res[c] \in {"missing", "noConnect"}
       THEN UNCHANGED arcPipe
       ELSE arcPipe' = [arcPipe EXCEPT ![arc[c]] = held[c]]

RestoreState(c) ==
  CASE res[c] = "missing"   -> UNCHANGED <<slot, arcPipe>>
    [] res[c] = "noConnect" -> ClearSharedState /\ UNCHANGED arcPipe
    [] OTHER -> /\ arcPipe' = [arcPipe EXCEPT ![arc[c]] = held[c]]
                /\ UNCHANGED slot

\* The method returns to the host.
Return(c) ==
  /\ Innermost(c)
  /\ pc[c] \in {"denied", "done"}
  /\ IF pc[c] = "denied" THEN UNCHANGED <<slot, arcPipe>> ELSE RestoreState(c)
  /\ order' = SubSeq(order, 1, Len(order) - 1)
  /\ pc' = [pc EXCEPT ![c] = "idle"]
  /\ op' = [op EXCEPT ![c] = None]
  /\ arc' = [arc EXCEPT ![c] = None]
  /\ held' = [held EXCEPT ![c] = None]
  /\ retried' = [retried EXCEPT ![c] = FALSE]
  /\ res' = [res EXCEPT ![c] = None]
  /\ ran' = [ran EXCEPT ![c] = 0]
  /\ hurt' = [hurt EXCEPT ![c] = FALSE]
  /\ UNCHANGED <<server, objs, reconcileVars>>

----------------------------------------------------------------------------
(* The reconcile task's use of the pipe.                                   *)

\* The task starts: it takes the pipe, or gives up when a call has it.
ReconcileTakes(a) ==
  /\ rpc[a] = "spawned"
  /\ rpc' = [rpc EXCEPT ![a] = IF arcPipe[a] = None THEN "none" ELSE "calling"]
  /\ rpipe' = [rpipe EXCEPT ![a] = arcPipe[a]]
  /\ arcPipe' = [arcPipe EXCEPT ![a] = None]
  /\ UNCHANGED <<server, slot, objs, callVars>>

\* enumerateForSync has been answered or has failed: the pipe goes back.
ReconcileReturns(a) ==
  /\ rpc[a] = "calling"
  /\ rpc' = [rpc EXCEPT ![a] = "none"]
  /\ arcPipe' = [arcPipe EXCEPT ![a] = rpipe[a]]
  /\ rpipe' = [rpipe EXCEPT ![a] = None]
  /\ UNCHANGED <<server, slot, objs, callVars>>

----------------------------------------------------------------------------
(* The plugin and the process.                                             *)

\* KeePass quits, crashes, or Terminate disposes the pipe: every connection dies.
PluginDown ==
  /\ server # Down
  /\ server' = Down
  /\ hurt' = [c \in Calls |-> hurt[c] \/ held[c] = server]
  /\ ran' = [c \in Calls |-> 0]
  /\ UNCHANGED <<stateVars, order, pc, op, arc, held, retried, res, reconcileVars>>

\* A plugin starts, or another client comes or goes.
PluginSide ==
  /\ \/ server = Down /\ server' = Nobody
     \/ server = Nobody /\ server' = Other
     \/ server = Other /\ server' = Nobody
  /\ UNCHANGED <<callVars, stateVars, reconcileVars>>

\* The sidecar process ends: it is killed, crashes or a panic aborts it.
SidecarEnds ==
  /\ objs # {} \/ slot # None
  /\ server' = IF server \in Pipes THEN Nobody ELSE server
  /\ slot' = None
  /\ arcPipe' = [a \in Arcs |-> None]
  /\ objs' = {}
  /\ order' = <<>>
  /\ pc' = [c \in Calls |-> "idle"]
  /\ op' = [c \in Calls |-> None]
  /\ arc' = [c \in Calls |-> None]
  /\ held' = [c \in Calls |-> None]
  /\ retried' = [c \in Calls |-> FALSE]
  /\ res' = [c \in Calls |-> None]
  /\ rpc' = [a \in Arcs |-> "none"]
  /\ rpipe' = [a \in Arcs |-> None]
  /\ ran' = [c \in Calls |-> 0]
  /\ hurt' = [c \in Calls |-> FALSE]

----------------------------------------------------------------------------
Activation == ReuseState
                \/ (\E a \in Arcs : \/ FailState(a) \/ ReleaseObject(a)
                                    \/ \E p \in Pipes : ConnectState(a, p))

Host(c) == \E o \in Op, a \in Arcs : EnterMethod(c, o, a)

Sta(c) == TakeVerified(c) \/ Return(c)

Future(c) == SendRequest(c) \/ PluginExecutes(c) \/ ReceiveAnswer(c) \/ BreakCall(c)
               \/ (\E p \in Pipes : Reconnect(c, p)) \/ ReconnectFails(c)

Reconcile(a) == ReconcileTakes(a) \/ ReconcileReturns(a)

Next == \/ Activation
        \/ \E c \in Calls : Host(c) \/ VerifyUser(c) \/ Sta(c) \/ Future(c)
        \/ \E a \in Arcs : Reconcile(a)
        \/ PluginDown \/ PluginSide \/ SidecarEnds

Spec == Init /\ [][Next]_vars

\* The STA thread and the runtime's worker threads run, a plugin that serves
\* answers every request, and the user answers the dialog.
Fairness ==
  /\ \A c \in Calls : WF_vars(VerifyUser(c)) /\ WF_vars(Sta(c)) /\ WF_vars(Future(c))
  /\ \A a \in Arcs : WF_vars(Reconcile(a))

FairSpec == Spec /\ Fairness

----------------------------------------------------------------------------
(* Properties.                                                             *)

\* A call that owns SHARED_STATE's connection: between the take and the end of
\* take_call_with_retry, the time it has no pipe included.
OwnsConnection(c) ==
  \/ pc[c] \in {"writing", "sent", "ran", "reconnecting"}
  \/ pc[c] = "done" /\ res[c] # "missing"

\* The places a PipeClient can be in: a state, a call's future, the reconcile task.
PipesOpen ==
  {<<"state", a>> : a \in {x \in Arcs : arcPipe[x] # None}} \cup
  {<<"call", c>> : c \in {x \in Calls : held[x] # None}} \cup
  {<<"reconcile", a>> : a \in {x \in Arcs : rpipe[x] # None}}

\* SHARED_STATE: the plugin accepts one client, so the process never has two
\* PipeClients, whatever calls, retries, activations and reconciles interleave.
OneConnection == \A x, y \in PipesOpen : x = y

\* clear_slot: a cached state is never half-dead.  If SHARED_STATE is set, its pipe
\* is there, or one call or the reconcile task has it and will give it back.
SlotUsable ==
  slot # None =>
    \/ arcPipe[slot] # None
    \/ rpipe[slot] # None
    \/ \E c \in Calls : arc[c] = slot /\ OwnsConnection(c)

\* SHARED_STATE: nobody connects while this process itself occupies the plugin's
\* only pipe instance, the ERROR_PIPE_BUSY that a pipe per object had caused.
NeverBusyWithItself ==
  slot = None \/ (\E c \in Calls : pc[c] = "reconnecting") => server \notin Pipes

\* take_call_with_retry: a pipe that went stale before the call never fails it.  A
\* transport error reaches the host only if the plugin went down during the call.
StalePipeHeals ==
  \A c \in Calls : pc[c] = "done" /\ res[c] = "io" => hurt[c]

\* take_call_with_retry: a request is sent again only to another life of the
\* plugin; no plugin process executes the same request twice.
ReplayedOnlyAfterRestart == \A c \in Calls : ran[c] <= 1

\* CoWaitForMultipleHandles: the host re-enters the STA thread while a call waits.  Its
\* stack holds each call under way once and no other, so that every call but the innermost
\* waits for one that is itself under way.
StackIsCalls ==
  /\ \A i, j \in 1..Len(order) : order[i] = order[j] => i = j
  /\ \A c \in Calls : pc[c] # "idle" <=> \E i \in 1..Len(order) : order[i] = c

\* Steps a call still takes at most until it has returned.  The retry is the longer way
\* of each state.
StepsLeft(c) ==
  CASE pc[c] = "idle"         -> 0
    [] pc[c] \in {"denied", "done"} -> 1
    [] pc[c] = "ran"          -> IF retried[c] THEN 2 ELSE 6
    [] pc[c] = "sent"         -> IF retried[c] THEN 3 ELSE 7
    [] pc[c] = "writing"      -> IF retried[c] THEN 4 ELSE 8
    [] pc[c] = "reconnecting" -> 5
    [] pc[c] = "verified"     -> 9
    [] pc[c] = "uv"           -> 10

\* take_call_with_retry: every step of a call brings it nearer to its return, by at most
\* one retry, and nothing that other calls, activations, reconcile tasks or the plugin do
\* takes it back.
CallsAdvance ==
  [][\A c \in Calls :
       /\ pc[c] # "idle" => StepsLeft(c)' <= StepsLeft(c)
       /\ VerifyUser(c) \/ Sta(c) \/ Future(c) => StepsLeft(c)' < StepsLeft(c)]_vars

\* take_call_with_retry: a call of the cached state finds its pipe gone only while another
\* call or the reconcile task has it.  This is what is left of DispatchesSerialized.
MissingForCause ==
  [][\A c \in Calls :
       /\ pc[c] # "done" /\ pc'[c] = "done" /\ res'[c] = "missing"
       /\ arc'[c] = slot
       => \/ rpipe[slot] # None
          \/ \E d \in Calls \ {c} : arc[d] = slot /\ OwnsConnection(d)]_vars

\* Every call returns to the host, the outer ones too, however often the host
\* re-enters the STA thread while they wait.
CallsReturn == \A c \in Calls : pc[c] # "idle" ~> pc[c] = "idle"

\* SHARED_STATE: "Sharing the Arc lets the STA thread serialize dispatches through
\* the inner Mutex over the one pipe."  So none finds the pipe gone to another.
DispatchesSerialized ==
  \A c, d \in Calls :
    /\ op[c] = "dispatch" /\ op[d] = "dispatch"
    /\ OwnsConnection(d)
    => ~(pc[c] = "done" /\ res[c] = "missing")

\* get_lock_status: "a stale pipe self-heals here (was a one-strike E_FAIL ...)".
\* So an answer of a plugin is never mapped to E_FAIL.  (It is, whenever the vault is open:
\* the plugin does not know the method.)
LockStatusReported ==
  \A c \in Calls :
    op[c] = "lockStatus" /\ pc[c] = "done" /\ ~retried[c] /\ ~hurt[c]
      => res[c] \in {"ok", "locked", "missing"}
=============================================================================
