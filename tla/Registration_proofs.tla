------------------------- MODULE Registration_proofs -------------------------
(***************************************************************************)
(* Theorems about Registration, for any sets of tools, processes and keys. *)
(***************************************************************************)
EXTENDS Registration, TLAPS

----------------------------------------------------------------------------
(* The inductive invariant.                                                *)

\* A tool has a response in hand only between a call and its judgement.
ResponseInHand ==
  \A t \in Tools :
    /\ responses[t] <= 1
    /\ pc[t] \notin {"free", "freeRetry"} => responses[t] = 0

\* What a tool that nobody disturbs and no call of which has failed knows of the
\* registration where it is.
CalmTools ==
  \A t \in calm :
    /\ pc[t] \in {"add", "free", "remove", "retry", "freeRetry"} => command[t] = "register"
    /\ pc[t] = "unregister" => command[t] = "unregister"
    /\ pc[t] = "free" => hr[t] # "error" /\ (hr[t] = "ok" => registered # NoKey)
    /\ pc[t] = "retry" => registered = NoKey
    /\ pc[t] = "freeRetry" => hr[t] = "ok" /\ registered # NoKey
    /\ pc[t] \in {"ok", "failed"} =>
         pc[t] = "ok" /\ (registered # NoKey <=> command[t] = "register")

\* A buffer comes with a fetch, and a process fetches once.
OneFetch ==
  \A s \in Sidecars :
    /\ buffers[s] <= 1
    /\ cache[s] = Unset => buffers[s] = 0
    /\ buffers[s] > 0 => cache[s] = Failed \/ "freeKey" \notin exports

\* What is sent in hello is what is cached, in a process that runs.
CachedKeys ==
  \A s \in Sidecars :
    /\ s \notin up => cache[s] = Unset
    /\ session[s] # NoKey => session[s] = cache[s]

\* In a process that has met no change and no failure every key is the registration's.
SteadyKeys ==
  \A s \in steady :
    /\ cache[s] \in {Unset, registered}
    /\ request[s] \in {NoKey, registered}
    /\ verdict[s] \in {"none", "accepted"}

IInv ==
  /\ TypeOK
  /\ ResponseInHand
  /\ CalmTools
  /\ OneFetch
  /\ CachedKeys
  /\ SteadyKeys

\* The conjuncts about the tools, and those about the processes.
ToolInv == ResponseInHand /\ CalmTools
SidecarInv == OneFetch /\ CachedKeys /\ SteadyKeys

----------------------------------------------------------------------------
(* What the steps of the one side do to the other.                         *)

\* Processes that have neither a key nor a request.
Unaware(processes) == \A s \in processes : cache[s] = Unset /\ request[s] = NoKey

\* A call of a tool takes every process that has a key or a request and every other tool
\* out of the histories if it changes the registration, and none if it does not.
LEMMA RegistersDisturbs ==
  ASSUME NEW t \in Tools, NEW key, Registers(t, key)
  PROVE  /\ registered' = key
         /\ calm' \subseteq calm /\ steady' \subseteq steady
         /\ registered' # registered => Unaware(steady') /\ calm' \subseteq {t}
BY DEF Registers, Unaware

LEMMA CallDisturbs ==
  ASSUME IInv, NEW t \in Tools,
         \/ FailsFor(t)
         \/ \E r \in {"ok", "exists", "error"} : AddReturns(t, r)
         \/ \E r \in {"ok", "notFound", "error"} : RemoveReturns(t, r)
  PROVE  /\ registered' \in MaybeKey
         /\ calm' \subseteq calm /\ steady' \subseteq steady
         /\ registered' # registered => Unaware(steady') /\ calm' \subseteq {t}
<1>1. CASE FailsFor(t)
  BY <1>1 DEF FailsFor, IInv, TypeOK
<1>2. ASSUME NEW r \in {"ok", "exists", "error"}, AddReturns(t, r)
      PROVE  \/ FailsFor(t)
             \/ \E key \in MaybeKey : Registers(t, key)
  BY <1>2 DEF AddReturns, MaybeKey, IInv, TypeOK
<1>3. ASSUME NEW r \in {"ok", "notFound", "error"}, RemoveReturns(t, r)
      PROVE  \/ FailsFor(t)
             \/ \E key \in MaybeKey : Registers(t, key)
  BY <1>3 DEF RemoveReturns, MaybeKey
<1>4. ASSUME NEW key \in MaybeKey, Registers(t, key)
      PROVE  /\ registered' \in MaybeKey
             /\ calm' \subseteq calm /\ steady' \subseteq steady
             /\ registered' # registered => Unaware(steady') /\ calm' \subseteq {t}
  BY <1>4, RegistersDisturbs
<1> QED
  BY <1>1, <1>2, <1>3, <1>4 DEF FailsFor, IInv, TypeOK

\* The processes do not mind what a tool does but for the registration.
LEMMA SidecarsUndisturbed ==
  ASSUME IInv, steady' \subseteq steady, registered' # registered => Unaware(steady'),
         UNCHANGED <<exports, up, cache, buffers, request, session, verdict>>
  PROVE  SidecarInv'
BY DEF IInv, SidecarInv, OneFetch, CachedKeys, SteadyKeys, Unaware

\* Nor the tools what a process does.
LEMMA ToolsUndisturbed ==
  ASSUME IInv, UNCHANGED <<registered, toolVars>> PROVE ToolInv'
BY DEF IInv, ToolInv, toolVars, ResponseInHand, CalmTools

----------------------------------------------------------------------------
(* Every step keeps the inductive invariant.                               *)

LEMMA InitGood == Init => IInv
BY ConstantsAssumption
   DEF Init, IInv, TypeOK, MaybeKey, EntryPoints, Commands, ToolSteps, ResponseInHand,
       CalmTools, OneFetch, CachedKeys, SteadyKeys

\* The commands.
LEMMA ToolKeeps == ASSUME IInv, NEW t \in Tools, Tool(t) PROVE IInv'
<1> USE DEF toolVars, sidecarVars
<1>1. ASSUME NEW c \in Commands, Run(t, c) PROVE IInv'
  <2>1. TypeOK'
    BY <1>1 DEF Run, IInv, TypeOK, Commands, ToolSteps
  <2>2. ResponseInHand'
    BY <1>1 DEF Run, IInv, TypeOK, ResponseInHand
  <2>3. CalmTools'
    BY <1>1 DEF Run, IInv, TypeOK, CalmTools, Commands
  <2> QED
    BY <1>1, <2>1, <2>2, <2>3, SidecarsUndisturbed DEF Run, IInv, SidecarInv
<1>2. CASE AddAuthenticator(t)
  <2> DEFINE undisturbed == UNCHANGED <<exports, command, up, cache, buffers, request,
                                        session, verdict>>
  <2>1. undisturbed /\ pc[t] \in {"add", "retry"}
    BY <1>2 DEF AddAuthenticator
  <2>2. CASE NoBindings(t) /\ UNCHANGED <<hr, responses>>
    <3>1. /\ pc' = [pc EXCEPT ![t] = "failed"] /\ apartment' = apartment \ {t}
          /\ calm' = calm \ {t} /\ UNCHANGED <<registered, steady>>
      BY <2>2 DEF NoBindings, Return, FailsFor
    <3>2. TypeOK'
      BY <2>1, <2>2, <3>1 DEF IInv, TypeOK, ToolSteps
    <3>3. ResponseInHand' /\ CalmTools'
      BY <2>1, <2>2, <3>1 DEF IInv, TypeOK, ResponseInHand, CalmTools
    <3> QED
      BY <2>1, <3>1, <3>2, <3>3, SidecarsUndisturbed DEF IInv, SidecarInv
  <2>3. ASSUME NEW r \in {"ok", "exists", "error"}, NEW allocated \in BOOLEAN,
               AddReturns(t, r),
               hr' = [hr EXCEPT ![t] = r],
               responses' = [responses EXCEPT ![t] = IF allocated THEN @ + 1 ELSE @],
               pc' = [pc EXCEPT ![t] = IF @ = "add" THEN "free" ELSE "freeRetry"],
               UNCHANGED apartment
        PROVE  IInv'
    <3>1. /\ registered' \in MaybeKey
          /\ calm' \subseteq calm /\ steady' \subseteq steady
          /\ registered' # registered => Unaware(steady') /\ calm' \subseteq {t}
      BY <2>3, CallDisturbs
    <3>2. /\ r = "ok" => registered' # NoKey
          /\ r = "exists" => registered # NoKey /\ registered' = registered
          /\ r = "error" => t \notin calm'
      BY <2>3, ConstantsAssumption DEF AddReturns, Registers, FailsFor
    <3>3. TypeOK'
      BY <2>1, <2>3, <3>1 DEF IInv, TypeOK, ToolSteps
    <3>4. ResponseInHand'
      BY <2>1, <2>3 DEF IInv, TypeOK, ResponseInHand
    <3>5. CalmTools'
      <4> SUFFICES ASSUME NEW u \in calm' PROVE CalmTools!(u)'
        BY DEF CalmTools
      <4>1. u \in calm /\ u \in Tools
        BY <3>1 DEF IInv, TypeOK
      <4>2. CASE u = t
        BY <2>1, <2>3, <3>2, <4>1, <4>2 DEF IInv, TypeOK, CalmTools
      <4>3. CASE u # t
        BY <2>1, <2>3, <3>1, <4>1, <4>3 DEF IInv, TypeOK, CalmTools
      <4> QED
        BY <4>2, <4>3
    <3> QED
      BY <2>1, <3>1, <3>3, <3>4, <3>5, SidecarsUndisturbed DEF IInv, SidecarInv
  <2> QED
    BY <1>2, <2>2, <2>3 DEF AddAuthenticator
<1>3. CASE Judge(t) \/ JudgeRetry(t)
  <2>1. /\ pc[t] \in {"free", "freeRetry"}
        /\ responses' = [responses EXCEPT ![t] = IF @ > 0 THEN @ - 1 ELSE @]
        /\ \/ /\ pc[t] = "free" /\ hr[t] = "exists"
              /\ pc' = [pc EXCEPT ![t] = "remove"] /\ UNCHANGED apartment
           \/ /\ pc[t] = "freeRetry" \/ hr[t] # "exists"
              /\ pc' = [pc EXCEPT ![t] = IF hr[t] = "ok" THEN "ok" ELSE "failed"]
              /\ apartment' = apartment \ {t}
        /\ UNCHANGED <<exports, registered, command, hr, calm, sidecarVars>>
    BY <1>3 DEF Judge, JudgeRetry, FreeResponse, Return
  <2>2. TypeOK'
    BY <2>1 DEF IInv, TypeOK, ToolSteps
  <2>3. ResponseInHand'
    BY <2>1 DEF IInv, TypeOK, ResponseInHand
  <2>4. CalmTools'
    BY <2>1 DEF IInv, TypeOK, CalmTools
  <2> QED
    BY <2>1, <2>2, <2>3, <2>4, SidecarsUndisturbed DEF IInv, SidecarInv
<1>4. CASE RemoveStale(t)
  <2>1. /\ pc[t] = "remove" /\ pc' = [pc EXCEPT ![t] = "retry"]
        /\ UNCHANGED <<exports, command, hr, apartment, responses, up, cache, buffers,
                       request, session, verdict>>
    BY <1>4 DEF RemoveStale
  <2>2. PICK r \in {"ok", "notFound", "error"} : RemoveReturns(t, r)
    BY <1>4 DEF RemoveStale
  <2>3. /\ registered' \in MaybeKey
        /\ calm' \subseteq calm /\ steady' \subseteq steady
        /\ registered' # registered => Unaware(steady') /\ calm' \subseteq {t}
    BY <2>2, CallDisturbs
  <2>4. t \in calm' => registered' = NoKey
    BY <2>2 DEF RemoveReturns, Registers, FailsFor
  <2>5. TypeOK'
    BY <2>1, <2>3 DEF IInv, TypeOK, ToolSteps
  <2>6. ResponseInHand'
    BY <2>1 DEF IInv, TypeOK, ResponseInHand
  <2>7. CalmTools'
    BY <2>1, <2>3, <2>4 DEF IInv, TypeOK, CalmTools
  <2> QED
    BY <2>1, <2>3, <2>5, <2>6, <2>7, SidecarsUndisturbed DEF IInv, SidecarInv
<1>5. CASE Unregister(t)
  <2>1. /\ pc[t] = "unregister"
        /\ UNCHANGED <<exports, command, hr, responses, up, cache, buffers, request,
                       session, verdict>>
    BY <1>5 DEF Unregister
  <2>2. \/ FailsFor(t) /\ Return(t, "failed")
        \/ \E r \in {"ok", "notFound", "error"} :
             RemoveReturns(t, r) /\ Return(t, IF r = "error" THEN "failed" ELSE "ok")
    BY <1>5 DEF Unregister, NoBindings
  <2>3. /\ registered' \in MaybeKey
        /\ calm' \subseteq calm /\ steady' \subseteq steady
        /\ registered' # registered => Unaware(steady') /\ calm' \subseteq {t}
    BY <2>2, CallDisturbs
  <2>4. /\ apartment' = apartment \ {t}
        /\ \/ pc' = [pc EXCEPT ![t] = "failed"] /\ t \notin calm'
           \/ pc' = [pc EXCEPT ![t] = "ok"] /\ registered' = NoKey
    BY <2>2 DEF Return, FailsFor, RemoveReturns, Registers
  <2>5. TypeOK'
    BY <2>1, <2>3, <2>4 DEF IInv, TypeOK, ToolSteps
  <2>6. ResponseInHand'
    BY <2>1, <2>4 DEF IInv, TypeOK, ResponseInHand
  <2>7. CalmTools'
    BY <2>1, <2>3, <2>4 DEF IInv, TypeOK, CalmTools
  <2> QED
    BY <2>1, <2>3, <2>5, <2>6, <2>7, SidecarsUndisturbed DEF IInv, SidecarInv
<1>6. CASE Interrupted(t)
  <2>1. TypeOK'
    BY <1>6 DEF Interrupted, Return, IInv, TypeOK, ToolSteps
  <2>2. ResponseInHand' /\ CalmTools'
    BY <1>6 DEF Interrupted, Return, IInv, TypeOK, ResponseInHand, CalmTools
  <2> QED
    BY <1>6, <2>1, <2>2, SidecarsUndisturbed DEF Interrupted, IInv, SidecarInv
<1> QED
  BY <1>1, <1>2, <1>3, <1>4, <1>5, <1>6 DEF Tool

\* The processes.
LEMMA SidecarKeeps == ASSUME IInv, NEW s \in Sidecars, Sidecar(s) PROVE IInv'
<1> USE ConstantsAssumption DEF MaybeKey, sidecarVars, toolVars
<1>0. UNCHANGED <<exports, registered, toolVars>>
  BY DEF Sidecar, Activate, Request, FetchKey, Hello, Verify, Disconnect, ProcessEnds
<1>1. ToolInv'
  BY <1>0, ToolsUndisturbed
<1>2. ASSUME TypeOK', SidecarInv' PROVE IInv'
  BY <1>1, <1>2 DEF IInv, ToolInv, SidecarInv
<1>3. CASE Activate(s)
  <2>1. TypeOK'
    BY <1>3 DEF Activate, IInv, TypeOK
  <2>2. SidecarInv'
    BY <1>3
       DEF Activate, IInv, TypeOK, SidecarInv, OneFetch, CachedKeys, SteadyKeys
  <2> QED
    BY <1>2, <2>1, <2>2
<1>4. CASE Request(s)
  <2>1. TypeOK'
    BY <1>4 DEF Request, IInv, TypeOK
  <2>2. SidecarInv'
    BY <1>4 DEF Request, IInv, TypeOK, SidecarInv, OneFetch, CachedKeys, SteadyKeys
  <2> QED
    BY <1>2, <2>1, <2>2
<1>5. CASE FetchKey(s)
  <2>1. s \in up
    BY <1>5 DEF FetchKey, IInv, TypeOK
  <2>2. /\ cache[s] = Unset /\ session[s] = NoKey /\ buffers[s] = 0
        /\ UNCHANGED <<exports, registered, up, request, session, verdict>>
    BY <1>5 DEF FetchKey, IInv, OneFetch
  <2>3. CASE FetchFails(s)
    <3>1. /\ cache' = [cache EXCEPT ![s] = Failed]
          /\ steady' = steady \ {s}
          /\ buffers' \in {buffers, [buffers EXCEPT ![s] = 1]}
      BY <2>2, <2>3 DEF FetchFails, HasGetKey, IInv, TypeOK
    <3>2. TypeOK'
      BY <1>0, <2>1, <2>2, <3>1 DEF IInv, TypeOK
    <3>3. SidecarInv'
      BY <2>1, <2>2, <3>1
         DEF IInv, TypeOK, SidecarInv, OneFetch, CachedKeys, SteadyKeys
    <3> QED
      BY <1>2, <3>2, <3>3
  <2>4. CASE FetchSucceeds(s)
    <3>1. /\ registered \in Keys
          /\ cache' = [cache EXCEPT ![s] = registered]
          /\ buffers' = IF HasFreeKey THEN buffers ELSE [buffers EXCEPT ![s] = 1]
          /\ UNCHANGED steady
      BY <2>2, <2>4 DEF FetchSucceeds, HasGetKey, HasFreeKey, IInv, TypeOK
    <3>2. TypeOK'
      BY <1>0, <2>1, <2>2, <3>1 DEF IInv, TypeOK
    <3>3. SidecarInv'
      BY <2>1, <2>2, <3>1
         DEF IInv, TypeOK, SidecarInv, OneFetch, CachedKeys, SteadyKeys, HasFreeKey
    <3> QED
      BY <1>2, <3>2, <3>3
  <2> QED
    BY <1>5, <2>3, <2>4 DEF FetchKey
<1>6. CASE Hello(s)
  <2>1. TypeOK'
    BY <1>6 DEF Hello, IInv, TypeOK
  <2>2. SidecarInv'
    BY <1>6 DEF Hello, IInv, TypeOK, SidecarInv, OneFetch, CachedKeys, SteadyKeys
  <2> QED
    BY <1>2, <2>1, <2>2
<1>7. CASE Verify(s)
  <2>1. TypeOK'
    BY <1>7 DEF Verify, IInv, TypeOK
  <2>2. SidecarInv'
    BY <1>7 DEF Verify, IInv, TypeOK, SidecarInv, OneFetch, CachedKeys, SteadyKeys
  <2> QED
    BY <1>2, <2>1, <2>2
<1>8. CASE Disconnect(s)
  <2>1. TypeOK'
    BY <1>8 DEF Disconnect, IInv, TypeOK
  <2>2. SidecarInv'
    BY <1>8 DEF Disconnect, IInv, TypeOK, SidecarInv, OneFetch, CachedKeys, SteadyKeys
  <2> QED
    BY <1>2, <2>1, <2>2
<1>9. CASE ProcessEnds(s)
  <2>1. TypeOK'
    BY <1>9 DEF ProcessEnds, IInv, TypeOK
  <2>2. SidecarInv'
    BY <1>9 DEF ProcessEnds, IInv, TypeOK, SidecarInv, OneFetch, CachedKeys, SteadyKeys
  <2> QED
    BY <1>2, <2>1, <2>2
<1> QED
  BY <1>3, <1>4, <1>5, <1>6, <1>7, <1>8, <1>9 DEF Sidecar

\* What the tools and the processes know of the registration stays right.
THEOREM Invariance == Spec => []IInv
<1>1. IInv /\ [Next]_vars => IInv'
  <2>1. IInv /\ UNCHANGED vars => IInv'
    BY DEF vars, toolVars, sidecarVars, IInv, TypeOK, ResponseInHand, CalmTools,
       OneFetch, CachedKeys, SteadyKeys
  <2> QED
    BY <2>1, ToolKeeps, SidecarKeeps DEF Next
<1> QED
  BY <1>1, InitGood, PTL DEF Spec

----------------------------------------------------------------------------
(* The properties of Registration.                                         *)

\* Registration's variables keep their types, and no command leaves its apartment open.
THEOREM TypeCorrect == Spec => []TypeOK
<1>1. IInv => TypeOK
  BY DEF IInv
<1> QED
  BY <1>1, Invariance, PTL

\* No command that returns has a response left, and no process that could free a key it
\* has copied holds the buffer.
THEOREM NothingLeaks == Spec => []KeysFreed
<1>1. IInv => KeysFreed
  BY DEF IInv, TypeOK, KeysFreed, ResponseInHand, OneFetch
<1> QED
  BY <1>1, Invariance, PTL

\* Either command succeeds whatever earlier runs have left, and does what it is for.
THEOREM RepeatsWell == Spec => []Idempotent
<1>1. IInv => Idempotent
  BY DEF IInv, Idempotent, CalmTools
<1> QED
  BY <1>1, Invariance, PTL

\* The kept key is out of date only if the registration has changed meanwhile.
THEOREM CauseForRefusal == Spec => []TurnedAwayForCause
<1>1. IInv => TurnedAwayForCause
  BY DEF IInv, TurnedAwayForCause, SteadyKeys
<1> QED
  BY <1>1, Invariance, PTL
=============================================================================
