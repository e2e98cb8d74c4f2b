----------------------- MODULE SidecarDispatch_proofs -----------------------
(***************************************************************************)
(* Theorems about SidecarDispatch, for any number of nested calls, states  *)
(* and connections.                                                        *)
(***************************************************************************)
EXTENDS SidecarDispatch, TLAPS, SequenceTheorems

----------------------------------------------------------------------------
(* The inductive invariant.  SHARED_STATE's connection is a token: it is in *)
(* the cached state, in one call or in the reconcile task, and nowhere else.*)

\* A call that is under way knows its state.
ArcKnown == \A c \in Calls : pc[c] # "idle" => arc[c] \in Arcs

\* Whoever has the token has it for the cached state.
TokenAtSlot ==
  /\ \A a \in Arcs : arcPipe[a] # None => slot = a
  /\ \A a \in Arcs : rpipe[a] # None => slot = a
  /\ \A c \in Calls : OwnsConnection(c) => slot = arc[c] /\ slot # None

\* The token is in one place only.
OneToken ==
  /\ \A a, b \in Arcs : arcPipe[a] # None => rpipe[b] = None
  /\ \A a \in Arcs, c \in Calls :
       OwnsConnection(c) => arcPipe[a] = None /\ rpipe[a] = None
  /\ \A c, d \in Calls : OwnsConnection(c) /\ OwnsConnection(d) => c = d

\* The plugin serves no connection this process has lost.
ServedPipeHeld ==
  server \in Pipes =>
    \/ \E a \in Arcs : arcPipe[a] = server \/ rpipe[a] = server
    \/ \E c \in Calls : held[c] = server

\* A request that has been sent, or sent again, loses its peer only when the plugin
\* goes down during the call.
HurtKnown ==
  \A c \in Calls :
    /\ pc[c] \in {"idle", "uv", "verified"} => ~retried[c]
    /\ (pc[c] \in {"sent", "ran"} \/ (pc[c] = "writing" /\ retried[c])) /\ held[c] # server
         => hurt[c]

\* Only a request that was answered, or still can be, has been executed by the
\* plugin of this life, and only once.
RanKnown ==
  \A c \in Calls :
    /\ ran[c] # 0 => ran[c] = 1 /\ pc[c] \in {"ran", "done"}
    /\ pc[c] = "ran" /\ held[c] # server => ran[c] = 0

IInv ==
  /\ TypeOK
  /\ ArcKnown
  /\ TokenAtSlot
  /\ OneToken
  /\ SlotUsable
  /\ ServedPipeHeld
  /\ HurtKnown
  /\ StalePipeHeals
  /\ RanKnown

----------------------------------------------------------------------------
(* What an attempt's end comes to.                                         *)

\* An answer is never stale: the call finishes with it and keeps its pipe.
AnswerEffect(c) ==
  /\ pc[c] = "ran"
  /\ pc' = [pc EXCEPT ![c] = "done"]
  /\ \E r \in {"ok", "locked", "refused", "unknownMethod"} :
       res' = [res EXCEPT ![c] = r]
  /\ UNCHANGED <<server, held, retried, stateVars, order, op, arc, ran, hurt,
                 reconcileVars>>

LEMMA AnswerEnds == ASSUME NEW c \in Calls, ReceiveAnswer(c) PROVE AnswerEffect(c)
<1> PICK r \in Answers(op[c]) : EndAttempt(c, r, r)
  BY DEF ReceiveAnswer
<1>1. r \in {"ok", "locked", "refused", "unknownMethod"}
  BY DEF Answers
<1> QED
  BY <1>1 DEF ReceiveAnswer, AnswerEffect, EndAttempt, Retries

\* A broken pipe: the call gives it up and reconnects, or the call fails.
Breaks(c) ==
  /\ pc[c] \in {"writing", "sent", "ran"}
  /\ held[c] # server
  /\ UNCHANGED <<server, stateVars, order, op, arc, ran, hurt, reconcileVars>>

GivesUp(c) ==
  /\ Breaks(c)
  /\ ~retried[c]
  /\ pc' = [pc EXCEPT ![c] = "reconnecting"]
  /\ retried' = [retried EXCEPT ![c] = TRUE]
  /\ held' = [held EXCEPT ![c] = None]
  /\ UNCHANGED res

FailsIo(c) ==
  /\ Breaks(c)
  /\ pc[c] = "writing" => retried[c]
  /\ pc' = [pc EXCEPT ![c] = "done"]
  /\ res' = [res EXCEPT ![c] = "io"]
  /\ UNCHANGED <<held, retried>>

LEMMA BreakEnds == ASSUME NEW c \in Calls, BreakCall(c) PROVE GivesUp(c) \/ FailsIo(c)
<1> PICK kind \in BreakKinds(pc[c]) : EndAttempt(c, kind, "io")
  BY DEF BreakCall
<1>1. held[c] # server
  BY DEF BreakCall
<1>2. CASE ~retried[c] /\ Retries(kind)
  BY <1>1, <1>2 DEF BreakCall, GivesUp, Breaks, EndAttempt, Hangup
<1>3. CASE ~(~retried[c] /\ Retries(kind))
  <2>1. pc[c] = "writing" => retried[c]
    BY <1>3 DEF BreakKinds, Retries
  <2> QED
    BY <1>3, <2>1 DEF BreakCall, FailsIo, Breaks, EndAttempt
<1> QED
  BY <1>2, <1>3

----------------------------------------------------------------------------
(* One lemma per conjunct: every step preserves it.                         *)

\* take_call_with_retry takes a pipe, or nothing.
LEMMA TakePipeTyped ==
  ASSUME TypeOK, NEW c \in Calls, NEW a \in Arcs, TakePipe(c, a)
  PROVE  /\ arcPipe' \in [Arcs -> Pipes \cup {None}]
         /\ held' \in [Calls -> Pipes \cup {None}]
         /\ pc' \in [Calls -> CallState]
         /\ res' \in [Calls -> Result \cup {None}]
<1>1. arcPipe[a] \in Pipes \cup {None}
  BY DEF TypeOK
<1>2. arcPipe' \in [Arcs -> Pipes \cup {None}] /\ held' \in [Calls -> Pipes \cup {None}]
  BY <1>1 DEF TakePipe, TypeOK
<1>3. pc' \in [Calls -> CallState]
  <2>1. "done" \in CallState /\ "writing" \in CallState
    BY DEF CallState
  <2> QED
    BY <2>1 DEF TakePipe, TypeOK
<1>4. res' \in [Calls -> Result \cup {None}]
  <2>1. "missing" \in Result
    BY DEF Result
  <2> QED
    BY <2>1 DEF TakePipe, TypeOK
<1> QED
  BY <1>2, <1>3, <1>4

\* Every step keeps the types, and a future's pipe goes with its call.
LEMMA TypeStep == TypeOK /\ ArcKnown /\ [Next]_vars => TypeOK'
<1> SUFFICES ASSUME TypeOK, ArcKnown, [Next]_vars PROVE TypeOK'
  OBVIOUS
<1> USE ConstantsAssumption DEF TypeOK, ArcKnown, Op, CallState, Result, ReconcileState
<1>1. ASSUME ReuseState PROVE TypeOK'
  BY <1>1 DEF ReuseState, callVars, stateVars, reconcileVars
<1>2. ASSUME NEW a \in Arcs, NEW p \in Pipes, ConnectState(a, p) PROVE TypeOK'
  BY <1>2 DEF ConnectState, CacheState, UnusedArc, UnusedPipe, callVars, stateVars,
     reconcileVars
<1>3. ASSUME NEW a \in Arcs, FailState(a) PROVE TypeOK'
  BY <1>3 DEF FailState, UnusedArc, callVars, stateVars, reconcileVars
<1>4. ASSUME NEW a \in Arcs, ReleaseObject(a) PROVE TypeOK'
  BY <1>4 DEF ReleaseObject, callVars, stateVars, reconcileVars
<1>5. ASSUME NEW c \in Calls, NEW o \in Op, NEW a \in Arcs, EnterMethod(c, o, a)
      PROVE  TypeOK'
  <2>1. /\ order' \in Seq(Calls)
        /\ op' \in [Calls -> Op \cup {None}]
        /\ arc' \in [Calls -> Arcs \cup {None}]
        /\ UNCHANGED <<server, slot, objs, retried, ran, hurt, rpc, rpipe>>
    BY <1>5 DEF EnterMethod, reconcileVars
  <2>2. pc[c] = "idle" /\ held[c] = None
    BY <1>5 DEF EnterMethod
  <2>3. /\ arcPipe' \in [Arcs -> Pipes \cup {None}]
        /\ held' \in [Calls -> Pipes \cup {None}]
        /\ pc' \in [Calls -> CallState]
        /\ res' \in [Calls -> Result \cup {None}]
    <3>1. CASE o = "dispatch"
      BY <1>5, <3>1 DEF EnterMethod
    <3>2. CASE o # "dispatch"
      <4>1. TakePipe(c, a)
        BY <1>5, <3>2 DEF EnterMethod
      <4> QED
        BY <4>1, TakePipeTyped
    <3> QED
      BY <3>1, <3>2
  <2>4. \A d \in Calls : d # c => /\ held'[d] = held[d]
                                  /\ pc'[d] = pc[d]
                                  /\ res'[d] = res[d]
    BY <1>5 DEF EnterMethod, TakePipe
  <2>5. held'[c] # None <=> pc'[c] = "writing"
    <3>1. CASE o = "dispatch"
      BY <1>5, <2>2, <3>1 DEF EnterMethod
    <3>2. CASE o # "dispatch"
      BY <1>5, <3>2 DEF EnterMethod, TakePipe
    <3> QED
      BY <3>1, <3>2
  <2>6. /\ pc'[c] \in {"uv", "writing", "done"}
        /\ pc'[c] = "done" => res'[c] = "missing"
    BY <1>5 DEF EnterMethod, TakePipe
  <2> QED
    BY <2>1, <2>3, <2>4, <2>5, <2>6
<1>6. ASSUME NEW c \in Calls, VerifyUser(c) PROVE TypeOK'
  BY <1>6 DEF VerifyUser, callVars, stateVars, reconcileVars
<1>7. ASSUME NEW c \in Calls, TakeVerified(c) PROVE TypeOK'
  <2>1. /\ arcPipe' \in [Arcs -> Pipes \cup {None}]
        /\ held' \in [Calls -> Pipes \cup {None}]
        /\ pc' \in [Calls -> CallState]
        /\ res' \in [Calls -> Result \cup {None}]
        /\ UNCHANGED <<server, slot, objs, order, op, arc, retried, ran, hurt, rpc, rpipe>>
    BY <1>7 DEF TakeVerified, TakePipe, reconcileVars
  <2>2. \A d \in Calls : d # c => /\ held'[d] = held[d]
                                  /\ pc'[d] = pc[d]
                                  /\ res'[d] = res[d]
    BY <1>7 DEF TakeVerified, TakePipe
  <2>3. /\ pc'[c] \in {"writing", "done"}
        /\ held'[c] # None <=> pc'[c] = "writing"
        /\ pc'[c] = "done" => res'[c] = "missing"
    BY <1>7 DEF TakeVerified, TakePipe
  <2> QED
    BY <2>1, <2>2, <2>3
<1>8. ASSUME NEW c \in Calls, SendRequest(c) PROVE TypeOK'
  BY <1>8 DEF SendRequest, callVars, stateVars, reconcileVars
<1>9. ASSUME NEW c \in Calls, PluginExecutes(c) PROVE TypeOK'
  BY <1>9 DEF PluginExecutes, callVars, stateVars, reconcileVars
<1>10. ASSUME NEW c \in Calls, ReceiveAnswer(c) PROVE TypeOK'
  <2>1. AnswerEffect(c)
    BY <1>10, AnswerEnds
  <2> QED
    BY <2>1 DEF AnswerEffect, stateVars, reconcileVars
<1>11. ASSUME NEW c \in Calls, BreakCall(c) PROVE TypeOK'
  <2>1. CASE GivesUp(c)
    BY <2>1 DEF GivesUp, Breaks, stateVars, reconcileVars
  <2>2. CASE FailsIo(c)
    BY <2>2 DEF FailsIo, Breaks, stateVars, reconcileVars
  <2> QED
    BY <1>11, <2>1, <2>2, BreakEnds
<1>12. ASSUME NEW c \in Calls, NEW p \in Pipes, Reconnect(c, p) PROVE TypeOK'
  BY <1>12 DEF Reconnect, UnusedPipe, callVars, stateVars, reconcileVars
<1>13. ASSUME NEW c \in Calls, ReconnectFails(c) PROVE TypeOK'
  BY <1>13 DEF ReconnectFails, callVars, stateVars, reconcileVars
<1>14. ASSUME NEW c \in Calls, Return(c) PROVE TypeOK'
  <2>1. order' \in Seq(Calls)
    BY <1>14 DEF Return, Innermost
  <2>2. pc[c] = "done" /\ res[c] \notin {"missing", "noConnect"} => held[c] \in Pipes
    OBVIOUS
  <2>3. /\ slot' \in Arcs \cup {None}
        /\ arcPipe' \in [Arcs -> Pipes \cup {None}]
    BY <1>14, <2>2 DEF Return, RestoreState, ClearSharedState
  <2>4. /\ pc' = [pc EXCEPT ![c] = "idle"]
        /\ held' = [held EXCEPT ![c] = None]
        /\ res' = [res EXCEPT ![c] = None]
        /\ op' = [op EXCEPT ![c] = None]
        /\ arc' = [arc EXCEPT ![c] = None]
        /\ retried' = [retried EXCEPT ![c] = FALSE]
        /\ ran' = [ran EXCEPT ![c] = 0]
        /\ hurt' = [hurt EXCEPT ![c] = FALSE]
        /\ UNCHANGED <<server, objs, rpc, rpipe>>
    BY <1>14 DEF Return, reconcileVars
  <2> QED
    BY <2>1, <2>3, <2>4
<1>15. ASSUME NEW a \in Arcs, ReconcileTakes(a) PROVE TypeOK'
  BY <1>15 DEF ReconcileTakes, callVars, stateVars, reconcileVars
<1>16. ASSUME NEW a \in Arcs, ReconcileReturns(a) PROVE TypeOK'
  BY <1>16 DEF ReconcileReturns, callVars, stateVars, reconcileVars
<1>17. ASSUME PluginDown PROVE TypeOK'
  BY <1>17 DEF PluginDown, callVars, stateVars, reconcileVars
<1>18. ASSUME PluginSide PROVE TypeOK'
  BY <1>18 DEF PluginSide, callVars, stateVars, reconcileVars
<1>19. ASSUME SidecarEnds PROVE TypeOK'
  BY <1>19 DEF SidecarEnds, callVars, stateVars, reconcileVars
<1>20. CASE UNCHANGED vars
  BY <1>20 DEF vars, callVars, stateVars, reconcileVars
<1> QED
  BY <1>1, <1>2, <1>3, <1>4, <1>5, <1>6, <1>7, <1>8, <1>9, <1>10, <1>11, <1>12,
     <1>13, <1>14, <1>15, <1>16, <1>17, <1>18, <1>19, <1>20
  DEF Next, Activation, Host, Sta, Future, Reconcile

\* A call keeps its state from its entry to its return.
LEMMA ArcKnownStep == TypeOK /\ ArcKnown /\ [Next]_vars => ArcKnown'
<1> SUFFICES ASSUME TypeOK, ArcKnown, [Next]_vars PROVE ArcKnown'
  OBVIOUS
<1> USE ConstantsAssumption DEF TypeOK, ArcKnown
<1>1. ASSUME ReuseState PROVE ArcKnown'
  BY <1>1 DEF ReuseState, callVars, stateVars, reconcileVars
<1>2. ASSUME NEW a \in Arcs, NEW p \in Pipes, ConnectState(a, p) PROVE ArcKnown'
  BY <1>2 DEF ConnectState, CacheState, UnusedArc, UnusedPipe, callVars, stateVars,
     reconcileVars
<1>3. ASSUME NEW a \in Arcs, FailState(a) PROVE ArcKnown'
  BY <1>3 DEF FailState, UnusedArc, callVars, stateVars, reconcileVars
<1>4. ASSUME NEW a \in Arcs, ReleaseObject(a) PROVE ArcKnown'
  BY <1>4 DEF ReleaseObject, callVars, stateVars, reconcileVars
<1>5. ASSUME NEW c \in Calls, NEW o \in Op, NEW a \in Arcs, EnterMethod(c, o, a)
      PROVE  ArcKnown'
  <2>1. CASE o = "dispatch"
    BY <1>5, <2>1 DEF EnterMethod, callVars, stateVars, reconcileVars
  <2>2. CASE o # "dispatch" /\ arcPipe[a] = None
    BY <1>5, <2>2 DEF EnterMethod, TakePipe, callVars, stateVars, reconcileVars
  <2>3. CASE o # "dispatch" /\ arcPipe[a] # None
    BY <1>5, <2>3 DEF EnterMethod, TakePipe, callVars, stateVars, reconcileVars
  <2> QED
    BY <2>1, <2>2, <2>3
<1>6. ASSUME NEW c \in Calls, VerifyUser(c) PROVE ArcKnown'
  BY <1>6 DEF VerifyUser, callVars, stateVars, reconcileVars
<1>7. ASSUME NEW c \in Calls, TakeVerified(c) PROVE ArcKnown'
  <2>1. CASE arcPipe[arc[c]] = None
    BY <1>7, <2>1 DEF TakeVerified, TakePipe, Innermost, callVars, stateVars,
       reconcileVars
  <2>2. CASE arcPipe[arc[c]] # None
    BY <1>7, <2>2 DEF TakeVerified, TakePipe, Innermost, callVars, stateVars,
       reconcileVars
  <2> QED
    BY <2>1, <2>2
<1>8. ASSUME NEW c \in Calls, SendRequest(c) PROVE ArcKnown'
  BY <1>8 DEF SendRequest, callVars, stateVars, reconcileVars
<1>9. ASSUME NEW c \in Calls, PluginExecutes(c) PROVE ArcKnown'
  BY <1>9 DEF PluginExecutes, callVars, stateVars, reconcileVars
<1>10. ASSUME NEW c \in Calls, ReceiveAnswer(c) PROVE ArcKnown'
  <2>1. AnswerEffect(c)
    BY <1>10, AnswerEnds
  <2> QED
    BY <2>1 DEF AnswerEffect, stateVars, reconcileVars
<1>11. ASSUME NEW c \in Calls, BreakCall(c) PROVE ArcKnown'
  <2>1. CASE GivesUp(c)
    BY <2>1 DEF GivesUp, Breaks, stateVars, reconcileVars
  <2>2. CASE FailsIo(c)
    BY <2>2 DEF FailsIo, Breaks, stateVars, reconcileVars
  <2> QED
    BY <1>11, <2>1, <2>2, BreakEnds
<1>12. ASSUME NEW c \in Calls, NEW p \in Pipes, Reconnect(c, p) PROVE ArcKnown'
  BY <1>12 DEF Reconnect, UnusedPipe, callVars, stateVars, reconcileVars
<1>13. ASSUME NEW c \in Calls, ReconnectFails(c) PROVE ArcKnown'
  BY <1>13 DEF ReconnectFails, callVars, stateVars, reconcileVars
<1>14. ASSUME NEW c \in Calls, Return(c) PROVE ArcKnown'
  BY <1>14 DEF Return, RestoreState, ClearSharedState, Innermost, callVars,
     stateVars, reconcileVars
<1>15. ASSUME NEW a \in Arcs, ReconcileTakes(a) PROVE ArcKnown'
  BY <1>15 DEF ReconcileTakes, callVars, stateVars, reconcileVars
<1>16. ASSUME NEW a \in Arcs, ReconcileReturns(a) PROVE ArcKnown'
  BY <1>16 DEF ReconcileReturns, callVars, stateVars, reconcileVars
<1>17. ASSUME PluginDown PROVE ArcKnown'
  BY <1>17 DEF PluginDown, callVars, stateVars, reconcileVars
<1>18. ASSUME PluginSide PROVE ArcKnown'
  BY <1>18 DEF PluginSide, callVars, stateVars, reconcileVars
<1>19. ASSUME SidecarEnds PROVE ArcKnown'
  BY <1>19 DEF SidecarEnds, callVars, stateVars, reconcileVars
<1>20. CASE UNCHANGED vars
  BY <1>20 DEF vars, callVars, stateVars, reconcileVars
<1> QED
  BY <1>1, <1>2, <1>3, <1>4, <1>5, <1>6, <1>7, <1>8, <1>9, <1>10, <1>11, <1>12,
     <1>13, <1>14, <1>15, <1>16, <1>17, <1>18, <1>19, <1>20
  DEF Next, Activation, Host, Sta, Future, Reconcile

\* SHARED_STATE changes only while nobody has the token, or by its owner.
LEMMA TokenAtSlotStep ==
  TypeOK /\ ArcKnown /\ TokenAtSlot /\ OneToken /\ [Next]_vars
    => TokenAtSlot'
<1> SUFFICES ASSUME TypeOK, ArcKnown, TokenAtSlot, OneToken, [Next]_vars
             PROVE  TokenAtSlot'
  OBVIOUS
<1> USE ConstantsAssumption DEF TypeOK, ArcKnown, TokenAtSlot, OneToken, OwnsConnection
<1>1. ASSUME ReuseState PROVE TokenAtSlot'
  BY <1>1 DEF ReuseState, callVars, stateVars, reconcileVars
<1>2. ASSUME NEW a \in Arcs, NEW p \in Pipes, ConnectState(a, p) PROVE TokenAtSlot'
  BY <1>2 DEF ConnectState, CacheState, UnusedArc, UnusedPipe, callVars, stateVars,
     reconcileVars
<1>3. ASSUME NEW a \in Arcs, FailState(a) PROVE TokenAtSlot'
  BY <1>3 DEF FailState, UnusedArc, callVars, stateVars, reconcileVars
<1>4. ASSUME NEW a \in Arcs, ReleaseObject(a) PROVE TokenAtSlot'
  BY <1>4 DEF ReleaseObject, callVars, stateVars, reconcileVars
<1>5. ASSUME NEW c \in Calls, NEW o \in Op, NEW a \in Arcs, EnterMethod(c, o, a)
      PROVE  TokenAtSlot'
  <2>1. CASE o = "dispatch"
    BY <1>5, <2>1 DEF EnterMethod, callVars, stateVars, reconcileVars
  <2>2. CASE o # "dispatch" /\ arcPipe[a] = None
    BY <1>5, <2>2 DEF EnterMethod, TakePipe, callVars, stateVars, reconcileVars
  <2>3. CASE o # "dispatch" /\ arcPipe[a] # None
    BY <1>5, <2>3 DEF EnterMethod, TakePipe, callVars, stateVars, reconcileVars
  <2> QED
    BY <2>1, <2>2, <2>3
<1>6. ASSUME NEW c \in Calls, VerifyUser(c) PROVE TokenAtSlot'
  BY <1>6 DEF VerifyUser, callVars, stateVars, reconcileVars
<1>7. ASSUME NEW c \in Calls, TakeVerified(c) PROVE TokenAtSlot'
  <2>1. CASE arcPipe[arc[c]] = None
    BY <1>7, <2>1 DEF TakeVerified, TakePipe, Innermost, callVars, stateVars,
       reconcileVars
  <2>2. CASE arcPipe[arc[c]] # None
    BY <1>7, <2>2 DEF TakeVerified, TakePipe, Innermost, callVars, stateVars,
       reconcileVars
  <2> QED
    BY <2>1, <2>2
<1>8. ASSUME NEW c \in Calls, SendRequest(c) PROVE TokenAtSlot'
  BY <1>8 DEF SendRequest, callVars, stateVars, reconcileVars
<1>9. ASSUME NEW c \in Calls, PluginExecutes(c) PROVE TokenAtSlot'
  BY <1>9 DEF PluginExecutes, callVars, stateVars, reconcileVars
<1>10. ASSUME NEW c \in Calls, ReceiveAnswer(c) PROVE TokenAtSlot'
  <2>1. AnswerEffect(c)
    BY <1>10, AnswerEnds
  <2> QED
    BY <2>1 DEF AnswerEffect, stateVars, reconcileVars
<1>11. ASSUME NEW c \in Calls, BreakCall(c) PROVE TokenAtSlot'
  <2>1. CASE GivesUp(c)
    BY <2>1 DEF GivesUp, Breaks, stateVars, reconcileVars
  <2>2. CASE FailsIo(c)
    BY <2>2 DEF FailsIo, Breaks, stateVars, reconcileVars
  <2> QED
    BY <1>11, <2>1, <2>2, BreakEnds
<1>12. ASSUME NEW c \in Calls, NEW p \in Pipes, Reconnect(c, p) PROVE TokenAtSlot'
  BY <1>12 DEF Reconnect, UnusedPipe, callVars, stateVars, reconcileVars
<1>13. ASSUME NEW c \in Calls, ReconnectFails(c) PROVE TokenAtSlot'
  BY <1>13 DEF ReconnectFails, callVars, stateVars, reconcileVars
<1>14. ASSUME NEW c \in Calls, Return(c) PROVE TokenAtSlot'
  BY <1>14 DEF Return, RestoreState, ClearSharedState, Innermost, callVars,
     stateVars, reconcileVars
<1>15. ASSUME NEW a \in Arcs, ReconcileTakes(a) PROVE TokenAtSlot'
  BY <1>15 DEF ReconcileTakes, callVars, stateVars, reconcileVars
<1>16. ASSUME NEW a \in Arcs, ReconcileReturns(a) PROVE TokenAtSlot'
  BY <1>16 DEF ReconcileReturns, callVars, stateVars, reconcileVars
<1>17. ASSUME PluginDown PROVE TokenAtSlot'
  BY <1>17 DEF PluginDown, callVars, stateVars, reconcileVars
<1>18. ASSUME PluginSide PROVE TokenAtSlot'
  BY <1>18 DEF PluginSide, callVars, stateVars, reconcileVars
<1>19. ASSUME SidecarEnds PROVE TokenAtSlot'
  BY <1>19 DEF SidecarEnds, callVars, stateVars, reconcileVars
<1>20. CASE UNCHANGED vars
  BY <1>20 DEF vars, callVars, stateVars, reconcileVars
<1> QED
  BY <1>1, <1>2, <1>3, <1>4, <1>5, <1>6, <1>7, <1>8, <1>9, <1>10, <1>11, <1>12,
     <1>13, <1>14, <1>15, <1>16, <1>17, <1>18, <1>19, <1>20
  DEF Next, Activation, Host, Sta, Future, Reconcile

\* The token moves; it is never copied.
LEMMA OneTokenStep ==
  TypeOK /\ ArcKnown /\ TokenAtSlot /\ OneToken /\ [Next]_vars
    => OneToken'
<1> SUFFICES ASSUME TypeOK, ArcKnown, TokenAtSlot, OneToken, [Next]_vars PROVE OneToken'
  OBVIOUS
<1> USE ConstantsAssumption DEF TypeOK, ArcKnown, TokenAtSlot, OneToken, OwnsConnection
<1>1. ASSUME ReuseState PROVE OneToken'
  BY <1>1 DEF ReuseState, callVars, stateVars, reconcileVars
<1>2. ASSUME NEW a \in Arcs, NEW p \in Pipes, ConnectState(a, p) PROVE OneToken'
  BY <1>2 DEF ConnectState, CacheState, UnusedArc, UnusedPipe, callVars, stateVars,
     reconcileVars
<1>3. ASSUME NEW a \in Arcs, FailState(a) PROVE OneToken'
  BY <1>3 DEF FailState, UnusedArc, callVars, stateVars, reconcileVars
<1>4. ASSUME NEW a \in Arcs, ReleaseObject(a) PROVE OneToken'
  BY <1>4 DEF ReleaseObject, callVars, stateVars, reconcileVars
<1>5. ASSUME NEW c \in Calls, NEW o \in Op, NEW a \in Arcs, EnterMethod(c, o, a)
      PROVE  OneToken'
  <2>1. pc[c] = "idle" /\ UNCHANGED rpipe
    BY <1>5 DEF EnterMethod, reconcileVars
  <2>2. CASE o = "dispatch" \/ arcPipe[a] = None
    <3>1. \A d \in Calls : OwnsConnection(d)' => OwnsConnection(d)
      BY <1>5, <2>2 DEF EnterMethod, TakePipe
    <3>2. UNCHANGED arcPipe
      BY <1>5, <2>2 DEF EnterMethod, TakePipe
    <3> HIDE DEF OwnsConnection
    <3> QED
      BY <2>1, <3>1, <3>2
  <2>3. CASE o # "dispatch" /\ arcPipe[a] # None
    <3>1. \A d \in Calls : OwnsConnection(d)' => d = c
      BY <1>5, <2>3 DEF EnterMethod, TakePipe
    <3>2. \A b \in Arcs : rpipe'[b] = None
      BY <2>1, <2>3
    <3>3. \A b \in Arcs : b # a => arcPipe[b] = None
      BY <2>3
    <3>4. arcPipe' = [arcPipe EXCEPT ![a] = None]
      BY <1>5, <2>3 DEF EnterMethod, TakePipe
    <3>5. \A b \in Arcs : arcPipe'[b] = None
      BY <3>3, <3>4
    <3> HIDE DEF OwnsConnection
    <3> QED
      BY <3>1, <3>2, <3>5
  <2> QED
    BY <2>2, <2>3
<1>6. ASSUME NEW c \in Calls, VerifyUser(c) PROVE OneToken'
  BY <1>6 DEF VerifyUser, callVars, stateVars, reconcileVars
<1>7. ASSUME NEW c \in Calls, TakeVerified(c) PROVE OneToken'
  <2>1. CASE arcPipe[arc[c]] = None
    BY <1>7, <2>1 DEF TakeVerified, TakePipe, Innermost, callVars, stateVars,
       reconcileVars
  <2>2. CASE arcPipe[arc[c]] # None
    BY <1>7, <2>2 DEF TakeVerified, TakePipe, Innermost, callVars, stateVars,
       reconcileVars
  <2> QED
    BY <2>1, <2>2
<1>8. ASSUME NEW c \in Calls, SendRequest(c) PROVE OneToken'
  BY <1>8 DEF SendRequest, callVars, stateVars, reconcileVars
<1>9. ASSUME NEW c \in Calls, PluginExecutes(c) PROVE OneToken'
  BY <1>9 DEF PluginExecutes, callVars, stateVars, reconcileVars
<1>10. ASSUME NEW c \in Calls, ReceiveAnswer(c) PROVE OneToken'
  <2>1. AnswerEffect(c)
    BY <1>10, AnswerEnds
  <2> QED
    BY <2>1 DEF AnswerEffect, stateVars, reconcileVars
<1>11. ASSUME NEW c \in Calls, BreakCall(c) PROVE OneToken'
  <2>1. CASE GivesUp(c)
    BY <2>1 DEF GivesUp, Breaks, stateVars, reconcileVars
  <2>2. CASE FailsIo(c)
    BY <2>2 DEF FailsIo, Breaks, stateVars, reconcileVars
  <2> QED
    BY <1>11, <2>1, <2>2, BreakEnds
<1>12. ASSUME NEW c \in Calls, NEW p \in Pipes, Reconnect(c, p) PROVE OneToken'
  BY <1>12 DEF Reconnect, UnusedPipe, callVars, stateVars, reconcileVars
<1>13. ASSUME NEW c \in Calls, ReconnectFails(c) PROVE OneToken'
  BY <1>13 DEF ReconnectFails, callVars, stateVars, reconcileVars
<1>14. ASSUME NEW c \in Calls, Return(c) PROVE OneToken'
  BY <1>14 DEF Return, RestoreState, ClearSharedState, Innermost, callVars,
     stateVars, reconcileVars
<1>15. ASSUME NEW a \in Arcs, ReconcileTakes(a) PROVE OneToken'
  BY <1>15 DEF ReconcileTakes, callVars, stateVars, reconcileVars
<1>16. ASSUME NEW a \in Arcs, ReconcileReturns(a) PROVE OneToken'
  BY <1>16 DEF ReconcileReturns, callVars, stateVars, reconcileVars
<1>17. ASSUME PluginDown PROVE OneToken'
  BY <1>17 DEF PluginDown, callVars, stateVars, reconcileVars
<1>18. ASSUME PluginSide PROVE OneToken'
  BY <1>18 DEF PluginSide, callVars, stateVars, reconcileVars
<1>19. ASSUME SidecarEnds PROVE OneToken'
  BY <1>19 DEF SidecarEnds, callVars, stateVars, reconcileVars
<1>20. CASE UNCHANGED vars
  BY <1>20 DEF vars, callVars, stateVars, reconcileVars
<1> QED
  BY <1>1, <1>2, <1>3, <1>4, <1>5, <1>6, <1>7, <1>8, <1>9, <1>10, <1>11, <1>12,
     <1>13, <1>14, <1>15, <1>16, <1>17, <1>18, <1>19, <1>20
  DEF Next, Activation, Host, Sta, Future, Reconcile

\* Nor is it lost while SHARED_STATE is set.
LEMMA SlotUsableStep ==
  TypeOK /\ ArcKnown /\ TokenAtSlot /\ OneToken /\ SlotUsable /\ [Next]_vars
    => SlotUsable'
<1> SUFFICES ASSUME TypeOK, ArcKnown, TokenAtSlot, OneToken, SlotUsable, [Next]_vars
             PROVE  SlotUsable'
  OBVIOUS
<1> USE ConstantsAssumption DEF TypeOK, ArcKnown, TokenAtSlot, OneToken, OwnsConnection, SlotUsable
<1>1. ASSUME ReuseState PROVE SlotUsable'
  BY <1>1 DEF ReuseState, callVars, stateVars, reconcileVars
<1>2. ASSUME NEW a \in Arcs, NEW p \in Pipes, ConnectState(a, p) PROVE SlotUsable'
  BY <1>2 DEF ConnectState, CacheState, UnusedArc, UnusedPipe, callVars, stateVars,
     reconcileVars
<1>3. ASSUME NEW a \in Arcs, FailState(a) PROVE SlotUsable'
  BY <1>3 DEF FailState, UnusedArc, callVars, stateVars, reconcileVars
<1>4. ASSUME NEW a \in Arcs, ReleaseObject(a) PROVE SlotUsable'
  BY <1>4 DEF ReleaseObject, callVars, stateVars, reconcileVars
<1>5. ASSUME NEW c \in Calls, NEW o \in Op, NEW a \in Arcs, EnterMethod(c, o, a)
      PROVE  SlotUsable'
  <2>1. pc[c] = "idle" /\ UNCHANGED <<slot, rpipe>>
    BY <1>5 DEF EnterMethod, reconcileVars
  <2>2. CASE o = "dispatch" \/ arcPipe[a] = None
    <3>1. \A d \in Calls : OwnsConnection(d) => OwnsConnection(d)' /\ arc'[d] = arc[d]
      BY <1>5, <2>1, <2>2 DEF EnterMethod, TakePipe
    <3>2. UNCHANGED arcPipe
      BY <1>5, <2>2 DEF EnterMethod, TakePipe
    <3> QED
      BY <2>1, <3>1, <3>2
  <2>3. CASE o # "dispatch" /\ arcPipe[a] # None
    BY <1>5, <2>3 DEF EnterMethod, TakePipe, callVars, stateVars, reconcileVars
  <2> QED
    BY <2>2, <2>3
<1>6. ASSUME NEW c \in Calls, VerifyUser(c) PROVE SlotUsable'
  BY <1>6 DEF VerifyUser, callVars, stateVars, reconcileVars
<1>7. ASSUME NEW c \in Calls, TakeVerified(c) PROVE SlotUsable'
  <2>1. CASE arcPipe[arc[c]] = None
    BY <1>7, <2>1 DEF TakeVerified, TakePipe, Innermost, callVars, stateVars,
       reconcileVars
  <2>2. CASE arcPipe[arc[c]] # None
    BY <1>7, <2>2 DEF TakeVerified, TakePipe, Innermost, callVars, stateVars,
       reconcileVars
  <2> QED
    BY <2>1, <2>2
<1>8. ASSUME NEW c \in Calls, SendRequest(c) PROVE SlotUsable'
  BY <1>8 DEF SendRequest, callVars, stateVars, reconcileVars
<1>9. ASSUME NEW c \in Calls, PluginExecutes(c) PROVE SlotUsable'
  BY <1>9 DEF PluginExecutes, callVars, stateVars, reconcileVars
<1>10. ASSUME NEW c \in Calls, ReceiveAnswer(c) PROVE SlotUsable'
  <2>1. AnswerEffect(c)
    BY <1>10, AnswerEnds
  <2> QED
    BY <2>1 DEF AnswerEffect, stateVars, reconcileVars
<1>11. ASSUME NEW c \in Calls, BreakCall(c) PROVE SlotUsable'
  <2>1. CASE GivesUp(c)
    BY <2>1 DEF GivesUp, Breaks, stateVars, reconcileVars
  <2>2. CASE FailsIo(c)
    BY <2>2 DEF FailsIo, Breaks, stateVars, reconcileVars
  <2> QED
    BY <1>11, <2>1, <2>2, BreakEnds
<1>12. ASSUME NEW c \in Calls, NEW p \in Pipes, Reconnect(c, p) PROVE SlotUsable'
  BY <1>12 DEF Reconnect, UnusedPipe, callVars, stateVars, reconcileVars
<1>13. ASSUME NEW c \in Calls, ReconnectFails(c) PROVE SlotUsable'
  BY <1>13 DEF ReconnectFails, callVars, stateVars, reconcileVars
<1>14. ASSUME NEW c \in Calls, Return(c) PROVE SlotUsable'
  BY <1>14 DEF Return, RestoreState, ClearSharedState, Innermost, callVars,
     stateVars, reconcileVars
<1>15. ASSUME NEW a \in Arcs, ReconcileTakes(a) PROVE SlotUsable'
  BY <1>15 DEF ReconcileTakes, callVars, stateVars, reconcileVars
<1>16. ASSUME NEW a \in Arcs, ReconcileReturns(a) PROVE SlotUsable'
  BY <1>16 DEF ReconcileReturns, callVars, stateVars, reconcileVars
<1>17. ASSUME PluginDown PROVE SlotUsable'
  BY <1>17 DEF PluginDown, callVars, stateVars, reconcileVars
<1>18. ASSUME PluginSide PROVE SlotUsable'
  BY <1>18 DEF PluginSide, callVars, stateVars, reconcileVars
<1>19. ASSUME SidecarEnds PROVE SlotUsable'
  BY <1>19 DEF SidecarEnds, callVars, stateVars, reconcileVars
<1>20. CASE UNCHANGED vars
  BY <1>20 DEF vars, callVars, stateVars, reconcileVars
<1> QED
  BY <1>1, <1>2, <1>3, <1>4, <1>5, <1>6, <1>7, <1>8, <1>9, <1>10, <1>11, <1>12,
     <1>13, <1>14, <1>15, <1>16, <1>17, <1>18, <1>19, <1>20
  DEF Next, Activation, Host, Sta, Future, Reconcile

\* A pipe is dropped only after it has lost its peer, or with a hang-up.
LEMMA ServedStep ==
  TypeOK /\ ArcKnown /\ TokenAtSlot /\ OneToken /\ ServedPipeHeld /\ [Next]_vars
    => ServedPipeHeld'
<1> SUFFICES ASSUME TypeOK, ArcKnown, TokenAtSlot, OneToken, ServedPipeHeld, [Next]_vars
             PROVE  ServedPipeHeld'
  OBVIOUS
<1> USE ConstantsAssumption DEF TypeOK, ArcKnown, TokenAtSlot, OneToken, OwnsConnection, ServedPipeHeld
<1>1. ASSUME ReuseState PROVE ServedPipeHeld'
  BY <1>1 DEF ReuseState, callVars, stateVars, reconcileVars
<1>2. ASSUME NEW a \in Arcs, NEW p \in Pipes, ConnectState(a, p) PROVE ServedPipeHeld'
  BY <1>2 DEF ConnectState, CacheState, UnusedArc, UnusedPipe, callVars, stateVars,
     reconcileVars
<1>3. ASSUME NEW a \in Arcs, FailState(a) PROVE ServedPipeHeld'
  BY <1>3 DEF FailState, UnusedArc, callVars, stateVars, reconcileVars
<1>4. ASSUME NEW a \in Arcs, ReleaseObject(a) PROVE ServedPipeHeld'
  BY <1>4 DEF ReleaseObject, callVars, stateVars, reconcileVars
<1>5. ASSUME NEW c \in Calls, NEW o \in Op, NEW a \in Arcs, EnterMethod(c, o, a)
      PROVE  ServedPipeHeld'
  <2>1. CASE o = "dispatch"
    BY <1>5, <2>1 DEF EnterMethod, callVars, stateVars, reconcileVars
  <2>2. CASE o # "dispatch" /\ arcPipe[a] = None
    BY <1>5, <2>2 DEF EnterMethod, TakePipe, callVars, stateVars, reconcileVars
  <2>3. CASE o # "dispatch" /\ arcPipe[a] # None
    BY <1>5, <2>3 DEF EnterMethod, TakePipe, callVars, stateVars, reconcileVars
  <2> QED
    BY <2>1, <2>2, <2>3
<1>6. ASSUME NEW c \in Calls, VerifyUser(c) PROVE ServedPipeHeld'
  BY <1>6 DEF VerifyUser, callVars, stateVars, reconcileVars
<1>7. ASSUME NEW c \in Calls, TakeVerified(c) PROVE ServedPipeHeld'
  <2>1. CASE arcPipe[arc[c]] = None
    BY <1>7, <2>1 DEF TakeVerified, TakePipe, Innermost, callVars, stateVars,
       reconcileVars
  <2>2. CASE arcPipe[arc[c]] # None
    BY <1>7, <2>2 DEF TakeVerified, TakePipe, Innermost, callVars, stateVars,
       reconcileVars
  <2> QED
    BY <2>1, <2>2
<1>8. ASSUME NEW c \in Calls, SendRequest(c) PROVE ServedPipeHeld'
  BY <1>8 DEF SendRequest, callVars, stateVars, reconcileVars
<1>9. ASSUME NEW c \in Calls, PluginExecutes(c) PROVE ServedPipeHeld'
  BY <1>9 DEF PluginExecutes, callVars, stateVars, reconcileVars
<1>10. ASSUME NEW c \in Calls, ReceiveAnswer(c) PROVE ServedPipeHeld'
  <2>1. AnswerEffect(c)
    BY <1>10, AnswerEnds
  <2> QED
    BY <2>1 DEF AnswerEffect, stateVars, reconcileVars
<1>11. ASSUME NEW c \in Calls, BreakCall(c) PROVE ServedPipeHeld'
  <2>1. CASE GivesUp(c)
    BY <2>1 DEF GivesUp, Breaks, stateVars, reconcileVars
  <2>2. CASE FailsIo(c)
    BY <2>2 DEF FailsIo, Breaks, stateVars, reconcileVars
  <2> QED
    BY <1>11, <2>1, <2>2, BreakEnds
<1>12. ASSUME NEW c \in Calls, NEW p \in Pipes, Reconnect(c, p) PROVE ServedPipeHeld'
  BY <1>12 DEF Reconnect, UnusedPipe, callVars, stateVars, reconcileVars
<1>13. ASSUME NEW c \in Calls, ReconnectFails(c) PROVE ServedPipeHeld'
  BY <1>13 DEF ReconnectFails, callVars, stateVars, reconcileVars
<1>14. ASSUME NEW c \in Calls, Return(c) PROVE ServedPipeHeld'
  BY <1>14 DEF Return, RestoreState, ClearSharedState, Innermost, callVars,
     stateVars, reconcileVars
<1>15. ASSUME NEW a \in Arcs, ReconcileTakes(a) PROVE ServedPipeHeld'
  BY <1>15 DEF ReconcileTakes, callVars, stateVars, reconcileVars
<1>16. ASSUME NEW a \in Arcs, ReconcileReturns(a) PROVE ServedPipeHeld'
  BY <1>16 DEF ReconcileReturns, callVars, stateVars, reconcileVars
<1>17. ASSUME PluginDown PROVE ServedPipeHeld'
  BY <1>17 DEF PluginDown, callVars, stateVars, reconcileVars
<1>18. ASSUME PluginSide PROVE ServedPipeHeld'
  BY <1>18 DEF PluginSide, callVars, stateVars, reconcileVars
<1>19. ASSUME SidecarEnds PROVE ServedPipeHeld'
  BY <1>19 DEF SidecarEnds, callVars, stateVars, reconcileVars
<1>20. CASE UNCHANGED vars
  BY <1>20 DEF vars, callVars, stateVars, reconcileVars
<1> QED
  BY <1>1, <1>2, <1>3, <1>4, <1>5, <1>6, <1>7, <1>8, <1>9, <1>10, <1>11, <1>12,
     <1>13, <1>14, <1>15, <1>16, <1>17, <1>18, <1>19, <1>20
  DEF Next, Activation, Host, Sta, Future, Reconcile

\* Only the plugin's end takes the peer away from a call.
LEMMA HurtStep ==
  TypeOK /\ ArcKnown /\ TokenAtSlot /\ OneToken /\ HurtKnown /\ [Next]_vars
    => HurtKnown'
<1> SUFFICES ASSUME TypeOK, ArcKnown, TokenAtSlot, OneToken, HurtKnown, [Next]_vars
             PROVE  HurtKnown'
  OBVIOUS
<1> USE ConstantsAssumption DEF TypeOK, ArcKnown, TokenAtSlot, OneToken, OwnsConnection, HurtKnown
<1>1. ASSUME ReuseState PROVE HurtKnown'
  BY <1>1 DEF ReuseState, callVars, stateVars, reconcileVars
<1>2. ASSUME NEW a \in Arcs, NEW p \in Pipes, ConnectState(a, p) PROVE HurtKnown'
  BY <1>2 DEF ConnectState, CacheState, UnusedArc, UnusedPipe, callVars, stateVars,
     reconcileVars
<1>3. ASSUME NEW a \in Arcs, FailState(a) PROVE HurtKnown'
  BY <1>3 DEF FailState, UnusedArc, callVars, stateVars, reconcileVars
<1>4. ASSUME NEW a \in Arcs, ReleaseObject(a) PROVE HurtKnown'
  BY <1>4 DEF ReleaseObject, callVars, stateVars, reconcileVars
<1>5. ASSUME NEW c \in Calls, NEW o \in Op, NEW a \in Arcs, EnterMethod(c, o, a)
      PROVE  HurtKnown'
  <2>1. CASE o = "dispatch"
    BY <1>5, <2>1 DEF EnterMethod, callVars, stateVars, reconcileVars
  <2>2. CASE o # "dispatch" /\ arcPipe[a] = None
    BY <1>5, <2>2 DEF EnterMethod, TakePipe, callVars, stateVars, reconcileVars
  <2>3. CASE o # "dispatch" /\ arcPipe[a] # None
    BY <1>5, <2>3 DEF EnterMethod, TakePipe, callVars, stateVars, reconcileVars
  <2> QED
    BY <2>1, <2>2, <2>3
<1>6. ASSUME NEW c \in Calls, VerifyUser(c) PROVE HurtKnown'
  BY <1>6 DEF VerifyUser, callVars, stateVars, reconcileVars
<1>7. ASSUME NEW c \in Calls, TakeVerified(c) PROVE HurtKnown'
  <2>1. CASE arcPipe[arc[c]] = None
    BY <1>7, <2>1 DEF TakeVerified, TakePipe, Innermost, callVars, stateVars,
       reconcileVars
  <2>2. CASE arcPipe[arc[c]] # None
    BY <1>7, <2>2 DEF TakeVerified, TakePipe, Innermost, callVars, stateVars,
       reconcileVars
  <2> QED
    BY <2>1, <2>2
<1>8. ASSUME NEW c \in Calls, SendRequest(c) PROVE HurtKnown'
  BY <1>8 DEF SendRequest, callVars, stateVars, reconcileVars
<1>9. ASSUME NEW c \in Calls, PluginExecutes(c) PROVE HurtKnown'
  BY <1>9 DEF PluginExecutes, callVars, stateVars, reconcileVars
<1>10. ASSUME NEW c \in Calls, ReceiveAnswer(c) PROVE HurtKnown'
  <2>1. AnswerEffect(c)
    BY <1>10, AnswerEnds
  <2> QED
    BY <2>1 DEF AnswerEffect, stateVars, reconcileVars
<1>11. ASSUME NEW c \in Calls, BreakCall(c) PROVE HurtKnown'
  <2>1. CASE GivesUp(c)
    BY <2>1 DEF GivesUp, Breaks, stateVars, reconcileVars
  <2>2. CASE FailsIo(c)
    BY <2>2 DEF FailsIo, Breaks, stateVars, reconcileVars
  <2> QED
    BY <1>11, <2>1, <2>2, BreakEnds
<1>12. ASSUME NEW c \in Calls, NEW p \in Pipes, Reconnect(c, p) PROVE HurtKnown'
  BY <1>12 DEF Reconnect, UnusedPipe, callVars, stateVars, reconcileVars
<1>13. ASSUME NEW c \in Calls, ReconnectFails(c) PROVE HurtKnown'
  BY <1>13 DEF ReconnectFails, callVars, stateVars, reconcileVars
<1>14. ASSUME NEW c \in Calls, Return(c) PROVE HurtKnown'
  BY <1>14 DEF Return, RestoreState, ClearSharedState, Innermost, callVars,
     stateVars, reconcileVars
<1>15. ASSUME NEW a \in Arcs, ReconcileTakes(a) PROVE HurtKnown'
  BY <1>15 DEF ReconcileTakes, callVars, stateVars, reconcileVars
<1>16. ASSUME NEW a \in Arcs, ReconcileReturns(a) PROVE HurtKnown'
  BY <1>16 DEF ReconcileReturns, callVars, stateVars, reconcileVars
<1>17. ASSUME PluginDown PROVE HurtKnown'
  BY <1>17 DEF PluginDown, callVars, stateVars, reconcileVars
<1>18. ASSUME PluginSide PROVE HurtKnown'
  BY <1>18 DEF PluginSide, callVars, stateVars, reconcileVars
<1>19. ASSUME SidecarEnds PROVE HurtKnown'
  BY <1>19 DEF SidecarEnds, callVars, stateVars, reconcileVars
<1>20. CASE UNCHANGED vars
  BY <1>20 DEF vars, callVars, stateVars, reconcileVars
<1> QED
  BY <1>1, <1>2, <1>3, <1>4, <1>5, <1>6, <1>7, <1>8, <1>9, <1>10, <1>11, <1>12,
     <1>13, <1>14, <1>15, <1>16, <1>17, <1>18, <1>19, <1>20
  DEF Next, Activation, Host, Sta, Future, Reconcile

\* A transport error that is not retried comes from a pipe that was alive.
LEMMA HealsStep ==
  TypeOK /\ HurtKnown /\ StalePipeHeals /\ [Next]_vars
    => StalePipeHeals'
<1> SUFFICES ASSUME TypeOK, HurtKnown, StalePipeHeals, [Next]_vars PROVE StalePipeHeals'
  OBVIOUS
<1> USE ConstantsAssumption DEF TypeOK, HurtKnown, StalePipeHeals, Op, Result
<1>1. ASSUME ReuseState PROVE StalePipeHeals'
  BY <1>1 DEF ReuseState, callVars, stateVars, reconcileVars
<1>2. ASSUME NEW a \in Arcs, NEW p \in Pipes, ConnectState(a, p) PROVE StalePipeHeals'
  BY <1>2 DEF ConnectState, CacheState, UnusedArc, UnusedPipe, callVars, stateVars,
     reconcileVars
<1>3. ASSUME NEW a \in Arcs, FailState(a) PROVE StalePipeHeals'
  BY <1>3 DEF FailState, UnusedArc, callVars, stateVars, reconcileVars
<1>4. ASSUME NEW a \in Arcs, ReleaseObject(a) PROVE StalePipeHeals'
  BY <1>4 DEF ReleaseObject, callVars, stateVars, reconcileVars
<1>5. ASSUME NEW c \in Calls, NEW o \in Op, NEW a \in Arcs, EnterMethod(c, o, a)
      PROVE  StalePipeHeals'
  <2>1. CASE o = "dispatch"
    BY <1>5, <2>1 DEF EnterMethod, callVars, stateVars, reconcileVars
  <2>2. CASE o # "dispatch" /\ arcPipe[a] = None
    BY <1>5, <2>2 DEF EnterMethod, TakePipe, callVars, stateVars, reconcileVars
  <2>3. CASE o # "dispatch" /\ arcPipe[a] # None
    BY <1>5, <2>3 DEF EnterMethod, TakePipe, callVars, stateVars, reconcileVars
  <2> QED
    BY <2>1, <2>2, <2>3
<1>6. ASSUME NEW c \in Calls, VerifyUser(c) PROVE StalePipeHeals'
  BY <1>6 DEF VerifyUser, callVars, stateVars, reconcileVars
<1>7. ASSUME NEW c \in Calls, TakeVerified(c) PROVE StalePipeHeals'
  <2>1. CASE arcPipe[arc[c]] = None
    BY <1>7, <2>1 DEF TakeVerified, TakePipe, Innermost, callVars, stateVars,
       reconcileVars
  <2>2. CASE arcPipe[arc[c]] # None
    BY <1>7, <2>2 DEF TakeVerified, TakePipe, Innermost, callVars, stateVars,
       reconcileVars
  <2> QED
    BY <2>1, <2>2
<1>8. ASSUME NEW c \in Calls, SendRequest(c) PROVE StalePipeHeals'
  BY <1>8 DEF SendRequest, callVars, stateVars, reconcileVars
<1>9. ASSUME NEW c \in Calls, PluginExecutes(c) PROVE StalePipeHeals'
  BY <1>9 DEF PluginExecutes, callVars, stateVars, reconcileVars
<1>10. ASSUME NEW c \in Calls, ReceiveAnswer(c) PROVE StalePipeHeals'
  <2>1. AnswerEffect(c)
    BY <1>10, AnswerEnds
  <2> QED
    BY <2>1 DEF AnswerEffect, stateVars, reconcileVars
<1>11. ASSUME NEW c \in Calls, BreakCall(c) PROVE StalePipeHeals'
  <2>1. CASE GivesUp(c)
    BY <2>1 DEF GivesUp, Breaks, stateVars, reconcileVars
  <2>2. CASE FailsIo(c)
    <3>1. \/ pc[c] \in {"sent", "ran"}
          \/ pc[c] = "writing" /\ retried[c]
      BY <2>2 DEF FailsIo, Breaks
    <3>2. held[c] # server /\ UNCHANGED hurt
      BY <2>2 DEF FailsIo, Breaks
    <3>3. hurt[c]
      BY <3>1, <3>2
    <3> QED
      BY <2>2, <3>2, <3>3 DEF FailsIo, Breaks
  <2> QED
    BY <1>11, <2>1, <2>2, BreakEnds
<1>12. ASSUME NEW c \in Calls, NEW p \in Pipes, Reconnect(c, p) PROVE StalePipeHeals'
  BY <1>12 DEF Reconnect, UnusedPipe, callVars, stateVars, reconcileVars
<1>13. ASSUME NEW c \in Calls, ReconnectFails(c) PROVE StalePipeHeals'
  BY <1>13 DEF ReconnectFails, callVars, stateVars, reconcileVars
<1>14. ASSUME NEW c \in Calls, Return(c) PROVE StalePipeHeals'
  BY <1>14 DEF Return, RestoreState, ClearSharedState, Innermost, callVars,
     stateVars, reconcileVars
<1>15. ASSUME NEW a \in Arcs, ReconcileTakes(a) PROVE StalePipeHeals'
  BY <1>15 DEF ReconcileTakes, callVars, stateVars, reconcileVars
<1>16. ASSUME NEW a \in Arcs, ReconcileReturns(a) PROVE StalePipeHeals'
  BY <1>16 DEF ReconcileReturns, callVars, stateVars, reconcileVars
<1>17. ASSUME PluginDown PROVE StalePipeHeals'
  BY <1>17 DEF PluginDown, callVars, stateVars, reconcileVars
<1>18. ASSUME PluginSide PROVE StalePipeHeals'
  BY <1>18 DEF PluginSide, callVars, stateVars, reconcileVars
<1>19. ASSUME SidecarEnds PROVE StalePipeHeals'
  BY <1>19 DEF SidecarEnds, callVars, stateVars, reconcileVars
<1>20. CASE UNCHANGED vars
  BY <1>20 DEF vars, callVars, stateVars, reconcileVars
<1> QED
  BY <1>1, <1>2, <1>3, <1>4, <1>5, <1>6, <1>7, <1>8, <1>9, <1>10, <1>11, <1>12,
     <1>13, <1>14, <1>15, <1>16, <1>17, <1>18, <1>19, <1>20
  DEF Next, Activation, Host, Sta, Future, Reconcile

\* A retry leaves the life of the plugin that has executed the request.
LEMMA RanStep ==
  TypeOK /\ ArcKnown /\ TokenAtSlot /\ OneToken /\ RanKnown /\ [Next]_vars
    => RanKnown'
<1> SUFFICES ASSUME TypeOK, ArcKnown, TokenAtSlot, OneToken, RanKnown, [Next]_vars
             PROVE  RanKnown'
  OBVIOUS
<1> USE ConstantsAssumption DEF TypeOK, ArcKnown, TokenAtSlot, OneToken, OwnsConnection, RanKnown
<1>1. ASSUME ReuseState PROVE RanKnown'
  BY <1>1 DEF ReuseState, callVars, stateVars, reconcileVars
<1>2. ASSUME NEW a \in Arcs, NEW p \in Pipes, ConnectState(a, p) PROVE RanKnown'
  BY <1>2 DEF ConnectState, CacheState, UnusedArc, UnusedPipe, callVars, stateVars,
     reconcileVars
<1>3. ASSUME NEW a \in Arcs, FailState(a) PROVE RanKnown'
  BY <1>3 DEF FailState, UnusedArc, callVars, stateVars, reconcileVars
<1>4. ASSUME NEW a \in Arcs, ReleaseObject(a) PROVE RanKnown'
  BY <1>4 DEF ReleaseObject, callVars, stateVars, reconcileVars
<1>5. ASSUME NEW c \in Calls, NEW o \in Op, NEW a \in Arcs, EnterMethod(c, o, a)
      PROVE  RanKnown'
  <2>1. CASE o = "dispatch"
    BY <1>5, <2>1 DEF EnterMethod, callVars, stateVars, reconcileVars
  <2>2. CASE o # "dispatch" /\ arcPipe[a] = None
    BY <1>5, <2>2 DEF EnterMethod, TakePipe, callVars, stateVars, reconcileVars
  <2>3. CASE o # "dispatch" /\ arcPipe[a] # None
    BY <1>5, <2>3 DEF EnterMethod, TakePipe, callVars, stateVars, reconcileVars
  <2> QED
    BY <2>1, <2>2, <2>3
<1>6. ASSUME NEW c \in Calls, VerifyUser(c) PROVE RanKnown'
  BY <1>6 DEF VerifyUser, callVars, stateVars, reconcileVars
<1>7. ASSUME NEW c \in Calls, TakeVerified(c) PROVE RanKnown'
  <2>1. CASE arcPipe[arc[c]] = None
    BY <1>7, <2>1 DEF TakeVerified, TakePipe, Innermost, callVars, stateVars,
       reconcileVars
  <2>2. CASE arcPipe[arc[c]] # None
    BY <1>7, <2>2 DEF TakeVerified, TakePipe, Innermost, callVars, stateVars,
       reconcileVars
  <2> QED
    BY <2>1, <2>2
<1>8. ASSUME NEW c \in Calls, SendRequest(c) PROVE RanKnown'
  BY <1>8 DEF SendRequest, callVars, stateVars, reconcileVars
<1>9. ASSUME NEW c \in Calls, PluginExecutes(c) PROVE RanKnown'
  BY <1>9 DEF PluginExecutes, callVars, stateVars, reconcileVars
<1>10. ASSUME NEW c \in Calls, ReceiveAnswer(c) PROVE RanKnown'
  <2>1. AnswerEffect(c)
    BY <1>10, AnswerEnds
  <2> QED
    BY <2>1 DEF AnswerEffect, stateVars, reconcileVars
<1>11. ASSUME NEW c \in Calls, BreakCall(c) PROVE RanKnown'
  <2>1. CASE GivesUp(c)
    BY <2>1 DEF GivesUp, Breaks, stateVars, reconcileVars
  <2>2. CASE FailsIo(c)
    BY <2>2 DEF FailsIo, Breaks, stateVars, reconcileVars
  <2> QED
    BY <1>11, <2>1, <2>2, BreakEnds
<1>12. ASSUME NEW c \in Calls, NEW p \in Pipes, Reconnect(c, p) PROVE RanKnown'
  BY <1>12 DEF Reconnect, UnusedPipe, callVars, stateVars, reconcileVars
<1>13. ASSUME NEW c \in Calls, ReconnectFails(c) PROVE RanKnown'
  BY <1>13 DEF ReconnectFails, callVars, stateVars, reconcileVars
<1>14. ASSUME NEW c \in Calls, Return(c) PROVE RanKnown'
  BY <1>14 DEF Return, RestoreState, ClearSharedState, Innermost, callVars,
     stateVars, reconcileVars
<1>15. ASSUME NEW a \in Arcs, ReconcileTakes(a) PROVE RanKnown'
  BY <1>15 DEF ReconcileTakes, callVars, stateVars, reconcileVars
<1>16. ASSUME NEW a \in Arcs, ReconcileReturns(a) PROVE RanKnown'
  BY <1>16 DEF ReconcileReturns, callVars, stateVars, reconcileVars
<1>17. ASSUME PluginDown PROVE RanKnown'
  BY <1>17 DEF PluginDown, callVars, stateVars, reconcileVars
<1>18. ASSUME PluginSide PROVE RanKnown'
  BY <1>18 DEF PluginSide, callVars, stateVars, reconcileVars
<1>19. ASSUME SidecarEnds PROVE RanKnown'
  BY <1>19 DEF SidecarEnds, callVars, stateVars, reconcileVars
<1>20. CASE UNCHANGED vars
  BY <1>20 DEF vars, callVars, stateVars, reconcileVars
<1> QED
  BY <1>1, <1>2, <1>3, <1>4, <1>5, <1>6, <1>7, <1>8, <1>9, <1>10, <1>11, <1>12,
     <1>13, <1>14, <1>15, <1>16, <1>17, <1>18, <1>19, <1>20
  DEF Next, Activation, Host, Sta, Future, Reconcile

----------------------------------------------------------------------------
(* The invariant and what follows from it.                                 *)

LEMMA InvInit == Init => IInv
  BY ConstantsAssumption
  DEF Init, IInv, TypeOK, Op, CallState, Result, ReconcileState, ArcKnown, TokenAtSlot,
      OneToken, OwnsConnection, SlotUsable, ServedPipeHeld, HurtKnown, StalePipeHeals,
      RanKnown

LEMMA InvStep == IInv /\ [Next]_vars => IInv'
  BY TypeStep, ArcKnownStep, TokenAtSlotStep, OneTokenStep, SlotUsableStep, ServedStep,
     HurtStep, HealsStep, RanStep
  DEF IInv

LEMMA Invariance == Spec => []IInv
  BY InvInit, InvStep, PTL DEF Spec

\* Every variable keeps its type, and the pipe a call's future owns goes with the
\* call's position in take_call_with_retry.
THEOREM TypeCorrect == Spec => []TypeOK
<1>1. IInv => TypeOK
  BY DEF IInv
<1> QED
  BY <1>1, Invariance, PTL

\* SHARED_STATE: the process never has two connections to the plugin, however deep
\* the calls nest and whatever activations and reconcile tasks do meanwhile.
THEOREM SingleConnection == Spec => []OneConnection
<1>1. IInv => OneConnection
  <2> SUFFICES ASSUME IInv, NEW x \in PipesOpen, NEW y \in PipesOpen PROVE x = y
    BY DEF OneConnection
  <2>1. \A c \in Calls : held[c] # None => OwnsConnection(c)
    BY DEF IInv, TypeOK, OwnsConnection
  <2>2. \A a, b \in Arcs :
          /\ arcPipe[a] # None /\ arcPipe[b] # None => a = b
          /\ rpipe[a] # None /\ rpipe[b] # None => a = b
          /\ arcPipe[a] # None => rpipe[b] = None
    BY DEF IInv, TokenAtSlot, OneToken
  <2>3. \A c, d \in Calls : held[c] # None /\ held[d] # None => c = d
    BY <2>1 DEF IInv, OneToken
  <2>4. \A a \in Arcs, c \in Calls : held[c] # None => arcPipe[a] = None /\ rpipe[a] = None
    BY <2>1 DEF IInv, OneToken
  <2>5. \A z \in PipesOpen :
          \/ \E a \in Arcs : z = <<"state", a>> /\ arcPipe[a] # None
          \/ \E c \in Calls : z = <<"call", c>> /\ held[c] # None
          \/ \E a \in Arcs : z = <<"reconcile", a>> /\ rpipe[a] # None
    BY DEF PipesOpen
  <2>6. CASE \E a \in Arcs : x = <<"state", a>> /\ arcPipe[a] # None
    <3> PICK a \in Arcs : x = <<"state", a>> /\ arcPipe[a] # None
      BY <2>6
    <3>1. /\ \A b \in Arcs : rpipe[b] = None
          /\ \A c \in Calls : held[c] = None
      BY <2>2, <2>4
    <3> PICK b \in Arcs : y = <<"state", b>> /\ arcPipe[b] # None
      BY <2>5, <3>1
    <3> QED
      BY <2>2
  <2>7. CASE \E c \in Calls : x = <<"call", c>> /\ held[c] # None
    BY <2>3, <2>4, <2>5, <2>7
  <2>8. CASE \E a \in Arcs : x = <<"reconcile", a>> /\ rpipe[a] # None
    <3> PICK a \in Arcs : x = <<"reconcile", a>> /\ rpipe[a] # None
      BY <2>8
    <3>1. /\ \A b \in Arcs : arcPipe[b] = None
          /\ \A c \in Calls : held[c] = None
      BY <2>2, <2>4
    <3> PICK b \in Arcs : y = <<"reconcile", b>> /\ rpipe[b] # None
      BY <2>5, <3>1
    <3> QED
      BY <2>2
  <2> QED
    BY <2>5, <2>6, <2>7, <2>8
<1> QED
  BY <1>1, Invariance, PTL

\* clear_slot: SHARED_STATE never holds a state whose pipe is gone for good.
THEOREM CachedStateUsable == Spec => []SlotUsable
<1>1. IInv => SlotUsable
  BY DEF IInv
<1> QED
  BY <1>1, Invariance, PTL

\* SHARED_STATE: an activation or a retry that connects never competes with a
\* connection of its own process for the plugin's only pipe instance.
THEOREM NoSelfCompetition == Spec => []NeverBusyWithItself
<1>1. IInv => NeverBusyWithItself
  <2> SUFFICES ASSUME IInv,
                      slot = None \/ \E c \in Calls : pc[c] = "reconnecting",
                      server \in Pipes
               PROVE  FALSE
    BY DEF NeverBusyWithItself
  <2>1. \A c \in Calls : held[c] # None => OwnsConnection(c) /\ pc[c] # "reconnecting"
    BY DEF IInv, TypeOK, OwnsConnection
  <2>2. server # None
    BY ConstantsAssumption
  <2>3. /\ \A a \in Arcs : arcPipe[a] = None /\ rpipe[a] = None
        /\ \A c \in Calls : held[c] = None
    <3>1. CASE slot = None
      BY <2>1, <3>1, ConstantsAssumption DEF IInv, TokenAtSlot
    <3>2. ASSUME NEW d \in Calls, pc[d] = "reconnecting"
          PROVE  /\ \A a \in Arcs : arcPipe[a] = None /\ rpipe[a] = None
                 /\ \A c \in Calls : held[c] = None
      <4>1. OwnsConnection(d)
        BY <3>2 DEF OwnsConnection
      <4>2. \A c \in Calls : OwnsConnection(c) => c = d
        BY <4>1 DEF IInv, OneToken
      <4> QED
        BY <2>1, <3>2, <4>1, <4>2 DEF IInv, OneToken
    <3> QED
      BY <3>1, <3>2
  <2> QED
    BY <2>2, <2>3 DEF IInv, ServedPipeHeld
<1> QED
  BY <1>1, Invariance, PTL

\* take_call_with_retry: a pipe that was stale when the call began never makes the
\* call fail with a transport error.
THEOREM StalePipesHeal == Spec => []StalePipeHeals
<1>1. IInv => StalePipeHeals
  BY DEF IInv
<1> QED
  BY <1>1, Invariance, PTL

\* take_call_with_retry: no plugin process ever executes one request twice.
THEOREM NoReplayInOneLife == Spec => []ReplayedOnlyAfterRestart
<1>1. IInv => ReplayedOnlyAfterRestart
  <2> SUFFICES ASSUME IInv, NEW c \in Calls PROVE ran[c] <= 1
    BY DEF ReplayedOnlyAfterRestart
  <2>1. ran[c] = 0 \/ ran[c] = 1
    BY DEF IInv, RanKnown
  <2> QED
    BY <2>1
<1> QED
  BY <1>1, Invariance, PTL

----------------------------------------------------------------------------
(* The stack and the work that is left.                                    *)

\* Only a call that is retried reconnects.
ReconnectsRetried == \A c \in Calls : pc[c] = "reconnecting" => retried[c]

\* Every step keeps a call's second attempt marked as such.
LEMMA RetriedStep == TypeOK /\ ReconnectsRetried /\ [Next]_vars => ReconnectsRetried'
<1> SUFFICES ASSUME TypeOK, ReconnectsRetried, [Next]_vars PROVE ReconnectsRetried'
  OBVIOUS
<1> USE DEF ReconnectsRetried
<1>1. TypeOK => pc \in [Calls -> CallState] /\ retried \in [Calls -> BOOLEAN]
  BY DEF TypeOK
<1>2. ASSUME NEW c \in Calls, VerifyUser(c) PROVE ReconnectsRetried'
  BY <1>1, <1>2 DEF VerifyUser
<1>3. ASSUME NEW c \in Calls, TakeVerified(c) PROVE ReconnectsRetried'
  BY <1>1, <1>3 DEF TakeVerified, TakePipe
<1>4. ASSUME NEW c \in Calls, SendRequest(c) PROVE ReconnectsRetried'
  BY <1>1, <1>4 DEF SendRequest
<1>5. ASSUME NEW c \in Calls, PluginExecutes(c) PROVE ReconnectsRetried'
  BY <1>1, <1>5 DEF PluginExecutes
<1>6. ASSUME NEW c \in Calls, ReceiveAnswer(c) PROVE ReconnectsRetried'
  BY <1>1, <1>6, AnswerEnds DEF AnswerEffect
<1>7. ASSUME NEW c \in Calls, BreakCall(c) PROVE ReconnectsRetried'
  BY <1>1, <1>7, BreakEnds DEF GivesUp, FailsIo
<1>8. ASSUME NEW c \in Calls, NEW p \in Pipes, Reconnect(c, p) PROVE ReconnectsRetried'
  BY <1>1, <1>8 DEF Reconnect
<1>9. ASSUME NEW c \in Calls, ReconnectFails(c) PROVE ReconnectsRetried'
  BY <1>1, <1>9 DEF ReconnectFails
<1>10. ASSUME NEW c \in Calls, Return(c) PROVE ReconnectsRetried'
  BY <1>1, <1>10 DEF Return
<1>11. ASSUME NEW c \in Calls, NEW o \in Op, NEW a \in Arcs, EnterMethod(c, o, a)
       PROVE  ReconnectsRetried'
  BY <1>1, <1>11 DEF EnterMethod, TakePipe
<1>12. CASE SidecarEnds
  BY <1>12 DEF SidecarEnds
<1>13. CASE UNCHANGED <<pc, retried>>
  BY <1>13
<1>14. \/ Activation \/ (\E a \in Arcs : Reconcile(a)) \/ PluginDown \/ PluginSide
       \/ UNCHANGED vars
       => UNCHANGED <<pc, retried>>
  BY DEF Activation, ReuseState, FailState, ReleaseObject, ConnectState, Reconcile,
     ReconcileTakes, ReconcileReturns, PluginDown, PluginSide, vars, callVars
<1> QED
  BY <1>2, <1>3, <1>4, <1>5, <1>6, <1>7, <1>8, <1>9, <1>10, <1>11, <1>12, <1>13, <1>14
  DEF Next, Host, Sta, Future

\* A step that starts and ends no call keeps the stack.
LEMMA StackKept ==
  ASSUME StackIsCalls, order' = order, \A c \in Calls : pc'[c] = "idle" <=> pc[c] = "idle"
  PROVE  StackIsCalls'
  BY DEF StackIsCalls

\* A call that starts goes on top of the stack, and the one that returns is the topmost.
LEMMA StackStep == TypeOK /\ StackIsCalls /\ [Next]_vars => StackIsCalls'
<1> SUFFICES ASSUME TypeOK, StackIsCalls, [Next]_vars PROVE StackIsCalls'
  OBVIOUS
<1>1. pc \in [Calls -> CallState] /\ order \in Seq(Calls)
  BY DEF TypeOK
<1>2. ASSUME NEW c \in Calls, VerifyUser(c) PROVE StackIsCalls'
  BY <1>1, <1>2, StackKept DEF VerifyUser
<1>3. ASSUME NEW c \in Calls, TakeVerified(c) PROVE StackIsCalls'
  BY <1>1, <1>3, StackKept DEF TakeVerified, TakePipe
<1>4. ASSUME NEW c \in Calls, SendRequest(c) PROVE StackIsCalls'
  BY <1>1, <1>4, StackKept DEF SendRequest
<1>5. ASSUME NEW c \in Calls, PluginExecutes(c) PROVE StackIsCalls'
  BY <1>1, <1>5, StackKept DEF PluginExecutes
<1>6. ASSUME NEW c \in Calls, ReceiveAnswer(c) PROVE StackIsCalls'
  BY <1>1, <1>6, StackKept, AnswerEnds DEF AnswerEffect
<1>7. ASSUME NEW c \in Calls, BreakCall(c) PROVE StackIsCalls'
  BY <1>1, <1>7, StackKept, BreakEnds DEF GivesUp, FailsIo, Breaks
<1>8. ASSUME NEW c \in Calls, NEW p \in Pipes, Reconnect(c, p) PROVE StackIsCalls'
  BY <1>1, <1>8, StackKept DEF Reconnect
<1>9. ASSUME NEW c \in Calls, ReconnectFails(c) PROVE StackIsCalls'
  BY <1>1, <1>9, StackKept DEF ReconnectFails
<1>10. ASSUME NEW c \in Calls, Return(c) PROVE StackIsCalls'
  <2>1. /\ order # <<>> /\ order[Len(order)] = c
        /\ order' = SubSeq(order, 1, Len(order) - 1)
        /\ pc' = [pc EXCEPT ![c] = "idle"]
    BY <1>10 DEF Return, Innermost
  <2>2. /\ Len(order) \in Nat /\ Len(order) > 0 /\ Len(order') = Len(order) - 1
        /\ \A i \in 1..Len(order') : order'[i] = order[i]
    <3> DEFINE n == Len(order) - 1
    <3>1. n \in Nat /\ n < Len(order) /\ Len(order) \in Nat
      BY <1>1, <2>1
    <3>2. 1 \in 1..(Len(order) + 1) /\ n \in (1 - 1)..Len(order)
      BY <3>1
    <3>3. /\ Len(order') = IF 1 <= n THEN n - 1 + 1 ELSE 0
          /\ \A i \in 1..(n - 1 + 1) : order'[i] = order[1 + i - 1]
      BY <1>1, <2>1, <3>2, SubSeqProperties
    <3> HIDE DEF n
    <3>4. Len(order') = n
      BY <3>1, <3>3
    <3>5. ASSUME NEW i \in 1..n PROVE order'[i] = order[i]
      <4>1. i \in 1..(n - 1 + 1) /\ 1 + i - 1 = i
        BY <3>1
      <4> QED BY <3>3, <4>1
    <3> QED BY <3>1, <3>4, <3>5 DEF n
  <2>3. \A i \in 1..Len(order') : order[i] # c
    BY <2>1, <2>2 DEF StackIsCalls
  <2>4. \A d \in Calls : d # c =>
          ((\E i \in 1..Len(order) : order[i] = d) <=> (\E i \in 1..Len(order') : order'[i] = d))
    BY <2>1, <2>2
  <2>5. ASSUME NEW d \in Calls PROVE pc'[d] # "idle" <=> \E i \in 1..Len(order') : order'[i] = d
    <3>1. CASE d = c
      <4>1. pc'[d] = "idle"
        BY <1>1, <2>1, <3>1
      <4>2. ~\E i \in 1..Len(order') : order'[i] = d
        BY <2>2, <2>3, <3>1
      <4> QED BY <4>1, <4>2
    <3>2. CASE d # c
      BY <2>1, <2>4, <3>2 DEF StackIsCalls
    <3> QED BY <3>1, <3>2
  <2>6. \A i, j \in 1..Len(order') : order'[i] = order'[j] => i = j
    <3>1. \A i \in 1..Len(order') : i \in 1..Len(order)
      BY <2>2
    <3> QED BY <2>2, <3>1 DEF StackIsCalls
  <2> QED BY <2>5, <2>6 DEF StackIsCalls
<1>11. ASSUME NEW c \in Calls, NEW o \in Op, NEW a \in Arcs, EnterMethod(c, o, a)
       PROVE  StackIsCalls'
  <2>1. /\ pc[c] = "idle" /\ order' = Append(order, c)
        /\ \E next \in {"uv", "done", "writing"} : pc' = [pc EXCEPT ![c] = next]
    BY <1>11 DEF EnterMethod, TakePipe
  <2>2. /\ Len(order) \in Nat /\ Len(order') = Len(order) + 1 /\ order'[Len(order')] = c
        /\ \A i \in 1..Len(order) : order'[i] = order[i]
    BY <1>1, <2>1
  <2>3. \A i \in 1..Len(order) : order[i] # c
    BY <2>1 DEF StackIsCalls
  <2>4. \A d \in Calls : d # c =>
          ((\E i \in 1..Len(order) : order[i] = d) <=> (\E i \in 1..Len(order') : order'[i] = d))
    BY <2>2
  <2>5. pc'[c] # "idle" /\ \A d \in Calls : d # c => pc'[d] = pc[d]
    BY <1>1, <2>1
  <2>6. \A i, j \in 1..Len(order') : order'[i] = order'[j] => i = j
    BY <2>2, <2>3 DEF StackIsCalls
  <2>7. \E i \in 1..Len(order') : order'[i] = c
    BY <2>2
  <2> QED BY <2>4, <2>5, <2>6, <2>7 DEF StackIsCalls
<1>12. CASE SidecarEnds
  BY <1>12 DEF SidecarEnds, StackIsCalls
<1>13. CASE UNCHANGED <<pc, order>>
  BY <1>13, StackKept
<1>14. \/ Activation \/ (\E a \in Arcs : Reconcile(a)) \/ PluginDown \/ PluginSide
       \/ UNCHANGED vars
       => UNCHANGED <<pc, order>>
  BY DEF Activation, ReuseState, FailState, ReleaseObject, ConnectState, Reconcile,
     ReconcileTakes, ReconcileReturns, PluginDown, PluginSide, vars, callVars
<1> QED
  BY <1>2, <1>3, <1>4, <1>5, <1>6, <1>7, <1>8, <1>9, <1>10, <1>11, <1>12, <1>13, <1>14
  DEF Next, Host, Sta, Future

\* CoWaitForMultipleHandles: every call under way is on the STA thread's stack, once, however
\* deep the host nests them.
THEOREM CallsStacked == Spec => []StackIsCalls
<1>1. Init => StackIsCalls
  BY DEF Init, StackIsCalls
<1> QED
  BY <1>1, StackStep, TypeCorrect, PTL DEF Spec

\* A step takes call c from one state to a later one, and no other call anywhere.
Advances(c) ==
  /\ StepsLeft(c)' < StepsLeft(c)
  /\ \A d \in Calls : d # c => pc'[d] = pc[d] /\ retried'[d] = retried[d]

\* Each step of a call's own is an advance.
LEMMA OwnStepAdvances ==
  ASSUME TypeOK, HurtKnown, ReconnectsRetried, NEW c \in Calls,
         VerifyUser(c) \/ Sta(c) \/ Future(c)
  PROVE  Advances(c)
<1> USE DEF Advances, StepsLeft
<1>1. pc \in [Calls -> CallState] /\ retried \in [Calls -> BOOLEAN]
  BY DEF TypeOK
<1>2. CASE VerifyUser(c)
  BY <1>1, <1>2 DEF VerifyUser
<1>3. CASE TakeVerified(c)
  BY <1>1, <1>3 DEF TakeVerified, TakePipe, HurtKnown
<1>4. CASE SendRequest(c)
  BY <1>1, <1>4 DEF SendRequest
<1>5. CASE PluginExecutes(c)
  BY <1>1, <1>5 DEF PluginExecutes
<1>6. CASE ReceiveAnswer(c)
  BY <1>1, <1>6, AnswerEnds DEF AnswerEffect
<1>7. CASE BreakCall(c)
  BY <1>1, <1>7, BreakEnds DEF GivesUp, FailsIo, Breaks
<1>8. ASSUME NEW p \in Pipes, Reconnect(c, p) PROVE Advances(c)
  BY <1>1, <1>8 DEF Reconnect, ReconnectsRetried
<1>9. CASE ReconnectFails(c)
  BY <1>1, <1>9 DEF ReconnectFails
<1>10. CASE Return(c)
  BY <1>1, <1>10 DEF Return
<1> QED
  BY <1>2, <1>3, <1>4, <1>5, <1>6, <1>7, <1>8, <1>9, <1>10 DEF Sta, Future

\* What is left to do for a call never is a negative number of steps.
LEMMA StepsLeftType ==
  ASSUME TypeOK, NEW c \in Calls
  PROVE  StepsLeft(c) \in Nat
<1>1. pc[c] \in CallState /\ retried[c] \in BOOLEAN
  BY DEF TypeOK
<1> QED BY <1>1 DEF StepsLeft, CallState

\* Every step that is no call's own leaves the calls under way where they are, or ends all.
LEMMA OtherStepsKeep ==
  ASSUME TypeOK, [Next]_vars,
         ~ \E c \in Calls : VerifyUser(c) \/ Sta(c) \/ Future(c)
  PROVE  \A d \in Calls : pc[d] # "idle" =>
           \/ pc'[d] = pc[d] /\ retried'[d] = retried[d]
           \/ pc'[d] = "idle"
<1>1. pc \in [Calls -> CallState] /\ retried \in [Calls -> BOOLEAN]
  BY DEF TypeOK
<1>2. CASE SidecarEnds
  BY <1>2 DEF SidecarEnds
<1>3. ASSUME NEW c \in Calls, NEW o \in Op, NEW a \in Arcs, EnterMethod(c, o, a)
      PROVE  \A d \in Calls : pc[d] # "idle" => pc'[d] = pc[d] /\ retried'[d] = retried[d]
  BY <1>1, <1>3 DEF EnterMethod, TakePipe
<1>4. \/ Activation \/ (\E a \in Arcs : Reconcile(a)) \/ PluginDown \/ PluginSide
      \/ UNCHANGED vars
      => UNCHANGED <<pc, retried>>
  BY DEF Activation, ReuseState, FailState, ReleaseObject, ConnectState, Reconcile,
     ReconcileTakes, ReconcileReturns, PluginDown, PluginSide, vars, callVars
<1> QED
  BY <1>2, <1>3, <1>4 DEF Next, Host

\* take_call_with_retry: a call that is under way makes at most ten steps, one retry included,
\* and nothing undoes one.  With CallsStacked this is what CallsReturn comes to but for the
\* fairness: the innermost call has the thread, advances, and returns.
THEOREM CallsComeNearer == Spec => CallsAdvance
<1> DEFINE Own(c) == VerifyUser(c) \/ Sta(c) \/ Future(c)
           Step == \A c \in Calls :
                     /\ pc[c] # "idle" => StepsLeft(c)' <= StepsLeft(c)
                     /\ Own(c) => StepsLeft(c)' < StepsLeft(c)
<1>1. IInv /\ ReconnectsRetried /\ IInv' /\ [Next]_vars => Step
  <2> SUFFICES ASSUME IInv, ReconnectsRetried, IInv', [Next]_vars,
                      NEW d \in Calls
               PROVE  /\ pc[d] # "idle" => StepsLeft(d)' <= StepsLeft(d)
                      /\ Own(d) => StepsLeft(d)' < StepsLeft(d)
    OBVIOUS
  <2>1. TypeOK /\ TypeOK' /\ HurtKnown
    BY DEF IInv
  <2>2. StepsLeft(d) \in Nat /\ StepsLeft(d)' \in Nat
    BY <2>1, StepsLeftType DEF TypeOK, StepsLeft, CallState
  <2>3. pc'[d] = pc[d] /\ retried'[d] = retried[d] => StepsLeft(d)' = StepsLeft(d)
    BY DEF StepsLeft
  <2>4. pc'[d] = "idle" => StepsLeft(d)' = 0
    BY DEF StepsLeft
  <2>5. ASSUME NEW c \in Calls, Own(c) PROVE Advances(c)
    BY <2>1, <2>5, OwnStepAdvances
  <2>6. CASE \E c \in Calls : Own(c)
    <3>1. PICK c \in Calls : Own(c)
      BY <2>6
    <3>2. Advances(c) /\ (Own(d) => Advances(d))
      BY <2>5, <3>1
    <3> HIDE DEF Own
    <3>3. Own(d) => StepsLeft(d)' < StepsLeft(d)
      BY <3>2 DEF Advances
    <3>4. CASE d = c
      BY <2>2, <3>2, <3>3, <3>4 DEF Advances
    <3>5. CASE d # c
      BY <2>2, <2>3, <3>2, <3>3, <3>5 DEF Advances
    <3> QED BY <3>4, <3>5
  <2>7. CASE ~ \E c \in Calls : Own(c)
    <3>1. pc[d] # "idle" =>
            \/ pc'[d] = pc[d] /\ retried'[d] = retried[d]
            \/ pc'[d] = "idle"
      BY <2>1, <2>7, OtherStepsKeep
    <3> HIDE DEF Own
    <3> QED BY <2>2, <2>3, <2>4, <2>7, <3>1
  <2> QED BY <2>6, <2>7
<1>2. Init => ReconnectsRetried
  BY DEF Init, ReconnectsRetried
<1>3. Spec => []ReconnectsRetried
  BY <1>2, RetriedStep, TypeCorrect, PTL DEF Spec
<1>4. CallsAdvance <=> [][Step]_vars
  BY DEF CallsAdvance
<1> QED
  BY <1>1, <1>3, <1>4, Invariance, PTL DEF Spec

\* take_call_with_retry: a call of the cached state that finds no pipe there finds another
\* call or the reconcile task at it.
THEOREM MissesHaveCause == Spec => MissingForCause
<1> DEFINE Cause(c) == \/ rpipe[slot] # None
                       \/ \E d \in Calls \ {c} : arc[d] = slot /\ OwnsConnection(d)
           Misses(c) == /\ pc[c] # "done" /\ pc'[c] = "done" /\ res'[c] = "missing"
                        /\ arc'[c] = slot
<1>1. ASSUME IInv, [Next]_vars, NEW c \in Calls, Misses(c) PROVE Cause(c)
  <2>1. /\ TypeOK /\ SlotUsable /\ ArcKnown
        /\ pc \in [Calls -> CallState] /\ res \in [Calls -> Result \cup {None}]
        /\ arc \in [Calls -> Arcs \cup {None}]
    BY <1>1 DEF IInv, TypeOK
  <2> DEFINE Taken == /\ pc[c] \in {"idle", "verified"}
                      /\ slot # None => arcPipe[slot] = None
                      /\ slot \in Arcs
  <2>2. Taken => Cause(c)
    BY <2>1, ConstantsAssumption DEF SlotUsable, OwnsConnection
  <2> SUFFICES Taken
    BY <2>2
  <2>3. CASE TakeVerified(c)
    BY <1>1, <2>1, <2>3 DEF TakeVerified, TakePipe, ArcKnown
  <2>4. ASSUME NEW o \in Op, NEW a \in Arcs, EnterMethod(c, o, a) PROVE Taken
    BY <1>1, <2>1, <2>4 DEF EnterMethod, TakePipe
  <2>5. ASSUME NEW d \in Calls, ReceiveAnswer(d) PROVE FALSE
    BY <1>1, <2>1, <2>5, AnswerEnds DEF AnswerEffect
  <2>6. ASSUME NEW d \in Calls, BreakCall(d) PROVE FALSE
    BY <1>1, <2>1, <2>6, BreakEnds DEF GivesUp, FailsIo, Breaks
  <2>7. ASSUME NEW d \in Calls, ReconnectFails(d) PROVE FALSE
    BY <1>1, <2>1, <2>7 DEF ReconnectFails
  <2>8. ASSUME NEW d \in Calls, NEW p \in Pipes,
               VerifyUser(d) \/ SendRequest(d) \/ PluginExecutes(d) \/ Reconnect(d, p)
        PROVE  FALSE
    BY <1>1, <2>1, <2>8 DEF VerifyUser, SendRequest, PluginExecutes, Reconnect
  <2>9. ASSUME NEW d \in Calls, VerifyUser(d) \/ SendRequest(d) \/ PluginExecutes(d) \/ Return(d)
        PROVE  FALSE
    BY <1>1, <2>1, <2>9 DEF VerifyUser, SendRequest, PluginExecutes, Return
  <2>10. ASSUME NEW d \in Calls, d # c, TakeVerified(d) PROVE FALSE
    BY <1>1, <2>1, <2>10 DEF TakeVerified, TakePipe
  <2>11. ASSUME NEW d \in Calls, d # c, NEW o \in Op, NEW a \in Arcs, EnterMethod(d, o, a)
         PROVE  FALSE
    BY <1>1, <2>1, <2>11 DEF EnterMethod, TakePipe
  <2>12. ~SidecarEnds
    BY <1>1, <2>1 DEF SidecarEnds
  <2>13. \/ Activation \/ (\E a \in Arcs : Reconcile(a)) \/ PluginDown \/ PluginSide
         \/ UNCHANGED vars
         => UNCHANGED pc
    BY DEF Activation, ReuseState, FailState, ReleaseObject, ConnectState, Reconcile,
       ReconcileTakes, ReconcileReturns, PluginDown, PluginSide, vars, callVars
  <2>14. pc' # pc
    BY <1>1
  <2> QED
    BY <1>1, <2>3, <2>4, <2>5, <2>6, <2>7, <2>8, <2>9, <2>10, <2>11, <2>12, <2>13, <2>14
    DEF Next, Host, Sta, Future
<1>2. IInv /\ [Next]_vars => \A c \in Calls : Misses(c) => Cause(c)
  BY <1>1
<1>3. MissingForCause <=> [][\A c \in Calls : Misses(c) => Cause(c)]_vars
  BY DEF MissingForCause
<1> QED
  BY <1>2, <1>3, Invariance, PTL DEF Spec
=============================================================================
