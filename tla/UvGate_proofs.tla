--------------------------- MODULE UvGate_proofs ---------------------------
(***************************************************************************)
(* Theorems about UvGate, for any nesting depth and any number of          *)
(* responses.                                                              *)
(***************************************************************************)
EXTENDS UvGate, TLAPS

----------------------------------------------------------------------------
(* The inductive invariant.                                                *)

\* Only a dispatch to which PerformUserVerification has just returned has a response.
ResponseHeld ==
  \A d \in Dispatches : call[d].out # Null => call[d].pc \in {"v2back", "v1back"}

\* No response belongs to two dispatches.
ResponseOwned ==
  \A d, e \in Dispatches : call[d].out # Null /\ call[d].out = call[e].out => d = e

\* Every response that is allocated is known, and every known one is allocated.
ResponsesKnown ==
  /\ \A d \in Dispatches : call[d].out # Null => call[d].out \in live
  /\ \A b \in live : \E d \in Dispatches : call[d].out = b

\* What a dispatch knows at each stage of the answer it has, or is waiting for.
AnswerKnown(d) ==
  /\ call[d].pc # "done" => call[d].res = "none"
  /\ call[d].pc = "idle" => call[d] = NoCall
  /\ call[d].pc = "v2" => call[d].tier = "v2" /\ call[d].dialogs = 0
  /\ call[d].pc = "v2back" /\ call[d].hr = "notImpl" => dll = "stub" /\ call[d].dialogs = 0
  /\ call[d].pc = "v2back" /\ call[d].hr # "notImpl" =>
       call[d].said = call[d].hr /\ call[d].dialogs = 1
  /\ call[d].pc = "v2back" => call[d].tier = "v2" /\ (call[d].hr = "ok" => call[d].out # Null)
  /\ call[d].pc = "v1" => call[d].tier = "v1" /\ call[d].dialogs = 0
  /\ call[d].pc = "v1back" =>
       call[d].tier = "v1" /\ call[d].said = call[d].hr /\ call[d].dialogs = 1
  /\ call[d].pc = "sent" =>
       /\ call[d].said = "ok" /\ call[d].dialogs = 1
       /\ call[d].tier = "v2" => call[d].sig = "mine"

\* A dispatch that has ended.
EndKnown(d) ==
  /\ call[d].dialogs <= 1
  /\ call[d].res # "badSignature"
  /\ call[d].res = "accepted" => call[d].said = "ok"

\* With a second version that works, and that nobody has switched off, the first one is
\* not used.
UsesV2(d) ==
  dll = "v2" /\ ~forced =>
    /\ call[d].pc \notin {"v1", "v1back"} /\ call[d].tier # "v1"
    /\ call[d].res = "accepted" => call[d].sig = "mine"

BindingsKnown == dll = "v2" /\ ~forced => bound \in {"unresolved", "v2"}

IInv ==
  /\ TypeOK
  /\ ResponseHeld
  /\ ResponseOwned
  /\ ResponsesKnown
  /\ V2NotGivenUp
  /\ BindingsKnown
  /\ \A d \in Dispatches : AnswerKnown(d) /\ EndKnown(d) /\ UsesV2(d)

Shapes == \A d \in Dispatches : AnswerKnown(d) /\ EndKnown(d) /\ UsesV2(d)
Responses == ResponseHeld /\ ResponseOwned /\ ResponsesKnown

----------------------------------------------------------------------------
(* Calls as records.                                                       *)

LEMMA NoCallTyped == NoCall \in Call
BY NullAssumption DEF NoCall, Call, Stages, Verdicts

LEMMA NoCallFields ==
  /\ NoCall.pc = "idle" /\ NoCall.tier = "none" /\ NoCall.out = Null
  /\ NoCall.dialogs = 0 /\ NoCall.res = "none"
BY DEF NoCall

LEMMA AnsweredTyped ==
  ASSUME NEW c \in Call, NEW s \in Stages, NEW h \in Verdicts \cup {"none", "notImpl"},
         NEW b \in Buffers \cup {Null}, NEW n \in Nat, NEW u \in Verdicts \cup {"none"}
  PROVE  [c EXCEPT !.pc = s, !.hr = h, !.out = b, !.dialogs = n, !.said = u] \in Call
BY DEF Call

LEMMA StartedTyped ==
  ASSUME NEW c \in Call, NEW s \in Stages, NEW t \in {"none", "v1", "v2"},
         NEW b \in Buffers \cup {Null}
  PROVE  /\ [c EXCEPT !.pc = s, !.tier = t] \in Call
         /\ [c EXCEPT !.pc = s, !.tier = t, !.out = b] \in Call
BY DEF Call

LEMMA EndedTyped ==
  ASSUME NEW c \in Call, NEW s \in Stages,
         NEW r \in {"none", "failed", "abort", "accepted", "declined", "badSignature"}
  PROVE  [c EXCEPT !.pc = s] \in Call /\ [c EXCEPT !.pc = s, !.res = r] \in Call
BY DEF Call

LEMMA FreedTyped ==
  ASSUME NEW c \in Call, NEW g \in {"none", "mine", "other"}
  PROVE  [c EXCEPT !.out = Null, !.sig = g] \in Call
BY DEF Call

LEMMA UpdateTyped ==
  ASSUME NEW d \in Dispatches, NEW r \in Call, call \in [Dispatches -> Call], Becomes(d, r)
  PROVE  call' \in [Dispatches -> Call]
BY DEF Becomes

\* Every step leaves calls.
LEMMA CallsTyped == IInv /\ [Next]_vars => call' \in [Dispatches -> Call]
<1> SUFFICES ASSUME IInv, [Next]_vars PROVE call' \in [Dispatches -> Call]
  OBVIOUS
<1> USE DEF IInv, TypeOK
<1>1. ASSUME NEW d \in Dispatches, Dispatch(d) PROVE call' \in [Dispatches -> Call]
  <2>1. /\ [NoCall EXCEPT !.pc = "done", !.res = "failed"] \in Call
        /\ [NoCall EXCEPT !.pc = "v2", !.tier = "v2"] \in Call
        /\ [NoCall EXCEPT !.pc = "v1", !.tier = "v1"] \in Call
    <3>1. "done" \in Stages /\ "v2" \in Stages /\ "v1" \in Stages
      BY DEF Stages
    <3> QED
      BY <3>1, NoCallTyped, StartedTyped, EndedTyped
  <2> QED
    BY <1>1, <2>1 DEF Dispatch, Becomes
<1>2. ASSUME NEW d \in Dispatches, NEW s \in {"v2back", "v1back"},
             NEW h \in Verdicts \cup {"notImpl"}, NEW b \in Buffers \cup {Null}, Answered(d, s, h, b)
      PROVE  call' \in [Dispatches -> Call]
  <2> DEFINE n == IF h = "notImpl" THEN call[d].dialogs ELSE call[d].dialogs + 1
             u == IF h = "notImpl" THEN call[d].said ELSE h
             r == [call[d] EXCEPT !.pc = s, !.hr = h, !.out = b, !.dialogs = n, !.said = u]
  <2>1. n \in Nat /\ u \in Verdicts \cup {"none"}
    BY DEF Call
  <2>2. r \in Call
    <3> HIDE DEF n, u
    <3>1. call[d] \in Call /\ s \in Stages /\ h \in Verdicts \cup {"none", "notImpl"}
      BY DEF Stages
    <3> QED
      BY <2>1, <3>1, AnsweredTyped
  <2>3. Becomes(d, r)
    BY <1>2 DEF Answered
  <2> QED
    <3> HIDE DEF r
    <3> QED
      BY <2>2, <2>3, UpdateTyped
<1>3. ASSUME NEW d \in Dispatches, V2Returns(d) PROVE call' \in [Dispatches -> Call]
  BY <1>2, <1>3 DEF V2Returns, Verdicts
<1>4. ASSUME NEW d \in Dispatches, V1Returns(d) PROVE call' \in [Dispatches -> Call]
  BY <1>2, <1>4 DEF V1Returns, Verdicts
<1>5. ASSUME NEW d \in Dispatches, FallBack(d) PROVE call' \in [Dispatches -> Call]
  <2>1. [call[d] EXCEPT !.pc = "v1", !.tier = FallbackTier, !.out = Null] \in Call
    <3>1. "v1" \in Stages /\ FallbackTier \in {"none", "v1", "v2"}
      BY DEF Stages, FallbackTier
    <3> QED
      BY <3>1, StartedTyped
  <2> QED
    BY <1>5, <2>1, UpdateTyped DEF FallBack
<1>6. ASSUME NEW d \in Dispatches, Conclude(d) PROVE call' \in [Dispatches -> Call]
  <2> DEFINE freed == [call[d] EXCEPT !.out = Null, !.sig = Signature(d)]
  <2>1. freed \in Call
    <3>1. Signature(d) \in {"none", "mine", "other"}
      BY DEF Signature
    <3> QED
      BY <3>1, FreedTyped
  <2>2. ASSUME NEW s \in Stages, NEW r \in {"none", "failed", "abort"}
        PROVE  [freed EXCEPT !.pc = s, !.res = r] \in Call /\ [freed EXCEPT !.pc = s] \in Call
    <3> HIDE DEF freed
    <3> QED
      BY <2>1, EndedTyped
  <2>3. \/ Becomes(d, [freed EXCEPT !.pc = "done", !.res = "failed"])
        \/ Becomes(d, [freed EXCEPT !.pc = "done", !.res = "abort"])
        \/ Becomes(d, [freed EXCEPT !.pc = "sent"])
    BY <1>6 DEF Conclude, Becomes
  <2> QED
    <3> HIDE DEF freed
    <3> QED
      BY <2>2, <2>3, UpdateTyped DEF Stages
<1>7. ASSUME NEW d \in Dispatches, CallFails(d) \/ JudgeSignature(d) \/ JudgePrompt(d)
      PROVE  call' \in [Dispatches -> Call]
  <2>1. ASSUME NEW r \in {"failed", "accepted", "declined", "badSignature"}
        PROVE  [call[d] EXCEPT !.pc = "done", !.res = r] \in Call
    <3>1. "done" \in Stages
      BY DEF Stages
    <3> QED
      BY <3>1, EndedTyped
  <2> QED
    BY <1>7, <2>1, UpdateTyped DEF CallFails, JudgeSignature, JudgePrompt
<1>8. ASSUME NEW d \in Dispatches, Return(d) PROVE call' \in [Dispatches -> Call]
  BY <1>8, NoCallTyped, UpdateTyped DEF Return
<1>9. CASE PluginRestarts \/ SidecarEnds \/ UNCHANGED vars
  BY <1>9, NoCallTyped DEF PluginRestarts, SidecarEnds, vars
<1> QED
  BY <1>1, <1>3, <1>4, <1>5, <1>6, <1>7, <1>8, <1>9 DEF Next, Step

----------------------------------------------------------------------------
(* Every step keeps the inductive invariant.                               *)

\* Types.
LEMMA TypeKept == IInv /\ [Next]_vars => TypeOK'
<1> SUFFICES ASSUME IInv, [Next]_vars PROVE TypeOK'
  OBVIOUS
<1>1. ASSUME NEW d \in Dispatches, Dispatch(d) PROVE TypeOK'
  BY <1>1, NullAssumption, CallsTyped DEF Dispatch, Becomes, Resolve, NoCall, IInv,
     TypeOK, NoCall, Innermost, AnswerKnown
<1>2. ASSUME NEW d \in Dispatches, V2Returns(d) PROVE TypeOK'
  BY <1>2, NullAssumption, CallsTyped DEF V2Returns, Answered, Becomes, Verdicts,
     IInv, TypeOK, NoCall, Innermost, AnswerKnown
<1>3. ASSUME NEW d \in Dispatches, V1Returns(d) PROVE TypeOK'
  BY <1>3, NullAssumption, CallsTyped DEF V1Returns, Answered, Becomes, Verdicts,
     IInv, TypeOK, NoCall, Innermost, AnswerKnown
<1>4. ASSUME NEW d \in Dispatches, FallBack(d) PROVE TypeOK'
  BY <1>4, NullAssumption, CallsTyped DEF FallBack, Becomes, FallsBack, Observed,
     FallbackTier, IInv, TypeOK, NoCall, Innermost, AnswerKnown
<1>5. ASSUME NEW d \in Dispatches, Conclude(d) PROVE TypeOK'
  BY <1>5, NullAssumption, CallsTyped DEF Conclude, Becomes, FallsBack, Observed,
     Verified, Signature, IInv, TypeOK, NoCall, Innermost, AnswerKnown
<1>6. ASSUME NEW d \in Dispatches, CallFails(d) PROVE TypeOK'
  BY <1>6, NullAssumption, CallsTyped DEF CallFails, Becomes, IInv, TypeOK, NoCall,
     Innermost, AnswerKnown
<1>7. ASSUME NEW d \in Dispatches, Return(d) PROVE TypeOK'
  BY <1>7, NullAssumption, CallsTyped DEF Return, Becomes, NoCall, IInv, TypeOK,
     NoCall, Innermost, AnswerKnown
<1>8. ASSUME NEW d \in Dispatches, JudgeSignature(d) PROVE TypeOK'
  BY <1>8, NullAssumption, CallsTyped DEF JudgeSignature, Becomes, IInv, TypeOK,
     NoCall, Innermost, AnswerKnown
<1>9. ASSUME NEW d \in Dispatches, JudgePrompt(d) PROVE TypeOK'
  BY <1>9, NullAssumption, CallsTyped DEF JudgePrompt, Becomes, IInv, TypeOK, NoCall,
     Innermost, AnswerKnown
<1>10. ASSUME PluginRestarts PROVE TypeOK'
  BY <1>10, NullAssumption, CallsTyped DEF PluginRestarts, IInv, TypeOK, NoCall,
     Innermost, AnswerKnown
<1>11. ASSUME SidecarEnds PROVE TypeOK'
  <2>1. \A d \in Dispatches : call'[d].pc = "idle"
    BY <1>11, NoCallFields DEF SidecarEnds
  <2>2. /\ dll' \in Libraries /\ forced' \in BOOLEAN /\ latch' \in BOOLEAN
        /\ bound' \in {"unresolved", "failed", "v1", "v2"}
    BY <1>11 DEF SidecarEnds
  <2>3. /\ stack' \in Seq(Dispatches) /\ live' \subseteq Buffers
        /\ prompt' \in {"undecided", "yes", "no"}
    BY <1>11 DEF SidecarEnds, IInv, TypeOK
  <2>4. \A d \in Dispatches :
          /\ call'[d].pc \notin {"idle", "done"} => bound' \in {"v1", "v2"}
          /\ call'[d].pc = "sent" => call'[d].tier # "none"
    BY <2>1
  <2> QED
    BY <2>2, <2>3, <2>4, CallsTyped DEF TypeOK
<1>12. CASE UNCHANGED vars
  BY <1>12 DEF IInv, TypeOK, NoCall, Innermost, AnswerKnown, vars
<1> QED
  BY <1>1, <1>2, <1>3, <1>4, <1>5, <1>6, <1>7, <1>8, <1>9, <1>10, <1>11,
     <1>12 DEF Next, Step

\* What dispatches know.
LEMMA ShapesKept == IInv /\ [Next]_vars => Shapes'
<1> SUFFICES ASSUME IInv, [Next]_vars PROVE Shapes'
  OBVIOUS
<1>1. ASSUME NEW d \in Dispatches, Dispatch(d) PROVE Shapes'
  BY <1>1, NullAssumption DEF Dispatch, Becomes, Resolve, NoCall, IInv, TypeOK, Call,
     NoCall, Shapes, AnswerKnown, EndKnown, UsesV2, V2NotGivenUp, BindingsKnown,
     ResponseHeld, Verdicts
<1>2. ASSUME NEW d \in Dispatches, V2Returns(d) PROVE Shapes'
  BY <1>2, NullAssumption DEF V2Returns, Answered, Becomes, Verdicts, IInv, TypeOK,
     Call, NoCall, Shapes, AnswerKnown, EndKnown, UsesV2, V2NotGivenUp,
     BindingsKnown, ResponseHeld, Verdicts
<1>3. ASSUME NEW d \in Dispatches, V1Returns(d) PROVE Shapes'
  BY <1>3, NullAssumption DEF V1Returns, Answered, Becomes, Verdicts, IInv, TypeOK,
     Call, NoCall, Shapes, AnswerKnown, EndKnown, UsesV2, V2NotGivenUp,
     BindingsKnown, ResponseHeld, Verdicts
<1>4. ASSUME NEW d \in Dispatches, FallBack(d) PROVE Shapes'
  BY <1>4, NullAssumption DEF FallBack, Becomes, FallsBack, Observed, FallbackTier,
     IInv, TypeOK, Call, NoCall, Shapes, AnswerKnown, EndKnown, UsesV2, V2NotGivenUp,
     BindingsKnown, ResponseHeld, Verdicts
<1>5. ASSUME NEW d \in Dispatches, Conclude(d) PROVE Shapes'
  BY <1>5, NullAssumption DEF Conclude, Becomes, FallsBack, Observed, Verified,
     Signature, IInv, TypeOK, Call, NoCall, Shapes, AnswerKnown, EndKnown, UsesV2,
     V2NotGivenUp, BindingsKnown, ResponseHeld, Verdicts
<1>6. ASSUME NEW d \in Dispatches, CallFails(d) PROVE Shapes'
  BY <1>6, NullAssumption DEF CallFails, Becomes, IInv, TypeOK, Call, NoCall, Shapes,
     AnswerKnown, EndKnown, UsesV2, V2NotGivenUp, BindingsKnown, ResponseHeld,
     Verdicts
<1>7. ASSUME NEW d \in Dispatches, Return(d) PROVE Shapes'
  BY <1>7, NullAssumption DEF Return, Becomes, NoCall, IInv, TypeOK, Call, NoCall,
     Shapes, AnswerKnown, EndKnown, UsesV2, V2NotGivenUp, BindingsKnown,
     ResponseHeld, Verdicts
<1>8. ASSUME NEW d \in Dispatches, JudgeSignature(d) PROVE Shapes'
  BY <1>8, NullAssumption DEF JudgeSignature, Becomes, IInv, TypeOK, Call, NoCall,
     Shapes, AnswerKnown, EndKnown, UsesV2, V2NotGivenUp, BindingsKnown,
     ResponseHeld, Verdicts
<1>9. ASSUME NEW d \in Dispatches, JudgePrompt(d) PROVE Shapes'
  BY <1>9, NullAssumption DEF JudgePrompt, Becomes, IInv, TypeOK, Call, NoCall,
     Shapes, AnswerKnown, EndKnown, UsesV2, V2NotGivenUp, BindingsKnown,
     ResponseHeld, Verdicts
<1>10. ASSUME PluginRestarts PROVE Shapes'
  BY <1>10, NullAssumption DEF PluginRestarts, IInv, TypeOK, Call, NoCall, Shapes,
     AnswerKnown, EndKnown, UsesV2, V2NotGivenUp, BindingsKnown, ResponseHeld,
     Verdicts
<1>11. ASSUME SidecarEnds PROVE Shapes'
  BY <1>11, NullAssumption DEF SidecarEnds, NoCall, IInv, TypeOK, Call, NoCall,
     Shapes, AnswerKnown, EndKnown, UsesV2, V2NotGivenUp, BindingsKnown,
     ResponseHeld, Verdicts
<1>12. CASE UNCHANGED vars
  BY <1>12 DEF IInv, TypeOK, Call, NoCall, Shapes, AnswerKnown, EndKnown, UsesV2,
     V2NotGivenUp, BindingsKnown, ResponseHeld, Verdicts, vars
<1> QED
  BY <1>1, <1>2, <1>3, <1>4, <1>5, <1>6, <1>7, <1>8, <1>9, <1>10, <1>11,
     <1>12 DEF Next, Step

\* The latch and the bindings.
LEMMA LatchKept == IInv /\ [Next]_vars => (V2NotGivenUp /\ BindingsKnown)'
<1> SUFFICES ASSUME IInv, [Next]_vars PROVE (V2NotGivenUp /\ BindingsKnown)'
  OBVIOUS
<1>1. ASSUME NEW d \in Dispatches, Dispatch(d) PROVE (V2NotGivenUp /\ BindingsKnown)'
  BY <1>1, NullAssumption DEF Dispatch, Becomes, Resolve, NoCall, IInv, TypeOK,
     V2NotGivenUp, BindingsKnown, AnswerKnown
<1>2. ASSUME NEW d \in Dispatches, V2Returns(d) PROVE (V2NotGivenUp /\ BindingsKnown)'
  BY <1>2, NullAssumption DEF V2Returns, Answered, Becomes, Verdicts, IInv, TypeOK,
     V2NotGivenUp, BindingsKnown, AnswerKnown
<1>3. ASSUME NEW d \in Dispatches, V1Returns(d) PROVE (V2NotGivenUp /\ BindingsKnown)'
  BY <1>3, NullAssumption DEF V1Returns, Answered, Becomes, Verdicts, IInv, TypeOK,
     V2NotGivenUp, BindingsKnown, AnswerKnown
<1>4. ASSUME NEW d \in Dispatches, FallBack(d) PROVE (V2NotGivenUp /\ BindingsKnown)'
  BY <1>4, NullAssumption DEF FallBack, Becomes, FallsBack, Observed, FallbackTier,
     IInv, TypeOK, V2NotGivenUp, BindingsKnown, AnswerKnown
<1>5. ASSUME NEW d \in Dispatches, Conclude(d) PROVE (V2NotGivenUp /\ BindingsKnown)'
  BY <1>5, NullAssumption DEF Conclude, Becomes, FallsBack, Observed, Verified,
     Signature, IInv, TypeOK, V2NotGivenUp, BindingsKnown, AnswerKnown
<1>6. ASSUME NEW d \in Dispatches, CallFails(d) PROVE (V2NotGivenUp /\ BindingsKnown)'
  BY <1>6, NullAssumption DEF CallFails, Becomes, IInv, TypeOK, V2NotGivenUp,
     BindingsKnown, AnswerKnown
<1>7. ASSUME NEW d \in Dispatches, Return(d) PROVE (V2NotGivenUp /\ BindingsKnown)'
  BY <1>7, NullAssumption DEF Return, Becomes, NoCall, IInv, TypeOK, V2NotGivenUp,
     BindingsKnown, AnswerKnown
<1>8. ASSUME NEW d \in Dispatches, JudgeSignature(d)
      PROVE  (V2NotGivenUp /\ BindingsKnown)'
  BY <1>8, NullAssumption DEF JudgeSignature, Becomes, IInv, TypeOK, V2NotGivenUp,
     BindingsKnown, AnswerKnown
<1>9. ASSUME NEW d \in Dispatches, JudgePrompt(d) PROVE (V2NotGivenUp /\ BindingsKnown)'
  BY <1>9, NullAssumption DEF JudgePrompt, Becomes, IInv, TypeOK, V2NotGivenUp,
     BindingsKnown, AnswerKnown
<1>10. ASSUME PluginRestarts PROVE (V2NotGivenUp /\ BindingsKnown)'
  BY <1>10, NullAssumption DEF PluginRestarts, IInv, TypeOK, V2NotGivenUp,
     BindingsKnown, AnswerKnown
<1>11. ASSUME SidecarEnds PROVE (V2NotGivenUp /\ BindingsKnown)'
  BY <1>11, NullAssumption DEF SidecarEnds, NoCall, IInv, TypeOK, V2NotGivenUp,
     BindingsKnown, AnswerKnown
<1>12. CASE UNCHANGED vars
  BY <1>12 DEF IInv, TypeOK, V2NotGivenUp, BindingsKnown, AnswerKnown, vars
<1> QED
  BY <1>1, <1>2, <1>3, <1>4, <1>5, <1>6, <1>7, <1>8, <1>9, <1>10, <1>11,
     <1>12 DEF Next, Step

\* Responses.
LEMMA ResponsesKept == IInv /\ [Next]_vars => Responses'
<1> SUFFICES ASSUME IInv, [Next]_vars PROVE Responses'
  OBVIOUS
<1>1. ASSUME NEW d \in Dispatches, Dispatch(d) PROVE Responses'
  BY <1>1, NullAssumption DEF Dispatch, Becomes, Resolve, NoCall, IInv, TypeOK, Call,
     NoCall, Responses, ResponseHeld, ResponseOwned, ResponsesKnown, AnswerKnown
<1>2. ASSUME NEW d \in Dispatches, V2Returns(d) PROVE Responses'
  BY <1>2, NullAssumption DEF V2Returns, Answered, Becomes, Verdicts, IInv, TypeOK,
     Call, NoCall, Responses, ResponseHeld, ResponseOwned, ResponsesKnown,
     AnswerKnown
<1>3. ASSUME NEW d \in Dispatches, V1Returns(d) PROVE Responses'
  BY <1>3, NullAssumption DEF V1Returns, Answered, Becomes, Verdicts, IInv, TypeOK,
     Call, NoCall, Responses, ResponseHeld, ResponseOwned, ResponsesKnown,
     AnswerKnown
<1>4. ASSUME NEW d \in Dispatches, FallBack(d) PROVE Responses'
  BY <1>4, NullAssumption DEF FallBack, Becomes, FallsBack, Observed, FallbackTier,
     IInv, TypeOK, Call, NoCall, Responses, ResponseHeld, ResponseOwned,
     ResponsesKnown, AnswerKnown
<1>5. ASSUME NEW d \in Dispatches, Conclude(d) PROVE Responses'
  BY <1>5, NullAssumption DEF Conclude, Becomes, FallsBack, Observed, Verified,
     Signature, IInv, TypeOK, Call, NoCall, Responses, ResponseHeld, ResponseOwned,
     ResponsesKnown, AnswerKnown
<1>6. ASSUME NEW d \in Dispatches, CallFails(d) PROVE Responses'
  BY <1>6, NullAssumption DEF CallFails, Becomes, IInv, TypeOK, Call, NoCall,
     Responses, ResponseHeld, ResponseOwned, ResponsesKnown, AnswerKnown
<1>7. ASSUME NEW d \in Dispatches, Return(d) PROVE Responses'
  BY <1>7, NullAssumption DEF Return, Becomes, NoCall, IInv, TypeOK, Call, NoCall,
     Responses, ResponseHeld, ResponseOwned, ResponsesKnown, AnswerKnown
<1>8. ASSUME NEW d \in Dispatches, JudgeSignature(d) PROVE Responses'
  BY <1>8, NullAssumption DEF JudgeSignature, Becomes, IInv, TypeOK, Call, NoCall,
     Responses, ResponseHeld, ResponseOwned, ResponsesKnown, AnswerKnown
<1>9. ASSUME NEW d \in Dispatches, JudgePrompt(d) PROVE Responses'
  BY <1>9, NullAssumption DEF JudgePrompt, Becomes, IInv, TypeOK, Call, NoCall,
     Responses, ResponseHeld, ResponseOwned, ResponsesKnown, AnswerKnown
<1>10. ASSUME PluginRestarts PROVE Responses'
  BY <1>10, NullAssumption DEF PluginRestarts, IInv, TypeOK, Call, NoCall, Responses,
     ResponseHeld, ResponseOwned, ResponsesKnown, AnswerKnown
<1>11. ASSUME SidecarEnds PROVE Responses'
  BY <1>11, NullAssumption DEF SidecarEnds, NoCall, IInv, TypeOK, Call, NoCall,
     Responses, ResponseHeld, ResponseOwned, ResponsesKnown, AnswerKnown
<1>12. CASE UNCHANGED vars
  BY <1>12 DEF IInv, TypeOK, Call, NoCall, Responses, ResponseHeld, ResponseOwned,
     ResponsesKnown, AnswerKnown, vars
<1> QED
  BY <1>1, <1>2, <1>3, <1>4, <1>5, <1>6, <1>7, <1>8, <1>9, <1>10, <1>11,
     <1>12 DEF Next, Step

\* The initial states satisfy the invariant.
LEMMA InitGood == Init => IInv
<1> SUFFICES ASSUME Init PROVE IInv
  OBVIOUS
<1>1. TypeOK
  <2>1. call \in [Dispatches -> Call] /\ \A d \in Dispatches : call[d].pc = "idle"
    BY NoCallTyped, NoCallFields DEF Init
  <2>2. /\ dll \in Libraries /\ forced \in BOOLEAN /\ latch \in BOOLEAN
        /\ bound \in {"unresolved", "failed", "v1", "v2"}
    BY DEF Init
  <2>3. stack \in Seq(Dispatches) /\ live \subseteq Buffers /\ prompt \in {"undecided", "yes", "no"}
    BY DEF Init
  <2>4. \A d \in Dispatches :
          /\ call[d].pc \notin {"idle", "done"} => bound \in {"v1", "v2"}
          /\ call[d].pc = "sent" => call[d].tier # "none"
    BY <2>1
  <2> QED
    BY <2>1, <2>2, <2>3, <2>4 DEF TypeOK
<1>2. \A d \in Dispatches : call[d] = NoCall
  BY DEF Init
<1>3. ResponseHeld /\ ResponseOwned /\ ResponsesKnown
  BY <1>2 DEF Init, NoCall, ResponseHeld, ResponseOwned, ResponsesKnown
<1>4. Shapes
  <2>1. NoCall.dialogs <= 1 /\ NoCall.res # "badSignature" /\ NoCall.res # "accepted"
    BY DEF NoCall
  <2>2. ASSUME NEW d \in Dispatches PROVE EndKnown(d)
    <3>1. call[d] = NoCall
      BY <1>2
    <3> QED
      BY <2>1, <3>1 DEF EndKnown
  <2>3. \A d \in Dispatches : AnswerKnown(d) /\ UsesV2(d)
    BY <1>2, NoCallFields DEF AnswerKnown, UsesV2
  <2> QED
    BY <2>2, <2>3 DEF Shapes
<1> QED
  BY <1>1, <1>3, <1>4 DEF Init, IInv, Shapes, V2NotGivenUp, BindingsKnown

LEMMA InvariantHolds == Spec => []IInv
<1>1. IInv /\ [Next]_vars => IInv'
  BY TypeKept, ShapesKept, LatchKept, ResponsesKept DEF IInv, Shapes, Responses
<1> QED
  BY <1>1, InitGood, PTL DEF Spec

----------------------------------------------------------------------------
(* The theorems.                                                           *)

\* Every variable keeps its type, a dispatch gets beyond the bindings only when they
\* resolved, and a request that is sent reports a tier.
THEOREM TypeCorrect == Spec => []TypeOK
<1>1. IInv => TypeOK
  BY NullAssumption DEF IInv
<1> QED
  BY <1>1, InvariantHolds, PTL

\* perform_user_verification_2 and dispatch_operation free every response exactly when
\* they have done with it, for any number of nested dispatches.
THEOREM NoResponseLeaks == Spec => []ResponsesFreed
<1>1. IInv => ResponsesFreed
  BY NullAssumption DEF IInv, TypeOK, Call, ResponsesKnown, ResponsesFreed
<1> QED
  BY <1>1, InvariantHolds, PTL

\* The fallback to the first version never asks a user a second time.
THEOREM DialogOnce == Spec => []OneDialog
<1>1. IInv => OneDialog
  BY NullAssumption DEF IInv, EndKnown, OneDialog
<1> QED
  BY <1>1, InvariantHolds, PTL

\* v2_unimplemented is set by a missing implementation only.
THEOREM V2Kept == Spec => []V2NotGivenUp
<1>1. IInv => V2NotGivenUp
  BY NullAssumption DEF IInv
<1> QED
  BY <1>1, InvariantHolds, PTL

\* The tier reported is the one that produced uvSignatureB64, so that the plugin's gate
\* never takes one version's response for the other's.
THEOREM TierFitsSignature == Spec => []VerifiedUserNotRefused
<1>1. IInv => VerifiedUserNotRefused
  BY NullAssumption DEF IInv, EndKnown, VerifiedUserNotRefused
<1> QED
  BY <1>1, InvariantHolds, PTL

\* The plugin lets no request pass that Windows has not verified the user for.
THEOREM OnlyVerifiedAccepted == Spec => []AcceptedOnlyVerified
<1>1. IInv => AcceptedOnlyVerified
  BY NullAssumption DEF IInv, EndKnown, UsesV2, AcceptedOnlyVerified
<1> QED
  BY <1>1, InvariantHolds, PTL
=============================================================================
