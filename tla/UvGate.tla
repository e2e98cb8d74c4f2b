-------------------------------- MODULE UvGate --------------------------------
(***************************************************************************)
(* User verification, from the sidecar's call of Windows' dialog to the    *)
(* plugin's gate.  webauthn.dll may have the second version of             *)
(* PerformUserVerification, which signs the request, only the first, which *)
(* does not, or the second one as a stub that answers E_NOTIMPL.  The      *)
(* sidecar finds out which and tells the plugin, and the plugin checks a   *)
(* signature or asks the user to go on without one.                        *)
(*                                                                         *)
(* An operator X_Something is X with a bug a change of the code could      *)
(* bring in.  No specification uses it; it shows what a property guards.   *)
(***************************************************************************)
EXTENDS Sequences, Naturals

CONSTANTS
  Dispatches, \* calls of dispatch_operation that can be on the STA thread's stack
  Buffers,    \* responses Windows can have allocated at once
  Null        \* no response

ASSUME NullAssumption == Null \notin Buffers

\* webauthn.dll: it misses a function the sidecar needs, it has the first version
\* only, the second one is a stub, the second one works.
Libraries == {"unusable", "v1", "stub", "v2"}

VARIABLES
  dll,    \* the webauthn.dll of this sidecar process
  forced, \* KEEPASSKEYWIN_FORCE_UV_V1
  bound,  \* BINDINGS: unresolved, failed for good, or the version to call
  latch,  \* v2_unimplemented
  stack,  \* dispatches on the STA thread, the outermost first
  call,   \* where each dispatch stands and what it knows
  live,   \* responses Windows has allocated and nobody has freed
  prompt  \* the plugin's UvFallbackPrompt: the user's answer, once given

vars == <<dll, forced, bound, latch, stack, call, live, prompt>>

Stages == {"idle", "v2", "v2back", "v1", "v1back", "sent", "done"}
Verdicts == {"ok", "abort", "error"}

\* A dispatch: its position, the last HRESULT, the UvTier to report, *pp_response,
\* uvSignatureB64 (a signature of this request, other bytes, nothing) and its result;
\* and as history how often Windows' dialog came up and what the user last answered.
Call == [pc : Stages, hr : Verdicts \cup {"none", "notImpl"}, tier : {"none", "v1", "v2"},
         out : Buffers \cup {Null}, sig : {"none", "mine", "other"},
         res : {"none", "failed", "abort", "accepted", "declined", "badSignature"},
         dialogs : Nat, said : Verdicts \cup {"none"}]

NoCall == [pc |-> "idle", hr |-> "none", tier |-> "none", out |-> Null, sig |-> "none",
           res |-> "none", dialogs |-> 0, said |-> "none"]

\* Besides the types: a dispatch gets beyond the bindings only when they resolved,
\* and it reports a tier when it has an answer.
TypeOK ==
  /\ dll \in Libraries
  /\ forced \in BOOLEAN
  /\ bound \in {"unresolved", "failed", "v1", "v2"}
  /\ latch \in BOOLEAN
  /\ stack \in Seq(Dispatches)
  /\ call \in [Dispatches -> Call]
  /\ live \subseteq Buffers
  /\ prompt \in {"undecided", "yes", "no"}
  /\ \A d \in Dispatches :
       /\ call[d].pc \notin {"idle", "done"} => bound \in {"v1", "v2"}
       /\ call[d].pc = "sent" => call[d].tier # "none"

Init ==
  /\ dll \in Libraries
  /\ forced \in BOOLEAN
  /\ bound = "unresolved"
  /\ latch = FALSE
  /\ stack = <<>>
  /\ call = [d \in Dispatches |-> NoCall]
  /\ live = {}
  /\ prompt = "undecided"

----------------------------------------------------------------------------
(* Helpers.                                                                *)

Innermost(d) == stack # <<>> /\ stack[Len(stack)] = d

\* Windows' dialog and the wait for the plugin's answer pump COM messages.
Pumping == \A d \in Dispatches : Innermost(d) => call[d].pc \in {"v2", "v1", "sent"}

\* bindings: resolved on first use, kept for the process, failure included.
Resolve ==
  IF bound # "unresolved" THEN bound
  ELSE IF dll = "unusable" THEN "failed"
  ELSE IF forced \/ dll = "v1" THEN "v1" ELSE "v2"

Becomes(d, r) == call' = [call EXCEPT ![d] = r]

\* should_fallback_to_v1, and variants that take other failures for a missing function.
FallsBack_OnAbort(h) == h \in {"notImpl", "abort"}
FallsBack(h) == h = "notImpl"

\* observe_v2_result
Observed(h) == latch \/ FallsBack(h)

\* The tier of a dispatch whose second version was a stub: what completed it, not
\* what was resolved when the library was loaded, and not nothing.
FallbackTier_LoadTime == "v2"
FallbackTier_Unset == "none"
FallbackTier == "v1"

----------------------------------------------------------------------------
(* The sidecar.                                                            *)

\* Windows starts an operation: dispatch_operation, bindings and the pre-check of
\* perform_user_verification_2.
Dispatch(d) ==
  /\ call[d].pc = "idle"
  /\ Pumping
  /\ stack' = Append(stack, d)
  /\ bound' = Resolve
  /\ Becomes(d, CASE Resolve = "failed" -> [NoCall EXCEPT !.pc = "done", !.res = "failed"]
                  [] Resolve = "v2" /\ ~latch -> [NoCall EXCEPT !.pc = "v2", !.tier = "v2"]
                  [] OTHER -> [NoCall EXCEPT !.pc = "v1", !.tier = "v1"])
  /\ UNCHANGED <<dll, forced, latch, live, prompt>>

\* PerformUserVerification returns to the dispatch with a response or without.
Answered(d, stage, h, b) ==
  /\ Becomes(d, [call[d] EXCEPT !.pc = stage, !.hr = h, !.out = b,
                   !.dialogs = IF h = "notImpl" THEN @ ELSE @ + 1,
                   !.said = IF h = "notImpl" THEN @ ELSE h])
  /\ live' = live \cup ({b} \ {Null})
  /\ UNCHANGED <<dll, forced, bound, latch, stack, prompt>>

\* The second version returns.  The stub shows no dialog, but might have allocated.
V2Returns(d) ==
  /\ Innermost(d)
  /\ call[d].pc = "v2"
  /\ \E h \in IF dll = "stub" THEN {"notImpl"} ELSE Verdicts, b \in (Buffers \ live) \cup {Null} :
       /\ h = "ok" => b # Null
       /\ Answered(d, "v2back", h, b)

\* The first version returns.  Its response is no signature of the request.
V1Returns(d) ==
  /\ Innermost(d)
  /\ call[d].pc = "v1"
  /\ \E h \in Verdicts, b \in (Buffers \ live) \cup {Null} : Answered(d, "v1back", h, b)

\* Falling back without a look at the out-parameters.
FallBack_KeepsResponse(d) ==
  /\ Innermost(d)
  /\ call[d].pc = "v2back"
  /\ FallsBack(call[d].hr)
  /\ latch' = Observed(call[d].hr)
  /\ Becomes(d, [call[d] EXCEPT !.pc = "v1", !.tier = FallbackTier, !.out = Null])
  /\ UNCHANGED <<dll, forced, bound, stack, live, prompt>>

\* The stub's answer: perform_user_verification_2 remembers it, frees what the stub
\* may have allocated, and calls the first version for the same dispatch.
FallBack(d) ==
  /\ Innermost(d)
  /\ call[d].pc = "v2back"
  /\ FallsBack(call[d].hr)
  /\ latch' = Observed(call[d].hr)
  /\ Becomes(d, [call[d] EXCEPT !.pc = "v1", !.tier = FallbackTier, !.out = Null])
  /\ live' = live \ {call[d].out}
  /\ UNCHANGED <<dll, forced, bound, stack, prompt>>

\* What the response says of the request.
Signature(d) ==
  IF call[d].out = Null THEN "none" ELSE IF call[d].pc = "v2back" THEN "mine" ELSE "other"

\* The user is verified unless the HRESULT says otherwise; only cancelling counts.
Verified_UnlessAbort(h) == h # "abort"
Verified(h) == h = "ok"

\* dispatch_operation has its answer: it copies the response, frees it, and goes on
\* with a verified user only.  The pipe is gone while an outer dispatch has it.
Conclude(d) ==
  /\ Innermost(d)
  /\ \/ call[d].pc = "v1back"
     \/ call[d].pc = "v2back" /\ ~FallsBack(call[d].hr)
  /\ latch' = IF call[d].pc = "v2back" THEN Observed(call[d].hr) ELSE latch
  /\ live' = live \ {call[d].out}
  /\ LET freed == [call[d] EXCEPT !.out = Null, !.sig = Signature(d)]
         ends(r) == [freed EXCEPT !.pc = "done", !.res = r]
     IN Becomes(d, IF ~Verified(call[d].hr)
                   THEN ends(IF call[d].hr = "abort" THEN "abort" ELSE "failed")
                   ELSE IF \E e \in Dispatches : call[e].pc = "sent" THEN ends("failed")
                   ELSE [freed EXCEPT !.pc = "sent"])
  /\ UNCHANGED <<dll, forced, bound, stack, prompt>>

\* The call of the plugin fails for good, or the plugin refuses for a reason of its
\* own.  A reconnect in between sends the same parameters again.
CallFails(d) ==
  /\ call[d].pc = "sent"
  /\ Becomes(d, [call[d] EXCEPT !.pc = "done", !.res = "failed"])
  /\ UNCHANGED <<dll, forced, bound, latch, stack, live, prompt>>

\* The innermost dispatch returns to Windows.
Return(d) ==
  /\ Innermost(d)
  /\ call[d].pc = "done"
  /\ stack' = SubSeq(stack, 1, Len(stack) - 1)
  /\ Becomes(d, NoCall)
  /\ UNCHANGED <<dll, forced, bound, latch, live, prompt>>

----------------------------------------------------------------------------
(* The plugin.                                                             *)

\* VerifyUvSignatureOrPrompt for the second version: a signature of the request.
JudgeSignature(d) ==
  /\ call[d].pc = "sent"
  /\ call[d].tier = "v2"
  /\ Becomes(d, [call[d] EXCEPT !.pc = "done",
                   !.res = IF call[d].sig = "mine" THEN "accepted" ELSE "badSignature"])
  /\ UNCHANGED <<dll, forced, bound, latch, stack, live, prompt>>

\* For the first version: the user's answer, asked for once per plugin.
JudgePrompt(d) ==
  /\ call[d].pc = "sent"
  /\ call[d].tier = "v1"
  /\ prompt' \in IF prompt = "undecided" THEN {"yes", "no"} ELSE {prompt}
  /\ Becomes(d, [call[d] EXCEPT !.pc = "done",
                   !.res = IF prompt' = "yes" THEN "accepted" ELSE "declined"])
  /\ UNCHANGED <<dll, forced, bound, latch, stack, live>>

\* KeePass ends and starts again; a request under way may be sent to the new plugin.
PluginRestarts ==
  /\ prompt' = "undecided"
  /\ UNCHANGED <<dll, forced, bound, latch, stack, call, live>>

\* The sidecar ends, and Windows may have been updated before the next one starts.
SidecarEnds ==
  /\ dll' \in Libraries
  /\ forced' \in BOOLEAN
  /\ bound' = "unresolved"
  /\ latch' = FALSE
  /\ stack' = <<>>
  /\ call' = [d \in Dispatches |-> NoCall]
  /\ live' = {}
  /\ UNCHANGED prompt

----------------------------------------------------------------------------
Step(d) ==
  \/ Dispatch(d) \/ V2Returns(d) \/ V1Returns(d) \/ FallBack(d) \/ Conclude(d)
  \/ CallFails(d) \/ Return(d) \/ JudgeSignature(d) \/ JudgePrompt(d)

Next == (\E d \in Dispatches : Step(d)) \/ PluginRestarts \/ SidecarEnds

Spec == Init /\ [][Next]_vars

----------------------------------------------------------------------------
(* Properties.                                                             *)

\* free_user_verification_response, on every path of perform_user_verification_2 and
\* dispatch_operation: a response nobody has freed is some dispatch's current one, and
\* what a dispatch takes for its response has not been freed.
ResponsesFreed == live = {call[d].out : d \in Dispatches} \ {Null}

\* should_fallback_to_v1, "the user's cancellation must propagate": however the
\* versions follow each other, Windows' dialog comes up once in a dispatch.
OneDialog == \A d \in Dispatches : call[d].dialogs <= 1

\* v2_unimplemented: errors "leave it false because they reflect transient or
\* per-request failures".  So the second version is given up only if it is missing.
V2NotGivenUp == latch => dll = "stub"

\* perform_user_verification_2 reports the tier that completed the dispatch: a user
\* Windows has verified is not refused because the plugin checks the wrong thing.
VerifiedUserNotRefused == \A d \in Dispatches : call[d].res # "badSignature"

\* What the plugin lets pass was verified by Windows in this very dispatch, and signed
\* for this request if the second version works and nobody switched it off.
AcceptedOnlyVerified ==
  \A d \in Dispatches :
    call[d].res = "accepted" =>
      /\ call[d].said = "ok"
      /\ dll = "v2" /\ ~forced => call[d].sig = "mine"
=============================================================================
