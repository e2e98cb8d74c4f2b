------------------------------ MODULE ComLifetime ------------------------------
(***************************************************************************)
(* The sidecar as COM sees it: one process that registers a class factory, *)
(* hands out authenticator objects and is to end with the last of them.    *)
(* Three counts decide: the factory's references, each object's, and the   *)
(* process' own, which COM keeps (CoAddRefServerProcess) and which at zero *)
(* makes COM suspend the class and post WM_QUIT to the message loop.       *)
(*                                                                         *)
(* All of it happens on the STA thread: while an authenticator method      *)
(* waits (sta_block_on), the thread dispatches other calls, among them the *)
(* Release of the object whose method is waiting.                          *)
(*                                                                         *)
(* An operator X_Something is X with a bug a change of the code could      *)
(* bring in.  No specification uses it; it shows what a property guards.   *)
(***************************************************************************)
EXTENDS Naturals, FiniteSets

CONSTANTS
  Objects,  \* allocations of IPluginAuthenticatorImpl in one process
  MaxHolds, \* bound: references one client holds on one object
  MaxLocks, \* bound: LockServer(TRUE) calls not taken back
  MaxCalls, \* bound: methods of one object on the STA thread's stack
  Lock,     \* the use of the server by those calls
  Kept      \* references cf_create_instance keeps on an object it has handed out:
            \* one, that of IPluginAuthenticatorImpl::new, which it never releases

ASSUME ConstantsAssumption ==
  /\ IsFiniteSet(Objects)
  /\ MaxHolds \in Nat \ {0}
  /\ MaxLocks \in Nat
  /\ MaxCalls \in Nat \ {0}
  /\ Lock \notin Objects
  /\ Kept \in Nat

\* run_com_server, from its start to process::exit.
Phases == {"down", "starting", "suspended", "serving", "quitting", "stopped",
           "revoked", "released"}

VARIABLES
  phase,   \* how far run_com_server is
  factory, \* ClassFactory.ref_count
  server,  \* the process' count in COM
  live,    \* objects allocated and not freed
  refs,    \* IPluginAuthenticatorImpl.ref_count
  holds,   \* references each object's clients hold
  locks,   \* LockServer(TRUE) calls not taken back
  inCall   \* methods of each object on the STA thread's stack, one waiting in the other

vars == <<phase, factory, server, live, refs, holds, locks, inCall>>

None == [o \in Objects |-> 0]

\* Besides the types: the counts of an object nobody has allocated are zero.
TypeOK ==
  /\ phase \in Phases
  /\ factory \in Nat
  /\ server \in Nat
  /\ live \subseteq Objects
  /\ refs \in [Objects -> Nat]
  /\ holds \in [Objects -> Nat]
  /\ locks \in Nat
  /\ inCall \in [Objects -> Nat]
  /\ \A o \in Objects \ live : refs[o] = 0 /\ inCall[o] = 0

Init ==
  /\ phase = "down"
  /\ factory = 0
  /\ server = 0
  /\ live = {}
  /\ refs = None
  /\ holds = None
  /\ locks = 0
  /\ inCall = None

----------------------------------------------------------------------------
(* Helpers.                                                                *)

\* CoAddRefServerProcess.
AddServerRef == server' = server + 1

\* CoReleaseServerProcess: at zero COM suspends the class and posts WM_QUIT.
ReleaseServerRef ==
  /\ server' = server - 1
  /\ phase' = IF server = 1 THEN "quitting" ELSE phase

\* The message loop runs, or a method does that pumps messages.
Pumping == phase \in {"serving", "quitting"}

\* COM lets no new client in while the class is suspended.
Admits == phase = "serving"

----------------------------------------------------------------------------
(* run_com_server.                                                         *)

\* ClassFactory::new, from_raw: the factory starts with the one reference that iunk owns.
Start ==
  /\ phase = "down"
  /\ phase' = "starting"
  /\ factory' = 1
  /\ UNCHANGED <<server, live, refs, holds, locks, inCall>>

\* CoRegisterClassObject with REGCLS_SUSPENDED: COM adds its own reference.
Register ==
  /\ phase = "starting"
  /\ phase' = "suspended"
  /\ factory' = factory + 1
  /\ UNCHANGED <<server, live, refs, holds, locks, inCall>>

\* CoResumeClassObjects.
Resume ==
  /\ phase = "suspended"
  /\ phase' = "serving"
  /\ UNCHANGED <<factory, server, live, refs, holds, locks, inCall>>

\* GetMessageW returns WM_QUIT: only to the loop itself, not to a waiting method.
LeaveLoop ==
  /\ phase = "quitting"
  /\ inCall = None
  /\ phase' = "stopped"
  /\ UNCHANGED <<factory, server, live, refs, holds, locks, inCall>>

\* CoRevokeClassObject: COM gives its reference back.
Revoke ==
  /\ phase = "stopped"
  /\ phase' = "revoked"
  /\ factory' = factory - 1
  /\ UNCHANGED <<server, live, refs, holds, locks, inCall>>

\* drop(iunk): the last reference; cf_release frees the factory.
DropFactory ==
  /\ phase = "revoked"
  /\ phase' = "released"
  /\ factory' = factory - 1
  /\ UNCHANGED <<server, live, refs, holds, locks, inCall>>

\* The process is gone, and with it whatever it had allocated.
Gone ==
  /\ phase' = "down"
  /\ factory' = 0
  /\ server' = 0
  /\ live' = {}
  /\ refs' = None
  /\ holds' = None
  /\ locks' = 0
  /\ inCall' = None

\* CoUninitialize, process::exit.
Exit == phase = "released" /\ Gone

\* A panic on the STA thread (a call of COM that fails with expect, a task that
\* panicked under sta_block_on), a user who stops the process, the session's end.
Killed == phase # "down" /\ Gone

----------------------------------------------------------------------------
(* Clients: activation, references, locks, calls.                          *)

CreateInstance_NoServerRef(o) ==
  /\ Admits
  /\ o \notin live
  /\ live' = live \cup {o}
  /\ refs' = [refs EXCEPT ![o] = Kept + 1]
  /\ holds' = [holds EXCEPT ![o] = 1]
  /\ UNCHANGED <<phase, factory, server, locks, inCall>>

\* cf_create_instance: the object starts with the reference that is kept, and
\* query_interface adds the client's.
CreateInstance(o) ==
  /\ Admits
  /\ o \notin live
  /\ live' = live \cup {o}
  /\ refs' = [refs EXCEPT ![o] = Kept + 1]
  /\ holds' = [holds EXCEPT ![o] = 1]
  /\ AddServerRef
  /\ UNCHANGED <<phase, factory, locks, inCall>>

\* cf_create_instance for an interface the object does not have: the object is freed
\* again and the process' count taken back, which may have been the only one.
CreateRefused ==
  /\ Admits
  /\ phase' = IF server = 0 THEN "quitting" ELSE phase
  /\ UNCHANGED <<factory, server, live, refs, holds, locks, inCall>>

QueryInterface_NoAddRef(o) ==
  /\ Pumping
  /\ holds[o] \in 1..(MaxHolds - 1)
  /\ holds' = [holds EXCEPT ![o] = @ + 1]
  /\ UNCHANGED <<phase, factory, server, live, refs, locks, inCall>>

\* add_ref, or query_interface for an interface the object has, by who holds one
\* reference already.
QueryInterface(o) ==
  /\ Pumping
  /\ holds[o] \in 1..(MaxHolds - 1)
  /\ refs' = [refs EXCEPT ![o] = @ + 1]
  /\ holds' = [holds EXCEPT ![o] = @ + 1]
  /\ UNCHANGED <<phase, factory, server, live, locks, inCall>>

\* Clients keep one reference for as long as they are calling the object.
MayRelease(o) == holds[o] > (IF inCall[o] > 0 THEN 1 ELSE 0)

\* The previous count, which fetch_sub returns, taken for the new one.
Release_FreesEarly(o) ==
  /\ Pumping
  /\ MayRelease(o)
  /\ holds' = [holds EXCEPT ![o] = @ - 1]
  /\ refs' = [refs EXCEPT ![o] = @ - 1]
  /\ IF refs[o] = 2
       THEN live' = live \ {o} /\ ReleaseServerRef
       ELSE UNCHANGED <<live, server, phase>>
  /\ UNCHANGED <<factory, locks, inCall>>

\* release: the last reference frees the object and takes the process' count back.
Release(o) ==
  /\ Pumping
  /\ MayRelease(o)
  /\ holds' = [holds EXCEPT ![o] = @ - 1]
  /\ refs' = [refs EXCEPT ![o] = @ - 1]
  /\ IF refs[o] = 1
       THEN live' = live \ {o} /\ ReleaseServerRef
       ELSE UNCHANGED <<live, server, phase>>
  /\ UNCHANGED <<factory, locks, inCall>>

\* cf_lock_server.
LockServer ==
  /\ Admits
  /\ locks < MaxLocks
  /\ locks' = locks + 1
  /\ AddServerRef
  /\ UNCHANGED <<phase, factory, live, refs, holds, inCall>>

UnlockServer ==
  /\ Pumping
  /\ locks > 0
  /\ locks' = locks - 1
  /\ ReleaseServerRef
  /\ UNCHANGED <<factory, live, refs, holds, inCall>>

\* An authenticator method begins, possibly while others wait, of the same object too.
EnterMethod(o) ==
  /\ Pumping
  /\ holds[o] > 0
  /\ inCall[o] < MaxCalls
  /\ inCall' = [inCall EXCEPT ![o] = @ + 1]
  /\ UNCHANGED <<phase, factory, server, live, refs, holds, locks>>

\* Its method reads the object until it returns.
Return(o) ==
  /\ inCall[o] > 0
  /\ inCall' = [inCall EXCEPT ![o] = @ - 1]
  /\ UNCHANGED <<phase, factory, server, live, refs, holds, locks>>

----------------------------------------------------------------------------
Process ==
  Start \/ Register \/ Resume \/ LeaveLoop \/ Revoke \/ DropFactory \/ Exit \/ Killed

Client ==
  \/ CreateRefused \/ LockServer \/ UnlockServer
  \/ \E o \in Objects :
       CreateInstance(o) \/ QueryInterface(o) \/ Release(o) \/ EnterMethod(o) \/ Return(o)

Next == Process \/ Client

Spec == Init /\ [][Next]_vars

----------------------------------------------------------------------------
(* Properties.                                                             *)

\* The lifecycle note of exe_server.rs: what a client holds on to is there.  No
\* order of activations, references, locks and nested calls frees an object that a
\* client refers to or whose method is running, and COM never finds the factory
\* freed while the class is registered.
NothingDangles ==
  /\ \A o \in Objects : holds[o] > 0 => o \in live /\ refs[o] >= holds[o]
  /\ \A o \in Objects : inCall[o] > 0 => holds[o] > 0
  /\ phase \in {"suspended", "serving", "quitting", "stopped"} => factory = 2
  /\ phase = "released" => factory = 0

\* What is in use, and whether the server has decided to end.
InUse == {o \in Objects : holds[o] > 0} \cup (IF locks > 0 THEN {Lock} ELSE {})

Life == INSTANCE ServerLife
          WITH Uses <- Objects \cup {Lock}, up <- Admits, inUse <- InUse

\* The three counts together keep the promise of ServerLife: the process stops by
\* itself only when no client holds an object or a lock, and nobody is let in later.
ImplementsServerLife == Life!Spec

\* exe_server.rs:7: run_com_server "pumps messages until the last object is
\* released"; server.rs:225-228: the release of the last one "unblocks
\* run_com_server's GetMessageW loop".  So a server that has handed out an object
\* and that nobody uses any more is about to end.
UnusedServerEnds == phase = "serving" /\ live # {} => InUse # {}

\* What the kept reference makes of the end cf_create_instance, release and
\* run_com_server arrange: once an object has been handed out, no order of references,
\* releases, locks, refused activations and nested calls frees an object or ends the
\* message loop.  The sidecar serves, with all it has allocated, until it is killed.
HandedOutServes ==
  [][live # {} => (phase' = "serving" /\ live \subseteq live') \/ phase' = "down"]_vars
=============================================================================
