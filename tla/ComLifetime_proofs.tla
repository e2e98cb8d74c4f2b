-------------------------- MODULE ComLifetime_proofs --------------------------
(***************************************************************************)
(* Theorems about ComLifetime, for any number of objects, references and   *)
(* locks.                                                                  *)
(***************************************************************************)
EXTENDS ComLifetime, FiniteSetTheorems, TLAPS

----------------------------------------------------------------------------
(* The inductive invariant.                                                *)

\* The process' count is one for every object and every lock.
ServerCounts == server = Cardinality(live) + locks

\* An object's count is one for every reference of its clients, and the kept ones.
ObjectCounts ==
  /\ \A o \in live : refs[o] = holds[o] + Kept /\ refs[o] > 0
  /\ \A o \in Objects \ live : holds[o] = 0

\* Whoever calls an object holds it.
CallersHold == \A o \in Objects : inCall[o] > 0 => holds[o] > 0

\* The factory's count by what run_com_server and COM own.
FactoryCounts ==
  factory = CASE phase \in {"down", "released"} -> 0
              [] phase \in {"starting", "revoked"} -> 1
              [] phase \in {"suspended", "serving", "quitting", "stopped"} -> 2

\* There is nothing to serve before the class is resumed, nor once the loop is to end.
IdleUnlessServing == phase # "serving" => server = 0

IInv ==
  /\ TypeOK
  /\ ServerCounts
  /\ ObjectCounts
  /\ CallersHold
  /\ FactoryCounts
  /\ IdleUnlessServing

----------------------------------------------------------------------------
(* Facts about the counts.                                                 *)

LEMMA LiveFinite ==
  ASSUME live \subseteq Objects
  PROVE  IsFiniteSet(live) /\ Cardinality(live) \in Nat
BY ConstantsAssumption, FS_Subset, FS_CardinalityType

\* A count of zero means that nothing is allocated or locked.
LEMMA NothingServed ==
  ASSUME IInv, server = 0
  PROVE  live = {} /\ locks = 0 /\ InUse = {}
<1>1. Cardinality(live) = 0 /\ locks = 0
  BY LiveFinite DEF IInv, TypeOK, ServerCounts
<1>2. live = {}
  BY <1>1, LiveFinite, FS_EmptySet DEF IInv, TypeOK
<1>3. \A o \in Objects : ~(holds[o] > 0)
  BY <1>2 DEF IInv, ObjectCounts
<1> QED
  BY <1>1, <1>2, <1>3 DEF IInv, TypeOK, InUse

\* An object a client holds is allocated.
LEMMA HeldIsLive ==
  ASSUME IInv, NEW o \in Objects, holds[o] > 0
  PROVE  o \in live /\ refs[o] >= holds[o] /\ server > 0 /\ phase = "serving"
<1>1. o \in live
  BY DEF IInv, ObjectCounts
<1>2. refs[o] >= holds[o]
  BY <1>1, ConstantsAssumption DEF IInv, ObjectCounts, TypeOK
<1>3. server # 0
  BY <1>1, NothingServed
<1> QED
  BY <1>1, <1>2, <1>3 DEF IInv, TypeOK, IdleUnlessServing

----------------------------------------------------------------------------
(* Every step keeps the inductive invariant.                               *)

LEMMA InitGood == Init => IInv
BY FS_EmptySet, ConstantsAssumption
   DEF Init, IInv, TypeOK, ServerCounts, ObjectCounts, CallersHold, FactoryCounts,
       IdleUnlessServing, None, Phases

\* What run_com_server does, or is done to it.
LEMMA ProcessKeeps == IInv /\ Process => IInv'
<1> SUFFICES ASSUME IInv, Process PROVE IInv'
  OBVIOUS
<1> USE DEF IInv, TypeOK, ServerCounts, ObjectCounts, CallersHold, FactoryCounts,
            IdleUnlessServing, Phases
<1>1. CASE Start
  BY <1>1 DEF Start
<1>2. CASE Register
  BY <1>2 DEF Register
<1>3. CASE Resume
  BY <1>3 DEF Resume
<1>4. CASE LeaveLoop
  BY <1>4 DEF LeaveLoop
<1>5. CASE Revoke
  BY <1>5 DEF Revoke
<1>6. CASE DropFactory
  BY <1>6 DEF DropFactory
<1>7. ASSUME Gone PROVE IInv'
  BY <1>7, FS_EmptySet, ConstantsAssumption DEF Gone, None
<1> QED
  BY <1>1, <1>2, <1>3, <1>4, <1>5, <1>6, <1>7 DEF Process, Exit, Killed

\* A new object counts for one.
LEMMA CreateInstanceKeeps == ASSUME IInv, NEW o \in Objects, CreateInstance(o) PROVE IInv'
<1>1. TypeOK'
  BY ConstantsAssumption DEF IInv, TypeOK, CreateInstance, AddServerRef
<1>2. ServerCounts'
  <2>1. IsFiniteSet(live) /\ Cardinality(live) \in Nat /\ o \notin live
    BY LiveFinite DEF IInv, TypeOK, CreateInstance
  <2>2. Cardinality(live \cup {o}) = Cardinality(live) + 1
    BY <2>1, FS_AddElement
  <2> QED
    BY <2>1, <2>2 DEF IInv, TypeOK, ServerCounts, CreateInstance, AddServerRef
<1>3. ObjectCounts' /\ CallersHold'
  BY ConstantsAssumption DEF IInv, TypeOK, ObjectCounts, CallersHold, CreateInstance
<1>4. FactoryCounts' /\ IdleUnlessServing'
  BY DEF IInv, TypeOK, FactoryCounts, IdleUnlessServing, CreateInstance, Admits
<1> QED
  BY <1>1, <1>2, <1>3, <1>4 DEF IInv

\* A reference that is not the last changes only the object's two counts; the last one
\* takes the object and its share of the process' count away.
LEMMA ReleaseKeeps == ASSUME IInv, NEW o \in Objects, Release(o) PROVE IInv'
<1>1. holds[o] > 0 /\ (inCall[o] > 0 => holds[o] > 1)
  BY DEF Release, MayRelease, IInv, TypeOK
<1>2. o \in live /\ server > 0 /\ phase = "serving" /\ refs[o] = holds[o] + Kept
  BY <1>1, HeldIsLive DEF IInv, ObjectCounts
<1>3. IsFiniteSet(live) /\ Cardinality(live) \in Nat
  BY LiveFinite DEF IInv, TypeOK
<1>4. /\ Cardinality(live \ {o}) = Cardinality(live) - 1
      /\ Cardinality(live \ {o}) \in Nat
  BY <1>2, <1>3, FS_RemoveElement, FS_CardinalityType
<1>5. CASE refs[o] = 1
  <2>1. holds[o] = 1 /\ inCall[o] = 0
    BY <1>1, <1>2, <1>5, ConstantsAssumption DEF IInv, TypeOK
  <2>2. server' = server - 1 /\ live' = live \ {o}
    BY <1>5 DEF Release, ReleaseServerRef
  <2>3. TypeOK'
    BY <1>2, <2>1, <2>2, <1>5
       DEF IInv, TypeOK, Release, ReleaseServerRef, Phases
  <2>4. ServerCounts'
    BY <1>3, <1>4, <2>2 DEF IInv, TypeOK, ServerCounts, Release
  <2>5. ObjectCounts' /\ CallersHold'
    BY <2>1, <2>2 DEF IInv, TypeOK, ObjectCounts, CallersHold, Release
  <2>6. FactoryCounts' /\ IdleUnlessServing'
    BY <1>2, <1>5, <2>2
       DEF IInv, TypeOK, FactoryCounts, IdleUnlessServing, Release, ReleaseServerRef
  <2> QED
    BY <2>3, <2>4, <2>5, <2>6 DEF IInv
<1>6. CASE refs[o] # 1
  <2>1. UNCHANGED <<phase, factory, server, live, locks, inCall>>
    BY <1>6 DEF Release
  <2>2. TypeOK'
    <3>1. refs' = [refs EXCEPT ![o] = @ - 1] /\ holds' = [holds EXCEPT ![o] = @ - 1]
      BY DEF Release
    <3>2. refs[o] - 1 \in Nat /\ holds[o] - 1 \in Nat
      BY <1>1, <1>2, ConstantsAssumption DEF IInv, TypeOK
    <3> QED
      BY <1>2, <2>1, <3>1, <3>2 DEF IInv, TypeOK
  <2>3. ObjectCounts' /\ CallersHold'
    BY <1>1, <1>2, <1>6, <2>1, ConstantsAssumption
       DEF IInv, TypeOK, ObjectCounts, CallersHold, Release
  <2> QED
    BY <2>1, <2>2, <2>3 DEF IInv, ServerCounts, FactoryCounts, IdleUnlessServing
<1> QED
  BY <1>5, <1>6

LEMMA ClientKeeps == IInv /\ Client => IInv'
<1> SUFFICES ASSUME IInv, Client PROVE IInv'
  OBVIOUS
<1>1. CASE CreateRefused
  BY <1>1
     DEF CreateRefused, Admits, IInv, TypeOK, ServerCounts, ObjectCounts, CallersHold,
         FactoryCounts, IdleUnlessServing, Phases
<1>2. CASE LockServer
  BY <1>2, LiveFinite
     DEF LockServer, Admits, AddServerRef, IInv, TypeOK, ServerCounts, ObjectCounts,
         CallersHold, FactoryCounts, IdleUnlessServing
<1>3. CASE UnlockServer
  <2>1. server > 0 /\ phase = "serving"
    BY <1>3, LiveFinite
       DEF UnlockServer, IInv, TypeOK, ServerCounts, IdleUnlessServing
  <2> QED
    BY <1>3, <2>1, LiveFinite
       DEF UnlockServer, ReleaseServerRef, IInv, TypeOK, ServerCounts, ObjectCounts,
           CallersHold, FactoryCounts, IdleUnlessServing, Phases
<1>4. ASSUME NEW o \in Objects, QueryInterface(o) PROVE IInv'
  <2>1. holds[o] > 0 /\ o \in live
    BY <1>4, HeldIsLive DEF QueryInterface, IInv, TypeOK
  <2>2. /\ refs' = [refs EXCEPT ![o] = @ + 1]
        /\ holds' = [holds EXCEPT ![o] = @ + 1]
        /\ UNCHANGED <<phase, factory, server, live, locks, inCall>>
    BY <1>4 DEF QueryInterface
  <2>3. TypeOK'
    BY <2>1, <2>2 DEF IInv, TypeOK
  <2>4. ObjectCounts' /\ CallersHold'
    BY <2>1, <2>2, ConstantsAssumption DEF IInv, TypeOK, ObjectCounts, CallersHold
  <2> QED
    BY <2>2, <2>3, <2>4 DEF IInv, ServerCounts, FactoryCounts, IdleUnlessServing
<1>5. ASSUME NEW o \in Objects, EnterMethod(o) PROVE IInv'
  <2>1. holds[o] > 0 /\ o \in live
    BY <1>5, HeldIsLive DEF EnterMethod
  <2>2. /\ inCall' = [inCall EXCEPT ![o] = @ + 1]
        /\ UNCHANGED <<phase, factory, server, live, refs, holds, locks>>
    BY <1>5 DEF EnterMethod
  <2>3. TypeOK' /\ CallersHold'
    BY <2>1, <2>2 DEF IInv, TypeOK, CallersHold
  <2> QED
    BY <2>2, <2>3
       DEF IInv, ServerCounts, ObjectCounts, FactoryCounts, IdleUnlessServing
<1>6. ASSUME NEW o \in Objects, Return(o) PROVE IInv'
  <2>1. /\ inCall[o] > 0 /\ inCall' = [inCall EXCEPT ![o] = @ - 1]
        /\ UNCHANGED <<phase, factory, server, live, refs, holds, locks>>
    BY <1>6 DEF Return
  <2>2. TypeOK' /\ CallersHold'
    BY <2>1 DEF IInv, TypeOK, CallersHold
  <2> QED
    BY <2>1, <2>2
       DEF IInv, ServerCounts, ObjectCounts, FactoryCounts, IdleUnlessServing
<1> QED
  BY <1>1, <1>2, <1>3, <1>4, <1>5, <1>6, CreateInstanceKeeps, ReleaseKeeps DEF Client

\* The counts of the factory, the objects and the process stay right.
THEOREM Invariance == Spec => []IInv
<1>1. IInv /\ [Next]_vars => IInv'
  <2>1. IInv /\ UNCHANGED vars => IInv'
    BY DEF vars, IInv, TypeOK, ServerCounts, ObjectCounts, CallersHold, FactoryCounts,
       IdleUnlessServing
  <2> QED
    BY <2>1, ProcessKeeps, ClientKeeps DEF Next
<1> QED
  BY <1>1, InitGood, PTL DEF Spec

----------------------------------------------------------------------------
(* The properties of ComLifetime.                                          *)

\* ComLifetime's variables keep their types: no count falls below zero.
THEOREM TypeCorrect == Spec => []TypeOK
<1>1. IInv => TypeOK
  BY DEF IInv
<1> QED
  BY <1>1, Invariance, PTL

\* Neither an object somebody refers to or is calling nor a registered factory is freed.
THEOREM NeverDangles == Spec => []NothingDangles
<1>1. IInv => NothingDangles
  <2> SUFFICES ASSUME IInv PROVE NothingDangles
    OBVIOUS
  <2> QED
    BY HeldIsLive DEF NothingDangles, IInv, TypeOK, CallersHold, FactoryCounts
<1> QED
  BY <1>1, Invariance, PTL

----------------------------------------------------------------------------
(* The three counts implement ServerLife.                                  *)

LEMMA InitImplements == Init => Life!Init
BY DEF Init, Life!Init, Admits, InUse, None

LEMMA StepImplements == IInv /\ IInv' /\ [Next]_vars => [Life!Next]_(Life!vars)
<1> SUFFICES ASSUME IInv, IInv', [Next]_vars PROVE [Life!Next]_(Life!vars)
  OBVIOUS
<1> USE DEF Life!vars, Life!Next, Admits
<1>1. ASSUME UNCHANGED <<holds, locks>>, Admits' = Admits
      PROVE  UNCHANGED Life!vars
  BY <1>1 DEF InUse
<1>2. CASE Start \/ Register \/ LeaveLoop \/ Revoke \/ DropFactory
  BY <1>1, <1>2 DEF Start, Register, LeaveLoop, Revoke, DropFactory
<1>3. CASE Resume
  <2>1. InUse = {} /\ InUse' = InUse
    BY <1>3, NothingServed DEF Resume, IInv, IdleUnlessServing, InUse
  <2> QED
    BY <1>3, <2>1 DEF Resume, Life!Start
<1>4. CASE Gone
  BY <1>4 DEF Gone, None, InUse, Life!Die
<1>5. CASE CreateRefused
  <2>1. CASE server = 0
    <3>1. InUse = {} /\ InUse' = InUse
      BY <1>5, <2>1, NothingServed DEF CreateRefused, InUse
    <3> QED
      BY <1>5, <2>1, <3>1 DEF CreateRefused, Life!Stop
  <2>2. CASE server # 0
    BY <1>1, <1>5, <2>2 DEF CreateRefused
  <2> QED
    BY <2>1, <2>2
<1>6. CASE LockServer
  <2>1. InUse' = InUse \cup {Lock}
    BY <1>6 DEF LockServer, InUse, IInv, TypeOK
  <2> QED
    BY <1>6, <2>1 DEF LockServer, AddServerRef, Life!Begin
<1>7. CASE UnlockServer
  <2>1. phase = "serving"
    BY <1>7, LiveFinite
       DEF UnlockServer, IInv, TypeOK, ServerCounts, IdleUnlessServing
  <2>2. CASE server = 1
    <3>1. locks' = 0 /\ locks = 1 /\ holds' = holds /\ phase' = "quitting" /\ server' = 0
      BY <1>7, <2>2, LiveFinite
         DEF UnlockServer, ReleaseServerRef, IInv, TypeOK, ServerCounts
    <3>2. Cardinality(live) = 0
      BY <2>2, <3>1, LiveFinite DEF IInv, TypeOK, ServerCounts
    <3>3. live = {}
      BY <3>2, LiveFinite, FS_EmptySet DEF IInv, TypeOK
    <3>4. \A o \in Objects : ~(holds[o] > 0)
      BY <3>3 DEF IInv, ObjectCounts
    <3> QED
      BY <2>1, <3>1, <3>4 DEF InUse, Life!EndLast
  <2>3. CASE server # 1
    <3>1. phase' = phase
      BY <1>7, <2>3 DEF UnlockServer, ReleaseServerRef
    <3>2. InUse' \in {InUse, InUse \ {Lock}}
      BY <1>7, ConstantsAssumption DEF UnlockServer, InUse, IInv, TypeOK
    <3> QED
      BY <2>1, <3>1, <3>2 DEF Life!End
  <2> QED
    BY <2>2, <2>3
<1>8. ASSUME NEW o \in Objects, CreateInstance(o) PROVE [Life!Next]_(Life!vars)
  <2>1. InUse' = InUse \cup {o}
    BY <1>8 DEF CreateInstance, InUse, IInv, TypeOK
  <2> QED
    BY <1>8, <2>1 DEF CreateInstance, Life!Begin
<1>9. ASSUME NEW o \in Objects, QueryInterface(o) PROVE [Life!Next]_(Life!vars)
  <2>1. InUse' = InUse
    BY <1>9 DEF QueryInterface, InUse, IInv, TypeOK
  <2> QED
    BY <1>9, <2>1 DEF QueryInterface
<1>10. ASSUME NEW o \in Objects, Release(o) PROVE [Life!Next]_(Life!vars)
  <2>1. holds[o] > 0
    BY <1>10 DEF Release, MayRelease, IInv, TypeOK
  <2>2. phase = "serving" /\ o \in live
    BY <2>1, HeldIsLive
  <2>3. InUse' \in {InUse, InUse \ {o}} /\ locks' = locks
    BY <1>10, <2>1, ConstantsAssumption DEF Release, InUse, IInv, TypeOK
  <2>4. CASE phase' = phase
    BY <2>2, <2>3, <2>4 DEF Life!End
  <2>5. CASE phase' # phase
    <3>1. phase' = "quitting" /\ server' = 0
      BY <1>10, <2>5 DEF Release, ReleaseServerRef, IInv, TypeOK
    <3>2. InUse' = {}
      <4>1. Cardinality(live') = 0 /\ locks' = 0
        <5>1. live' \subseteq Objects /\ locks' \in Nat /\ server' = Cardinality(live') + locks'
          BY DEF IInv, TypeOK, ServerCounts
        <5>2. Cardinality(live') \in Nat
          BY <5>1, FS_Subset, FS_CardinalityType, ConstantsAssumption
        <5> QED
          BY <3>1, <5>1, <5>2
      <4>2. live' = {}
        BY <4>1, FS_Subset, FS_EmptySet, ConstantsAssumption DEF IInv, TypeOK
      <4>3. \A p \in Objects : ~(holds'[p] > 0)
        BY <4>2 DEF IInv, ObjectCounts
      <4> QED
        BY <4>1, <4>3 DEF InUse
    <3> QED
      BY <2>2, <2>3, <3>1, <3>2 DEF Life!EndLast
  <2> QED
    BY <2>4, <2>5
<1>11. ASSUME NEW o \in Objects, EnterMethod(o) \/ Return(o)
       PROVE  [Life!Next]_(Life!vars)
  BY <1>1, <1>11 DEF EnterMethod, Return
<1>12. CASE UNCHANGED vars
  BY <1>1, <1>12 DEF vars
<1> QED
  BY <1>2, <1>3, <1>4, <1>5, <1>6, <1>7, <1>8, <1>9, <1>10, <1>11, <1>12
     DEF Next, Process, Client, Exit, Killed

\* The counts of the factory, the objects and the process keep the promise of
\* ServerLife: no activation, release or nested call ends a process in use.
THEOREM CountsImplementServerLife == Spec => ImplementsServerLife
<1> QED
  BY InitImplements, StepImplements, Invariance, PTL DEF Spec, ImplementsServerLife, Life!Spec

----------------------------------------------------------------------------
(* What the kept reference does.                                           *)

\* An object's count never falls to the last reference.
LEMMA NoLastRelease ==
  ASSUME IInv, Kept # 0, NEW o \in Objects, Release(o)
  PROVE  UNCHANGED <<phase, live>>
<1>1. holds[o] > 0
  BY DEF Release, MayRelease, IInv, TypeOK
<1>2. refs[o] = holds[o] + Kept
  BY <1>1, HeldIsLive DEF IInv, ObjectCounts
<1>3. refs[o] # 1
  BY <1>1, <1>2, ConstantsAssumption DEF IInv, TypeOK
<1> QED
  BY <1>3 DEF Release

\* While there is an object, the process' count is more than its locks.
LEMMA ObjectsCount == ASSUME IInv, live # {} PROVE phase = "serving" /\ server > locks
<1>1. Cardinality(live) \in Nat /\ Cardinality(live) # 0
  BY LiveFinite, FS_EmptySet DEF IInv, TypeOK
<1> QED
  BY <1>1 DEF IInv, TypeOK, ServerCounts, IdleUnlessServing

\* The reference cf_create_instance keeps on what it hands out, of whatever number, is
\* enough to keep the object and the process for good.
THEOREM KeptForGood == ASSUME Kept # 0 PROVE Spec => HandedOutServes
<1> DEFINE Serves == (phase' = "serving" /\ live \subseteq live') \/ phase' = "down"
<1>1. IInv /\ [Next]_vars => [live # {} => Serves]_vars
  <2> SUFFICES ASSUME IInv, Next, live # {} PROVE Serves
    OBVIOUS
  <2>1. phase = "serving" /\ server > locks /\ server # 0
    BY ObjectsCount DEF IInv, TypeOK
  <2>2. CASE Process
    BY <2>1, <2>2
       DEF Process, Start, Register, Resume, LeaveLoop, Revoke, DropFactory, Exit, Killed, Gone
  <2>3. CASE CreateRefused \/ LockServer
    BY <2>1, <2>3 DEF CreateRefused, LockServer
  <2>4. CASE UnlockServer
    <3>1. server # 1
      BY <2>1, <2>4 DEF UnlockServer, IInv, TypeOK
    <3> QED
      BY <2>1, <2>4, <3>1 DEF UnlockServer, ReleaseServerRef
  <2>5. ASSUME NEW o \in Objects,
               CreateInstance(o) \/ QueryInterface(o) \/ EnterMethod(o) \/ Return(o)
        PROVE  Serves
    BY <2>1, <2>5 DEF CreateInstance, QueryInterface, EnterMethod, Return
  <2>6. ASSUME NEW o \in Objects, Release(o) PROVE Serves
    BY <2>1, <2>6, NoLastRelease
  <2> QED
    BY <2>2, <2>3, <2>4, <2>5, <2>6 DEF Next, Client
<1> QED
  BY <1>1, Invariance, PTL DEF Spec, HandedOutServes
=============================================================================
