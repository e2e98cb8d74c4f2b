------------------------- MODULE VaultSync_proofs -------------------------
(***************************************************************************)
(* Theorems about VaultSync, for any sets of credentials and tasks.        *)
(***************************************************************************)
EXTENDS VaultSync, TLAPS

----------------------------------------------------------------------------
(* The inductive invariant.                                                *)

\* What cannot be seen in the vault now, every task has noted as missed.
UnseenNoted == \A t \in Tasks : pc[t] # "idle" => Creds \ Visible \subseteq missed[t]

\* So is what a task's list of the vault does not contain.
UnlistedNoted ==
  \A t \in Tasks :
    pc[t] \in {"listing", "adding", "removing"} => Creds \ listed[t] \subseteq missed[t]

\* A task that nobody has disturbed knows the vault, and how far it has got with
\* Windows' cache.
CalmExact ==
  \A t \in Tasks :
    calm[t] =>
      /\ pc[t] # "idle" => open
      /\ pc[t] \in {"listing", "adding", "removing", "synced"} => listed[t] = vault
      /\ pc[t] = "adding" =>
           /\ todo[t] \subseteq listed[t]
           /\ os = osIds[t] \cup (listed[t] \ todo[t])
      /\ pc[t] = "removing" => os = listed[t] \cup todo[t]
      /\ pc[t] = "synced" => os = vault

IInv ==
  /\ TypeOK
  /\ UnseenNoted
  /\ UnlistedNoted
  /\ CalmExact

----------------------------------------------------------------------------
(* What a change by somebody else does to the tasks' histories.            *)

LEMMA DisturbanceNoted ==
  ASSUME IInv, Disturb, pc' = pc, listed' = listed, osIds' = osIds, todo' = todo
  PROVE  UnseenNoted' /\ UnlistedNoted' /\ CalmExact'
<1>1. \A t \in Tasks : ~calm'[t]
  BY DEF Disturb
<1>2. \A t \in Tasks : missed'[t] = missed[t] \cup (Creds \ Visible')
  BY DEF Disturb, Visible
<1>3. UnseenNoted'
  BY <1>2 DEF UnseenNoted
<1>4. UnlistedNoted'
  BY <1>2 DEF UnlistedNoted, IInv
<1> QED
  BY <1>1, <1>3, <1>4 DEF CalmExact

----------------------------------------------------------------------------
(* Every step keeps the inductive invariant.                               *)

\* Every variable keeps its type, and a task that ends leaves no list behind.
LEMMA TypeKept == IInv /\ [Next]_vars => TypeOK'
<1> SUFFICES ASSUME IInv, [Next]_vars PROVE TypeOK'
  OBVIOUS
<1>1. ASSUME NEW c \in Creds, MakeCredential(c) PROVE TypeOK'
  BY <1>1 DEF MakeCredential, IInv, TypeOK, Provides, TaskState, Disturb
<1>2. ASSUME NEW c \in Creds, TryAddCredentials(c) PROVE TypeOK'
  BY <1>2 DEF TryAddCredentials, IInv, TypeOK, Provides, TaskState, Disturb
<1>3. ASSUME NEW c \in Creds, UserEdits(c) PROVE TypeOK'
  BY <1>3 DEF UserEdits, IInv, TypeOK, Provides, TaskState, Disturb
<1>4. ASSUME NEW t \in Tasks, Ask(t) PROVE TypeOK'
  BY <1>4 DEF Ask, IInv, TypeOK, Provides, Visible, TaskState
<1>5. ASSUME NEW t \in Tasks, Enumerate(t) PROVE TypeOK'
  BY <1>5 DEF Enumerate, IInv, TypeOK, Provides, Visible, TaskState, Finish, FreeArray
<1>6. ASSUME NEW t \in Tasks, GetAllCredentials(t) PROVE TypeOK'
  <2>1. CASE Finish(t)
    BY <1>6, <2>1 DEF GetAllCredentials, IInv, TypeOK, Provides, TaskState, Finish, FreeArray
  <2>2. CASE ~Finish(t)
    BY <1>6, <2>2 DEF GetAllCredentials, IInv, TypeOK, Provides, TaskState
  <2> QED
    BY <2>1, <2>2
<1>7. ASSUME NEW t \in Tasks, AddsDone(t) PROVE TypeOK'
  BY <1>7 DEF AddsDone, IInv, TypeOK, Provides, TaskState
<1>8. ASSUME NEW t \in Tasks, RemovesDone(t) PROVE TypeOK'
  BY <1>8 DEF RemovesDone, IInv, TypeOK, Provides, TaskState
<1>9. ASSUME NEW t \in Tasks, Stop(t) PROVE TypeOK'
  BY <1>9 DEF Stop, IInv, TypeOK, Provides, TaskState, Finish, FreeArray
<1>10. ASSUME NEW t \in Tasks, NEW c \in Creds, AddCredentials(t, c) PROVE TypeOK'
  BY <1>10 DEF AddCredentials, IInv, TypeOK, Provides, TaskState, DisturbOthers
<1>11. ASSUME NEW t \in Tasks, NEW c \in Creds, RemoveCredentials(t, c) PROVE TypeOK'
  BY <1>11 DEF RemoveCredentials, IInv, TypeOK, Provides, TaskState, DisturbOthers
<1>12. ASSUME ToggleLock PROVE TypeOK'
  BY <1>12 DEF ToggleLock, IInv, TypeOK, Provides, TaskState, Disturb
<1>13. ASSUME SidecarEnds PROVE TypeOK'
  BY <1>13 DEF SidecarEnds, IInv, TypeOK, Provides, TaskState, Disturb
<1>14. CASE UNCHANGED vars
  BY <1>14 DEF IInv, TypeOK, Provides, vars, taskVars
<1> QED
  BY <1>1, <1>2, <1>3, <1>4, <1>5, <1>6, <1>7, <1>8, <1>9, <1>10, <1>11, <1>12,
     <1>13, <1>14 DEF Next, Task

\* The tasks' histories stay right.
LEMMA HistoriesKept ==
  IInv /\ [Next]_vars
    => (UnseenNoted /\ UnlistedNoted /\ CalmExact)'
<1> SUFFICES ASSUME IInv, [Next]_vars PROVE (UnseenNoted /\ UnlistedNoted /\ CalmExact)'
  OBVIOUS
<1>1. ASSUME NEW c \in Creds, MakeCredential(c)
      PROVE  (UnseenNoted /\ UnlistedNoted /\ CalmExact)'
  BY <1>1, DisturbanceNoted DEF MakeCredential
<1>2. ASSUME NEW c \in Creds, TryAddCredentials(c)
      PROVE  (UnseenNoted /\ UnlistedNoted /\ CalmExact)'
  BY <1>2, DisturbanceNoted DEF TryAddCredentials
<1>3. ASSUME NEW c \in Creds, UserEdits(c)
      PROVE  (UnseenNoted /\ UnlistedNoted /\ CalmExact)'
  BY <1>3, DisturbanceNoted DEF UserEdits
<1>4. ASSUME NEW t \in Tasks, Ask(t) PROVE (UnseenNoted /\ UnlistedNoted /\ CalmExact)'
  <2>1. UnseenNoted'
    BY <1>4 DEF Ask, IInv, TypeOK, UnseenNoted, Visible
  <2>2. UnlistedNoted'
    BY <1>4 DEF Ask, IInv, TypeOK, UnseenNoted, UnlistedNoted, Visible
  <2>3. CalmExact'
    BY <1>4 DEF Ask, IInv, TypeOK, CalmExact, Visible
  <2> QED
    BY <2>1, <2>2, <2>3
<1>5. ASSUME NEW t \in Tasks, Enumerate(t)
      PROVE  (UnseenNoted /\ UnlistedNoted /\ CalmExact)'
  <2>1. UnseenNoted'
    BY <1>5 DEF Enumerate, IInv, TypeOK, UnseenNoted, Visible, Finish, FreeArray
  <2>2. UnlistedNoted'
    BY <1>5 DEF Enumerate, IInv, TypeOK, UnseenNoted, UnlistedNoted, Visible, Finish, FreeArray
  <2>3. CalmExact'
    BY <1>5 DEF Enumerate, IInv, TypeOK, CalmExact, Visible, Finish, FreeArray
  <2> QED
    BY <2>1, <2>2, <2>3
<1>6. ASSUME NEW t \in Tasks, GetAllCredentials(t)
      PROVE  (UnseenNoted /\ UnlistedNoted /\ CalmExact)'
  <2>1. UnseenNoted'
    BY <1>6 DEF GetAllCredentials, IInv, TypeOK, UnseenNoted, Visible, Finish, FreeArray
  <2>2. UnlistedNoted'
    BY <1>6 DEF GetAllCredentials, IInv, TypeOK, UnseenNoted, UnlistedNoted, Visible,
       Finish, FreeArray
  <2>3. CalmExact'
    BY <1>6 DEF GetAllCredentials, IInv, TypeOK, CalmExact, Visible, Finish, FreeArray
  <2> QED
    BY <2>1, <2>2, <2>3
<1>7. ASSUME NEW t \in Tasks, AddsDone(t)
      PROVE  (UnseenNoted /\ UnlistedNoted /\ CalmExact)'
  <2>1. UnseenNoted'
    BY <1>7 DEF AddsDone, IInv, TypeOK, UnseenNoted, Visible
  <2>2. UnlistedNoted'
    BY <1>7 DEF AddsDone, IInv, TypeOK, UnseenNoted, UnlistedNoted, Visible
  <2>3. CalmExact'
    BY <1>7 DEF AddsDone, IInv, TypeOK, CalmExact, Visible
  <2> QED
    BY <2>1, <2>2, <2>3
<1>8. ASSUME NEW t \in Tasks, RemovesDone(t)
      PROVE  (UnseenNoted /\ UnlistedNoted /\ CalmExact)'
  <2>1. UnseenNoted'
    BY <1>8 DEF RemovesDone, IInv, TypeOK, UnseenNoted, Visible
  <2>2. UnlistedNoted'
    BY <1>8 DEF RemovesDone, IInv, TypeOK, UnseenNoted, UnlistedNoted, Visible
  <2>3. CalmExact'
    <3>1. /\ pc[t] = "removing" /\ todo[t] = {} /\ pc' = [pc EXCEPT ![t] = "synced"]
          /\ UNCHANGED <<open, vault, os, listed, osIds, todo, calm>>
      BY <1>8 DEF RemovesDone
    <3>2. calm[t] => open /\ listed[t] = vault /\ os = vault
      BY <3>1 DEF IInv, CalmExact
    <3>3. pc'[t] = "synced" /\ \A u \in Tasks : u # t => pc'[u] = pc[u]
      BY <3>1 DEF IInv, TypeOK
    <3> QED
      BY <3>1, <3>2, <3>3 DEF IInv, CalmExact
  <2> QED
    BY <2>1, <2>2, <2>3
<1>9. ASSUME NEW t \in Tasks, Stop(t) PROVE (UnseenNoted /\ UnlistedNoted /\ CalmExact)'
  <2>1. UnseenNoted'
    BY <1>9 DEF Stop, IInv, TypeOK, UnseenNoted, Visible, Finish, FreeArray
  <2>2. UnlistedNoted'
    BY <1>9 DEF Stop, IInv, TypeOK, UnseenNoted, UnlistedNoted, Visible, Finish, FreeArray
  <2>3. CalmExact'
    BY <1>9 DEF Stop, IInv, TypeOK, CalmExact, Visible, Finish, FreeArray
  <2> QED
    BY <2>1, <2>2, <2>3
<1>10. ASSUME NEW t \in Tasks, NEW c \in Creds, AddCredentials(t, c)
       PROVE  (UnseenNoted /\ UnlistedNoted /\ CalmExact)'
  <2>1. UnseenNoted'
    BY <1>10 DEF AddCredentials, IInv, TypeOK, UnseenNoted, Visible, DisturbOthers
  <2>2. UnlistedNoted'
    BY <1>10 DEF AddCredentials, IInv, TypeOK, UnseenNoted, UnlistedNoted, Visible,
       DisturbOthers
  <2>3. CalmExact'
    <3> SUFFICES ASSUME NEW u \in Tasks, calm'[u]
                 PROVE  /\ pc'[u] # "idle" => open'
                        /\ pc'[u] \in {"listing", "adding", "removing", "synced"}
                             => listed'[u] = vault'
                        /\ pc'[u] = "adding" =>
                             /\ todo'[u] \subseteq listed'[u]
                             /\ os' = osIds'[u] \cup (listed'[u] \ todo'[u])
                        /\ pc'[u] = "removing" => os' = listed'[u] \cup todo'[u]
                        /\ pc'[u] = "synced" => os' = vault'
      BY DEF CalmExact
    <3>1. calm[u] /\ (u = t \/ os' = os)
      BY <1>10 DEF AddCredentials, DisturbOthers, IInv, TypeOK
    <3>2. CASE u = t
      <4>1. os' = IF c \in osIds[t] THEN os ELSE os \cup {c}
        BY <1>10, <3>2 DEF AddCredentials, IInv, TypeOK
      <4>2. /\ todo[t] \subseteq listed[t]
            /\ os = osIds[t] \cup (listed[t] \ todo[t])
            /\ c \in todo[t] /\ todo'[t] = todo[t] \ {c}
        BY <1>10, <3>1, <3>2 DEF AddCredentials, IInv, TypeOK, CalmExact
      <4>3. os' = osIds[t] \cup (listed[t] \ todo'[t])
        BY <4>1, <4>2
      <4> QED
        BY <1>10, <3>1, <3>2, <4>2, <4>3 DEF AddCredentials, IInv, TypeOK, CalmExact
    <3>3. CASE u # t
      BY <1>10, <3>1, <3>3 DEF AddCredentials, IInv, TypeOK, CalmExact
    <3> QED
      BY <3>2, <3>3
  <2> QED
    BY <2>1, <2>2, <2>3
<1>11. ASSUME NEW t \in Tasks, NEW c \in Creds, RemoveCredentials(t, c)
       PROVE  (UnseenNoted /\ UnlistedNoted /\ CalmExact)'
  <2>1. UnseenNoted'
    BY <1>11 DEF RemoveCredentials, IInv, TypeOK, UnseenNoted, Visible, DisturbOthers
  <2>2. UnlistedNoted'
    BY <1>11 DEF RemoveCredentials, IInv, TypeOK, UnseenNoted, UnlistedNoted,
       Visible, DisturbOthers
  <2>3. CalmExact'
    <3> SUFFICES ASSUME NEW u \in Tasks, calm'[u]
                 PROVE  /\ pc'[u] # "idle" => open'
                        /\ pc'[u] \in {"listing", "adding", "removing", "synced"}
                             => listed'[u] = vault'
                        /\ pc'[u] = "adding" =>
                             /\ todo'[u] \subseteq listed'[u]
                             /\ os' = osIds'[u] \cup (listed'[u] \ todo'[u])
                        /\ pc'[u] = "removing" => os' = listed'[u] \cup todo'[u]
                        /\ pc'[u] = "synced" => os' = vault'
      BY DEF CalmExact
    <3>1. calm[u] /\ (u = t \/ os' = os)
      BY <1>11 DEF RemoveCredentials, DisturbOthers, IInv, TypeOK
    <3>2. CASE u = t
      <4>1. /\ pc[t] = "removing" /\ c \in todo[t] /\ todo'[t] = todo[t] \ {c}
            /\ UNCHANGED <<open, vault, pc, listed, osIds>>
        BY <1>11, <3>2 DEF RemoveCredentials, IInv, TypeOK
      <4>2. os' = IF c \in listed[t] THEN os ELSE os \ {c}
        BY <1>11, <3>2 DEF RemoveCredentials, IInv, TypeOK
      <4>3. open /\ listed[t] = vault /\ os = listed[t] \cup todo[t]
        BY <3>1, <3>2, <4>1 DEF IInv, CalmExact
      <4>4. os' = listed[t] \cup todo'[t]
        BY <4>1, <4>2, <4>3
      <4> QED
        BY <3>2, <4>1, <4>3, <4>4
    <3>3. CASE u # t
      BY <1>11, <3>1, <3>3 DEF RemoveCredentials, IInv, TypeOK, CalmExact
    <3> QED
      BY <3>2, <3>3
  <2> QED
    BY <2>1, <2>2, <2>3
<1>12. ASSUME ToggleLock PROVE (UnseenNoted /\ UnlistedNoted /\ CalmExact)'
  BY <1>12, DisturbanceNoted DEF ToggleLock
<1>13. ASSUME SidecarEnds PROVE (UnseenNoted /\ UnlistedNoted /\ CalmExact)'
  <2>1. UnseenNoted'
    BY <1>13 DEF SidecarEnds, IInv, TypeOK, UnseenNoted, Visible, Disturb
  <2>2. UnlistedNoted'
    BY <1>13 DEF SidecarEnds, IInv, TypeOK, UnseenNoted, UnlistedNoted, Visible, Disturb
  <2>3. CalmExact'
    BY <1>13 DEF SidecarEnds, IInv, TypeOK, CalmExact, Visible, Disturb
  <2> QED
    BY <2>1, <2>2, <2>3
<1>14. CASE UNCHANGED vars
  BY <1>14 DEF IInv, UnseenNoted, UnlistedNoted, CalmExact, Visible, vars, taskVars
<1> QED
  BY <1>1, <1>2, <1>3, <1>4, <1>5, <1>6, <1>7, <1>8, <1>9, <1>10, <1>11, <1>12,
     <1>13, <1>14 DEF Next, Task

\* The initial states satisfy the invariant.
LEMMA InitGood == Init => IInv
BY DEF Init, IInv, TypeOK, Provides, TaskState, UnseenNoted, UnlistedNoted, CalmExact

LEMMA InvariantHolds == Spec => []IInv
<1>1. IInv /\ [Next]_vars => IInv'
  BY TypeKept, HistoriesKept DEF IInv
<1> QED
  BY <1>1, InitGood, PTL DEF Spec

----------------------------------------------------------------------------
(* The theorems.                                                           *)

\* Every variable keeps its type, credentials are only ever ids that were given out,
\* and no way out of reconcile_vault_with_os keeps the array of GetAllCredentials.
THEOREM TypeCorrect == Spec => []TypeOK
<1>1. IInv => TypeOK
  BY DEF IInv
<1> QED
  BY <1>1, InvariantHolds, PTL

\* reconcile_vault_with_os removes nothing that has been in the open vault during the
\* task's whole life, whatever the registrations, the user, the other tasks and
\* failing calls do in between.
THEOREM OnlyMissedRemoved == Spec => []RemovesOnlyMissed
<1>1. IInv => RemovesOnlyMissed
  BY DEF IInv, TypeOK, UnlistedNoted, RemovesOnlyMissed
<1> QED
  BY <1>1, InvariantHolds, PTL

\* A task of reconcile_vault_with_os that ran undisturbed and without failures leaves
\* Windows' cache equal to the vault.
THEOREM UndisturbedTasksSync == Spec => []UndisturbedTaskSyncs
<1>1. IInv => UndisturbedTaskSyncs
  BY DEF IInv, CalmExact, UndisturbedTaskSyncs
<1> QED
  BY <1>1, InvariantHolds, PTL
=============================================================================
