------------------------------ MODULE VaultSync ------------------------------
(***************************************************************************)
(* Windows keeps a cache of the credentials a passkey provider offers, for *)
(* its picker.  The sidecar fills it: after a registration                 *)
(* (try_add_credentials), and in a background task per connection          *)
(* (reconcile_vault_with_os) that compares the vault with the cache, adds  *)
(* what is missing and removes what is left over.  The task takes the two  *)
(* lists one after the other and acts on them later, call by call, while   *)
(* registrations, other tasks and the KeePass user go on.                  *)
(*                                                                         *)
(* An operator X_Something is X with a bug a change of the code could      *)
(* bring in.  No specification uses it; it shows what a property guards.   *)
(***************************************************************************)
CONSTANTS
  Creds,  \* credential ids
  Tasks   \* reconcile tasks that can be under way at once

\* "asked": enumerateForSync has passed RequireVaultOpen.  "listing": the task has
\* the vault's list and is about to ask Windows for its own.
TaskState == {"idle", "asked", "listing", "adding", "removing", "synced"}

\* The functions of webauthn.dll that keep Windows' cache.
Functions == {"add", "getAll", "remove", "free"}

VARIABLES
  api,      \* those this build exports
  open,     \* the database is open
  vault,    \* credentials in the database, seen only while it is open
  os,       \* credentials in Windows' cache
  issued,   \* credential ids given out
  unpushed, \* registrations answered by the plugin, not yet pushed to the cache
  pc,       \* where each reconcile task stands
  listed,   \* vault_arr: the plugin's answer
  osIds,    \* os_ids and the array of GetAllCredentials they come from
  todo,     \* credentials the task's current loop has still to look at
  leaked,   \* an array of GetAllCredentials whose task has ended is still allocated
  calm,     \* history: nobody else has changed anything since the task began, and
            \* none of its calls has failed
  missed    \* history: credentials that were not in the vault, or not to be seen in
            \* it, at some moment since the task began

taskVars == <<pc, listed, osIds, todo, calm, missed>>
vars == <<api, open, vault, os, issued, unpushed, leaked, taskVars>>

\* bindings(): without AddCredentials none of the functions can be called.
Provides(f) == {"add", f} \subseteq api

\* Besides the types: whichever way a task ends, it leaves no list behind, unless this
\* build cannot free one (FreeCredentialDetailsArray).
TypeOK ==
  /\ api \subseteq Functions
  /\ open \in BOOLEAN
  /\ vault \subseteq issued
  /\ os \subseteq issued
  /\ issued \subseteq Creds
  /\ unpushed \subseteq issued
  /\ pc \in [Tasks -> TaskState]
  /\ listed \in [Tasks -> SUBSET issued]
  /\ osIds \in [Tasks -> SUBSET issued]
  /\ todo \in [Tasks -> SUBSET issued]
  /\ calm \in [Tasks -> BOOLEAN]
  /\ missed \in [Tasks -> SUBSET Creds]
  /\ leaked \in BOOLEAN
  /\ leaked => ~Provides("free")
  /\ \A t \in Tasks : pc[t] \in {"idle", "asked"} => listed[t] \cup osIds[t] = {}

Init ==
  /\ api \in SUBSET Functions
  /\ open \in BOOLEAN
  /\ vault = {}
  /\ os = {}
  /\ issued = {}
  /\ unpushed = {}
  /\ pc = [t \in Tasks |-> "idle"]
  /\ listed = [t \in Tasks |-> {}]
  /\ osIds = [t \in Tasks |-> {}]
  /\ todo = [t \in Tasks |-> {}]
  /\ leaked = FALSE
  /\ calm = [t \in Tasks |-> FALSE]
  /\ missed = [t \in Tasks |-> {}]

----------------------------------------------------------------------------
(* Helpers.                                                                *)

Visible == IF open THEN vault ELSE {}

\* What the tasks' histories note of a change by somebody else.
Disturb ==
  /\ calm' = [t \in Tasks |-> FALSE]
  /\ missed' = [t \in Tasks |->
       missed[t] \cup (Creds \ (IF open' THEN vault' ELSE {}))]

\* What they note of a change of Windows' cache by one task.
DisturbOthers(t) ==
  calm' = [u \in Tasks |-> calm[u] /\ (u = t \/ os' = os)]

\* The plugin executes one request at a time.
PluginFree == \A t \in Tasks : pc[t] # "asked"

\* A way out of the task that forgets FreeCredentialDetailsArray.
Finish_KeepsArray(t) ==
  /\ pc' = [pc EXCEPT ![t] = "idle"]
  /\ listed' = [listed EXCEPT ![t] = {}]
  /\ osIds' = [osIds EXCEPT ![t] = {}]
  /\ todo' = [todo EXCEPT ![t] = {}]
  /\ leaked' = (leaked \/ osIds[t] # {})

\* free_credential_details_array: it does nothing in a build without the function.
FreeArray(t) == leaked' = (leaked \/ (osIds[t] # {} /\ ~Provides("free")))

\* The task ends, or gives up.
Finish(t) ==
  /\ pc' = [pc EXCEPT ![t] = "idle"]
  /\ listed' = [listed EXCEPT ![t] = {}]
  /\ osIds' = [osIds EXCEPT ![t] = {}]
  /\ todo' = [todo EXCEPT ![t] = {}]
  /\ FreeArray(t)

----------------------------------------------------------------------------
(* Registrations.                                                          *)

\* makeCredentialRaw in the plugin: a new credential in the vault.
MakeCredential(c) ==
  /\ PluginFree
  /\ open
  /\ c \notin issued
  /\ vault' = vault \cup {c}
  /\ issued' = issued \cup {c}
  /\ unpushed' = unpushed \cup {c}
  /\ UNCHANGED <<api, leaked, open, os, pc, listed, osIds, todo>>
  /\ Disturb

\* try_add_credentials: best effort, the registration stands without it.
TryAddCredentials(c) ==
  /\ c \in unpushed
  /\ unpushed' = unpushed \ {c}
  /\ os' = os \/ (Provides("add") /\ os' = os \cup {c})
  /\ UNCHANGED <<api, leaked, open, vault, issued, pc, listed, osIds, todo>>
  /\ Disturb

----------------------------------------------------------------------------
(* The reconcile task.                                                     *)

\* enumerateForSync reaches the plugin and passes its check for an open vault.  A
\* locked vault answers VaultLocked, and the task gives up before it has begun.
Ask(t) ==
  /\ pc[t] = "idle"
  /\ PluginFree
  /\ open
  /\ pc' = [pc EXCEPT ![t] = "asked"]
  /\ calm' = [calm EXCEPT ![t] = TRUE]
  /\ missed' = [missed EXCEPT ![t] = Creds \ Visible]
  /\ UNCHANGED <<api, leaked, open, vault, os, issued, unpushed, listed, osIds, todo>>

\* A failed call is taken for an empty vault.
Enumerate_ErrorIsEmpty(t) ==
  /\ pc[t] = "asked"
  /\ pc' = [pc EXCEPT ![t] = "listing"]
  /\ \E list \in {Visible, {}} : listed' = [listed EXCEPT ![t] = list]
  /\ UNCHANGED <<api, leaked, open, vault, os, issued, unpushed, osIds, todo, calm, missed>>

\* EnumerateForSync reads the vault, which may have been closed since the check and
\* then contains nothing.  A failed call ends the task.
Enumerate(t) ==
  /\ pc[t] = "asked"
  /\ \/ /\ pc' = [pc EXCEPT ![t] = "listing"]
        /\ listed' = [listed EXCEPT ![t] = Visible]
        /\ UNCHANGED <<osIds, todo, leaked>>
     \/ Finish(t)
  /\ UNCHANGED <<api, open, vault, os, issued, unpushed, calm, missed>>

\* GetAllCredentials.  Without that function, or if it fails, the task ends.
GetAllCredentials(t) ==
  /\ pc[t] = "listing"
  /\ \/ /\ Provides("getAll")
        /\ pc' = [pc EXCEPT ![t] = "adding"]
        /\ osIds' = [osIds EXCEPT ![t] = os]
        /\ todo' = [todo EXCEPT ![t] = listed[t]]
        /\ UNCHANGED <<listed, leaked>>
     \/ Finish(t)
  /\ UNCHANGED <<api, open, vault, os, issued, unpushed, calm, missed>>

\* The add loop, one credential: known already, added, or skipped because its
\* fields do not parse or Windows refuses.
AddCredentials(t, c) ==
  /\ pc[t] = "adding"
  /\ c \in todo[t]
  /\ todo' = [todo EXCEPT ![t] = @ \ {c}]
  /\ \/ /\ os' = IF c \in osIds[t] THEN os ELSE os \cup {c}
        /\ DisturbOthers(t)
     \/ /\ c \notin osIds[t]
        /\ calm' = [calm EXCEPT ![t] = FALSE]
        /\ UNCHANGED os
  /\ UNCHANGED <<api, leaked, open, vault, issued, unpushed, pc, listed, osIds, missed>>

\* The remove loop begins when the add loop is over.
AddsDone_LoopsOverVault(t) ==
  /\ pc[t] = "adding"
  /\ todo[t] = {}
  /\ pc' = [pc EXCEPT ![t] = "removing"]
  /\ todo' = [todo EXCEPT ![t] = listed[t]]
  /\ UNCHANGED <<api, leaked, open, vault, os, issued, unpushed, listed, osIds, calm, missed>>

AddsDone(t) ==
  /\ pc[t] = "adding"
  /\ todo[t] = {}
  /\ pc' = [pc EXCEPT ![t] = "removing"]
  /\ todo' = [todo EXCEPT ![t] = osIds[t]]
  /\ UNCHANGED <<api, leaked, open, vault, os, issued, unpushed, listed, osIds, calm, missed>>

\* The remove loop, one credential of Windows' list: in the vault's list, removed,
\* or kept because Windows refuses.
RemoveCredentials(t, c) ==
  /\ pc[t] = "removing"
  /\ c \in todo[t]
  /\ c \in listed[t] \/ Provides("remove")
  /\ todo' = [todo EXCEPT ![t] = @ \ {c}]
  /\ \/ /\ os' = IF c \in listed[t] THEN os ELSE os \ {c}
        /\ DisturbOthers(t)
     \/ /\ c \notin listed[t]
        /\ calm' = [calm EXCEPT ![t] = FALSE]
        /\ UNCHANGED os
  /\ UNCHANGED <<api, leaked, open, vault, issued, unpushed, pc, listed, osIds, missed>>

\* Both loops have run to their end.
RemovesDone(t) ==
  /\ pc[t] = "removing"
  /\ todo[t] = {}
  /\ pc' = [pc EXCEPT ![t] = "synced"]
  /\ UNCHANGED <<api, leaked, open, vault, os, issued, unpushed, listed, osIds, todo, calm,
                 missed>>

\* The remove loop stops at its first call if this build has no RemoveCredentials; a task
\* that has synced ends.  (The add loop's way out at a missing AddCredentials is never
\* taken: GetAllCredentials has failed before.)
Stop(t) ==
  /\ \/ /\ pc[t] = "removing"
        /\ todo[t] \ listed[t] # {}
        /\ ~Provides("remove")
     \/ pc[t] = "synced"
  /\ Finish(t)
  /\ UNCHANGED <<api, open, vault, os, issued, unpushed, calm, missed>>

----------------------------------------------------------------------------
(* KeePass and the process around it.                                      *)

\* The user locks or unlocks the database.
ToggleLock ==
  /\ open' = ~open
  /\ UNCHANGED <<api, leaked, vault, os, issued, unpushed, pc, listed, osIds, todo>>
  /\ Disturb

\* The user deletes an entry, or takes a deletion back.
UserEdits(c) ==
  /\ open
  /\ c \in issued
  /\ vault' = IF c \in vault THEN vault \ {c} ELSE vault \cup {c}
  /\ UNCHANGED <<api, leaked, open, os, issued, unpushed, pc, listed, osIds, todo>>
  /\ Disturb

\* The sidecar process ends; its tasks and the pushes it still owes are lost.
SidecarEnds ==
  /\ unpushed' = {}
  /\ pc' = [t \in Tasks |-> "idle"]
  /\ listed' = [t \in Tasks |-> {}]
  /\ osIds' = [t \in Tasks |-> {}]
  /\ todo' = [t \in Tasks |-> {}]
  /\ leaked' = FALSE
  /\ UNCHANGED <<api, open, vault, os, issued>>
  /\ Disturb

----------------------------------------------------------------------------
Task(t) ==
  \/ Ask(t) \/ Enumerate(t) \/ GetAllCredentials(t) \/ AddsDone(t)
  \/ RemovesDone(t) \/ Stop(t)
  \/ \E c \in Creds : AddCredentials(t, c) \/ RemoveCredentials(t, c)

Next ==
  \/ \E c \in Creds : MakeCredential(c) \/ TryAddCredentials(c) \/ UserEdits(c)
  \/ \E t \in Tasks : Task(t)
  \/ ToggleLock \/ SidecarEnds

Spec == Init /\ [][Next]_vars

----------------------------------------------------------------------------
(* Properties.                                                             *)

\* reconcile_vault_with_os: a task that nobody interfered with, and whose calls all
\* succeeded, leaves in Windows' cache exactly the vault's credentials.
UndisturbedTaskSyncs ==
  \A t \in Tasks : pc[t] = "synced" /\ calm[t] => open /\ os = vault

\* Whatever a task is about to remove was missing from the vault at some moment of
\* its own life: no failed call, no half of a list and no other task's state makes
\* it remove a credential that has been in the open vault all the time.
RemovesOnlyMissed ==
  \A t \in Tasks : pc[t] = "removing" => todo[t] \ listed[t] \subseteq missed[t]

\* reconcile_vault_with_os, steps 3 and 4: "For vault creds missing from OS: call
\* AddCredentials", "For OS creds missing from vault: call RemoveCredentials".  So a
\* credential a task removes is not in the vault.
RemovedNotInVault == [][\A c \in Creds : c \in os /\ c \notin os' => c \notin vault]_vars
=============================================================================
