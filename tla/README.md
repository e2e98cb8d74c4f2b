# KeePassKeyWin in TLA+

This directory is the formal model of KeePassKeyWin, a passkey provider for
Windows that keeps its credentials in a KeePass database. It holds TLA+ modules
translated from the C# and Rust sources, TLC configurations that check them on
small instances, and TLAPS proofs of their main invariants for every instance.
`PROJECT.json` maps every definition to the source lines it stands for.

Run a model: `tlc -config MCVaultRequests_user.cfg MCVaultRequests`.
Check the proofs: `tlapm VaultRequests_proofs.tla`.

Source paths below are relative to `src/src/`; `Core`, `Plugin`, `Provider` and
`Harness` are the projects `KeePassKeyWin.Core` and so on.

## 1. The system

Two processes of one Windows session share the work.

* The **plugin** (C#) lives in the KeePass process. KeePass's UI thread loads and
  unloads it; one listener thread of its own serves a named pipe,
  `KeePassKeyWin.<session>`, with a single instance, so one client at a time. The
  listener thread executes every request, on the same database objects the UI
  thread shows, locks, closes and saves.
* The **sidecar** (Rust, the COM server EXE) is started by Windows when a browser
  needs a passkey. Windows calls its authenticator object on one STA thread; each
  call becomes a request on the pipe.

A passkey ceremony crosses both: the browser asks Windows, Windows activates the
sidecar's class, the factory connects to the plugin's pipe and says *hello* with
a one-time nonce it reads from the registry, the authenticator method verifies
the user, sends `makeCredentialRaw` or `getAssertionRaw` over the cached pipe, and
the plugin checks signatures, asks the user if it must, and reads or changes the
vault.

### Inventory

| component | source | state | operations |
|---|---|---|---|
| Plugin lifecycle | `Plugin/KeePassKeyWinExt.cs` | store, pipe server, dispatcher | Initialize, Terminate |
| Nonce store | `Plugin/Ipc/RegistryNonceStore.cs` | `_nonce`, registry value | Initialize, ConsumeNonce, Clear |
| Pipe server | `Core/Ipc/PipeServer.cs` | pipe instance, `_stopping`, connection context | TryStart, Stop, listener loop |
| Handshake | `Core/Ipc/HandshakeHandler.cs` | HandshakeComplete | hello |
| Op-sign key cache | `Core/Crypto/OpSignPubKeyCache.cs` | one key per process | Set, Current |
| RPC dispatcher | `Plugin/Ipc/RpcDispatcher.cs` | none | route hello and vault methods |
| Vault handler | `Core/Ipc/VaultHandler.cs` | none between requests | seven methods, two gates |
| Passkey store | `Plugin/Storage/KeePassPasskeyStore.cs` | the KeePass database | add, find, delete, increment, list |
| User prompt | `Core/Ipc/UvFallbackPrompt.cs` | latched decision | ShouldProceed |
| Pipe client | `Provider/src/ipc/mod.rs` | stream | connect, handshake, call |
| Class factory, shared state | `Provider/src/com/exe_server.rs` | `SHARED_STATE`, COM counts | create instance, lock, run, register |
| Authenticator | `Provider/src/com/server.rs` | none of its own, shares the state's pipe | make, get, cancel, lock status |
| Retry classification | `Provider/src/com/classify_rpc_error.rs` | `SHARED_STATE` | classify, clear slot |
| User verification | `Provider/src/com/webauthn_ext.rs`, `uv_fallback.rs` | V2-to-V1 latch | verify, fall back |
| Request signatures | `Provider/src/com/request_sig.rs` | key, or error, cached once per process | fetch, hand to hello |
| COM lifetime | `exe_server.rs`, `server.rs` | factory, object and process counts | run, create, reference, release, lock |
| Registration | `exe_server.rs`, `webauthn_ext.rs` | the class' registration with Windows | register, unregister |
| Metadata push, reconcile | `exe_server.rs`, `webauthnplugin_ext.rs` | the OS credential cache | add, remove, enumerate |
| Command-line tools | `Provider/src/main.rs` | nonce read at start | smoke, make-credential |
| CBOR, COSE, DER, versions | `Core/Cbor`, `Core/Crypto`, `Core/Platform` | none | pure algorithms |
| UI, logging, harness, scripts | the rest | no protocol state | |

### How they interact

* Registry: the plugin writes the nonce; sidecars and tools read it.
* Pipe: one instance, one client, one request at a time, one line each way. Either
  side may close, break or vanish; neither has a timeout on reading.
* Database: the listener thread and the UI thread use it with no common lock.
* `SHARED_STATE`: COM calls that nest on the STA thread, activations and the
  reconcile task's worker thread take one `PipeClient` out of it and put it back.
* Windows: prompts, the OS credential cache, process start and end.

### What is hard, and what makes it correct

* **Session**: UI thread against listener thread at every step of a nonce
  rotation; several KeePass processes and several clients on one registry value
  and pipe name; clients that vanish. Correct if a nonce serves once, what is
  published is what is accepted, no legitimate client is refused, and the cached
  key is the connected client's.
* **Dispatch**: re-entrant calls while a pipe is out on loan; a pipe that went
  stale with the last KeePass; a retry of a request that is not idempotent.
  Correct if there is one connection, a cached state is usable, a stale pipe heals
  and no plugin executes a request twice.
* **Vault**: the database is checked, used and saved in separate steps while the
  user locks, saves, deletes or the process dies. Correct if sign counters never
  repeat, an answered registration stays, excluded credentials are not duplicated
  and nothing passes the gates without consent.
* **Reconciliation**: a background task compares two lists it took one after the
  other, and acts on them call by call while registrations, the user and other
  tasks change both sides. Correct if an undisturbed task leaves the two sides
  equal and nothing is removed that was in the vault all the time.
* **User verification**: one of two versions of a Windows function, a fallback
  found out at the first use and remembered for the process, dispatches that nest
  in the dialog. Correct if responses are freed once, the dialog comes up once, a
  passing failure is not remembered, and the plugin lets only verified users pass.
* **Formats**: parsing and encoding by hand, of CBOR and of signatures. Correct if
  a reader passes exactly one item and what one side writes the other reads.
* **COM lifetime**: three counts decide when the process ends, while the thread
  that waits in a method releases objects, activates others or drops the last one.
  Correct if nothing in use is freed, the process stops by itself only when nobody
  uses it, and then does.
* **Registration with Windows**: a sequence of calls that fail, are missing or are
  interrupted, possibly of two commands at once, and a signing key that changes with
  it while a sidecar keeps the one it has fetched. Correct if every key is freed, a
  command can be repeated after anything, and no signed request is turned away
  without a cause.

`PROJECT.json` lists every hazard at its line, with the properties that guard it
or the reason none does.

## 2. The modules

Each component module has its state as VARIABLES, one action per step that other
actors can see or interrupt, and its properties at the end. `MC<module>` adds
what TLC needs, `<module>_proofs` the theorems. Definitions named `X_Something`
are `X` with a plausible bug; they belong to no specification and show which
mistake each property would reveal.

### PluginSession: lifecycle, nonce, pipe, handshake

| in the model | in the code |
|---|---|
| `reg` | `HKCU\Software\KeePassKeyWin\HandshakeNonce` |
| `phase[p]` | how far the UI thread of KeePass process p is in Initialize or Terminate |
| `lst[p]` | where its listener thread is in `ListenerLoop` and in the hello |
| `pnonce[p]`, `keyCache[p]` | `RegistryNonceStore._nonce`, `OpSignPubKeyCache` |
| `conn[p]`, `hc[p]`, `req[p]`, `reply[p]` | the connection on the pipe instance, its context, the lines in flight |
| `cpc[c]`, `link[c]`, `cnonce[c]` | each client's `connect_and_handshake` |
| `spent` | history, for the property only |

A hello is not atomic. `MatchNonce`, `RotateNonce` and `FinishHello` are the
comparison, the assignment of `_nonce` and the registry write with everything
after it, because Terminate runs on the other thread in between. `Stop` is two
steps, the flag and the disposal; nobody joins the listener thread. `Die` ends a
process at any point. Sidecars connect before they read the nonce and
command-line tools after, as in the two call sites. `Legacy` clients send a
hello without a usable key. The registry and the pipe name are shared by all KeePass processes
of the session; with `Overlap = FALSE` a process starts only when no other one is
alive.

Left out: requests after the hello (`VaultRequests`), the client's bounded retry
on a busy pipe (waiting until `Connect` is possible, or never connecting, are the
same behaviours), and the OS version gate, which happens before anything else.

### SidecarDispatch: shared state, nested calls, retry

| in the model | in the code |
|---|---|
| `slot` | `SHARED_STATE` |
| `arcPipe[a]` | `pipe` of one `KeePassKeyWinAuthenticatorState` |
| `objs` | allocations behind the COM objects Windows holds |
| `order` | nested `sta_block_on` calls on the STA thread's stack |
| `pc`, `op`, `arc`, `held`, `retried`, `res` | each call in `dispatch_operation` and `take_call_with_retry` |
| `rpc`, `rpipe` | the reconcile task spawned by the factory |
| `server` | the plugin's one pipe instance: free, this process, another, none |
| `ran`, `hurt` | history, for properties only |

Windows may start another method or activation whenever the STA thread pumps
messages (`Pumping`): in the message loop, in `sta_block_on` and in the system's
verification dialog. Only the innermost call returns. The futures of outer calls
go on meanwhile on worker threads. `PluginDown` may strike between any two steps;
`SidecarEnds` resets everything. Which methods the plugin knows is
`Answers`, translated from `VaultHandler.Handle`.

Left out: the payloads, the add and remove calls to Windows (`VaultSync`), the
versions of the verification dialog (`UvGate`), and reference counts
(`ComLifetime`).

### VaultRequests: vault methods against the KeePass user

| in the model | in the code |
|---|---|
| `open` | `PwDatabase.IsOpen` |
| `mem`, `disk` | the Passkeys group in memory and in the .kdbx file: credential to sign counter |
| `stage`, `req`, `left`, `held`, `count` | the handler's position and locals |
| `detached` | the found `PwEntry` no longer belongs to the open database |
| `latch` | `UvFallbackPrompt._decided` and `_decision` |
| `reply` | the answer written to the pipe |
| `said`, `released`, `registered`, `removed` | history, for properties only |

The listener thread executes one request at a time; `stage` cuts its handler
where the UI thread can interfere with the outcome: the open check, the two
gates, the prompt, each lookup, the change in memory, the save. `Save` writes
what is in memory, or throws, and a caller that throws answers `InternalError`.
The user locks, with or without saving, unlocks, saves and deletes between any
two steps; while the plugin's modal prompt is up the user cannot work in the main
window (`UserFree`), but the workspace lock may still close the database. `Crash`
keeps the file only.

The constant `Reopens` says whether the user may lock and unlock again while one
request executes. Without it everything below holds; with it
TLC finds AssertionCountFresh violated: if the database is locked and unlocked
between the lookup and the save of one increment, the new counter goes to an entry of
the old tree and the save writes the reloaded one. The lock in
`IncrementSignCount`, which its comment says makes find, increment and save atomic,
is unknown to the UI thread. To see the trace set Reopens to TRUE in
MCVaultRequests_user.cfg.

`PasskeyLedger` is what the relying parties may rely on: `file`, `seen`, `known` and
`gone` are `disk`, `released`, `registered` and `removed`. A write never takes a
counter back or loses a registered credential nobody deleted, and an answer comes
after the write that it promises. `ImplementsLedger` says that every step of
VaultRequests is a step of it or none: it relates each answer to the file at the
same moment and each write to all answers before it.

The run has `Bypass = FALSE`: signatures are checked. With the bypass on, the gate of
pbRequestSignature lets every request through and the gate of user verification
stays as it is; the theorems hold for both.

Left out: entry order (`candidates[0]` is any match), the other fields of an
entry, hand edits of the plugin's fields (an unreadable counter counts as zero),
several open databases and synchronisation, CBOR content (its verdict is an
input), keys and signatures (whether one verifies is an input), and failures of
the platform's cryptography.

### VaultSync: the vault and Windows' credential cache

| in the model | in the code |
|---|---|
| `open`, `vault` | the database and its Passkeys group |
| `os` | the credentials Windows keeps for the provider |
| `issued`, `unpushed` | ids given out; registrations answered and not yet in `try_add_credentials` |
| `pc[t]` | where reconcile task t is in `reconcile_vault_with_os` |
| `listed[t]` | `vault_arr` |
| `osIds[t]` | `os_ids` and the array of GetAllCredentials it comes from |
| `todo[t]` | what the task's current loop has still to look at |
| `api` | the functions this build of webauthn.dll exports (`Bindings`) |
| `leaked` | whether an array of GetAllCredentials outlives its task |
| `calm`, `missed` | history, for properties only |

Every call is a step of its own and may fail, and any of the four functions may be
missing (`Provides`): without the first one none can be called, without
GetAllCredentials the task ends before its loops, without RemoveCredentials it ends
at its first removal, and without the one that frees, and only then, the array is
left. `Ask` and `Enumerate` are the two
halves of `enumerateForSync`: the vault's check that it is open, and the read of
its entries, which finds none if it was closed in between. The loops visit
the credentials in any order; the code's order is one of them. A registration
is one step here, because `VaultRequests` has its parts.

Left out: the fields of a credential (one that does not parse counts as refused),
and the connection, which `SidecarDispatch` models.

### UvGate: Windows' dialog and the plugin's gate

| in the model | in the code |
|---|---|
| `dll`, `forced` | the functions webauthn.dll exports, the environment variable |
| `bound` | `BINDINGS` |
| `latch` | `v2_unimplemented` |
| `stack` | nested dispatches on the STA thread |
| `call[d]` | one dispatch: position, HRESULT, tier, out-parameters, signature, result |
| `live` | responses Windows has allocated and nobody has freed |
| `prompt` | the plugin's `UvFallbackPrompt` |

The record of a dispatch also counts, as history, how often Windows' dialog came
up and what the user answered. `V2Returns` and `V1Returns` are the return of
Windows' function, `FallBack` and `Conclude` what the code does with it. Assumed of Windows: the
stub of the second version answers E_NOTIMPL without a dialog and may have
allocated a response all the same; a working second version that succeeds returns
a signature of the request, and the response of the first version is none. All
else is free: any verdict, with or without a response.

Left out: the plugin's check of pbRequestSignature (`VaultRequests`), the key
caches on both sides (`Registration`), and the copy of the response's bytes.

### ComLifetime: the sidecar as a COM server

| in the model | in the code |
|---|---|
| `phase` | how far `run_com_server` is: the loop is `serving`, and `quitting` once COM has posted WM_QUIT |
| `factory` | `ClassFactory.ref_count` |
| `server` | the process' count, behind CoAddRefServerProcess and CoReleaseServerProcess |
| `live`, `refs[o]` | `IPluginAuthenticatorImpl` allocations and their `ref_count` |
| `holds[o]`, `locks`, `inCall[o]` | what the clients of COM have: references, locks, methods of each object on the STA thread's stack |

All of it runs on one thread, but a method that waits pumps messages, so other calls
happen between its begin and its return, and several may be open, of one object
too (`inCall`, at most `MaxCalls` of each). Clients
keep COM's rules and no more: they release what they hold, and hold the object they
are calling. `ReleaseServerRef` is CoReleaseServerProcess as `server.rs` describes
it: at zero the class is suspended and the loop is told to quit, which it does
only when no method is on the stack. `Killed` ends the process anywhere, which is
also what a panic on this thread does.

`Kept` is the number of references `cf_create_instance` keeps on an object it hands
out. In the code it is 1: `IPluginAuthenticatorImpl::new` starts the count at one,
`query_interface` adds the client's, and nothing gives the first one back.
`HandedOutServes` (theorem `KeptForGood`) says what follows: once an object has been handed out, none is
freed and the process serves until it is killed (section 5). The freeing branch of
`Release` is therefore never taken in the runs, which have `Kept = 1` like the code;
there `NothingDangles` shows that no object has fewer references counted than its
clients hold. That no object in use is freed in that branch either is the theorem
`NeverDangles`, proved for every `Kept`.

`ServerLife` is what such a server owes its users, without counts: `up` while
anybody uses it, no stop of its own while somebody does, nobody let in
afterwards. `ImplementsServerLife` maps `serving` to `up`, and the objects and locks
that clients hold to `inUse`.

Left out: what the methods do (`SidecarDispatch`), and other processes: a new
activation starts another one, whose life is the same.

### Registration: register, unregister, and the signing key

| in the model | in the code |
|---|---|
| `exports` | what webauthn.dll exports: the entry points `webauthn_ext.rs` requires, GetOperationSigningPublicKey, FreePublicKeyResponse |
| `registered` | the registration of the class with Windows, by its key |
| `pc[t]`, `command[t]`, `hr[t]` | a run of `cmd_register` or `cmd_unregister`: its position and the last HRESULT |
| `apartment`, `responses[t]` | runs with a `ComUninitGuard`; AddAuthenticator's responses not freed |
| `up`, `cache[s]`, `buffers[s]` | sidecar processes, their `OP_SIGN_KEY_CACHE`, key buffers not freed |
| `request[s]`, `session[s]`, `verdict[s]` | the key that signed the request in hand, the key sent in hello, the plugin's verdict |
| `calm`, `steady` | history, for properties only; a process is steady while no fetch of its has failed and no registration has changed behind a key or a request it has |

Every call to Windows is a step, and may fail; tools may be interrupted between any
two. `Judge` frees the response before it looks at the HRESULT, NTE_EXISTS leads
to `RemoveStale` and a second attempt. `FetchKey` happens once per process,
whatever comes of it, at its activation or at a reconnection, with or without a
request in hand. Assumed of Windows: AddAuthenticator answers NTE_EXISTS
only if there is a registration, and may answer success where one is, as its
documents say; a request is signed with the key of the registration there
is; and a fetch that succeeds returns that key.

Left out: the bytes that describe the authenticator, the connection under the
session (`PluginSession`, `SidecarDispatch`), and everything the plugin checks beside
the signature (`VaultRequests`).

### CborFormat, SignatureFormat and Formats: hand-written codecs

`CborFormat` and `SignatureFormat` are pure operators. `CborFormat` has CborReader's
header, its typed reads and `SkipValue`, CborWriter's header and key order, and beside
them `Items`, what an item of CTAP2 is, and `Unreadable`, where one begins that
the typed reads refuse. `SignatureFormat` has the two conversions
between P1363 and DER, and beside them `DerForms`, every way to write two numbers
down. `Formats` takes an input, computes one result in one step, and states what it
must be; `MCFormats` is its instance for TLC.

`SkipValue` calls itself for what is inside an array or a map. Here it is a function
of the position: `SkipValues(buf)[p][n]` is the position behind `n` items at `p`,
and `SkipItem` is the body of one call, given that function for the calls inside. The
loops over elements and pairs are the second argument. The typed reads are put together
the same way (`ReadValues`), as a parser does that knows what it reads. They refuse
more than `SkipValue`: null and undefined, for which there is none, and a negative
integer that a `long` cannot hold (`InInt64`). `ReadsAgreeWithSkip` says that this is
all they refuse, and that what they read ends where it is skipped to; `Items(buf,
refused)` are the items without such a position in them.

Left out: the contents of items, COSE keys, the depth of the stack, and arguments
beyond their being longer than any buffer (`Huge`, 2^29). P1363ToDer is given an even
number of bytes; it throws on others.

### How the modules fit

`SidecarDispatch` sees the plugin as one pipe instance that answers; that
interface is what `PluginSession` implements (one connection, freed when either
side goes) and what `VaultRequests` answers. `UvGate` looks into the step
`SidecarDispatch` calls verification, and `VaultSync` into its reconcile task.
`ComLifetime` has the objects behind `SidecarDispatch`'s `objs` and the end it calls
`SidecarEnds`. `Registration` has the key that `PluginSession` carries in a hello,
and says where the verdict on a request's signature comes from that `VaultRequests`
takes as an input. They share the names of roles, not state. The abstract
specifications are `PasskeyLedger` and `ServerLife`.

## 3. The runs

| run | instance | shows |
|---|---|---|
| session_solo | 1 KeePass process at a time, 2 sidecars, 1 keyless tool, 3 nonces, fairness | TypeOK, PublishedNonceCurrent, SidecarNeverRefused, SingleUse, KeyBelongsToPeer, HandshakeResolves |
| dispatch_nested | 2 calls nested in either order, 2 states, 2 pipes, fairness | TypeOK, OneConnection, SlotUsable, NeverBusyWithItself, StalePipeHeals, ReplayedOnlyAfterRestart, CallsReturn |
| vault_user | 2 credentials, counters 0 to 2 | TypeOK, AssertionCountFresh, RegisteredKept, ExcludeHonoured, ConsentBehindUse, ImplementsLedger |
| sync_tasks | 2 credentials, 2 tasks, every build of webauthn.dll | TypeOK, UndisturbedTaskSyncs, RemovesOnlyMissed |
| uv_nested | 3 nested dispatches, 3 responses, every kind of webauthn.dll | TypeOK, ResponsesFreed, OneDialog, VerifiedUserNotRefused, AcceptedOnlyVerified |
| com_lifetime | 3 objects, 3 references and 2 nested methods on each, 2 locks | TypeOK, NothingDangles, ImplementsServerLife |
| registration | 2 runs of the commands, 1 sidecar process, 2 keys, every build of webauthn.dll | TypeOK, KeysFreed, Idempotent, TurnedAwayForCause |
| formats | CBOR inputs of up to 5 bytes, longer ones around an 8-byte argument, headers at the limits of their widths, signatures of 2-byte coordinates | SkipFindsItemEnd, ReadsAgreeWithSkip, HeaderReadsBack, KeysSortByValue, SignatureReadsBack, DerReadsNumbers |

The remaining runs are the disagreements of section 5: each checks one statement
of a comment or a document that the code does not keep.

**Bounds.** They are the sets in the .cfg files and one counter.
*Nonces*: a nonce nobody remembers may be drawn again (`FreshNonces`). At a
rotation one value is in the registry, the plugin and the hello, and a client
that noted an earlier one holds another, so the third is free; where a set is too
small a new nonce waits until somebody forgets one, and the proofs have no bound.
*Calls*: two give an outer and an inner one in either order, and a call that ends
is free to begin again; the safety properties are proved for any depth.
*States and pipes*: a second one appears only when the first is abandoned, and a
third would need two abandoned ones in use, which OneConnection excludes. *Credentials*: two, so that one is in
the excludeList and another is new; `Receive` starts no registration once both ids are used.
*Counters*: `MaxCount = 2` stands for `uint.MaxValue` and is reached, so its
refusal is explored. *Tasks*: two, so that one changes Windows' cache under the
other; *dispatches*: three, so that the middle one is both inner and outer, and
*responses*: one for each. *Objects*: three, so that one is released under another's
call while a third keeps the process; *references*: three, so that one can be given
back without being the last or the one before; *locks*: two; *methods of one object*: two,
one waiting in the other. *Runs*: two of the
commands, each of which may begin again, so that one falls between any two calls of
the other; *keys*: two, the one a process has kept and another. *Formats*: the alphabet has a byte for every case the
reader tells apart (each major type, each width but the one of eight bytes, what is
forbidden), and five bytes hold a map with a nested item or a four-byte length. The
eight-byte width has inputs of its own (`WideCbor`): arguments from 0 to both sides of
the limits of Int64 and UInt64, of every major type, alone, in an array, as a key or
as a value. Coordinates have two
bytes, one fewer than the longest DER content, so that numbers that fit, fit with
padding, or are too large occur. All safety
properties of the passing runs are also proved for every bound (section 4).

**Symmetry** permutes model values that the specification only compares, and
is used in runs without liveness properties only. `com_lifetime` has none; in
`vault_user` the refinement is one of safety, and both specifications treat the
credentials alike.

**Deadlock** is checked everywhere but in `formats`, whose functions return and do
nothing more: elsewhere users, clients or a crash can always act.

**Fairness.** `PluginSession`: weak fairness of the listener thread, of a
Terminate that has begun (its next statement), and of a client in the middle of a
handshake; all three are threads that run unless they block, and they block
only where their action is disabled. Nothing is assumed of users, crashes or
clients that are idle. `SidecarDispatch`: weak fairness of the STA thread, of each
future on the multi-threaded runtime, of the reconcile task, and of the user's
answer to the system's dialog. That last one is an assumption about Windows: its
dialog times out by itself. The plugin's answer is among the fair steps: it
holds as long as the plugin runs and its own prompt is answered, for no call has
a timeout. If it stops, `BreakCall` is enabled.

**Mutants.** `PROJECT.json` names one bug per property and run, and TLC finds the
property violated by it: a registry write skipped, a pipe cleared on the wrong
error, a counter saved in the background, a prompt that forgets a refusal, a
failed list taken for an empty one, an object freed one reference early, an object the
process does not count, a negative integer read that does not fit, a second registration that is not retried, a key that
outlives its process, a response not freed on the fallback, a
DER number written without its sign byte.

## 4. The proofs

All theorems hold for every value of the constants under the named assumption of
the module, if it has one (`ConstantsAssumption`, `NullAssumption`, or `CborAssumption` and
`FormatsAssumption`), which only says that the null values and roles are distinct and
the bounds are numbers. TLC evaluates it in every run.

**PluginSession_proofs.** `IInv` adds to the types how listener, connection and
request hang together (`Shape`), that two plugins never hold one nonce
(`DistinctNonces`), and what is known of a key in flight (`KeyInFlight`). None of
the safety properties is inductive alone: that the cached key is the peer's needs
to know whose key an unread "ok" was about. It gives `TypeCorrect`,
`NonceSingleUse` and `KeyBelongsToSession` for any number of overlapping
processes. It also knows that a connection with both ends open has a listener on its
way to it or a Terminate about to dispose it, and that no hello is lost (`Attended`).
That gives `WaitsAttended`, what HandshakeResolves asks for apart from fairness: a
client that waits has an answer to read, a listener that will come to its hello, or an
end of file to expect. If processes do not overlap, `SoloInv` adds that the registry trails
the plugin's nonce only between the two assignments of a rotation and that a
sidecar that holds the pipe has a nonce nobody can rotate away. It gives
`RegistryCurrent` and `SidecarsNeverRefused`.

**SidecarDispatch_proofs.** The connection of `SHARED_STATE` is a token: in the
cached state, in one call, or in the reconcile task (`TokenAtSlot`, `OneToken`).
The invariant adds that the plugin serves no pipe the process has lost
(`ServedPipeHeld`), and what a call knows of the plugin's life (`HurtKnown`,
`RanKnown`). It gives `SingleConnection`, `CachedStateUsable`,
`NoSelfCompetition`, `StalePipesHeal` and `NoReplayInOneLife`, for any depth of
nesting.

Three more theorems say what there is to say about the calls' progress without
fairness. `CallsStacked`: the calls under way are the STA thread's stack, each of them
once. `CallsComeNearer`: of a call under way at most ten steps are left (`StepsLeft`),
one retry included, each step of its own leaves fewer and no other step leaves
more. `MissesHaveCause`: a call of the cached state finds no pipe in it only because
another call or the reconcile task has it, which bounds the finding of dispatch_serial.

**VaultRequests_proofs.** `IInv` relates memory, file and the entry the handler
holds: memory is never behind the file (`MemNotBehind`), a held entry still has the
counter that was read or is detached (`EntryHeld`), ids in the vault were given
out (`EntriesKnown`), and the gates were passed in order with the latch as
the user's only answer (`GatesPassed`). It gives `TypeCorrect`, `ConsentNeeded`
and, without any condition on the user, `DiskMonotone`. With `~Reopens`,
`OnceInv` adds that an entry the handler added or found is the database's,
deleted, or its database is closed, so that a save that succeeds writes it. It
gives `CountsNeverRepeat`, `RegistrationsKept` and `ExcludeListHonoured`, and from
them `RequestsImplementLedger`, the refinement of PasskeyLedger: `InitImplements`
and `StepImplements` map the initial states and each action, of which only the saves
write the file (`SaveWrites`) and lose nothing but what was deleted (`LostOnlyRemoved`).

**VaultSync_proofs.** `IInv` adds to the types that a task's history has
noted whatever cannot be seen in the vault now (`UnseenNoted`) or was not in its
list (`UnlistedNoted`), and what a calm task's loops have made of Windows' cache
so far (`CalmExact`). It gives `TypeCorrect`, `OnlyMissedRemoved` and
`UndisturbedTasksSync` for any number of tasks and credentials.

**UvGate_proofs.** Responses belong to the dispatch that holds them and to no
other (`ResponseHeld`, `ResponseOwned`, `ResponsesKnown`), what a dispatch knows of the
user's answer follows from its position (`AnswerKnown`, `EndKnown`), and the
version in use was resolved from the library (`UsesV2`, `BindingsKnown`). It gives
`TypeCorrect`, `NoResponseLeaks`, `DialogOnce`, `V2Kept`, `TierFitsSignature` and
`OnlyVerifiedAccepted` for any depth of nesting. Its assumption is
`NullAssumption`, that no response is called Null.

**ComLifetime_proofs.** The invariant relates each count to what it stands for: an
object's count is its clients' references and those kept, the process' count is
the number of live objects and of locks, the factory's follows from the phase. It
gives `TypeCorrect`, `NeverDangles` and `CountsImplementServerLife`, for any
number of objects, references and nested methods and any `Kept`. `KeptForGood` is
about the code as it is and assumes that a reference is kept: it proves
`HandedOutServes`, of which com_leak shows one behaviour.

**Registration_proofs.** The invariant says what a run has in hand at each of its
steps, that a run nobody disturbed knows the registration it is about to change
(`CalmTools`), that a process fetches once and what it then keeps (`OneFetch`,
`CachedKeys`), and that the key of a steady process is the registration's
(`SteadyKeys`). It gives `TypeCorrect`, `NothingLeaks`, `RepeatsWell` and
`CauseForRefusal`, for any number of runs, processes and keys.

**Formats_proofs.** A step computes a result and nothing else changes, so the
invariant (`IInv`) says only what kind of input there is and that the result, if there
is one, is what the code computes of it. What is proved of the results is about the
operators.

*CBOR.* What `SkipValues` is at a position depends on what it is behind that
position, so all that is proved of it goes from the end of the buffer to its beginning.
That a function with such a definition exists is `RecursiveFunctionExists`. The
induction is an argument of its own, `BackwardInduction`: a set of positions that
has a position whenever it has all that follow is all of them. It is stated for a set
and not for a predicate, so that the provers can instantiate it; a statement is
proved by applying it to the set of positions where the statement holds. `WalksOverItems` says that
n items of `Items` end where a walk over single items ends, whatever is refused on the
way; of it, `SkipsItems` is the case of SkipValue, which refuses nothing, and
`ReadsItems` that of the typed reads, which refuse `Unreadable`. `ReadsAsSkipped` adds
that both end at one byte. They give `ItemsSkipped` and `ReadsAgree` for every
buffer shorter than 2^29 bytes and any depth of nesting.

*Headers.* `HeaderWritten` reads back what WriteTypeAndValue writes for each of its four
widths, and `HeadersInOrder` compares two of them byte by byte; both rest on what the
bytes of a number are (`TwoBytes`, `FourBytes`). They give `HeadersReadBack` and
`KeysSorted` for all arguments of up to four bytes.

*Signatures.* `DerRead` takes TryDerToP1363 apart along the bytes it looks at:
lengths in every form, two INTEGERs, and the end. `SignatureRead` shows that
P1363ToDer writes one of these forms, with minimal contents. They give
`SignaturesReadBack` and `DerReadsAsNumbers` for coordinates and contents of up to
32000 bytes (`Longest`, so that a two-byte length is enough).

The assumptions are `CborAssumption`, a CBOR input is a sequence of bytes shorter than
`Huge`, and `FormatsAssumption`: the sets the other inputs are built from hold bytes,
arguments of written headers have at most four of them, and DER contents at most
`Longest`.

The leaves of all eight proof modules are small: each is also proved with a fifth of the
provers' default time (`tlapm --stretch 0.2 --cleanfp`), so that a slower machine proves them too.

In the other modules each preservation lemma has one step per action. Each module's theorem section
has one theorem per property. Some theorems state properties that no run needs to check:
`DiskMonotone` (`DiskCountNeverFalls`) is part of ImplementsLedger but holds whatever
the user reopens, `V2Kept` (`V2NotGivenUp`) is a conjunct of the invariant, and
`KeptForGood` (`HandedOutServes`), `WaitsAttended` (`WaitIsAttended`),
`CallsStacked` (`StackIsCalls`), `CallsComeNearer` (`CallsAdvance`) and `MissesHaveCause` (`MissingForCause`) were
checked by TLC on small instances before they were proved.

**Model-checked only.** The two liveness properties (`HandshakeResolves`,
`CallsReturn`): TLAPS has no support for fairness and ENABLED that would reach
them. `WaitsAttended`, `CallsStacked` and `CallsComeNearer` are the parts of their
arguments that need neither. The runs of section 5 are counterexamples and need no proof.

## 5. Where the code and its descriptions differ

Each is a run whose single property states what a document or comment says.

| run | statement | what the code does |
|---|---|---|
| session_passive | README: a second KeePass process stays passive | it overwrites the registry nonce before it finds the pipe taken and deletes it when it quits |
| dispatch_serial | exe_server.rs: the inner Mutex serialises dispatches | one that arrives during another's call fails |
| sync_stale | exe_server.rs:448: removed are the OS credentials missing from the vault | one registered between the task's two lists, and all if the database is closed between the plugin's check and its read, are removed from Windows' cache though the vault has them |
| com_leak | exe_server.rs:7, 230-231: the process pumps messages until the last object is released, its count balanced by the authenticator's Release | an object starts with a reference nobody gives back, so the last Release of a client frees nothing and the process stays, with its pipe and its cached key; the theorem `KeptForGood` says that this is so after every activation |

Read on the way, without a run.

*Methods.* `get_lock_status` calls `keepasskeywin.getLockStatus`, and
`docs/ARCHITECTURE.md:212-214` counts it among the calls over the cached pipe;
`VaultHandler.Handle` (44-54) has no case for it, so with the vault open the answer is
MethodNotFound, mapped to E_FAIL (`LockStatusReported` of SidecarDispatch does not
hold). `VaultHandler.cs:823` has the signature of signAssertion cover the authData,
and line 798 has both in the result; it covers the authData the caller sent, and the
result has the one the plugin built (`SignatureCoversResult` of VaultRequests does
not hold). `Provider/src/lib.rs:37-39` says that pbRequestSignature is verified on
cancelOperation too, but that call forwards none.

*Lifetime of the sidecar.* `request_sig.rs:15` and `33-36` take it that COM starts a
fresh process for every operation, so that the cached key cannot become stale;
`exe_server.rs:67-73` shares its state among the objects of one process, and with
the reference of com_leak that process does not end. A key that has changed, or a
failed first fetch, then stays until the process is killed. `TurnedAwayForCause`
says exactly when that turns a request away. `exe_server.rs:207-209` says that
reconciliation runs once per process; `ConnectState` spawns it on every connection of
the factory, and `ClearSharedState` allows a second one.

*Registration.* `exe_server.rs:918-922` emulates an "atomic-refresh"; if the second
attempt fails the class is not registered any more, and of two commands at once one
may fail although the class is registered. `exe_server.rs:915-916` calls signature
verification a non-goal; the plugin verifies. `webauthnplugin_ext.rs:271-272` says
that without the function that frees, GetAllCredentials "would have returned Err
before any allocation"; the four functions are looked up one by one, and the array is
left. `request_sig.rs:270-273` leaves the buffer of an empty key.

*Session and vault.* IPC_PROTOCOL.md says that a hello without a key is
rejected and the connection terminated; `FinishHello` leaves it open and
authenticated. IPC_PROTOCOL.md says that Terminate deletes an unused nonce; a hello
in progress writes a new one afterwards (`FinishHello` after `Clear`).
IPC_PROTOCOL.md:47-48 has VaultLocked for a closed vault and CredentialNotFound for
an absent credential; the vault is checked once, before the gates, and one that is
locked while the user answers the prompt gives CredentialNotFound. `ARCHITECTURE.md:239` has the sign
counter always zero; `FindEntry` and `SetCount` count. IPC_PROTOCOL.md:254 has the
server loop back after every client; in `FirstWait` one that comes and goes before
the first WaitForConnection ends the loop. The note at `exe_server.rs:180-186` says that two
sidecars activated concurrently both read the same nonce and the second gets
HandshakeInvalid. The code connects before it reads, and `SidecarsNeverRefused`
shows that no sidecar is refused unless KeePass processes overlap.
`Core/Security/BypassEnvVars.cs:26-28` says that the bypass skips pbRequestSignature and
UV signatures alike; `VerifyUvSignatureOrPrompt` (VaultHandler.cs:899-976) does not look
at it, so a request with a bad UV signature is refused in either case. IPC_PROTOCOL.md:88 has the nonce
deleted on its first use, where the code replaces it by the next one.

## 6. What is not modelled, and the plan

Done, in the order of importance: who may talk to the plugin (A, PluginSession),
the connection that carries everything (B, SidecarDispatch), the vault (C,
VaultRequests), the credential cache (D, VaultSync), user verification (E, UvGate),
the life of the sidecar process (F, ComLifetime), its registration and key (G,
Registration) and the codecs (H, CborFormat, SignatureFormat and Formats). PasskeyLedger and
ServerLife are the abstract specifications (I). What could follow:

| module | content | properties and theorems worth having |
|---|---|---|
| Ceremony | one registration or assertion from end to end: a retry of SidecarDispatch against the vault of VaultRequests, through an abstract one-client pipe that PluginSession implements | one registration per ceremony unless KeePass restarts in it |
| CtapRequests | the parsers of the vault handler on top of CborFormat's typed reads | a request is refused or read as its definition says |
| VersionCheck | the OS version gate | admits exactly the builds it names |

Not modelled, and no module is planned for them: menus and dialogs, logging and its
filter, the memory layout of the webauthn structures, authenticator data,
authenticatorGetInfo and base64url (data without control), which message a
failed registry read is logged with (every variant ends the handshake alike), the
decoding of the CTAP structures for the prompt's hint, argument parsing of the
command-line tools, the test harness, scripts and packaging. Nothing else in the
system depends on them.
