---------------------------- MODULE PluginSession ----------------------------
(***************************************************************************)
(* The session between the KeePass plugin and its sidecars: the plugin's   *)
(* start-up and Terminate (KeePassKeyWinExt), the HKCU handshake nonce     *)
(* (RegistryNonceStore), the one-instance named pipe and its listener      *)
(* thread (PipeServer), the hello handler (HandshakeHandler), the key it   *)
(* caches (OpSignPubKeyCache) and the clients' connect_and_handshake.      *)
(*                                                                         *)
(* Two threads of one KeePass process run concurrently: the UI thread      *)
(* (variable phase) and the listener thread (variable lst).  Several       *)
(* KeePass processes, and several client processes, share the registry     *)
(* value and the pipe name.                                                *)
(*                                                                         *)
(* An operator X_Something is X with a bug a change of the code could      *)
(* bring in.  No specification uses it; it shows what a property guards.   *)
(***************************************************************************)
CONSTANTS
  Plugins,   \* KeePass processes that load the plugin in this session
  Sidecars,  \* COM sidecars: connect first, read the nonce afterwards
  Tools,     \* command-line clients: read the nonce, connect afterwards
  Legacy,    \* clients whose hello carries no usable op-sign key
  Nonces,    \* the values a random 32-byte nonce can take
  Overlap,   \* may a KeePass process start while another one is alive?
  None

Clients == Sidecars \cup Tools

\* The hello's parameters: the nonce, and whose op-sign key it carries, if any.
Hello == [nonce : Nonces, key : Clients \cup {None}]

\* The answers a hello can get: "ok", or the JSON-RPC error's code.
ReplyCode == {"ok", "handshakeInvalid", "invalidParams", "internalError"}

ASSUME ConstantsAssumption ==
  /\ Sidecars \cap Tools = {}
  /\ Legacy \subseteq Clients
  /\ Overlap \in BOOLEAN
  /\ None \notin Plugins \cup Clients \cup Nonces \cup Hello \cup ReplyCode

VARIABLES
  reg,       \* HKCU\Software\KeePassKeyWin\HandshakeNonce
  phase,     \* UI thread of each plugin: where Initialize / Terminate stand
  lst,       \* listener thread of each plugin: where ListenerLoop stands
  pnonce,    \* RegistryNonceStore._nonce of each plugin
  keyCache,  \* OpSignPubKeyCache._bytes: whose key the plugin holds
  conn,      \* client at the other end of the plugin's pipe instance
  hc,        \* ConnectionContext.HandshakeComplete of that connection
  req,       \* hello line received and not yet answered
  reply,     \* answer written to the pipe and not yet read by the client
  cpc,       \* where each client's connect_and_handshake stands
  link,      \* plugin whose pipe the client holds open
  cnonce,    \* nonce the client read from the registry
  spent      \* history: nonces a hello has been accepted for

pluginVars == <<phase, lst, pnonce, keyCache, conn, hc, req, reply>>
clientVars == <<cpc, link, cnonce>>
vars == <<reg, pluginVars, clientVars, spent>>

Phase == {"off", "inited", "active", "passive", "stopping", "stopped", "cleared"}
ListenerState == {"none", "starting", "waiting", "serving", "matched", "rotated",
                  "ended", "faulted"}
ClientState == {"idle", "noted", "linked", "ready", "waiting", "open"}

TypeOK ==
  /\ reg \in Nonces \cup {None}
  /\ phase \in [Plugins -> Phase]
  /\ lst \in [Plugins -> ListenerState]
  /\ pnonce \in [Plugins -> Nonces \cup {None}]
  /\ keyCache \in [Plugins -> Clients \cup {None}]
  /\ conn \in [Plugins -> Clients \cup {None}]
  /\ hc \in [Plugins -> BOOLEAN]
  /\ req \in [Plugins -> Hello \cup {None}]
  /\ reply \in [Plugins -> ReplyCode \cup {None}]
  /\ cpc \in [Clients -> ClientState]
  /\ link \in [Clients -> Plugins \cup {None}]
  /\ cnonce \in [Clients -> Nonces \cup {None}]
  /\ spent \subseteq Nonces
  \* A request, an answer and HandshakeComplete belong to a connection.
  /\ \A p \in Plugins : conn[p] = None => req[p] = None /\ reply[p] = None /\ ~hc[p]

Init ==
  /\ reg = None
  /\ phase = [p \in Plugins |-> "off"]
  /\ lst = [p \in Plugins |-> "none"]
  /\ pnonce = [p \in Plugins |-> None]
  /\ keyCache = [p \in Plugins |-> None]
  /\ conn = [p \in Plugins |-> None]
  /\ hc = [p \in Plugins |-> FALSE]
  /\ req = [p \in Plugins |-> None]
  /\ reply = [p \in Plugins |-> None]
  /\ cpc = [c \in Clients |-> "idle"]
  /\ link = [c \in Clients |-> None]
  /\ cnonce = [c \in Clients |-> None]
  /\ spent = {}

----------------------------------------------------------------------------
(* Helpers.                                                                *)

\* A random nonce differs from every nonce anyone still holds.  Reusing a value
\* everyone has forgotten keeps the model finite and changes no behaviour.
FreshNonces ==
  {n \in Nonces :
     /\ n # reg
     /\ \A p \in Plugins : n # pnonce[p] /\ (req[p] # None => n # req[p].nonce)
     /\ \A c \in Clients : n # cnonce[c]}

\* The server end of the pipe instance exists (created, not yet disposed).
PipeExists(p) == phase[p] \in {"active", "stopping"}

\* The client's end of the pipe the plugin serves is still open.
PeerPresent(p) == conn[p] # None /\ link[conn[p]] = p

\* Both ends of the client's connection are open.
Connected(c) == link[c] # None /\ conn[link[c]] = c /\ PipeExists(link[c])

\* A line written to a disposed stream throws and reaches nobody.
Answer(p, code) ==
  reply' = [reply EXCEPT ![p] = IF PipeExists(p) THEN code ELSE None]

\* RegistryNonceStore.Initialize, _nonce: a fresh value in memory.
RenewNonce(p) ==
  \E n \in FreshNonces :
    /\ pnonce' = [pnonce EXCEPT ![p] = n]
    /\ spent' = spent \ {n}

\* RegistryNonceStore.Initialize, SetValue.
WriteRegistry_Skipped(p) == UNCHANGED reg

WriteRegistry(p) == reg' = pnonce[p]

----------------------------------------------------------------------------
(* The plugin's UI thread: InitializeCore and Terminate.                   *)

\* KeePass loads the plugin: a new process, whose InitializeCore writes a fresh
\* nonce to the registry before it tries to create the pipe.
StartPlugin(p) ==
  /\ phase[p] = "off"
  /\ Overlap \/ \A q \in Plugins : phase[q] = "off"
  /\ RenewNonce(p)
  /\ reg' = pnonce'[p]
  /\ phase' = [phase EXCEPT ![p] = "inited"]
  /\ UNCHANGED <<lst, keyCache, conn, hc, req, reply, clientVars>>

\* PipeServer.TryStart: create the only pipe instance and start the listener
\* thread, or stay passive when another process owns the name.
TryStart(p) ==
  /\ phase[p] = "inited"
  /\ IF \E q \in Plugins : PipeExists(q)
       THEN /\ phase' = [phase EXCEPT ![p] = "passive"]
            /\ UNCHANGED lst
       ELSE /\ phase' = [phase EXCEPT ![p] = "active"]
            /\ lst' = [lst EXCEPT ![p] = "starting"]
  /\ UNCHANGED <<reg, pnonce, keyCache, conn, hc, req, reply, clientVars, spent>>

\* Terminate, first half of PipeServer.Stop: the _stopping flag.
SetStopping(p) ==
  /\ phase[p] = "active"
  /\ phase' = [phase EXCEPT ![p] = "stopping"]
  /\ UNCHANGED <<reg, lst, pnonce, keyCache, conn, hc, req, reply, clientVars, spent>>

\* Terminate, second half of PipeServer.Stop: dispose the stream.  Whatever the
\* client has not read yet is lost.  The listener thread is not joined.
DisposePipe(p) ==
  /\ phase[p] = "stopping"
  /\ phase' = [phase EXCEPT ![p] = "stopped"]
  /\ reply' = [reply EXCEPT ![p] = None]
  /\ UNCHANGED <<reg, lst, pnonce, keyCache, conn, hc, req, clientVars, spent>>

\* Terminate, RegistryNonceStore.Clear: forget the nonce, delete the value.  A
\* passive instance has no pipe server to stop and comes straight here.
ClearNonce(p) ==
  /\ phase[p] \in {"stopped", "passive"}
  /\ phase' = [phase EXCEPT ![p] = "cleared"]
  /\ pnonce' = [pnonce EXCEPT ![p] = None]
  /\ reg' = None
  /\ UNCHANGED <<lst, keyCache, conn, hc, req, reply, clientVars, spent>>

\* The KeePass process ends: exit after Terminate, a crash or a kill at any
\* moment.  The registry keeps what it holds.
Die(p) ==
  /\ phase[p] # "off"
  /\ phase' = [phase EXCEPT ![p] = "off"]
  /\ lst' = [lst EXCEPT ![p] = "none"]
  /\ pnonce' = [pnonce EXCEPT ![p] = None]
  /\ keyCache' = [keyCache EXCEPT ![p] = None]
  /\ conn' = [conn EXCEPT ![p] = None]
  /\ hc' = [hc EXCEPT ![p] = FALSE]
  /\ req' = [req EXCEPT ![p] = None]
  /\ reply' = [reply EXCEPT ![p] = None]
  /\ UNCHANGED <<reg, clientVars, spent>>

----------------------------------------------------------------------------
(* The plugin's listener thread: ListenerLoop and the hello handler.       *)

\* The thread reaches its first WaitForConnection.  A client that came and went
\* since the pipe was created makes ConnectNamedPipe fail, and the loop breaks.
FirstWait(p) ==
  /\ lst[p] = "starting"
  /\ PipeExists(p)
  /\ lst' = [lst EXCEPT ![p] =
       IF conn[p] = None THEN "waiting"
       ELSE IF PeerPresent(p) THEN "serving" ELSE "ended"]
  /\ UNCHANGED <<reg, phase, pnonce, keyCache, conn, hc, req, reply, clientVars, spent>>

\* The loop condition sees _stopping, or a pending WaitForConnection throws because
\* the stream is disposed.
ListenerStops(p) ==
  /\ \/ lst[p] = "starting" /\ phase[p] \in {"stopping", "stopped", "cleared"}
     \/ lst[p] = "waiting" /\ ~PipeExists(p)
  /\ lst' = [lst EXCEPT ![p] = "ended"]
  /\ UNCHANGED <<reg, phase, pnonce, keyCache, conn, hc, req, reply, clientVars, spent>>

\* HandshakeHandler.Handle and the comparison in ConsumeNonce: a second hello on
\* the connection, a wrong nonce or no nonce at all is HandshakeInvalid.
RejectHello(p) ==
  /\ lst[p] = "serving"
  /\ req[p] # None
  /\ hc[p] \/ pnonce[p] = None \/ req[p].nonce # pnonce[p]
  /\ req' = [req EXCEPT ![p] = None]
  /\ Answer(p, "handshakeInvalid")
  /\ UNCHANGED <<reg, phase, lst, pnonce, keyCache, conn, hc, clientVars, spent>>

\* ConsumeNonce has compared the nonce and found it equal.
MatchNonce(p) ==
  /\ lst[p] = "serving"
  /\ req[p] # None
  /\ ~hc[p]
  /\ pnonce[p] # None
  /\ req[p].nonce = pnonce[p]
  /\ lst' = [lst EXCEPT ![p] = "matched"]
  /\ spent' = spent \cup {req[p].nonce}
  /\ UNCHANGED <<reg, phase, pnonce, keyCache, conn, hc, req, reply, clientVars>>

\* ConsumeNonce leaves the nonce as it is.
RotateNonce_Kept(p) ==
  /\ lst[p] = "matched"
  /\ lst' = [lst EXCEPT ![p] = "rotated"]
  /\ UNCHANGED <<reg, phase, pnonce, keyCache, conn, hc, req, reply, clientVars, spent>>

\* ConsumeNonce calls Initialize, which first replaces _nonce in memory.
RotateNonce(p) ==
  /\ lst[p] = "matched"
  /\ lst' = [lst EXCEPT ![p] = "rotated"]
  /\ RenewNonce(p)
  /\ UNCHANGED <<reg, phase, keyCache, conn, hc, req, reply, clientVars>>

\* OpSignPubKeyCache.Set: every accepted hello replaces the cached key.
CacheKey_FirstWins(p) ==
  keyCache' = [keyCache EXCEPT ![p] = IF @ = None THEN req[p].key ELSE @]

CacheKey(p) == keyCache' = [keyCache EXCEPT ![p] = req[p].key]

\* Initialize writes _nonce to the registry (a null, left by a concurrent Clear,
\* throws); the handler then marks the connection authenticated, and only after
\* that looks at the key: an unusable one is InvalidParams.
FinishHello(p) ==
  /\ lst[p] = "rotated"
  /\ lst' = [lst EXCEPT ![p] = "serving"]
  /\ req' = [req EXCEPT ![p] = None]
  /\ IF pnonce[p] = None
       THEN /\ Answer(p, "internalError")
            /\ UNCHANGED <<reg, hc, keyCache>>
       ELSE /\ WriteRegistry(p)
            /\ hc' = [hc EXCEPT ![p] = TRUE]
            /\ IF req[p].key = None
                 THEN Answer(p, "invalidParams") /\ UNCHANGED keyCache
                 ELSE /\ Answer(p, "ok")
                      /\ CacheKey(p)
  /\ UNCHANGED <<phase, pnonce, conn, clientVars, spent>>

\* A ConnectionContext lives as long as its connection.
DropContext_Kept(p) ==
  /\ req' = [req EXCEPT ![p] = None]
  /\ reply' = [reply EXCEPT ![p] = None]
  /\ UNCHANGED hc

DropContext(p) ==
  /\ hc' = [hc EXCEPT ![p] = FALSE]
  /\ req' = [req EXCEPT ![p] = None]
  /\ reply' = [reply EXCEPT ![p] = None]

\* ServeConnection returns at end of file, or throws because the stream is
\* disposed.  Disconnect then frees the instance for the next client, or throws
\* on the disposed stream, outside every try block.
EndConnection(p) ==
  /\ lst[p] = "serving"
  /\ \/ ~PipeExists(p)
     \/ req[p] = None /\ ~PeerPresent(p)
  /\ lst' = [lst EXCEPT ![p] =
       CASE phase[p] = "active" -> "waiting"
         [] phase[p] = "stopping" -> "ended"
         [] OTHER -> "faulted"]
  /\ conn' = [conn EXCEPT ![p] = None]
  /\ DropContext(p)
  /\ UNCHANGED <<reg, phase, pnonce, keyCache, clientVars, spent>>

----------------------------------------------------------------------------
(* The clients: connect_and_handshake and the command-line tools.          *)

\* The command-line tools parse --nonce or read the registry first and connect
\* afterwards; connect_and_handshake does it the other way round.
ReadsNonceFirst_Always(c) == TRUE

ReadsNonceFirst(c) == c \in Tools

\* A client that reads the nonce before it connects.
NoteNonce(c) ==
  /\ ReadsNonceFirst(c)
  /\ cpc[c] = "idle"
  /\ reg # None
  /\ cpc' = [cpc EXCEPT ![c] = "noted"]
  /\ cnonce' = [cnonce EXCEPT ![c] = reg]
  /\ UNCHANGED <<reg, pluginVars, link, spent>>

\* The single pipe instance accepts one client; everyone else sees PIPE_BUSY and
\* retries or gives up.
Connect(c, p) ==
  /\ cpc[c] = IF ReadsNonceFirst(c) THEN "noted" ELSE "idle"
  /\ PipeExists(p)
  /\ lst[p] \in {"starting", "waiting"}
  /\ conn[p] = None
  /\ conn' = [conn EXCEPT ![p] = c]
  /\ lst' = [lst EXCEPT ![p] = IF @ = "waiting" THEN "serving" ELSE @]
  /\ link' = [link EXCEPT ![c] = p]
  /\ cpc' = [cpc EXCEPT ![c] = IF ReadsNonceFirst(c) THEN "ready" ELSE "linked"]
  /\ UNCHANGED <<reg, phase, pnonce, keyCache, hc, req, reply, cnonce, spent>>

\* A sidecar reads the nonce once it holds the pipe.
ReadNonce(c) ==
  /\ cpc[c] = "linked"
  /\ reg # None
  /\ cpc' = [cpc EXCEPT ![c] = "ready"]
  /\ cnonce' = [cnonce EXCEPT ![c] = reg]
  /\ UNCHANGED <<reg, pluginVars, link, spent>>

\* PipeClient::handshake writes the hello line; the nonce is not used again.
SendHello(c) ==
  /\ cpc[c] = "ready"
  /\ Connected(c)
  /\ cpc' = [cpc EXCEPT ![c] = "waiting"]
  /\ req' = [req EXCEPT ![link[c]] =
       [nonce |-> cnonce[c], key |-> IF c \in Legacy THEN None ELSE c]]
  /\ cnonce' = [cnonce EXCEPT ![c] = None]
  /\ UNCHANGED <<reg, phase, lst, pnonce, keyCache, conn, hc, reply, link, spent>>

\* The client reads "ok" and keeps the connection.
HelloAccepted(c) ==
  /\ cpc[c] = "waiting"
  /\ Connected(c)
  /\ reply[link[c]] = "ok"
  /\ reply' = [reply EXCEPT ![link[c]] = None]
  /\ cpc' = [cpc EXCEPT ![c] = "open"]
  /\ UNCHANGED <<reg, phase, lst, pnonce, keyCache, conn, hc, req, link, cnonce, spent>>

\* The client gives the attempt up and closes its end.
Abandon(c) ==
  /\ cpc' = [cpc EXCEPT ![c] = "idle"]
  /\ link' = [link EXCEPT ![c] = None]
  /\ cnonce' = [cnonce EXCEPT ![c] = None]
  /\ UNCHANGED <<reg, pluginVars, spent>>

\* recv_line takes the end of the file for an answer still to come.
HandshakeFails_NoEof(c) ==
  /\ \/ cpc[c] = "linked" /\ reg = None
     \/ cpc[c] \in {"linked", "ready"} /\ ~Connected(c)
     \/ /\ cpc[c] = "waiting"
        /\ Connected(c)
        /\ reply[link[c]] \notin {None, "ok"}
  /\ Abandon(c)

\* connect_and_handshake fails: no nonce to read, an error answer, a broken pipe
\* or end of file instead of an answer.
HandshakeFails(c) ==
  /\ \/ cpc[c] = "linked" /\ reg = None
     \/ cpc[c] \in {"linked", "ready", "waiting"} /\ ~Connected(c)
     \/ /\ cpc[c] = "waiting"
        /\ Connected(c)
        /\ reply[link[c]] \notin {None, "ok"}
  /\ Abandon(c)

\* The client's process ends or drops its PipeClient, at any moment.
Leave(c) ==
  /\ cpc[c] # "idle"
  /\ Abandon(c)

----------------------------------------------------------------------------
UIThread(p) == StartPlugin(p) \/ TryStart(p) \/ SetStopping(p) \/ DisposePipe(p)
                 \/ ClearNonce(p) \/ Die(p)

Listener(p) == FirstWait(p) \/ ListenerStops(p) \/ RejectHello(p) \/ MatchNonce(p)
                 \/ RotateNonce(p) \/ FinishHello(p) \/ EndConnection(p)

Client(c) == NoteNonce(c) \/ (\E p \in Plugins : Connect(c, p)) \/ ReadNonce(c)
               \/ SendHello(c) \/ HelloAccepted(c) \/ HandshakeFails(c) \/ Leave(c)

Next == \/ \E p \in Plugins : UIThread(p) \/ Listener(p)
        \/ \E c \in Clients : Client(c)

Spec == Init /\ [][Next]_vars

\* A listener thread and a client in the middle of a handshake keep running, and
\* a Terminate that has begun finishes.  Users and crashes owe nothing.
Fairness ==
  /\ \A p \in Plugins : WF_vars(Listener(p)) /\ WF_vars(DisposePipe(p))
  /\ \A c \in Clients :
       WF_vars(ReadNonce(c) \/ SendHello(c) \/ HelloAccepted(c) \/ HandshakeFails(c))

FairSpec == Spec /\ Fairness

----------------------------------------------------------------------------
(* Properties.                                                             *)

\* Between two hellos of a running plugin the registry holds exactly the nonce
\* the plugin will accept: RegistryNonceStore's two copies never drift apart.
PublishedNonceCurrent ==
  \A p \in Plugins :
    phase[p] = "active" /\ lst[p] \in {"starting", "waiting", "serving"}
      => pnonce[p] # None /\ reg = pnonce[p]

\* A sidecar is never answered HandshakeInvalid: connect_and_handshake reads the
\* nonce only while it holds the one pipe, so no other hello can rotate it away.
SidecarNeverRefused ==
  \A p \in Plugins : reply[p] = "handshakeInvalid" => conn[p] \in Tools

\* A nonce that a hello was accepted for is never accepted again: once
\* ConsumeNonce has rotated, no plugin's _nonce is a spent one.
SingleUse ==
  \A p \in Plugins : lst[p] # "matched" => pnonce[p] \notin spent

\* A client whose hello was answered "ok" and whose connection still stands talks
\* to an authenticated connection, and OpSignPubKeyCache holds that client's key,
\* not the key of an earlier sidecar.
KeyBelongsToPeer ==
  \A c \in Clients :
    cpc[c] = "open" /\ Connected(c)
      => hc[link[c]] /\ keyCache[link[c]] = c

\* A handshake under way always ends, with "ok" or with a failure, whatever the
\* plugin does meanwhile: Terminate, a crash, a rotation, a busy listener.
HandshakeResolves ==
  \A c \in Clients :
    cpc[c] \in {"linked", "ready", "waiting"} ~> cpc[c] \in {"open", "idle"}

\* Nobody waits for nothing: a client that waits on a standing connection has an
\* answer to read, or its hello lies with a listener thread that will come to it,
\* or Terminate is about to dispose the pipe and wake it with an end of file.
WaitIsAttended ==
  \A c \in Clients :
    cpc[c] = "waiting" /\ Connected(c)
      => \/ reply[link[c]] # None
         \/ phase[link[c]] = "stopping"
         \/ /\ req[link[c]] # None
            /\ lst[link[c]] \in {"starting", "serving", "matched", "rotated"}

\* README.md: "A second KeePass process is detected and stays passive."  So while
\* it is passive the registry still holds the nonce of the plugin that serves.
PassiveStaysPassive ==
  \A p, q \in Plugins :
    /\ phase[p] = "passive"
    /\ phase[q] = "active"
    /\ lst[q] \in {"starting", "waiting", "serving"}
    => reg = pnonce[q]
=============================================================================
