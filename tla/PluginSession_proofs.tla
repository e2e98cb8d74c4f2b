------------------------ MODULE PluginSession_proofs ------------------------
(***************************************************************************)
(* Theorems about PluginSession, for any number of KeePass processes,      *)
(* sidecars, tools and nonces.                                             *)
(***************************************************************************)
EXTENDS PluginSession, TLAPS

----------------------------------------------------------------------------
(* The inductive invariant that holds whatever the processes do.           *)

\* How the listener's position, the connection and the request hang together.
Shape ==
  /\ \A p \in Plugins :
       /\ phase[p] \in {"off", "inited", "passive"} => lst[p] = "none"
       /\ lst[p] = "none" => conn[p] = None
       /\ lst[p] \in {"matched", "rotated"} => req[p] # None
  /\ \A c \in Clients : cpc[c] \in {"noted", "ready"} => cnonce[c] # None

\* Two plugins never hold the same nonce.
DistinctNonces ==
  \A p, q \in Plugins : pnonce[p] # None /\ pnonce[p] = pnonce[q] => p = q

\* The key in a request is the sender's, and an "ok" still unread was written
\* after the sender's key went into the cache.
KeyInFlight ==
  \A p \in Plugins :
    /\ req[p] # None => req[p].key \in {None, conn[p]}
    /\ reply[p] = "ok" => hc[p] /\ keyCache[p] = conn[p]

\* A connection with both ends open has a listener on its way to it, unless the
\* listener has already seen _stopping; and a hello sent is not lost.
Attended ==
  /\ \A c \in Clients :
       Connected(c)
         => \/ phase[link[c]] = "stopping"
            \/ lst[link[c]] \in {"starting", "serving", "matched", "rotated"}
  /\ WaitIsAttended

IInv ==
  /\ TypeOK
  /\ Shape
  /\ DistinctNonces
  /\ SingleUse
  /\ KeyInFlight
  /\ KeyBelongsToPeer
  /\ Attended

----------------------------------------------------------------------------
(* The invariant of a session in which KeePass processes do not overlap.   *)

Alone == \A p, q \in Plugins : phase[p] # "off" /\ phase[q] # "off" => p = q

\* From InitializeCore to Clear the plugin has a nonce, and the registry holds it
\* except between the two assignments of a rotation.
NoncePublished ==
  \A p \in Plugins :
    phase[p] \in {"inited", "active", "stopping", "stopped"}
      => pnonce[p] # None /\ (lst[p] # "rotated" => reg = pnonce[p])

\* A sidecar that holds the pipe and has not sent its hello is at the other end of
\* a fresh connection, and the nonce it read is still the plugin's.
SidecarFresh ==
  \A c \in Sidecars :
    cpc[c] \in {"linked", "ready"} /\ Connected(c)
      => /\ ~hc[link[c]]
         /\ req[link[c]] = None
         /\ cpc[c] = "ready" => cnonce[c] = pnonce[link[c]]

\* The same for the hello of a sidecar that waits for the listener.
HelloFresh ==
  \A p \in Plugins :
    /\ PipeExists(p)
    /\ conn[p] \in Sidecars
    /\ req[p] # None
    /\ lst[p] \notin {"matched", "rotated"}
    => ~hc[p] /\ req[p].nonce = pnonce[p]

SoloInv ==
  /\ Alone
  /\ NoncePublished
  /\ SidecarFresh
  /\ HelloFresh
  /\ SidecarNeverRefused

----------------------------------------------------------------------------
(* One lemma per conjunct: every step preserves it.                         *)

\* Every step keeps the types; a key or a nonce goes where it is read.
LEMMA TypeStep == TypeOK /\ Shape /\ [Next]_vars => TypeOK'
<1> SUFFICES ASSUME TypeOK, Shape, [Next]_vars PROVE TypeOK'
  OBVIOUS
<1> USE ConstantsAssumption DEF TypeOK, Clients, Hello, Phase, ListenerState, ClientState,
        ReplyCode
<1>1. ASSUME NEW p \in Plugins, StartPlugin(p) PROVE TypeOK'
  BY <1>1 DEF StartPlugin, RenewNonce, FreshNonces, clientVars, pluginVars, Shape
<1>2. ASSUME NEW p \in Plugins, TryStart(p) PROVE TypeOK'
  BY <1>2 DEF TryStart, PipeExists, clientVars, pluginVars, Shape
<1>3. ASSUME NEW p \in Plugins, SetStopping(p) PROVE TypeOK'
  BY <1>3 DEF SetStopping, clientVars, pluginVars, Shape
<1>4. ASSUME NEW p \in Plugins, DisposePipe(p) PROVE TypeOK'
  BY <1>4 DEF DisposePipe, clientVars, pluginVars, Shape
<1>5. ASSUME NEW p \in Plugins, ClearNonce(p) PROVE TypeOK'
  BY <1>5 DEF ClearNonce, clientVars, pluginVars, Shape
<1>6. ASSUME NEW p \in Plugins, Die(p) PROVE TypeOK'
  BY <1>6 DEF Die, clientVars, pluginVars, Shape
<1>7. ASSUME NEW p \in Plugins, FirstWait(p) PROVE TypeOK'
  BY <1>7 DEF FirstWait, PeerPresent, clientVars, pluginVars, Shape
<1>8. ASSUME NEW p \in Plugins, ListenerStops(p) PROVE TypeOK'
  BY <1>8 DEF ListenerStops, PipeExists, clientVars, pluginVars, Shape
<1>9. ASSUME NEW p \in Plugins, RejectHello(p) PROVE TypeOK'
  BY <1>9 DEF RejectHello, Answer, clientVars, pluginVars, Shape
<1>10. ASSUME NEW p \in Plugins, MatchNonce(p) PROVE TypeOK'
  BY <1>10 DEF MatchNonce, clientVars, pluginVars, Shape
<1>11. ASSUME NEW p \in Plugins, RotateNonce(p) PROVE TypeOK'
  BY <1>11 DEF RotateNonce, RenewNonce, FreshNonces, clientVars, pluginVars, Shape
<1>12. ASSUME NEW p \in Plugins, FinishHello(p) PROVE TypeOK'
  <2>1. req[p] \in Hello /\ conn[p] # None
    BY <1>12 DEF FinishHello, Shape
  <2>2. /\ reply' \in [Plugins -> ReplyCode \cup {None}]
        /\ hc' \in [Plugins -> BOOLEAN]
        /\ keyCache' \in [Plugins -> Clients \cup {None}]
        /\ reg' \in Nonces \cup {None}
        /\ req' = [req EXCEPT ![p] = None]
        /\ lst' = [lst EXCEPT ![p] = "serving"]
    <3>1. /\ req' = [req EXCEPT ![p] = None]
          /\ lst' = [lst EXCEPT ![p] = "serving"]
      BY <1>12 DEF FinishHello
    <3>2. CASE pnonce[p] = None
      <4>1. /\ reply' = [reply EXCEPT ![p] = IF PipeExists(p) THEN "internalError" ELSE None]
            /\ reg' = reg /\ hc' = hc /\ keyCache' = keyCache
        BY <1>12, <3>2 DEF FinishHello, Answer
      <4> QED
        BY <3>1, <4>1
    <3>3. CASE pnonce[p] # None
      <4>1. hc' = [hc EXCEPT ![p] = TRUE] /\ reg' = pnonce[p]
        BY <1>12, <3>3 DEF FinishHello, WriteRegistry
      <4>2. CASE req[p].key = None
        <5>1. /\ reply' = [reply EXCEPT ![p] = IF PipeExists(p) THEN "invalidParams" ELSE None]
              /\ keyCache' = keyCache
          BY <1>12, <3>3, <4>2 DEF FinishHello, Answer
        <5> QED
          BY <3>1, <4>1, <5>1
      <4>3. CASE req[p].key # None
        <5>1. /\ reply' = [reply EXCEPT ![p] = IF PipeExists(p) THEN "ok" ELSE None]
              /\ keyCache' = [keyCache EXCEPT ![p] = req[p].key]
          BY <1>12, <3>3, <4>3 DEF FinishHello, Answer, CacheKey
        <5> QED
          BY <2>1, <3>1, <4>1, <4>3, <5>1
      <4> QED
        BY <4>2, <4>3
    <3> QED
      BY <3>2, <3>3
  <2>3. \A q \in Plugins : q # p => reply'[q] = reply[q] /\ hc'[q] = hc[q]
    BY <1>12 DEF FinishHello, Answer
  <2>4. UNCHANGED <<phase, pnonce, conn, cpc, link, cnonce, spent>>
    BY <1>12 DEF FinishHello, clientVars
  <2> QED
    BY <2>1, <2>2, <2>3, <2>4
<1>13. ASSUME NEW p \in Plugins, EndConnection(p) PROVE TypeOK'
  BY <1>13 DEF EndConnection, DropContext, PeerPresent, PipeExists, clientVars,
     pluginVars, Shape
<1>14. ASSUME NEW c \in Clients, NoteNonce(c) PROVE TypeOK'
  BY <1>14 DEF NoteNonce, ReadsNonceFirst, clientVars, pluginVars, Shape
<1>15. ASSUME NEW c \in Clients, NEW p \in Plugins, Connect(c, p) PROVE TypeOK'
  BY <1>15 DEF Connect, ReadsNonceFirst, PipeExists, clientVars, pluginVars, Shape
<1>16. ASSUME NEW c \in Clients, ReadNonce(c) PROVE TypeOK'
  BY <1>16 DEF ReadNonce, clientVars, pluginVars, Shape
<1>17. ASSUME NEW c \in Clients, SendHello(c) PROVE TypeOK'
  <2>1. link[c] \in Plugins /\ conn[link[c]] # None /\ cnonce[c] \in Nonces \cup {None}
    BY <1>17 DEF SendHello, Connected
  <2>2. cnonce[c] # None
    BY <1>17 DEF SendHello, Shape
  <2> DEFINE r == [nonce |-> cnonce[c], key |-> IF c \in Legacy THEN None ELSE c]
  <2>3. r \in Hello
    BY <2>1, <2>2
  <2> HIDE DEF r
  <2>4. req' = [req EXCEPT ![link[c]] = r]
    BY <1>17 DEF SendHello, r
  <2> QED
    BY <1>17, <2>1, <2>3, <2>4 DEF SendHello, clientVars, pluginVars
<1>18. ASSUME NEW c \in Clients, HelloAccepted(c) PROVE TypeOK'
  BY <1>18 DEF HelloAccepted, Connected, clientVars, pluginVars, Shape
<1>19. ASSUME NEW c \in Clients, HandshakeFails(c) PROVE TypeOK'
  BY <1>19 DEF HandshakeFails, Abandon, clientVars, pluginVars, Shape
<1>20. ASSUME NEW c \in Clients, Leave(c) PROVE TypeOK'
  BY <1>20 DEF Leave, Abandon, clientVars, pluginVars, Shape
<1>21. CASE UNCHANGED vars
  BY <1>21 DEF vars, pluginVars, clientVars, Shape
<1> QED
  BY <1>1, <1>2, <1>3, <1>4, <1>5, <1>6, <1>7, <1>8, <1>9, <1>10, <1>11, <1>12, <1>13,
     <1>14, <1>15, <1>16, <1>17, <1>18, <1>19, <1>20, <1>21 DEF Next, UIThread, Listener,
     Client

\* Every step keeps the listener, the connection and the request in line.
LEMMA ShapeStep == TypeOK /\ Shape /\ [Next]_vars => Shape'
<1> SUFFICES ASSUME TypeOK, Shape, [Next]_vars PROVE Shape'
  OBVIOUS
<1> USE ConstantsAssumption DEF TypeOK, Shape
<1>1. ASSUME NEW p \in Plugins, StartPlugin(p) PROVE Shape'
  BY <1>1 DEF StartPlugin, RenewNonce, FreshNonces, clientVars, pluginVars
<1>2. ASSUME NEW p \in Plugins, TryStart(p) PROVE Shape'
  BY <1>2 DEF TryStart, PipeExists, clientVars, pluginVars
<1>3. ASSUME NEW p \in Plugins, SetStopping(p) PROVE Shape'
  BY <1>3 DEF SetStopping, clientVars, pluginVars
<1>4. ASSUME NEW p \in Plugins, DisposePipe(p) PROVE Shape'
  BY <1>4 DEF DisposePipe, clientVars, pluginVars
<1>5. ASSUME NEW p \in Plugins, ClearNonce(p) PROVE Shape'
  BY <1>5 DEF ClearNonce, clientVars, pluginVars
<1>6. ASSUME NEW p \in Plugins, Die(p) PROVE Shape'
  BY <1>6 DEF Die, clientVars, pluginVars
<1>7. ASSUME NEW p \in Plugins, FirstWait(p) PROVE Shape'
  BY <1>7 DEF FirstWait, PeerPresent, clientVars, pluginVars
<1>8. ASSUME NEW p \in Plugins, ListenerStops(p) PROVE Shape'
  BY <1>8 DEF ListenerStops, PipeExists, clientVars, pluginVars
<1>9. ASSUME NEW p \in Plugins, RejectHello(p) PROVE Shape'
  BY <1>9 DEF RejectHello, Answer, clientVars, pluginVars
<1>10. ASSUME NEW p \in Plugins, MatchNonce(p) PROVE Shape'
  BY <1>10 DEF MatchNonce, clientVars, pluginVars
<1>11. ASSUME NEW p \in Plugins, RotateNonce(p) PROVE Shape'
  BY <1>11 DEF RotateNonce, RenewNonce, FreshNonces, clientVars, pluginVars
<1>12. ASSUME NEW p \in Plugins, FinishHello(p) PROVE Shape'
  BY <1>12 DEF FinishHello, Answer, WriteRegistry, CacheKey, clientVars, pluginVars
<1>13. ASSUME NEW p \in Plugins, EndConnection(p) PROVE Shape'
  BY <1>13 DEF EndConnection, DropContext, PeerPresent, PipeExists, clientVars, pluginVars
<1>14. ASSUME NEW c \in Clients, NoteNonce(c) PROVE Shape'
  BY <1>14 DEF NoteNonce, ReadsNonceFirst, clientVars, pluginVars
<1>15. ASSUME NEW c \in Clients, NEW p \in Plugins, Connect(c, p) PROVE Shape'
  BY <1>15 DEF Connect, ReadsNonceFirst, PipeExists, clientVars, pluginVars
<1>16. ASSUME NEW c \in Clients, ReadNonce(c) PROVE Shape'
  BY <1>16 DEF ReadNonce, clientVars, pluginVars
<1>17. ASSUME NEW c \in Clients, SendHello(c) PROVE Shape'
  <2>1. link[c] \in Plugins /\ conn[link[c]] # None /\ phase[link[c]] \in {"active", "stopping"}
    BY <1>17 DEF SendHello, Connected, PipeExists
  <2>2. [nonce |-> cnonce[c], key |-> IF c \in Legacy THEN None ELSE c] # None
    BY <1>17 DEF SendHello, Hello, Clients
  <2> QED
    BY <1>17, <2>1, <2>2 DEF SendHello
<1>18. ASSUME NEW c \in Clients, HelloAccepted(c) PROVE Shape'
  BY <1>18 DEF HelloAccepted, Connected, clientVars, pluginVars
<1>19. ASSUME NEW c \in Clients, HandshakeFails(c) PROVE Shape'
  BY <1>19 DEF HandshakeFails, Abandon, clientVars, pluginVars
<1>20. ASSUME NEW c \in Clients, Leave(c) PROVE Shape'
  BY <1>20 DEF Leave, Abandon, clientVars, pluginVars
<1>21. CASE UNCHANGED vars
  BY <1>21 DEF vars, pluginVars, clientVars
<1> QED
  BY <1>1, <1>2, <1>3, <1>4, <1>5, <1>6, <1>7, <1>8, <1>9, <1>10, <1>11, <1>12, <1>13,
     <1>14, <1>15, <1>16, <1>17, <1>18, <1>19, <1>20, <1>21 DEF Next, UIThread, Listener,
     Client

\* A nonce is drawn among those nobody holds, so no two plugins share one.
LEMMA DistinctStep == TypeOK /\ DistinctNonces /\ [Next]_vars => DistinctNonces'
<1> SUFFICES ASSUME TypeOK, DistinctNonces, [Next]_vars PROVE DistinctNonces'
  OBVIOUS
<1> USE ConstantsAssumption DEF TypeOK, DistinctNonces
<1>1. ASSUME NEW p \in Plugins, StartPlugin(p) PROVE DistinctNonces'
  BY <1>1 DEF StartPlugin, RenewNonce, FreshNonces, clientVars, pluginVars
<1>2. ASSUME NEW p \in Plugins, TryStart(p) PROVE DistinctNonces'
  BY <1>2 DEF TryStart, PipeExists, clientVars, pluginVars
<1>3. ASSUME NEW p \in Plugins, SetStopping(p) PROVE DistinctNonces'
  BY <1>3 DEF SetStopping, clientVars, pluginVars
<1>4. ASSUME NEW p \in Plugins, DisposePipe(p) PROVE DistinctNonces'
  BY <1>4 DEF DisposePipe, clientVars, pluginVars
<1>5. ASSUME NEW p \in Plugins, ClearNonce(p) PROVE DistinctNonces'
  BY <1>5 DEF ClearNonce, clientVars, pluginVars
<1>6. ASSUME NEW p \in Plugins, Die(p) PROVE DistinctNonces'
  BY <1>6 DEF Die, clientVars, pluginVars
<1>7. ASSUME NEW p \in Plugins, FirstWait(p) PROVE DistinctNonces'
  BY <1>7 DEF FirstWait, PeerPresent, clientVars, pluginVars
<1>8. ASSUME NEW p \in Plugins, ListenerStops(p) PROVE DistinctNonces'
  BY <1>8 DEF ListenerStops, PipeExists, clientVars, pluginVars
<1>9. ASSUME NEW p \in Plugins, RejectHello(p) PROVE DistinctNonces'
  BY <1>9 DEF RejectHello, Answer, clientVars, pluginVars
<1>10. ASSUME NEW p \in Plugins, MatchNonce(p) PROVE DistinctNonces'
  BY <1>10 DEF MatchNonce, clientVars, pluginVars
<1>11. ASSUME NEW p \in Plugins, RotateNonce(p) PROVE DistinctNonces'
  BY <1>11 DEF RotateNonce, RenewNonce, FreshNonces, clientVars, pluginVars
<1>12. ASSUME NEW p \in Plugins, FinishHello(p) PROVE DistinctNonces'
  BY <1>12 DEF FinishHello, Answer, WriteRegistry, CacheKey, clientVars, pluginVars
<1>13. ASSUME NEW p \in Plugins, EndConnection(p) PROVE DistinctNonces'
  BY <1>13 DEF EndConnection, DropContext, PeerPresent, PipeExists, clientVars, pluginVars
<1>14. ASSUME NEW c \in Clients, NoteNonce(c) PROVE DistinctNonces'
  BY <1>14 DEF NoteNonce, ReadsNonceFirst, clientVars, pluginVars
<1>15. ASSUME NEW c \in Clients, NEW p \in Plugins, Connect(c, p) PROVE DistinctNonces'
  BY <1>15 DEF Connect, ReadsNonceFirst, PipeExists, clientVars, pluginVars
<1>16. ASSUME NEW c \in Clients, ReadNonce(c) PROVE DistinctNonces'
  BY <1>16 DEF ReadNonce, clientVars, pluginVars
<1>17. ASSUME NEW c \in Clients, SendHello(c) PROVE DistinctNonces'
  BY <1>17 DEF SendHello, Connected, clientVars, pluginVars
<1>18. ASSUME NEW c \in Clients, HelloAccepted(c) PROVE DistinctNonces'
  BY <1>18 DEF HelloAccepted, Connected, clientVars, pluginVars
<1>19. ASSUME NEW c \in Clients, HandshakeFails(c) PROVE DistinctNonces'
  BY <1>19 DEF HandshakeFails, Abandon, clientVars, pluginVars
<1>20. ASSUME NEW c \in Clients, Leave(c) PROVE DistinctNonces'
  BY <1>20 DEF Leave, Abandon, clientVars, pluginVars
<1>21. CASE UNCHANGED vars
  BY <1>21 DEF vars, pluginVars, clientVars
<1> QED
  BY <1>1, <1>2, <1>3, <1>4, <1>5, <1>6, <1>7, <1>8, <1>9, <1>10, <1>11, <1>12, <1>13,
     <1>14, <1>15, <1>16, <1>17, <1>18, <1>19, <1>20, <1>21 DEF Next, UIThread, Listener,
     Client

\* Only a match spends a nonce, and the rotation that follows replaces it.
LEMMA SingleUseStep == TypeOK /\ Shape /\ DistinctNonces /\ SingleUse /\ [Next]_vars => SingleUse'
<1> SUFFICES ASSUME TypeOK, Shape, DistinctNonces, SingleUse, [Next]_vars PROVE SingleUse'
  OBVIOUS
<1> USE ConstantsAssumption DEF TypeOK, Shape, DistinctNonces, SingleUse
<1>1. ASSUME NEW p \in Plugins, StartPlugin(p) PROVE SingleUse'
  BY <1>1 DEF StartPlugin, RenewNonce, FreshNonces, clientVars, pluginVars
<1>2. ASSUME NEW p \in Plugins, TryStart(p) PROVE SingleUse'
  BY <1>2 DEF TryStart, PipeExists, clientVars, pluginVars
<1>3. ASSUME NEW p \in Plugins, SetStopping(p) PROVE SingleUse'
  BY <1>3 DEF SetStopping, clientVars, pluginVars
<1>4. ASSUME NEW p \in Plugins, DisposePipe(p) PROVE SingleUse'
  BY <1>4 DEF DisposePipe, clientVars, pluginVars
<1>5. ASSUME NEW p \in Plugins, ClearNonce(p) PROVE SingleUse'
  BY <1>5 DEF ClearNonce, clientVars, pluginVars
<1>6. ASSUME NEW p \in Plugins, Die(p) PROVE SingleUse'
  BY <1>6 DEF Die, clientVars, pluginVars
<1>7. ASSUME NEW p \in Plugins, FirstWait(p) PROVE SingleUse'
  BY <1>7 DEF FirstWait, PeerPresent, clientVars, pluginVars
<1>8. ASSUME NEW p \in Plugins, ListenerStops(p) PROVE SingleUse'
  BY <1>8 DEF ListenerStops, PipeExists, clientVars, pluginVars
<1>9. ASSUME NEW p \in Plugins, RejectHello(p) PROVE SingleUse'
  BY <1>9 DEF RejectHello, Answer, clientVars, pluginVars
<1>10. ASSUME NEW p \in Plugins, MatchNonce(p) PROVE SingleUse'
  BY <1>10 DEF MatchNonce, clientVars, pluginVars
<1>11. ASSUME NEW p \in Plugins, RotateNonce(p) PROVE SingleUse'
  BY <1>11 DEF RotateNonce, RenewNonce, FreshNonces, clientVars, pluginVars
<1>12. ASSUME NEW p \in Plugins, FinishHello(p) PROVE SingleUse'
  BY <1>12 DEF FinishHello, Answer, WriteRegistry, CacheKey, clientVars, pluginVars
<1>13. ASSUME NEW p \in Plugins, EndConnection(p) PROVE SingleUse'
  BY <1>13 DEF EndConnection, DropContext, PeerPresent, PipeExists, clientVars, pluginVars
<1>14. ASSUME NEW c \in Clients, NoteNonce(c) PROVE SingleUse'
  BY <1>14 DEF NoteNonce, ReadsNonceFirst, clientVars, pluginVars
<1>15. ASSUME NEW c \in Clients, NEW p \in Plugins, Connect(c, p) PROVE SingleUse'
  BY <1>15 DEF Connect, ReadsNonceFirst, PipeExists, clientVars, pluginVars
<1>16. ASSUME NEW c \in Clients, ReadNonce(c) PROVE SingleUse'
  BY <1>16 DEF ReadNonce, clientVars, pluginVars
<1>17. ASSUME NEW c \in Clients, SendHello(c) PROVE SingleUse'
  BY <1>17 DEF SendHello, Connected, clientVars, pluginVars
<1>18. ASSUME NEW c \in Clients, HelloAccepted(c) PROVE SingleUse'
  BY <1>18 DEF HelloAccepted, Connected, clientVars, pluginVars
<1>19. ASSUME NEW c \in Clients, HandshakeFails(c) PROVE SingleUse'
  BY <1>19 DEF HandshakeFails, Abandon, clientVars, pluginVars
<1>20. ASSUME NEW c \in Clients, Leave(c) PROVE SingleUse'
  BY <1>20 DEF Leave, Abandon, clientVars, pluginVars
<1>21. CASE UNCHANGED vars
  BY <1>21 DEF vars, pluginVars, clientVars
<1> QED
  BY <1>1, <1>2, <1>3, <1>4, <1>5, <1>6, <1>7, <1>8, <1>9, <1>10, <1>11, <1>12, <1>13,
     <1>14, <1>15, <1>16, <1>17, <1>18, <1>19, <1>20, <1>21 DEF Next, UIThread, Listener,
     Client

\* The listener answers "ok" after caching the key of the client it serves.
LEMMA KeyInFlightStep == TypeOK /\ Shape /\ KeyInFlight /\ [Next]_vars => KeyInFlight'
<1> SUFFICES ASSUME TypeOK, Shape, KeyInFlight, [Next]_vars PROVE KeyInFlight'
  OBVIOUS
<1> USE ConstantsAssumption DEF TypeOK, Shape, KeyInFlight, ReplyCode, Hello, Clients
<1>1. ASSUME NEW p \in Plugins, StartPlugin(p) PROVE KeyInFlight'
  BY <1>1 DEF StartPlugin, RenewNonce, FreshNonces, clientVars, pluginVars
<1>2. ASSUME NEW p \in Plugins, TryStart(p) PROVE KeyInFlight'
  BY <1>2 DEF TryStart, PipeExists, clientVars, pluginVars
<1>3. ASSUME NEW p \in Plugins, SetStopping(p) PROVE KeyInFlight'
  BY <1>3 DEF SetStopping, clientVars, pluginVars
<1>4. ASSUME NEW p \in Plugins, DisposePipe(p) PROVE KeyInFlight'
  BY <1>4 DEF DisposePipe, clientVars, pluginVars
<1>5. ASSUME NEW p \in Plugins, ClearNonce(p) PROVE KeyInFlight'
  BY <1>5 DEF ClearNonce, clientVars, pluginVars
<1>6. ASSUME NEW p \in Plugins, Die(p) PROVE KeyInFlight'
  BY <1>6 DEF Die, clientVars, pluginVars
<1>7. ASSUME NEW p \in Plugins, FirstWait(p) PROVE KeyInFlight'
  BY <1>7 DEF FirstWait, PeerPresent, clientVars, pluginVars
<1>8. ASSUME NEW p \in Plugins, ListenerStops(p) PROVE KeyInFlight'
  BY <1>8 DEF ListenerStops, PipeExists, clientVars, pluginVars
<1>9. ASSUME NEW p \in Plugins, RejectHello(p) PROVE KeyInFlight'
  BY <1>9 DEF RejectHello, Answer, clientVars, pluginVars
<1>10. ASSUME NEW p \in Plugins, MatchNonce(p) PROVE KeyInFlight'
  BY <1>10 DEF MatchNonce, clientVars, pluginVars
<1>11. ASSUME NEW p \in Plugins, RotateNonce(p) PROVE KeyInFlight'
  BY <1>11 DEF RotateNonce, RenewNonce, FreshNonces, clientVars, pluginVars
<1>12. ASSUME NEW p \in Plugins, FinishHello(p) PROVE KeyInFlight'
  BY <1>12 DEF FinishHello, Answer, WriteRegistry, CacheKey, clientVars, pluginVars
<1>13. ASSUME NEW p \in Plugins, EndConnection(p) PROVE KeyInFlight'
  BY <1>13 DEF EndConnection, DropContext, PeerPresent, PipeExists, clientVars, pluginVars
<1>14. ASSUME NEW c \in Clients, NoteNonce(c) PROVE KeyInFlight'
  BY <1>14 DEF NoteNonce, ReadsNonceFirst, clientVars, pluginVars
<1>15. ASSUME NEW c \in Clients, NEW p \in Plugins, Connect(c, p) PROVE KeyInFlight'
  BY <1>15 DEF Connect, ReadsNonceFirst, PipeExists, clientVars, pluginVars
<1>16. ASSUME NEW c \in Clients, ReadNonce(c) PROVE KeyInFlight'
  BY <1>16 DEF ReadNonce, clientVars, pluginVars
<1>17. ASSUME NEW c \in Clients, SendHello(c) PROVE KeyInFlight'
  BY <1>17 DEF SendHello, Connected, clientVars, pluginVars
<1>18. ASSUME NEW c \in Clients, HelloAccepted(c) PROVE KeyInFlight'
  BY <1>18 DEF HelloAccepted, Connected, clientVars, pluginVars
<1>19. ASSUME NEW c \in Clients, HandshakeFails(c) PROVE KeyInFlight'
  BY <1>19 DEF HandshakeFails, Abandon, clientVars, pluginVars
<1>20. ASSUME NEW c \in Clients, Leave(c) PROVE KeyInFlight'
  BY <1>20 DEF Leave, Abandon, clientVars, pluginVars
<1>21. CASE UNCHANGED vars
  BY <1>21 DEF vars, pluginVars, clientVars
<1> QED
  BY <1>1, <1>2, <1>3, <1>4, <1>5, <1>6, <1>7, <1>8, <1>9, <1>10, <1>11, <1>12, <1>13,
     <1>14, <1>15, <1>16, <1>17, <1>18, <1>19, <1>20, <1>21 DEF Next, UIThread, Listener,
     Client

\* While a client keeps its connection no other hello reaches the key cache.
LEMMA KeyBelongsStep == TypeOK /\ Shape /\ KeyInFlight /\ KeyBelongsToPeer /\ [Next]_vars => KeyBelongsToPeer'
<1> SUFFICES ASSUME TypeOK, Shape, KeyInFlight, KeyBelongsToPeer, [Next]_vars PROVE KeyBelongsToPeer'
  OBVIOUS
<1> USE ConstantsAssumption DEF TypeOK, Shape, KeyInFlight, KeyBelongsToPeer, Connected,
        PipeExists, Hello
<1>1. ASSUME NEW p \in Plugins, StartPlugin(p) PROVE KeyBelongsToPeer'
  BY <1>1 DEF StartPlugin, RenewNonce, FreshNonces, clientVars, pluginVars
<1>2. ASSUME NEW p \in Plugins, TryStart(p) PROVE KeyBelongsToPeer'
  BY <1>2 DEF TryStart, PipeExists, clientVars, pluginVars
<1>3. ASSUME NEW p \in Plugins, SetStopping(p) PROVE KeyBelongsToPeer'
  BY <1>3 DEF SetStopping, clientVars, pluginVars
<1>4. ASSUME NEW p \in Plugins, DisposePipe(p) PROVE KeyBelongsToPeer'
  BY <1>4 DEF DisposePipe, clientVars, pluginVars
<1>5. ASSUME NEW p \in Plugins, ClearNonce(p) PROVE KeyBelongsToPeer'
  BY <1>5 DEF ClearNonce, clientVars, pluginVars
<1>6. ASSUME NEW p \in Plugins, Die(p) PROVE KeyBelongsToPeer'
  BY <1>6 DEF Die, clientVars, pluginVars
<1>7. ASSUME NEW p \in Plugins, FirstWait(p) PROVE KeyBelongsToPeer'
  BY <1>7 DEF FirstWait, PeerPresent, clientVars, pluginVars
<1>8. ASSUME NEW p \in Plugins, ListenerStops(p) PROVE KeyBelongsToPeer'
  BY <1>8 DEF ListenerStops, PipeExists, clientVars, pluginVars
<1>9. ASSUME NEW p \in Plugins, RejectHello(p) PROVE KeyBelongsToPeer'
  BY <1>9 DEF RejectHello, Answer, clientVars, pluginVars
<1>10. ASSUME NEW p \in Plugins, MatchNonce(p) PROVE KeyBelongsToPeer'
  BY <1>10 DEF MatchNonce, clientVars, pluginVars
<1>11. ASSUME NEW p \in Plugins, RotateNonce(p) PROVE KeyBelongsToPeer'
  BY <1>11 DEF RotateNonce, RenewNonce, FreshNonces, clientVars, pluginVars
<1>12. ASSUME NEW p \in Plugins, FinishHello(p) PROVE KeyBelongsToPeer'
  BY <1>12 DEF FinishHello, Answer, WriteRegistry, CacheKey, clientVars, pluginVars
<1>13. ASSUME NEW p \in Plugins, EndConnection(p) PROVE KeyBelongsToPeer'
  BY <1>13 DEF EndConnection, DropContext, PeerPresent, PipeExists, clientVars, pluginVars
<1>14. ASSUME NEW c \in Clients, NoteNonce(c) PROVE KeyBelongsToPeer'
  BY <1>14 DEF NoteNonce, ReadsNonceFirst, clientVars, pluginVars
<1>15. ASSUME NEW c \in Clients, NEW p \in Plugins, Connect(c, p) PROVE KeyBelongsToPeer'
  BY <1>15 DEF Connect, ReadsNonceFirst, PipeExists, clientVars, pluginVars
<1>16. ASSUME NEW c \in Clients, ReadNonce(c) PROVE KeyBelongsToPeer'
  BY <1>16 DEF ReadNonce, clientVars, pluginVars
<1>17. ASSUME NEW c \in Clients, SendHello(c) PROVE KeyBelongsToPeer'
  BY <1>17 DEF SendHello, Connected, clientVars, pluginVars
<1>18. ASSUME NEW c \in Clients, HelloAccepted(c) PROVE KeyBelongsToPeer'
  BY <1>18 DEF HelloAccepted, Connected, clientVars, pluginVars
<1>19. ASSUME NEW c \in Clients, HandshakeFails(c) PROVE KeyBelongsToPeer'
  BY <1>19 DEF HandshakeFails, Abandon, clientVars, pluginVars
<1>20. ASSUME NEW c \in Clients, Leave(c) PROVE KeyBelongsToPeer'
  BY <1>20 DEF Leave, Abandon, clientVars, pluginVars
<1>21. CASE UNCHANGED vars
  BY <1>21 DEF vars, pluginVars, clientVars
<1> QED
  BY <1>1, <1>2, <1>3, <1>4, <1>5, <1>6, <1>7, <1>8, <1>9, <1>10, <1>11, <1>12, <1>13,
     <1>14, <1>15, <1>16, <1>17, <1>18, <1>19, <1>20, <1>21 DEF Next, UIThread, Listener,
     Client

----------------------------------------------------------------------------
(* The conjuncts of the invariant for processes that do not overlap.        *)

\* Without overlap, a process starts only after the previous one is gone.
LEMMA AloneStep == ~Overlap /\ TypeOK /\ Alone /\ [Next]_vars => Alone'
<1> SUFFICES ASSUME ~Overlap, TypeOK, Alone, [Next]_vars PROVE Alone'
  OBVIOUS
<1> USE ConstantsAssumption DEF TypeOK, Alone
<1>1. ASSUME NEW p \in Plugins, StartPlugin(p) PROVE Alone'
  BY <1>1 DEF StartPlugin, RenewNonce, FreshNonces, clientVars, pluginVars
<1>2. ASSUME NEW p \in Plugins, TryStart(p) PROVE Alone'
  BY <1>2 DEF TryStart, PipeExists, clientVars, pluginVars
<1>3. ASSUME NEW p \in Plugins, SetStopping(p) PROVE Alone'
  BY <1>3 DEF SetStopping, clientVars, pluginVars
<1>4. ASSUME NEW p \in Plugins, DisposePipe(p) PROVE Alone'
  BY <1>4 DEF DisposePipe, clientVars, pluginVars
<1>5. ASSUME NEW p \in Plugins, ClearNonce(p) PROVE Alone'
  BY <1>5 DEF ClearNonce, clientVars, pluginVars
<1>6. ASSUME NEW p \in Plugins, Die(p) PROVE Alone'
  BY <1>6 DEF Die, clientVars, pluginVars
<1>7. ASSUME NEW p \in Plugins, FirstWait(p) PROVE Alone'
  BY <1>7 DEF FirstWait, PeerPresent, clientVars, pluginVars
<1>8. ASSUME NEW p \in Plugins, ListenerStops(p) PROVE Alone'
  BY <1>8 DEF ListenerStops, PipeExists, clientVars, pluginVars
<1>9. ASSUME NEW p \in Plugins, RejectHello(p) PROVE Alone'
  BY <1>9 DEF RejectHello, Answer, clientVars, pluginVars
<1>10. ASSUME NEW p \in Plugins, MatchNonce(p) PROVE Alone'
  BY <1>10 DEF MatchNonce, clientVars, pluginVars
<1>11. ASSUME NEW p \in Plugins, RotateNonce(p) PROVE Alone'
  BY <1>11 DEF RotateNonce, RenewNonce, FreshNonces, clientVars, pluginVars
<1>12. ASSUME NEW p \in Plugins, FinishHello(p) PROVE Alone'
  BY <1>12 DEF FinishHello, Answer, WriteRegistry, CacheKey, clientVars, pluginVars
<1>13. ASSUME NEW p \in Plugins, EndConnection(p) PROVE Alone'
  BY <1>13 DEF EndConnection, DropContext, PeerPresent, PipeExists, clientVars, pluginVars
<1>14. ASSUME NEW c \in Clients, NoteNonce(c) PROVE Alone'
  BY <1>14 DEF NoteNonce, ReadsNonceFirst, clientVars, pluginVars
<1>15. ASSUME NEW c \in Clients, NEW p \in Plugins, Connect(c, p) PROVE Alone'
  BY <1>15 DEF Connect, ReadsNonceFirst, PipeExists, clientVars, pluginVars
<1>16. ASSUME NEW c \in Clients, ReadNonce(c) PROVE Alone'
  BY <1>16 DEF ReadNonce, clientVars, pluginVars
<1>17. ASSUME NEW c \in Clients, SendHello(c) PROVE Alone'
  BY <1>17 DEF SendHello, Connected, clientVars, pluginVars
<1>18. ASSUME NEW c \in Clients, HelloAccepted(c) PROVE Alone'
  BY <1>18 DEF HelloAccepted, Connected, clientVars, pluginVars
<1>19. ASSUME NEW c \in Clients, HandshakeFails(c) PROVE Alone'
  BY <1>19 DEF HandshakeFails, Abandon, clientVars, pluginVars
<1>20. ASSUME NEW c \in Clients, Leave(c) PROVE Alone'
  BY <1>20 DEF Leave, Abandon, clientVars, pluginVars
<1>21. CASE UNCHANGED vars
  BY <1>21 DEF vars, pluginVars, clientVars
<1> QED
  BY <1>1, <1>2, <1>3, <1>4, <1>5, <1>6, <1>7, <1>8, <1>9, <1>10, <1>11, <1>12, <1>13,
     <1>14, <1>15, <1>16, <1>17, <1>18, <1>19, <1>20, <1>21 DEF Next, UIThread, Listener,
     Client

\* Only a rotation separates the plugin's nonce from the registry's.
LEMMA NoncePublishedStep == TypeOK /\ Shape /\ Alone /\ Alone' /\ NoncePublished /\ [Next]_vars => NoncePublished'
<1> SUFFICES ASSUME TypeOK, Shape, Alone, Alone', NoncePublished, [Next]_vars PROVE NoncePublished'
  OBVIOUS
<1> USE ConstantsAssumption DEF TypeOK, Shape, Alone, NoncePublished
<1>1. ASSUME NEW p \in Plugins, StartPlugin(p) PROVE NoncePublished'
  BY <1>1 DEF StartPlugin, RenewNonce, FreshNonces, clientVars, pluginVars
<1>2. ASSUME NEW p \in Plugins, TryStart(p) PROVE NoncePublished'
  BY <1>2 DEF TryStart, PipeExists, clientVars, pluginVars
<1>3. ASSUME NEW p \in Plugins, SetStopping(p) PROVE NoncePublished'
  BY <1>3 DEF SetStopping, clientVars, pluginVars
<1>4. ASSUME NEW p \in Plugins, DisposePipe(p) PROVE NoncePublished'
  BY <1>4 DEF DisposePipe, clientVars, pluginVars
<1>5. ASSUME NEW p \in Plugins, ClearNonce(p) PROVE NoncePublished'
  BY <1>5 DEF ClearNonce, clientVars, pluginVars
<1>6. ASSUME NEW p \in Plugins, Die(p) PROVE NoncePublished'
  BY <1>6 DEF Die, clientVars, pluginVars
<1>7. ASSUME NEW p \in Plugins, FirstWait(p) PROVE NoncePublished'
  BY <1>7 DEF FirstWait, PeerPresent, clientVars, pluginVars
<1>8. ASSUME NEW p \in Plugins, ListenerStops(p) PROVE NoncePublished'
  BY <1>8 DEF ListenerStops, PipeExists, clientVars, pluginVars
<1>9. ASSUME NEW p \in Plugins, RejectHello(p) PROVE NoncePublished'
  BY <1>9 DEF RejectHello, Answer, clientVars, pluginVars
<1>10. ASSUME NEW p \in Plugins, MatchNonce(p) PROVE NoncePublished'
  BY <1>10 DEF MatchNonce, clientVars, pluginVars
<1>11. ASSUME NEW p \in Plugins, RotateNonce(p) PROVE NoncePublished'
  BY <1>11 DEF RotateNonce, RenewNonce, FreshNonces, clientVars, pluginVars
<1>12. ASSUME NEW p \in Plugins, FinishHello(p) PROVE NoncePublished'
  BY <1>12 DEF FinishHello, Answer, WriteRegistry, CacheKey, clientVars, pluginVars
<1>13. ASSUME NEW p \in Plugins, EndConnection(p) PROVE NoncePublished'
  BY <1>13 DEF EndConnection, DropContext, PeerPresent, PipeExists, clientVars, pluginVars
<1>14. ASSUME NEW c \in Clients, NoteNonce(c) PROVE NoncePublished'
  BY <1>14 DEF NoteNonce, ReadsNonceFirst, clientVars, pluginVars
<1>15. ASSUME NEW c \in Clients, NEW p \in Plugins, Connect(c, p) PROVE NoncePublished'
  BY <1>15 DEF Connect, ReadsNonceFirst, PipeExists, clientVars, pluginVars
<1>16. ASSUME NEW c \in Clients, ReadNonce(c) PROVE NoncePublished'
  BY <1>16 DEF ReadNonce, clientVars, pluginVars
<1>17. ASSUME NEW c \in Clients, SendHello(c) PROVE NoncePublished'
  BY <1>17 DEF SendHello, Connected, clientVars, pluginVars
<1>18. ASSUME NEW c \in Clients, HelloAccepted(c) PROVE NoncePublished'
  BY <1>18 DEF HelloAccepted, Connected, clientVars, pluginVars
<1>19. ASSUME NEW c \in Clients, HandshakeFails(c) PROVE NoncePublished'
  BY <1>19 DEF HandshakeFails, Abandon, clientVars, pluginVars
<1>20. ASSUME NEW c \in Clients, Leave(c) PROVE NoncePublished'
  BY <1>20 DEF Leave, Abandon, clientVars, pluginVars
<1>21. CASE UNCHANGED vars
  BY <1>21 DEF vars, pluginVars, clientVars
<1> QED
  BY <1>1, <1>2, <1>3, <1>4, <1>5, <1>6, <1>7, <1>8, <1>9, <1>10, <1>11, <1>12, <1>13,
     <1>14, <1>15, <1>16, <1>17, <1>18, <1>19, <1>20, <1>21 DEF Next, UIThread, Listener,
     Client

\* Nothing changes the plugin's nonce while a sidecar holds the unused pipe.
LEMMA SidecarFreshStep == TypeOK /\ Shape /\ NoncePublished /\ SidecarFresh /\ [Next]_vars => SidecarFresh'
<1> SUFFICES ASSUME TypeOK, Shape, NoncePublished, SidecarFresh, [Next]_vars PROVE SidecarFresh'
  OBVIOUS
<1> USE ConstantsAssumption DEF TypeOK, Shape, NoncePublished, SidecarFresh, Connected,
        PipeExists, Clients
<1>1. ASSUME NEW p \in Plugins, StartPlugin(p) PROVE SidecarFresh'
  BY <1>1 DEF StartPlugin, RenewNonce, FreshNonces, clientVars, pluginVars
<1>2. ASSUME NEW p \in Plugins, TryStart(p) PROVE SidecarFresh'
  BY <1>2 DEF TryStart, PipeExists, clientVars, pluginVars
<1>3. ASSUME NEW p \in Plugins, SetStopping(p) PROVE SidecarFresh'
  BY <1>3 DEF SetStopping, clientVars, pluginVars
<1>4. ASSUME NEW p \in Plugins, DisposePipe(p) PROVE SidecarFresh'
  BY <1>4 DEF DisposePipe, clientVars, pluginVars
<1>5. ASSUME NEW p \in Plugins, ClearNonce(p) PROVE SidecarFresh'
  BY <1>5 DEF ClearNonce, clientVars, pluginVars
<1>6. ASSUME NEW p \in Plugins, Die(p) PROVE SidecarFresh'
  BY <1>6 DEF Die, clientVars, pluginVars
<1>7. ASSUME NEW p \in Plugins, FirstWait(p) PROVE SidecarFresh'
  BY <1>7 DEF FirstWait, PeerPresent, clientVars, pluginVars
<1>8. ASSUME NEW p \in Plugins, ListenerStops(p) PROVE SidecarFresh'
  BY <1>8 DEF ListenerStops, PipeExists, clientVars, pluginVars
<1>9. ASSUME NEW p \in Plugins, RejectHello(p) PROVE SidecarFresh'
  BY <1>9 DEF RejectHello, Answer, clientVars, pluginVars
<1>10. ASSUME NEW p \in Plugins, MatchNonce(p) PROVE SidecarFresh'
  BY <1>10 DEF MatchNonce, clientVars, pluginVars
<1>11. ASSUME NEW p \in Plugins, RotateNonce(p) PROVE SidecarFresh'
  BY <1>11 DEF RotateNonce, RenewNonce, FreshNonces, clientVars, pluginVars
<1>12. ASSUME NEW p \in Plugins, FinishHello(p) PROVE SidecarFresh'
  BY <1>12 DEF FinishHello, Answer, WriteRegistry, CacheKey, clientVars, pluginVars
<1>13. ASSUME NEW p \in Plugins, EndConnection(p) PROVE SidecarFresh'
  BY <1>13 DEF EndConnection, DropContext, PeerPresent, PipeExists, clientVars, pluginVars
<1>14. ASSUME NEW c \in Clients, NoteNonce(c) PROVE SidecarFresh'
  BY <1>14 DEF NoteNonce, ReadsNonceFirst, clientVars, pluginVars
<1>15. ASSUME NEW c \in Clients, NEW p \in Plugins, Connect(c, p) PROVE SidecarFresh'
  BY <1>15 DEF Connect, ReadsNonceFirst, PipeExists, clientVars, pluginVars
<1>16. ASSUME NEW c \in Clients, ReadNonce(c) PROVE SidecarFresh'
  BY <1>16 DEF ReadNonce, clientVars, pluginVars
<1>17. ASSUME NEW c \in Clients, SendHello(c) PROVE SidecarFresh'
  BY <1>17 DEF SendHello, Connected, clientVars, pluginVars
<1>18. ASSUME NEW c \in Clients, HelloAccepted(c) PROVE SidecarFresh'
  BY <1>18 DEF HelloAccepted, Connected, clientVars, pluginVars
<1>19. ASSUME NEW c \in Clients, HandshakeFails(c) PROVE SidecarFresh'
  BY <1>19 DEF HandshakeFails, Abandon, clientVars, pluginVars
<1>20. ASSUME NEW c \in Clients, Leave(c) PROVE SidecarFresh'
  BY <1>20 DEF Leave, Abandon, clientVars, pluginVars
<1>21. CASE UNCHANGED vars
  BY <1>21 DEF vars, pluginVars, clientVars
<1> QED
  BY <1>1, <1>2, <1>3, <1>4, <1>5, <1>6, <1>7, <1>8, <1>9, <1>10, <1>11, <1>12, <1>13,
     <1>14, <1>15, <1>16, <1>17, <1>18, <1>19, <1>20, <1>21 DEF Next, UIThread, Listener,
     Client

\* Nothing changes it while the sidecar's hello waits for the listener.
LEMMA HelloFreshStep == TypeOK /\ Shape /\ SidecarFresh /\ HelloFresh /\ [Next]_vars => HelloFresh'
<1> SUFFICES ASSUME TypeOK, Shape, SidecarFresh, HelloFresh, [Next]_vars PROVE HelloFresh'
  OBVIOUS
<1> USE ConstantsAssumption DEF TypeOK, Shape, SidecarFresh, HelloFresh, PipeExists,
        Connected, Clients
<1>1. ASSUME NEW p \in Plugins, StartPlugin(p) PROVE HelloFresh'
  BY <1>1 DEF StartPlugin, RenewNonce, FreshNonces, clientVars, pluginVars
<1>2. ASSUME NEW p \in Plugins, TryStart(p) PROVE HelloFresh'
  BY <1>2 DEF TryStart, PipeExists, clientVars, pluginVars
<1>3. ASSUME NEW p \in Plugins, SetStopping(p) PROVE HelloFresh'
  BY <1>3 DEF SetStopping, clientVars, pluginVars
<1>4. ASSUME NEW p \in Plugins, DisposePipe(p) PROVE HelloFresh'
  BY <1>4 DEF DisposePipe, clientVars, pluginVars
<1>5. ASSUME NEW p \in Plugins, ClearNonce(p) PROVE HelloFresh'
  BY <1>5 DEF ClearNonce, clientVars, pluginVars
<1>6. ASSUME NEW p \in Plugins, Die(p) PROVE HelloFresh'
  BY <1>6 DEF Die, clientVars, pluginVars
<1>7. ASSUME NEW p \in Plugins, FirstWait(p) PROVE HelloFresh'
  BY <1>7 DEF FirstWait, PeerPresent, clientVars, pluginVars
<1>8. ASSUME NEW p \in Plugins, ListenerStops(p) PROVE HelloFresh'
  BY <1>8 DEF ListenerStops, PipeExists, clientVars, pluginVars
<1>9. ASSUME NEW p \in Plugins, RejectHello(p) PROVE HelloFresh'
  BY <1>9 DEF RejectHello, Answer, clientVars, pluginVars
<1>10. ASSUME NEW p \in Plugins, MatchNonce(p) PROVE HelloFresh'
  BY <1>10 DEF MatchNonce, clientVars, pluginVars
<1>11. ASSUME NEW p \in Plugins, RotateNonce(p) PROVE HelloFresh'
  BY <1>11 DEF RotateNonce, RenewNonce, FreshNonces, clientVars, pluginVars
<1>12. ASSUME NEW p \in Plugins, FinishHello(p) PROVE HelloFresh'
  BY <1>12 DEF FinishHello, Answer, WriteRegistry, CacheKey, clientVars, pluginVars
<1>13. ASSUME NEW p \in Plugins, EndConnection(p) PROVE HelloFresh'
  BY <1>13 DEF EndConnection, DropContext, PeerPresent, PipeExists, clientVars, pluginVars
<1>14. ASSUME NEW c \in Clients, NoteNonce(c) PROVE HelloFresh'
  BY <1>14 DEF NoteNonce, ReadsNonceFirst, clientVars, pluginVars
<1>15. ASSUME NEW c \in Clients, NEW p \in Plugins, Connect(c, p) PROVE HelloFresh'
  BY <1>15 DEF Connect, ReadsNonceFirst, PipeExists, clientVars, pluginVars
<1>16. ASSUME NEW c \in Clients, ReadNonce(c) PROVE HelloFresh'
  BY <1>16 DEF ReadNonce, clientVars, pluginVars
<1>17. ASSUME NEW c \in Clients, SendHello(c) PROVE HelloFresh'
  BY <1>17 DEF SendHello, Connected, clientVars, pluginVars
<1>18. ASSUME NEW c \in Clients, HelloAccepted(c) PROVE HelloFresh'
  BY <1>18 DEF HelloAccepted, Connected, clientVars, pluginVars
<1>19. ASSUME NEW c \in Clients, HandshakeFails(c) PROVE HelloFresh'
  BY <1>19 DEF HandshakeFails, Abandon, clientVars, pluginVars
<1>20. ASSUME NEW c \in Clients, Leave(c) PROVE HelloFresh'
  BY <1>20 DEF Leave, Abandon, clientVars, pluginVars
<1>21. CASE UNCHANGED vars
  BY <1>21 DEF vars, pluginVars, clientVars
<1> QED
  BY <1>1, <1>2, <1>3, <1>4, <1>5, <1>6, <1>7, <1>8, <1>9, <1>10, <1>11, <1>12, <1>13,
     <1>14, <1>15, <1>16, <1>17, <1>18, <1>19, <1>20, <1>21 DEF Next, UIThread, Listener,
     Client

\* A hello that is fresh when the listener looks at it is not rejected.
LEMMA NeverRefusedStep == TypeOK /\ Shape /\ HelloFresh /\ SidecarNeverRefused /\ [Next]_vars => SidecarNeverRefused'
<1> SUFFICES ASSUME TypeOK, Shape, HelloFresh, SidecarNeverRefused, [Next]_vars PROVE SidecarNeverRefused'
  OBVIOUS
<1> USE ConstantsAssumption DEF TypeOK, Shape, HelloFresh, ReplyCode, SidecarNeverRefused,
        PipeExists, Clients
<1>1. ASSUME NEW p \in Plugins, StartPlugin(p) PROVE SidecarNeverRefused'
  BY <1>1 DEF StartPlugin, RenewNonce, FreshNonces, clientVars, pluginVars
<1>2. ASSUME NEW p \in Plugins, TryStart(p) PROVE SidecarNeverRefused'
  BY <1>2 DEF TryStart, PipeExists, clientVars, pluginVars
<1>3. ASSUME NEW p \in Plugins, SetStopping(p) PROVE SidecarNeverRefused'
  BY <1>3 DEF SetStopping, clientVars, pluginVars
<1>4. ASSUME NEW p \in Plugins, DisposePipe(p) PROVE SidecarNeverRefused'
  BY <1>4 DEF DisposePipe, clientVars, pluginVars
<1>5. ASSUME NEW p \in Plugins, ClearNonce(p) PROVE SidecarNeverRefused'
  BY <1>5 DEF ClearNonce, clientVars, pluginVars
<1>6. ASSUME NEW p \in Plugins, Die(p) PROVE SidecarNeverRefused'
  BY <1>6 DEF Die, clientVars, pluginVars
<1>7. ASSUME NEW p \in Plugins, FirstWait(p) PROVE SidecarNeverRefused'
  BY <1>7 DEF FirstWait, PeerPresent, clientVars, pluginVars
<1>8. ASSUME NEW p \in Plugins, ListenerStops(p) PROVE SidecarNeverRefused'
  BY <1>8 DEF ListenerStops, PipeExists, clientVars, pluginVars
<1>9. ASSUME NEW p \in Plugins, RejectHello(p) PROVE SidecarNeverRefused'
  BY <1>9 DEF RejectHello, Answer, Hello, clientVars, pluginVars
<1>10. ASSUME NEW p \in Plugins, MatchNonce(p) PROVE SidecarNeverRefused'
  BY <1>10 DEF MatchNonce, clientVars, pluginVars
<1>11. ASSUME NEW p \in Plugins, RotateNonce(p) PROVE SidecarNeverRefused'
  BY <1>11 DEF RotateNonce, RenewNonce, FreshNonces, clientVars, pluginVars
<1>12. ASSUME NEW p \in Plugins, FinishHello(p) PROVE SidecarNeverRefused'
  BY <1>12 DEF FinishHello, Answer, WriteRegistry, CacheKey, clientVars, pluginVars
<1>13. ASSUME NEW p \in Plugins, EndConnection(p) PROVE SidecarNeverRefused'
  BY <1>13 DEF EndConnection, DropContext, PeerPresent, PipeExists, clientVars, pluginVars
<1>14. ASSUME NEW c \in Clients, NoteNonce(c) PROVE SidecarNeverRefused'
  BY <1>14 DEF NoteNonce, ReadsNonceFirst, clientVars, pluginVars
<1>15. ASSUME NEW c \in Clients, NEW p \in Plugins, Connect(c, p) PROVE SidecarNeverRefused'
  BY <1>15 DEF Connect, ReadsNonceFirst, PipeExists, clientVars, pluginVars
<1>16. ASSUME NEW c \in Clients, ReadNonce(c) PROVE SidecarNeverRefused'
  BY <1>16 DEF ReadNonce, clientVars, pluginVars
<1>17. ASSUME NEW c \in Clients, SendHello(c) PROVE SidecarNeverRefused'
  BY <1>17 DEF SendHello, Connected, clientVars, pluginVars
<1>18. ASSUME NEW c \in Clients, HelloAccepted(c) PROVE SidecarNeverRefused'
  BY <1>18 DEF HelloAccepted, Connected, clientVars, pluginVars
<1>19. ASSUME NEW c \in Clients, HandshakeFails(c) PROVE SidecarNeverRefused'
  BY <1>19 DEF HandshakeFails, Abandon, clientVars, pluginVars
<1>20. ASSUME NEW c \in Clients, Leave(c) PROVE SidecarNeverRefused'
  BY <1>20 DEF Leave, Abandon, clientVars, pluginVars
<1>21. CASE UNCHANGED vars
  BY <1>21 DEF vars, pluginVars, clientVars
<1> QED
  BY <1>1, <1>2, <1>3, <1>4, <1>5, <1>6, <1>7, <1>8, <1>9, <1>10, <1>11, <1>12, <1>13,
     <1>14, <1>15, <1>16, <1>17, <1>18, <1>19, <1>20, <1>21 DEF Next, UIThread, Listener,
     Client

\* Every step leaves a client that waits something to wait for.
LEMMA AttendedStep == TypeOK /\ Shape /\ Attended /\ [Next]_vars => Attended'
<1> SUFFICES ASSUME TypeOK, Shape, Attended, [Next]_vars PROVE Attended'
  OBVIOUS
<1> USE ConstantsAssumption DEF TypeOK, Shape, Attended, WaitIsAttended, PipeExists,
        Connected, ReplyCode
<1>1. ASSUME NEW p \in Plugins, StartPlugin(p) PROVE Attended'
  BY <1>1 DEF StartPlugin, RenewNonce, FreshNonces, clientVars, pluginVars
<1>2. ASSUME NEW p \in Plugins, TryStart(p) PROVE Attended'
  BY <1>2 DEF TryStart, clientVars, pluginVars
<1>3. ASSUME NEW p \in Plugins, SetStopping(p) PROVE Attended'
  BY <1>3 DEF SetStopping, clientVars, pluginVars
<1>4. ASSUME NEW p \in Plugins, DisposePipe(p) PROVE Attended'
  BY <1>4 DEF DisposePipe, clientVars, pluginVars
<1>5. ASSUME NEW p \in Plugins, ClearNonce(p) PROVE Attended'
  BY <1>5 DEF ClearNonce, clientVars, pluginVars
<1>6. ASSUME NEW p \in Plugins, Die(p) PROVE Attended'
  BY <1>6 DEF Die, clientVars, pluginVars
<1>7. ASSUME NEW p \in Plugins, FirstWait(p) PROVE Attended'
  BY <1>7 DEF FirstWait, PeerPresent, clientVars, pluginVars
<1>8. ASSUME NEW p \in Plugins, ListenerStops(p) PROVE Attended'
  BY <1>8 DEF ListenerStops, clientVars, pluginVars
<1>9. ASSUME NEW p \in Plugins, RejectHello(p) PROVE Attended'
  BY <1>9 DEF RejectHello, Answer, clientVars, pluginVars
<1>10. ASSUME NEW p \in Plugins, MatchNonce(p) PROVE Attended'
  BY <1>10 DEF MatchNonce, clientVars, pluginVars
<1>11. ASSUME NEW p \in Plugins, RotateNonce(p) PROVE Attended'
  BY <1>11 DEF RotateNonce, RenewNonce, FreshNonces, clientVars, pluginVars
<1>12. ASSUME NEW p \in Plugins, FinishHello(p) PROVE Attended'
  BY <1>12 DEF FinishHello, Answer, WriteRegistry, CacheKey, clientVars, pluginVars
<1>13. ASSUME NEW p \in Plugins, EndConnection(p) PROVE Attended'
  BY <1>13 DEF EndConnection, DropContext, PeerPresent, clientVars, pluginVars
<1>14. ASSUME NEW c \in Clients, NoteNonce(c) PROVE Attended'
  BY <1>14 DEF NoteNonce, ReadsNonceFirst, clientVars, pluginVars
<1>15. ASSUME NEW c \in Clients, NEW p \in Plugins, Connect(c, p) PROVE Attended'
  BY <1>15 DEF Connect, ReadsNonceFirst, clientVars, pluginVars
<1>16. ASSUME NEW c \in Clients, ReadNonce(c) PROVE Attended'
  BY <1>16 DEF ReadNonce, clientVars, pluginVars
<1>17. ASSUME NEW c \in Clients, SendHello(c) PROVE Attended'
  <2> DEFINE r == [nonce |-> cnonce[c], key |-> IF c \in Legacy THEN None ELSE c]
  <2>1. r # None
    BY <1>17 DEF SendHello, Hello, Clients
  <2> HIDE DEF r
  <2>2. /\ req' = [req EXCEPT ![link[c]] = r]
        /\ cpc' = [cpc EXCEPT ![c] = "waiting"]
        /\ UNCHANGED <<phase, lst, conn, reply, link>>
        /\ Connected(c)
    BY <1>17 DEF SendHello, r
  <2> QED
    BY <2>1, <2>2
<1>18. ASSUME NEW c \in Clients, HelloAccepted(c) PROVE Attended'
  BY <1>18 DEF HelloAccepted, clientVars, pluginVars
<1>19. ASSUME NEW c \in Clients, HandshakeFails(c) PROVE Attended'
  BY <1>19 DEF HandshakeFails, Abandon, clientVars, pluginVars
<1>20. ASSUME NEW c \in Clients, Leave(c) PROVE Attended'
  BY <1>20 DEF Leave, Abandon, clientVars, pluginVars
<1>21. CASE UNCHANGED vars
  BY <1>21 DEF vars, pluginVars, clientVars
<1> QED
  BY <1>1, <1>2, <1>3, <1>4, <1>5, <1>6, <1>7, <1>8, <1>9, <1>10, <1>11, <1>12, <1>13,
     <1>14, <1>15, <1>16, <1>17, <1>18, <1>19, <1>20, <1>21 DEF Next, UIThread, Listener,
     Client

----------------------------------------------------------------------------
(* Theorems.                                                               *)

LEMMA InvInit == Init => IInv
  BY ConstantsAssumption
  DEF Init, IInv, TypeOK, Phase, ListenerState, ClientState, Shape, DistinctNonces,
      SingleUse, KeyInFlight, KeyBelongsToPeer, Attended, WaitIsAttended, Connected,
      PipeExists, ReplyCode

LEMMA InvStep == IInv /\ [Next]_vars => IInv'
  BY TypeStep, ShapeStep, DistinctStep, SingleUseStep, KeyInFlightStep, KeyBelongsStep,
     AttendedStep
  DEF IInv

LEMMA Invariance == Spec => []IInv
  BY InvInit, InvStep, PTL DEF Spec

\* Every variable keeps its type, whatever Terminate, crashes and clients do, and a
\* request, an answer or an authentication never outlives its connection.
THEOREM TypeCorrect == Spec => []TypeOK
<1>1. IInv => TypeOK
  BY DEF IInv
<1> QED
  BY <1>1, Invariance, PTL

\* RegistryNonceStore.ConsumeNonce: no nonce is ever good for a second hello.
THEOREM NonceSingleUse == Spec => []SingleUse
<1>1. IInv => SingleUse
  BY DEF IInv
<1> QED
  BY <1>1, Invariance, PTL

\* HandshakeHandler and OpSignPubKeyCache: an accepted sidecar's signatures are
\* verified with its own key for as long as its connection stands, even when
\* several KeePass processes come and go.
THEOREM KeyBelongsToSession == Spec => []KeyBelongsToPeer
<1>1. IInv => KeyBelongsToPeer
  BY DEF IInv
<1> QED
  BY <1>1, Invariance, PTL

\* PipeServer and connect_and_handshake, with any number of KeePass processes and
\* whatever Terminate, crashes and other clients do: no client is ever left waiting
\* on a standing connection that nobody will answer or close.
THEOREM WaitsAttended == Spec => []WaitIsAttended
<1>1. IInv => WaitIsAttended
  BY DEF IInv, Attended
<1> QED
  BY <1>1, Invariance, PTL

LEMMA SoloInit == ~Overlap /\ Init => SoloInv
  BY ConstantsAssumption
  DEF Init, SoloInv, Alone, NoncePublished, SidecarFresh, HelloFresh,
      SidecarNeverRefused, PipeExists, ReplyCode, Clients

LEMMA SoloStep == ~Overlap /\ IInv /\ SoloInv /\ [Next]_vars => SoloInv'
<1> SUFFICES ASSUME ~Overlap, IInv, SoloInv, [Next]_vars PROVE SoloInv'
  OBVIOUS
<1>1. Alone'
  BY AloneStep DEF IInv, SoloInv
<1>2. NoncePublished'
  BY <1>1, NoncePublishedStep DEF IInv, SoloInv
<1>3. SidecarFresh'
  BY SidecarFreshStep DEF IInv, SoloInv
<1>4. HelloFresh'
  BY HelloFreshStep DEF IInv, SoloInv
<1>5. SidecarNeverRefused'
  BY NeverRefusedStep DEF IInv, SoloInv
<1> QED
  BY <1>1, <1>2, <1>3, <1>4, <1>5 DEF SoloInv

LEMMA SoloInvariance == ASSUME ~Overlap PROVE Spec => []SoloInv
<1>1. Init => SoloInv
  BY SoloInit
<1>2. IInv /\ SoloInv /\ [Next]_vars => SoloInv'
  BY SoloStep
<1> QED
  BY <1>1, <1>2, Invariance, PTL DEF Spec

\* KeePassKeyWinExt and RegistryNonceStore, one KeePass process at a time: between
\* two hellos the registry always holds the nonce the plugin accepts.
THEOREM RegistryCurrent == ASSUME ~Overlap PROVE Spec => []PublishedNonceCurrent
<1>1. SoloInv => PublishedNonceCurrent
  BY DEF SoloInv, NoncePublished, PublishedNonceCurrent
<1> QED
  BY <1>1, SoloInvariance, PTL

\* connect_and_handshake, one KeePass process at a time: however many sidecars
\* compete for the pipe, none is ever refused for a stale nonce.
THEOREM SidecarsNeverRefused == ASSUME ~Overlap PROVE Spec => []SidecarNeverRefused
<1>1. SoloInv => SidecarNeverRefused
  BY DEF SoloInv
<1> QED
  BY <1>1, SoloInvariance, PTL
=============================================================================
