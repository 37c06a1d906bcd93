------------------------------ MODULE ServerConn ------------------------------
(***************************************************************************)
(* server/conn.go: one connection of the proxy to a downstream server.     *)
(*                                                                         *)
(* The goroutines that share a Conn are modelled as processes that         *)
(* interleave between the points where the code synchronises:              *)
(*   reader  handleServer's goroutine, which calls ReadPacket in a loop;   *)
(*   owner   the goroutine that opened the connection: LoginContext        *)
(*           (DoConnect, WaitConnect, client.StartGame, DoSpawn) or        *)
(*           TransferContext (DoConnect, OnConnect);                       *)
(*   closer  whichever goroutine enters the sync.Once of CloseWithError;   *)
(*   others  handleClient and handleLatency, which write at any time.      *)
(* The server and the transport are the environment.                       *)
(*                                                                         *)
(* A packet is its position in `sent', so its kind is sent[n].  A packet   *)
(* read is handled as one packet: without Opts.SyncProtocol always, with it *)
(* when the client's protocol converts packets one to one.                 *)
(***************************************************************************)
EXTENDS Naturals, Sequences, Functions

CONSTANTS
    Roles,            \* the owners considered, a subset of {"login", "transfer"}
    HasItemRegistry,  \* c.protocol.ID() >= 776, for each owner
    Limit,            \* bound: how many packets of each kind the server sends
    Window,           \* bound: packets in flight between server and reader
    MaxForeign        \* bound: packets handleClient and handleLatency write

\* The packets of the connection sequence, in the order they are expected.
HandshakeKinds == {"ConnectionResponse", "StartGame", "ItemRegistry",
                   "ChunkRadiusUpdated", "PlayStatus"}

\* "Game": any other decoded packet; "Raw": a payload that needs no decoding;
\* "Bad": a frame read() rejects (compression, header, unknown id, decoding);
\* "Empty": a frame without a flags byte.
Kinds == HandshakeKinds \cup {"Game", "Raw", "Bad", "Empty"}

ASSUME RolesAssumption == Roles \subseteq {"login", "transfer"}
ASSUME HasItemRegistryAssumption == HasItemRegistry \in [Roles -> BOOLEAN]
ASSUME BoundsAssumption ==
    /\ Limit \in [Roles -> [Kinds -> Nat]]
    /\ Window \in Nat \ {0}
    /\ MaxForeign \in [Roles -> Nat]

VARIABLES
    role,        \* which of session.go's two callers owns the connection
    sent,        \* kinds of the packets the server has sent
    nread,       \* how many of them read() has taken off the stream
    linkUp,      \* the server's end of the stream is alive
    expected,    \* c.expectedIds (always a single id)
    hand,        \* the packet handlePacket is working on, 0 if none
    deferred,    \* c.deferredPackets
    delivered,   \* packets ReadPacket has returned to handleServer
    runtimeID,   \* c.runtimeID: the ConnectionResponse it came from, 0 if unset
    gameData,    \* c.gameData: the packet each part came from, 0 if unset
    connected,   \* c.connected is closed
    spawned,     \* c.spawned is closed
    onConnect,   \* c.onConnect # nil
    reports,     \* ProcessTransferFailure / ProcessPostTransfer calls made
    ctxDone,     \* c.ctx is cancelled
    sockClosed,  \* c.conn is closed
    once,        \* progress of CloseWithError's c.once
    sawConnected,\* CloseWithError's local `connected'
    wrote,       \* kinds of the packets written to the stream
    foreign,     \* how many of them other goroutines wrote
    reader,      \* where the reader is
    owner,       \* where the owner is
    crashed      \* an unrecovered panic ended the process

connVars  == <<expected, hand, deferred, runtimeID, gameData>>
chanVars  == <<connected, spawned, onConnect, reports>>
closeVars == <<ctxDone, sockClosed, once, sawConnected>>
wireVars  == <<sent, nread, linkUp>>
writeVars == <<wrote, foreign>>
vars == <<role, wireVars, connVars, delivered, chanVars, closeVars, writeVars,
          reader, owner, crashed>>

NoGameData == [entity |-> 0, world |-> 0, items |-> 0, radius |-> 0]

ReaderStates == {"select", "readHandshake", "readGame", "handle", "connected",
                 "callback", "initialise", "initialised", "failed"}
OwnerStates == {"doConnect", "waitConnect", "startGame", "doSpawn",
                "initialise", "initialised", "setOnConnect", "giveUp", "done",
                "failed"}
OnceStates == {"idle", "checked", "notified", "cancelled", "done"}
WriteKinds == {"ConnectionRequest", "RequestChunkRadius", "ClientCacheStatus",
               "SetLocalPlayerAsInitialised", "Other"}
ReportKinds == {"failure", "post"}

-----------------------------------------------------------------------------
\* NewConn, called by Session.dial: both channels open, the first packet of the
\* sequence expected.  The conn is published before its owner goes on.
Init ==
    /\ role \in Roles
    /\ sent = <<>> /\ nread = 0 /\ linkUp = TRUE
    /\ expected = "ConnectionResponse"
    /\ hand = 0 /\ deferred = <<>> /\ delivered = <<>>
    /\ runtimeID = 0 /\ gameData = NoGameData
    /\ connected = FALSE /\ spawned = FALSE
    /\ onConnect = FALSE /\ reports = <<>>
    /\ ctxDone = FALSE /\ sockClosed = FALSE
    /\ once = "idle" /\ sawConnected = FALSE
    /\ wrote = <<>> /\ foreign = 0
    /\ reader = "select" /\ owner = "doConnect"
    /\ crashed = FALSE

-----------------------------------------------------------------------------
\* The stream.

\* How many packets of kind k the server has sent.
SentOf(k) == Len(SelectSeq(sent, LAMBDA x : x = k))

\* The server sends a packet; it answers a ConnectionRequest, never precedes it.
Send(k) ==
    /\ linkUp
    /\ Len(sent) - nread < Window
    /\ SentOf(k) < Limit[role][k]
    /\ k = "ConnectionResponse" =>
          \E i \in DOMAIN wrote : wrote[i] = "ConnectionRequest"
    /\ sent' = Append(sent, k)
    /\ UNCHANGED <<role, nread, linkUp, connVars, delivered, chanVars,
                   closeVars, writeVars, reader, owner, crashed>>

\* The server or the network ends the stream.
LinkFails ==
    /\ linkUp
    /\ linkUp' = FALSE
    /\ UNCHANGED <<role, sent, nread, connVars, delivered, chanVars, closeVars,
                   writeVars, reader, owner, crashed>>

\* WritePacket and WriteBatch return the cause once c.ctx is cancelled; after
\* that test the stream takes the frame or, when it is broken, may refuse it.
WriteSucceeds(k) ==
    /\ ~ctxDone /\ ~sockClosed
    /\ wrote' = Append(wrote, k)
WriteFails ==
    /\ ctxDone \/ sockClosed \/ ~linkUp
    /\ UNCHANGED wrote

\* handleClient's WriteBatch or handleLatency's WritePacket on this conn.
ForeignWrite ==
    /\ foreign < MaxForeign[role]
    /\ WriteSucceeds("Other")
    /\ foreign' = foreign + 1
    /\ UNCHANGED <<role, wireVars, connVars, delivered, chanVars, closeVars,
                   reader, owner, crashed>>

-----------------------------------------------------------------------------
\* Mutant: the newest deferred packet comes first.
DeferPacketFirst(n) == <<n>> \o deferred
\* Mutant: the packet is dropped instead of deferred.
DeferPacketDropped(n) == IF n > 0 THEN deferred ELSE <<>>

deferPacket(n) == Append(deferred, n)

\* The reader: ReadPacket.  Its select picks any ready case.

\* case <-c.ctx.Done()
SelectDone ==
    /\ reader = "select" /\ ctxDone
    /\ reader' = "failed"
    /\ UNCHANGED <<role, wireVars, connVars, delivered, chanVars, closeVars,
                   writeVars, owner, crashed>>

\* case <-c.spawned with deferred packets: return the oldest one.
SelectDeferred ==
    /\ reader = "select" /\ spawned
    /\ deferred # <<>>
    /\ delivered' = Append(delivered, Head(deferred))
    /\ deferred' = Tail(deferred)
    /\ UNCHANGED <<role, wireVars, expected, hand, runtimeID, gameData,
                   chanVars, closeVars, writeVars, reader, owner, crashed>>

\* case <-c.spawned without deferred packets: return c.read().
SelectSpawned ==
    /\ reader = "select" /\ spawned
    /\ deferred = <<>>
    /\ reader' = "readGame"
    /\ UNCHANGED <<role, wireVars, connVars, delivered, chanVars, closeVars,
                   writeVars, owner, crashed>>

\* default: the connection sequence is still running, read one of its packets.
SelectDefault ==
    /\ reader = "select" /\ ~ctxDone /\ ~spawned
    /\ reader' = "readHandshake"
    /\ UNCHANGED <<role, wireVars, connVars, delivered, chanVars, closeVars,
                   writeVars, owner, crashed>>

Readable == nread < Len(sent) /\ sent[nread + 1] \notin {"Bad", "Empty"}

\* read() in the connection sequence returns a decoded packet: handlePacket is
\* next.  Closing the stream need not stop a packet that already arrived.
ReadDecoded ==
    /\ reader = "readHandshake" /\ Readable
    /\ sent[nread + 1] # "Raw"
    /\ nread' = nread + 1
    /\ hand' = nread + 1
    /\ reader' = "handle"
    /\ UNCHANGED <<role, sent, linkUp, expected, deferred, runtimeID, gameData,
                   delivered, chanVars, closeVars, writeVars, owner, crashed>>

\* read() in the connection sequence returns a payload: it is deferred.
ReadRaw ==
    /\ reader = "readHandshake" /\ Readable
    /\ sent[nread + 1] = "Raw"
    /\ nread' = nread + 1
    /\ deferred' = deferPacket(nread + 1)
    /\ reader' = "select"
    /\ UNCHANGED <<role, sent, linkUp, expected, hand, runtimeID, gameData,
                   delivered, chanVars, closeVars, writeVars, owner, crashed>>

\* read() after the spawn: whatever arrives is returned as it is.
ReadGame ==
    /\ reader = "readGame" /\ Readable
    /\ nread' = nread + 1
    /\ delivered' = Append(delivered, nread + 1)
    /\ reader' = "select"
    /\ UNCHANGED <<role, sent, linkUp, connVars, chanVars, closeVars,
                   writeVars, owner, crashed>>

\* read() fails: the stream is closed or ended, or the frame is malformed.
ReadError ==
    /\ reader \in {"readHandshake", "readGame"}
    /\ \/ sockClosed
       \/ ~linkUp /\ nread = Len(sent)
       \/ nread < Len(sent) /\ sent[nread + 1] = "Bad"
    /\ reader' = "failed"
    /\ UNCHANGED <<role, wireVars, connVars, delivered, chanVars, closeVars,
                   writeVars, owner, crashed>>

\* flags := payload[0] comes before read()'s recover is in place.
ReadEmpty ==
    /\ reader \in {"readHandshake", "readGame"}
    /\ nread < Len(sent) /\ sent[nread + 1] = "Empty"
    /\ crashed' = TRUE
    /\ UNCHANGED <<role, wireVars, connVars, delivered, chanVars, closeVars,
                   writeVars, reader, owner>>

-----------------------------------------------------------------------------
\* The reader: handlePacket and the handlers of the connection sequence.

\* Mutant: handlePacket does not consult c.expectedIds.
HandlingUnexpected(k) == reader = "handle" /\ sent[hand] = k

Handling(k) == reader = "handle" /\ expected = k /\ sent[hand] = k

\* A packet that is not expected now is deferred.
HandleUnexpected ==
    /\ reader = "handle" /\ sent[hand] # expected
    /\ deferred' = deferPacket(hand)
    /\ hand' = 0
    /\ reader' = "select"
    /\ UNCHANGED <<role, wireVars, expected, runtimeID, gameData, delivered,
                   chanVars, closeVars, writeVars, owner, crashed>>

HandleConnectionResponse ==
    /\ Handling("ConnectionResponse")
    /\ expected' = "StartGame"
    /\ runtimeID' = hand
    /\ hand' = 0
    /\ reader' = "select"
    /\ UNCHANGED <<role, wireVars, deferred, gameData, delivered, chanVars,
                   closeVars, writeVars, owner, crashed>>

\* Mutant: a packet outside the sequence is expected.
ExpectOther == "Game"

\* Mutant: every protocol goes straight to the chunk radius.
SkipItemRegistry == "ChunkRadiusUpdated"

AfterStartGame == IF HasItemRegistry[role] THEN "ItemRegistry" ELSE "ChunkRadiusUpdated"

\* Newer protocols wait for the item registry; older ones ask for the chunk
\* radius at once, and fail before the game data is stored if that write fails.
HandleStartGame ==
    /\ Handling("StartGame")
    /\ expected' = AfterStartGame
    /\ \/ /\ IF HasItemRegistry[role] THEN UNCHANGED wrote
                                ELSE WriteSucceeds("RequestChunkRadius")
          /\ gameData' = [entity |-> runtimeID, world |-> hand,
                          items |-> 0, radius |-> 0]
          /\ hand' = 0
          /\ reader' = "select"
       \/ /\ ~HasItemRegistry[role] /\ WriteFails
          /\ reader' = "failed"
          /\ UNCHANGED <<gameData, hand>>
    /\ UNCHANGED <<role, wireVars, deferred, runtimeID, delivered, chanVars,
                   closeVars, foreign, owner, crashed>>

HandleItemRegistry ==
    /\ Handling("ItemRegistry")
    /\ expected' = "ChunkRadiusUpdated"
    /\ gameData' = [gameData EXCEPT !.items = hand]
    /\ hand' = 0
    /\ \/ WriteSucceeds("RequestChunkRadius") /\ reader' = "select"
       \/ WriteFails /\ reader' = "failed"
    /\ UNCHANGED <<role, wireVars, deferred, runtimeID, delivered, chanVars,
                   closeVars, foreign, owner, crashed>>

HandleChunkRadiusUpdated ==
    /\ Handling("ChunkRadiusUpdated")
    /\ deferred' = deferPacket(hand)
    /\ expected' = "PlayStatus"
    /\ gameData' = [gameData EXCEPT !.radius = hand]
    /\ hand' = 0
    /\ reader' = "select"
    /\ UNCHANGED <<role, wireVars, runtimeID, delivered, chanVars, closeVars,
                   writeVars, owner, crashed>>

\* close(c.connected) panics, outside any recover, when it is closed already.
HandlePlayStatus ==
    /\ Handling("PlayStatus")
    /\ deferred' = deferPacket(hand)
    /\ hand' = 0
    /\ connected' = TRUE
    /\ crashed' = connected
    /\ reader' = "connected"
    /\ UNCHANGED <<role, wireVars, expected, runtimeID, gameData, delivered,
                   spawned, onConnect, reports, closeVars, writeVars, owner>>

\* if c.onConnect != nil { c.onConnect(nil) }
CallOnConnect ==
    /\ reader = "connected"
    /\ reader' = IF onConnect THEN "callback" ELSE "select"
    /\ UNCHANGED <<role, wireVars, connVars, delivered, chanVars, closeVars,
                   writeVars, owner, crashed>>

-----------------------------------------------------------------------------
\* DoSpawn, run by the login owner or by the reader inside the transfer's
\* callback: it gives up once c.ctx is cancelled, else it closes c.spawned
\* and then writes ClientCacheStatus and SetLocalPlayerAsInitialised.

SpawnSignal == ~ctxDone /\ spawned' = TRUE

\* TransferContext's callback: the animation and sendGameData touch only the
\* client; then DoSpawn, whose error is reported as a transfer failure.
CallbackSpawn ==
    /\ reader = "callback"
    /\ \/ /\ SpawnSignal
          /\ reader' = "initialise"
          /\ UNCHANGED reports
       \/ /\ ctxDone
          /\ reports' = Append(reports, "failure")
          /\ reader' = "select"
          /\ UNCHANGED spawned
    /\ UNCHANGED <<role, wireVars, connVars, delivered, connected, onConnect,
                   closeVars, writeVars, owner, crashed>>

CallbackInitialise ==
    /\ \/ /\ reader = "initialise"
          /\ WriteSucceeds("ClientCacheStatus")
          /\ reader' = "initialised"
          /\ UNCHANGED reports
       \/ /\ reader = "initialised"
          /\ WriteSucceeds("SetLocalPlayerAsInitialised")
          /\ reader' = "select"
          /\ reports' = Append(reports, "post")
       \/ /\ reader \in {"initialise", "initialised"}
          /\ WriteFails
          /\ reader' = "select"
          /\ reports' = Append(reports, "failure")
    /\ UNCHANGED <<role, wireVars, connVars, delivered, connected, spawned,
                   onConnect, closeVars, foreign, owner, crashed>>

-----------------------------------------------------------------------------
\* The owner.

\* DoConnect; TransferContext reports its failure to the processor.
DoConnect ==
    /\ owner = "doConnect"
    /\ \/ /\ WriteSucceeds("ConnectionRequest")
          /\ owner' = IF role = "login" THEN "waitConnect" ELSE "setOnConnect"
          /\ UNCHANGED reports
       \/ /\ WriteFails
          /\ owner' = IF role = "login" THEN "giveUp" ELSE "failed"
          /\ reports' = IF role = "login" THEN reports
                                          ELSE Append(reports, "failure")
    /\ UNCHANGED <<role, wireVars, connVars, delivered, connected, spawned,
                   onConnect, closeVars, foreign, reader, crashed>>

\* TransferContext registers its callback only after DoConnect has returned.
OnConnect ==
    /\ owner = "setOnConnect"
    /\ onConnect' = TRUE
    /\ owner' = "done"
    /\ UNCHANGED <<role, wireVars, connVars, delivered, connected, spawned,
                   reports, closeVars, writeVars, reader, crashed>>

\* Mutant: WaitConnect does not watch the caller's context.
WaitConnectForever ==
    /\ owner = "waitConnect"
    /\ \/ connected /\ owner' = "startGame"
       \/ ctxDone /\ owner' = "giveUp"
    /\ UNCHANGED <<role, wireVars, connVars, delivered, chanVars, closeVars,
                   writeVars, reader, crashed>>

\* Mutant: WaitConnect reports success without waiting for c.connected.
WaitConnectReturns ==
    /\ owner = "waitConnect"
    /\ owner' \in {"startGame", "giveUp"}
    /\ UNCHANGED <<role, wireVars, connVars, delivered, chanVars, closeVars,
                   writeVars, reader, crashed>>

\* WaitConnect: its select picks any ready case; the login's own context (one
\* minute by default) may end at any time.
WaitConnect ==
    /\ owner = "waitConnect"
    /\ \/ connected /\ owner' = "startGame"
       \/ owner' = "giveUp"
    /\ UNCHANGED <<role, wireVars, connVars, delivered, chanVars, closeVars,
                   writeVars, reader, crashed>>

\* client.StartGame, which takes several round trips to the player or fails.
StartGame ==
    /\ owner = "startGame"
    /\ owner' \in {"doSpawn", "giveUp"}
    /\ UNCHANGED <<role, wireVars, connVars, delivered, chanVars, closeVars,
                   writeVars, reader, crashed>>

DoSpawn ==
    /\ owner = "doSpawn"
    /\ \/ SpawnSignal /\ owner' = "initialise"
       \/ ctxDone /\ owner' = "giveUp" /\ UNCHANGED spawned
    /\ UNCHANGED <<role, wireVars, connVars, delivered, connected, onConnect,
                   reports, closeVars, writeVars, reader, crashed>>

DoSpawnWrites ==
    /\ \/ /\ owner = "initialise"
          /\ WriteSucceeds("ClientCacheStatus")
          /\ owner' = "initialised"
       \/ /\ owner = "initialised"
          /\ WriteSucceeds("SetLocalPlayerAsInitialised")
          /\ owner' = "done"
       \/ /\ owner \in {"initialise", "initialised"}
          /\ WriteFails
          /\ owner' = "giveUp"
    /\ UNCHANGED <<role, wireVars, connVars, delivered, chanVars, closeVars,
                   foreign, reader, crashed>>

-----------------------------------------------------------------------------
\* CloseWithError.  Any goroutine may enter it at any time: the next dial, the
\* session's own close, handleClient after a failed write, handleServer after a
\* failed read.  The steps inside c.once interleave with the other goroutines.

CloseCheck ==
    /\ once = "idle"
    /\ once' = "checked"
    /\ sawConnected' = connected
    /\ UNCHANGED <<role, wireVars, connVars, delivered, chanVars, ctxDone,
                   sockClosed, writeVars, reader, owner, crashed>>

\* Mutant: the callback of an unfinished sequence is not called.
CloseNotifyNobody ==
    /\ once = "checked"
    /\ once' = "notified"
    /\ UNCHANGED <<role, wireVars, connVars, delivered, chanVars, ctxDone,
                   sockClosed, sawConnected, writeVars, reader, owner, crashed>>

\* Mutant: the callback is called for a finished sequence as well.
CloseNotifyAlways ==
    /\ once = "checked"
    /\ once' = "notified"
    /\ reports' = IF onConnect THEN Append(reports, "failure") ELSE reports
    /\ UNCHANGED <<role, wireVars, connVars, delivered, connected, spawned,
                   onConnect, ctxDone, sockClosed, sawConnected, writeVars,
                   reader, owner, crashed>>

\* if !connected && c.onConnect != nil { c.onConnect(err) }
CloseNotify ==
    /\ once = "checked"
    /\ once' = "notified"
    /\ reports' = IF ~sawConnected /\ onConnect THEN Append(reports, "failure")
                                                ELSE reports
    /\ UNCHANGED <<role, wireVars, connVars, delivered, connected, spawned,
                   onConnect, ctxDone, sockClosed, sawConnected, writeVars,
                   reader, owner, crashed>>

CloseCancel ==
    /\ once = "notified"
    /\ once' = "cancelled"
    /\ ctxDone' = TRUE
    /\ UNCHANGED <<role, wireVars, connVars, delivered, chanVars, sockClosed,
                   sawConnected, writeVars, reader, owner, crashed>>

\* Mutant: the underlying stream stays open.
CloseConnForgotten ==
    /\ once = "cancelled"
    /\ once' = "done"
    /\ UNCHANGED <<role, wireVars, connVars, delivered, chanVars, ctxDone,
                   sockClosed, sawConnected, writeVars, reader, owner, crashed>>

CloseConn ==
    /\ once = "cancelled"
    /\ once' = "done"
    /\ sockClosed' = TRUE
    /\ UNCHANGED <<role, wireVars, connVars, delivered, chanVars, ctxDone,
                   sawConnected, writeVars, reader, owner, crashed>>

\* LoginContext closes the conn when WaitConnect fails; after any other error
\* the caller of Login disconnects the session, which closes it as well.
\* Either way the owner is through once the conn is closed.
GiveUp ==
    /\ owner = "giveUp" /\ once = "done"
    /\ owner' = "failed"
    /\ UNCHANGED <<role, wireVars, connVars, delivered, chanVars, closeVars,
                   writeVars, reader, crashed>>

-----------------------------------------------------------------------------
Reader ==
    \/ SelectDone \/ SelectDeferred \/ SelectSpawned \/ SelectDefault
    \/ ReadDecoded \/ ReadRaw \/ ReadGame \/ ReadError \/ ReadEmpty
    \/ HandleUnexpected \/ HandleConnectionResponse \/ HandleStartGame
    \/ HandleItemRegistry \/ HandleChunkRadiusUpdated \/ HandlePlayStatus
    \/ CallOnConnect \/ CallbackSpawn \/ CallbackInitialise
Owner ==
    \/ DoConnect \/ OnConnect \/ WaitConnect \/ StartGame \/ DoSpawn
    \/ DoSpawnWrites \/ GiveUp
Closer == CloseCheck \/ CloseNotify \/ CloseCancel \/ CloseConn
Environment == (\E k \in Kinds : Send(k)) \/ LinkFails \/ ForeignWrite

Next == ~crashed /\ (Reader \/ Owner \/ Closer \/ Environment)

\* A goroutine that can run is eventually scheduled.  Entering CloseWithError is
\* the callers' choice, except for a reader whose read failed (handleServer
\* closes the conn, or it was closed by the dial that replaced it) and for an
\* owner that gives up.  The server and the network owe nothing.
MustClose == once = "idle" /\ (reader = "failed" \/ owner = "giveUp")

Fairness ==
    /\ WF_vars(~crashed /\ Reader)
    /\ WF_vars(~crashed /\ Owner)
    /\ WF_vars(~crashed /\ MustClose /\ CloseCheck)
    /\ WF_vars(~crashed /\ (CloseNotify \/ CloseCancel \/ CloseConn))

Spec == Init /\ [][Next]_vars
FairSpec == Spec /\ Fairness

-----------------------------------------------------------------------------
Increasing(s) == \A i, j \in DOMAIN s : i < j => s[i] < s[j]

TypeOK ==
    /\ role \in Roles
    /\ sent \in Seq(Kinds) /\ nread \in 0 .. Len(sent) /\ linkUp \in BOOLEAN
    /\ expected \in HandshakeKinds
    /\ hand \in Nat /\ deferred \in Seq(Nat) /\ delivered \in Seq(Nat)
    /\ runtimeID \in Nat
    /\ gameData \in [entity : Nat, world : Nat, items : Nat, radius : Nat]
    /\ connected \in BOOLEAN /\ spawned \in BOOLEAN /\ onConnect \in BOOLEAN
    /\ reports \in Seq(ReportKinds)
    /\ ctxDone \in BOOLEAN /\ sockClosed \in BOOLEAN
    /\ once \in OnceStates /\ sawConnected \in BOOLEAN
    /\ wrote \in Seq(WriteKinds) /\ foreign \in Nat
    /\ reader \in ReaderStates /\ owner \in OwnerStates
    /\ crashed \in BOOLEAN

\* ReadPacket returns packets in the order the server sent them: those already
\* returned precede the deferred ones, which precede the one in hand, which
\* precedes all that is still on the stream (deferPacket, ReadPacket).
DeliveryOrder ==
    /\ Increasing(delivered) /\ Increasing(deferred)
    /\ \A m \in Range(delivered), n \in Range(deferred) : m < n
    /\ hand # 0 => \A n \in Range(delivered) \cup Range(deferred) : n < hand

\* The packets the connection sequence keeps for itself.
Absorbed == {runtimeID, gameData.world, gameData.items} \ {0}

\* Every packet read off the stream is either returned, waiting to be returned,
\* being handled, or one of the three packets the connection sequence keeps;
\* and what it keeps is never returned as well (handlePacket, ReadPacket).
NothingLost ==
    /\ 1 .. nread = Range(delivered) \cup Range(deferred)
                       \cup ({hand} \ {0}) \cup Absorbed
    /\ Absorbed \cap (Range(delivered) \cup Range(deferred)) = {}

\* When WaitConnect or the callback lets the owner read the game data, all its
\* parts are there, from packets received in the order of the sequence, and its
\* entity id is the one of the ConnectionResponse (the handle* functions).
GameDataComplete ==
    connected =>
        /\ 0 < runtimeID /\ gameData.entity = runtimeID
        /\ runtimeID < gameData.world
        /\ IF HasItemRegistry[role]
              THEN /\ gameData.world < gameData.items
                   /\ gameData.items < gameData.radius
              ELSE gameData.items = 0 /\ gameData.world < gameData.radius

\* The owner reads the game data without a lock: nothing changes it any more
\* once c.connected is closed (GameData, handleStartGame, handleItemRegistry).
GameDataFrozen == [][connected => gameData' = gameData]_vars

\* No game packet reaches handleServer before c.spawned is closed, and that
\* happens only after the whole connection sequence (ReadPacket, DoSpawn).
SpawnAfterSequence ==
    /\ delivered # <<>> => spawned
    /\ spawned => connected /\ expected = "PlayStatus"

WriteSequence == <<"ConnectionRequest", "RequestChunkRadius", "ClientCacheStatus",
                   "SetLocalPlayerAsInitialised">>

\* The packets of the sequence go out in the order the server waits for them,
\* each once, although two goroutines write them and others write in between
\* (DoConnect, handleStartGame, handleItemRegistry, DoSpawn).
HandshakeWriteOrder ==
    \A j \in DOMAIN WriteSequence, m \in DOMAIN wrote :
        wrote[m] = WriteSequence[j] =>
            /\ \A n \in DOMAIN wrote : wrote[n] = WriteSequence[j] => n = m
            /\ j > 1 => \E n \in 1 .. m - 1 : wrote[n] = WriteSequence[j - 1]

\* The processor hears of a transfer once.  The one way to a second report is a close
\* that looked at c.connected just before the last packet of the sequence was
\* handled (CloseWithError, handlePlayStatus, TransferContext's callback).
ReportedOnce ==
    Len(reports) > 1 => Len(reports) = 2 /\ connected /\ once # "idle" /\ ~sawConnected

\* After the conn is cancelled the goroutine reading it gets an error, so
\* handleServer can go on to the next conn (CloseWithError, ReadPacket).
CloseStopsReader == ctxDone ~> (reader = "failed" \/ crashed)

\* A login ends, one way or the other, whatever the server does (WaitConnect).
LoginResolves ==
    role = "login" ~> (owner \in {"done", "failed"} \/ crashed)

\* A callback registered before the sequence is over is told how it ended
\* (OnConnect, handlePlayStatus, CloseWithError).
EarlyCallbackCalled ==
    [](onConnect /\ ~connected /\ once = "idle"
          /\ <>(connected \/ once = "done")
        => <>(reports # <<>> \/ crashed))

\* A Conn is a pipe: what ReadPacket returns is what the server sent, in order,
\* without the packets withdrawn before the pipe was opened by DoSpawn.
Pipe == INSTANCE PacketPipe WITH
    count <- Len(sent), open <- spawned, kept <- Absorbed, output <- delivered
PipeSpec == Pipe!Spec

-----------------------------------------------------------------------------
\* What comments of the code say and the code does not keep.

\* conn.go:507 "handlePlayStatus handles the first PlayStatus packet. It is the
\* final packet in the connection sequence": a later one is an ordinary packet.
OnlyFirstPlayStatusHandled == ~(crashed /\ reader = "connected")

\* conn.go:251 "OnConnect invokes the provided function once the connection
\* sequence is complete or has failed."
OnConnectInvoked ==
    onConnect /\ (connected \/ once = "done") ~> (reports # <<>> \/ crashed)
=============================================================================
