# A TLA+ model of Spectrum

Spectrum is a proxy for Minecraft: Bedrock Edition. A player's connection stays
with the proxy while the proxy moves the player between servers. This directory
holds TLA+ modules translated from the Go source, TLC configurations that check
them on small instances, and TLAPS proofs for every value of the constants.

## 1. The system

| part | source | what it does | module |
|---|---|---|---|
| server connection | `server/conn.go` | the stream to one server: connection sequence, deferred packets, spawn gate, close | `ServerConn`, `PacketPipe` |
| session | `session/session.go` | login, transfer, dial, fallback, close of one player | `Session` |
| session goroutines | `session/handler.go` | `handleServer`, `handleClient`, `handleLatency` | `Session`, `ClientBatch` |
| client batch, processor | `session/handler.go`, `processor.go` | a player's packets on their way to the server, pooled contexts | `ClientBatch` |
| framing | `protocol/` | length-prefixed frames on a stream several goroutines write to | `Framing` |
| tracker | `session/tracker.go` | what servers made the client show, to take it back on a transfer | `Tracker` |
| animations | `session/animation/` | what a player sees during a transfer | `ClientView` |
| transports | `transport/quic.go`, `spectral.go` | a connection per server address, a stream per session | `Transport` |
| registry, proxy | `session/registry.go`, `spectrum.go` | sessions by XUID; accepting players, shutdown | `Registry` |
| management API | `api/` | authenticated TCP clients that kick and transfer players | `Api`, `Proxy` |
| chunk, packets, discovery, options | `session/chunk.go`, `server/packet/`, `server/discovery.go`, `util/` | data | not modelled |

How they interact. `Accept` makes a session and logs it in: discovery gives an
address, `dial` asks the transport for a stream and publishes a `server.Conn` as
`s.serverConn`. `handleServer` reads from whatever conn is published;
`handleClient` and `handleLatency` write to it, batch by batch and frame by frame.
`ReadPacket` runs the connection sequence until the conn is connected. The login
then starts the game for the client, spawns and enters the session into the
registry, where the API and the shutdown find it. A transfer dials another
server, which closes the old conn, and leaves the rest to a callback that
`ReadPacket` calls at the end of the new conn's sequence: it plays the animation,
sends the client the new game data, clears what the tracker noted, spawns and
clears the animation. When a read fails and the published conn is still the one
read from, `handleServer` starts a fallback: a transfer to another server.

## 2. The modules

**ServerConn** is one `server.Conn` with the goroutines around it. `reader` is
the goroutine in `ReadPacket`; `owner` the one that runs the login or the
transfer (`role`); `once` is the progress of `CloseWithError`, which any goroutine
may enter at any time. A packet is its position in `sent`, so order and loss are
arithmetic. Each `select` is one action per ready case. `HasItemRegistry[role]` is the
protocol branch of `handleStartGame`. A close of a closed channel and an index
outside an empty frame set `crashed`, because no recover surrounds them. When
`handleServer` itself starts the transfer, owner and reader are one goroutine;
its behaviours are among those of the two interleaved ones. `LinkFails` and
`Send` are the server and the network.

**PacketPipe** is what a conn promises: a queue from which packets can be
withdrawn before it is opened and which then delivers the rest in order.
`ServerConn!PipeSpec` is the refinement, with `open <- spawned` and
`kept <- Absorbed`, the packets the sequence keeps.

**Session** is one session: the threads `login`, `server`, `client`, `latency` and
application goroutines that call `Transfer` (`Callers`), with `serverMu`
(`writer`), the session's context, the `sync.Once` of the close, and up to
`MaxConns` conns. A conn is reduced to its state, its link, how far its sequence
is and who was told: the part of `ServerConn` the session can see. Each
lock region, check and call that another thread could come between is a step. A read
may fail at any time, as a frame that cannot be decoded is an error like a lost
stream: `handleServer` then compares its conn with `s.Server()` (`ServerLost`), closes
the one it read (`ServerClosesLost`) and falls back.

**Framing** is `Writer` and `Reader` over one stream. A byte is a record saying
what it is: a length with its byte order, the flags, part of a packet, or what snappy made
of a buffer. A length read in the other order is the reversed number (`Reversed`). The
length of a frame is big-endian (`writer.go:47`), those inside a batch are little-endian
(`conn.go:172`), although the comment above them says "Write the length of the packet, 4
bytes big-endian" (`conn.go:171`). The server that reads them is not in the repository:
`BatchOrder` is the order it uses, and `BatchOrderAssumption` takes it to be the code's. No
run or theorem speaks of a server written from the comment; it would misread every batch.
`WriteWithFlags` is two writes under the mutex; the stream may break at any byte of
either. `Filling` is `WriteBatch`'s buffer after each round of its loop. `Decode` is what
the server makes of a frame, `Taking` what it has taken out of a batch so far.

**ClientBatch** extends it with `handleClient`: a batch is decoded packet by packet
(`decodeAndCreateContext` with its protocol branches), given to the processor, encoded
or forwarded as it came, and written. `handleLatency` writes to the same conn, and
other goroutines take contexts from the same pool. `WriteBatch` and `WritePacket` look at
the conn's context and only later have the Writer to themselves: the conn may be done
by then, so `WriteBatchFrame` and `LatencyFrame` are steps of their own. `owed` records what the server
should get, computed from the batch and the processor's decisions alone, and
`agreed` whether all it read so far was that.

**Transport** is the algorithm `quic.go` and `spectral.go` share: the map, its
mutex, callers of `Dial`, and the goroutine that waits for a connection to end.

**Tracker** is the tracker with the branches of `handleServer` that feed it and
`sendGameData`, which empties it. `shown` is what the client displays, with the
server that caused it and whether the packet was decoded.

**ClientView** extends it with the callback of a transfer and the five animations.
`stage` is where the callback is; `release[s]` the instructions that the goroutine
started by server `s`'s `Clear` still has to write. It implements `Tracker`
(`ViewImplementsTracker`).

**Registry** is the map by XUID under its users: logins, closes and
`Spectrum.Close`, which works through a snapshot. `once` is the `sync.Once` of each
session's close, whose second caller waits for the first.

**Api** is the API service and `Dial`, its client side: a handler goroutine per
connection, the client table, and `Close`. **Proxy** composes `Registry` and `Api`:
the handlers of Kick and Transfer look a session up and work on it while it may
be closing and while the player may already have another.

`MCServerConn`, `MCClientBatch` and `MCProxy` give constants and symmetries for TLC.
The modules named `...Proofs` hold the theorems. Operators whose comment starts with
"Mutant" are deliberately wrong variants of the definition after them; each property
is violated by one of them.

## 3. The runs

| run | checks | shows |
|---|---|---|
| ServerConn | TypeOK, DeliveryOrder, NothingLost, GameDataComplete, SpawnAfterSequence, HandshakeWriteOrder, ReportedOnce, GameDataFrozen, PipeSpec, CloseStopsReader, LoginResolves, EarlyCallbackCalled | a login with a newer protocol and a transfer with an older one: whatever order the packets come in, none is lost, duplicated or reordered; the game data is complete and final when the owner reads it; nothing is delivered before the spawn; the sequence's own writes go out in order; the processor hears of a transfer once but for a named race; a conn is a pipe; a close releases the reader, a login ends, a callback registered in time is told |
| Session | TypeOK, OnlyCurrentOpen, NoConnLeak, FallbackAvailable, FallbackOnlyWhenLost, SessionStops, ServerLossHandled | only the published conn is open, none outlives the session, a fallback is decided on only while no other conn is open, and stays available; a close stops every goroutine; a lost server is replaced or ends the session |
| Transport | TypeOK, EntriesWatched, DialsEntry, LiveEntryKept, DeadEntryLeaves, DialReturns | the connection map is right under concurrent dials and ends |
| ClientView | ShownIsTracked, OldServerGone, PresetsFirst, HeldForAReason, ScreenAppears | nothing decoded survives a transfer, but for the named exceptions; the camera is given back, also when the goroutine of one transfer overlaps the next |
| Proxy | TypeOK, LoggedInIsListed, ShutdownComplete, ClientsAreServed, OnlyAuthenticated | who is listed and who is served, with a player's two sessions or two API connections, a shutdown, kicks and a closing API in every order |
| ClientBatch | TypeOK, ServerGetsBatches, ContextsApart, PanicOnlyLegacySync | the server reads every batch as the processor left it, or nothing |

Six runs show where the code does something else than its comments say; each has
an entry under "findings" in `PROJECT.json`:

- **ServerConnPlayStatus**: a second PlayStatus before the spawn is handled again
  and closes `c.connected` twice (`conn.go:507`).
- **ServerConnCallback**: a callback registered after the sequence has ended is never
  called (`conn.go:251`).
- **SessionOverlap**: two transfers run at once (`session.go:151`).
- **SessionTimeout**: a transfer to a server that stays silent never ends, because its
  timeout ends with `TransferContext` (`session.go:136`).
- **ApiDial**: `ConnectionResponse.Decode` decodes into a copy, so `Dial` takes every
  answer for success (`dial.go:12`).
- **ApiClose**: `API.Close` closes the listener and no client; the handler of a client
  that sends nothing more waits for ever (`api.go:121`).

A seventh disagreement, the byte order of the lengths in a batch (`conn.go:171`), has no
run: see Framing above.

The properties say where the code stops short of what one might expect: a close
that races the last packet makes the processor hear both outcomes (ReportedOnce); a
player's old session that closes late removes the entry of the new one
(LoggedInIsListed); a transfer that publishes its conn after `handleServer` has decided on
a fallback is replaced by the fallback's (FallbackOnlyWhenLost); a spawn that fails after `Play` leaves the camera held
(HeldForAReason); an outdated client under SyncProtocol loses batches with undecoded
packets (PanicOnlyLegacySync).

### Bounds

`Limit[role]` bounds how often the server sends each kind of packet, `Window` how many are
unread, `MaxForeign[role]` the writes of other goroutines. One packet of each kind in any
order already has every packet of the sequence early or late. The login has a second
StartGame, so that one may still arrive after the sequence has ended and the owner reads the
game data (GameDataFrozen); a second PlayStatus would crash the process before the spawn and
is the subject of ServerConnPlayStatus. The login has the newer protocol, the transfer the older
one, a raw payload and a write of another goroutine; the
proofs cover both roles for both protocols and every limit. Session has the login's conn and one of a transfer or a
fallback, so that the loss of a conn can race its replacement and a dial the close;
more conns and callers are covered by the proofs of its invariants, and SessionOverlap
has three conns. Transport has three connections, so that an old one's goroutine can
meet a new entry for its server while another server is dialled. ClientView has three
servers, so that a transfer can fail before its game data is sent and one `Clear` can
overlap the next transfer, and one item each of the two kinds the tracker treats
specially, boss bars and effects; `NothingOldStays` covers the others. Proxy
has one goroutine that closes the API and, of two sessions of one player and two API
connections with one unread packet each, those that `Turnout` lets turn up together: both
sessions and a connection, so that a Kick meets a player who has another session, or both
connections, so that one handler's end and id meet another's; more of each, two closers that race for `close(a.closed)`
included, are covered by the proofs (ApiDial has two). ClientBatch has
batches of up to two packets out of three kinds (one that need not be decoded and has no
upgrade, one that must be and has two, one that cannot be), a latency packet, and
three contexts: two for the batch and one that another goroutine holds. Its
`Threshold` lets one batch be compressed and another not.

Deadlock is checked for Session and Transport (`Terminated` is the stopped session). It
is not for ServerConn, where a conn may wait for a silent server for ever and a crashed
process takes no step; nor for ClientView, ClientBatch and Proxy, where a run ends when
the loops have ended and the bounded inputs are used up.

Symmetry: sessions, players, API connections and closers in Proxy, contexts in ClientBatch. Both runs
check invariants only.

### Fairness

Weak fairness of a goroutine's step is the Go scheduler's. It is not assumed of the
server, the client or the network: no `Send`, no `LinkFails`. The transport's dial gets a
context that ends. Processor callbacks and discovery get none and are simply taken to
return; they are the application's code. The login's context ends after a minute, so `WaitConnect` does not wait for
ever. A goroutine whose read failed goes on to close the conn or to see that it was
replaced (`MustClose`). Strong fairness is used where a step waits for a mutex that others
take in between, as a `sync.Mutex` lets no waiter starve, and for the read of a conn that is
closed or broken, which fails sooner or later; a read of a live conn need not. In ApiClose the handlers, the
closers and a session's close go on as long as they can, and nothing is assumed of the
peers: a read waits for what they send. Proxy, ClientView and ClientBatch state safety only.

## 4. The proofs

All hold for every value of the constants that satisfies the named assumptions, which
only give types (`RolesAssumption`, `HasItemRegistryAssumption`, `BoundsAssumption`,
`WindowAssumption`, `MaxConnsAssumption`, `MaxServersAssumption`, `ThresholdAssumption`,
`GoroutinesAssumption`), say of names that they are apart (`CallersAssumption`,
`NamesAssumption`, `NoneAssumption`, `DistinctAssumption`, `WritersAssumption`) and of
packets that one whose header can be read is not empty (`PacketsAssumption`). The one about
the world outside is `BatchOrderAssumption` (see Framing).

- `ServerConnProofs`: `TypeCorrect`, `PacketsInOrder` (DeliveryOrder and NothingLost),
  `NothingIsLost`, `GameDataCorrect`, `GameDataStable`, `SpawnCorrect`,
  `TransferReportedOnce` and the refinement `ConnIsPipe`. None is inductive alone.
  `HandInv` says when a packet is in hand and that it is
  the last one read. `StageInv` says which parts of the game data are present for each
  expected packet, allowing for the failed write that `handleStartGame` returns early on.
  `ControlInv` ties the states of reader and owner to `connected` and `spawned`. With these,
  `QueueInv` (order and conservation) is shown by sorting the actions into three: those
  that leave the queues alone (`Frame`), those that defer a packet (`Defers`) and those
  that keep one (`Keeps`); the remaining ones move a packet along. The pipe needs order
  and conservation to show that the packet delivered is the oldest one left. `ReportInv`
  counts the reports: one that `CloseWithError` made, if it saw the sequence unfinished,
  and one more only after the reader has called the callback. `WritesInOrder`
  (HandshakeWriteOrder) rests on `ProgressInv`: which of the sequence's packets have been
  written follows from where the reader and the owner are, and nobody else writes one of
  them.
- `SessionProofs`: `SessionTyped`, `OneServerAtATime`, `NoConnLeaks`,
  `FallbackAlwaysAvailable` and the action property `FallbackOnlyAfterLoss`. `Locked` says that who
  dials holds `serverMu`, and that nobody is about to publish a conn once the close is
  over: that is why a transfer that was dialling all along leaks nothing. `Numbered` says
  that conns are used in order and never reopened. `StartedByLogin` and `ReadsConn` say
  what `handleServer` may assume of the conn it reads from. `NobodySpawned` is what
  FallbackAvailable needs: from the loss of a server until a transfer succeeds no player is
  spawned on an open conn without a failure having been reported, but for the conn that
  `handleServer` is about to close (`BeingClosed`).
- `TransportProofs`: `TypeCorrect`, `EntriesAreWatched`, `DialsCurrentEntry`,
  `LiveEntriesKept`. The strengthening `MutexInv` says that a caller beyond `Lock` holds the
  mutex, so no goroutine changes the map between its look-up and its use.
- `TrackerProofs`: `TypeCorrect`, `ShownAlwaysTracked`, `NothingOldStays`. The strengthening
  of the last is ShownIsTracked: what `sendGameData` takes back is what was noted, so all
  that was shown must have been.
- `ClientViewProofs`: `ViewImplementsTracker` maps every step of the view to a step of the
  tracker or a stutter, so that the tracker's theorems hold of it (`ViewSafe`); `ViewTyped`,
  `PresetsAlwaysFirst`, `CameraGivenBack`, `ScreenAlwaysAppears`. `ViewInv` adds that the presets
  were sent before any instruction that is still to be written by whichever goroutine, and
  that the dimension screen differs from the client's dimension unless it strayed.
- `ProxyProofs`: `ProxyTyped`, `LoggedInAlwaysListed`, `EntryAlwaysOwn`,
  `ShutdownAlwaysComplete`, `ClientsAlwaysServed`, `AlwaysAuthenticated`,
  `AlwaysWaitsForClose`. `RegistryInv` adds that every session of the snapshot is still to do,
  being disconnected or closed. `ApiInv` adds that served connections have ids below
  `nextId` and apart (`IdsApart`), and that the first packet is still on the wire while the
  handler waits for it (`FirstOnWire`). The invariants of the parts are
  shown for their own steps; `ProxyStep` composes them.
- `FramingProofs`: `UnbatchInverse`, `BatchFrameDecodes` and `PacketFrameDecodes`, for every
  number and size of packets and every threshold: the peer takes out of a frame what was put
  into it. They are inductions over data. The library's induction theorems take operators,
  which the provers cannot instantiate; `IntervalInduction` and `Recursion` are the same facts
  for sets and functions, derived from the well-foundedness of the naturals, and everything
  recursive is a recursive function. The last lemmas are about `Carries`: the stream,
  followed by bytes that are still to be written or never will be, is a frame for each
  element of a list. A frame that is begun, a write, a break at any byte and a read each
  keep it so.
- `ClientBatchProofs`: `TypeCorrect`, `ContextsNeverShared`, `PanicsOnlyLegacySync` and
  `BatchesArrive` (ServerGetsBatches). `PoolInv` says that a pooled context has been cleared
  and belongs to nobody. `BatchInv` has a clause for each loop of `handleClientBatch`: in the
  first, the contexts hold the packets decoded so far that the upgrade leaves; in the second,
  the payloads are those wanted of the contexts already gone, and the others hold their packets
  with the processor's marks. `WriterInv` says that whoever has something to write holds
  the mutex. `StreamInv` is `Carries` of what is owed, with what the holder of the mutex has
  still to write: this is what makes `agreed` inductive. All but `StreamInv`, whose existential
  ranges over sequences TLC cannot enumerate, and the types of bytes was model-checked on
  the instance of the run before it was proved; no kept run repeats that.

The type invariants of tracker and view, `EntryIsOwn` (an entry is a session of that player,
logged in) and `WaitsForClose` (who waits for a session waits for a close under way) are parts
of the inductive invariants and are proved, not run.

Only model-checked: every liveness property, as the prover has no fairness reasoning. Every
invariant and every other action property that a run checks is proved.

## 5. Not modelled

- Field encodings (`server/packet/`, most of `api/packet/`), the bytes of a chunk, positions,
  colours and times of animations (`animation/math.go`), wording and logging: data no
  property tells apart.
- `util/`, `server/discovery.go`, `transport/transport.go`: constants and interfaces.
- `Conn.Write`, which nothing calls; getters; `SetCache`, `SetProcessor`, the stored latency: one
  guarded assignment each.
- The buffer pools of `conn.go` and `client.go`: a buffer is reset before it is put back and
  used by one call.
- The conversion of one packet into several under SyncProtocol on the way to the client: the
  tracker is told of the converted packets, the model has one. The client is taken to know its
  player by the runtime id of the first server.
- Handlers registered while the API runs, which no lock guards. Two players with one display name.
- An animation object shared by two sessions; `SetAnimation` from another goroutine, which
  would be a data race.
- The shield's runtime id, taken once from the first server; a latency interval of zero.
- A user's processor is taken to return and to make no calls that wait for the session's lock.
- `LoginContext` and `TransferContext` are exported, and an application may call them with a
  context that does not derive from the session's. Session has the contexts of `Login`,
  `LoginTimeout`, `Transfer` and `TransferTimeout`, which do, so a dial fails once the session
  is over (`DialResult`). With a foreign context a dial may succeed after the close and publish
  a conn that nobody closes: NoConnLeak is not claimed for it, nor `NoConnLeaks`.
- Session has its own small model of a conn; that `ServerConn` implements it, and `Transport`
  the outcome of its dials, is by reading, not by a refinement.

Hazards without a property are in `PROJECT.json` with the reason.
