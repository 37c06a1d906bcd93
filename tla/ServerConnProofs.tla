-------------------------- MODULE ServerConnProofs --------------------------
(***************************************************************************)
(* Proofs about ServerConn, for every number and order of packets.         *)
(***************************************************************************)
EXTENDS ServerConn, TLAPS

-----------------------------------------------------------------------------
\* The inductive invariant.

\* A packet is in hand only while handlePacket works on it (or after it failed),
\* and then it is the last one read and none of the packets kept.
HandInv ==
    /\ reader = "handle" => hand # 0
    /\ hand # 0 => /\ hand = nread
                   /\ reader \in {"handle", "failed"}
                   /\ hand \notin Absorbed
    /\ reader = "readGame" => deferred = <<>>

\* What the connection holds while it waits for each packet of the sequence.
\* A failed write in handleStartGame leaves the game data unset.
StageInv ==
    /\ expected = "ConnectionResponse" => runtimeID = 0
    /\ expected # "ConnectionResponse" => 0 < runtimeID
    /\ expected \in {"ConnectionResponse", "StartGame"} => gameData = NoGameData
    /\ expected \in {"ItemRegistry", "ChunkRadiusUpdated", "PlayStatus"} =>
          \/ /\ gameData.entity = runtimeID
             /\ runtimeID < gameData.world
          \/ gameData = NoGameData /\ reader = "failed"
                /\ expected = "ChunkRadiusUpdated"
    /\ expected = "ItemRegistry" => HasItemRegistry[role] /\ gameData.items = 0
    /\ expected \in {"ChunkRadiusUpdated", "PlayStatus"} =>
          IF HasItemRegistry[role] THEN gameData.world < gameData.items
                                   ELSE gameData.items = 0
    /\ expected = "PlayStatus" =>
          /\ gameData.world < gameData.radius
          /\ gameData.items < gameData.radius

\* Where the goroutines are once the channels are closed.
ControlInv ==
    /\ connected => expected = "PlayStatus"
    /\ spawned => connected
    /\ delivered # <<>> \/ reader = "readGame" => spawned
    /\ reader \in {"connected", "callback", "initialise", "initialised"} =>
          connected
    /\ owner \in {"startGame", "doSpawn", "initialise", "initialised"} =>
          connected

Inv == TypeOK /\ DeliveryOrder /\ NothingLost /\ HandInv /\ StageInv /\ ControlInv

-----------------------------------------------------------------------------
\* Facts about the queues.

\* Appending to a queue adds the packet at its end and keeps the others.
LEMMA AppendFacts ==
    ASSUME NEW s \in Seq(Nat), NEW n \in Nat
    PROVE  /\ Append(s, n) \in Seq(Nat)
           /\ Append(s, n) # <<>>
           /\ Range(Append(s, n)) = Range(s) \cup {n}
<1>1. /\ Append(s, n) \in Seq(Nat)
      /\ Append(s, n) # <<>>
      /\ DOMAIN Append(s, n) = 1 .. Len(s) + 1
      /\ DOMAIN s = 1 .. Len(s)
      /\ Len(s) \in Nat
      /\ \A i \in 1 .. Len(s) : Append(s, n)[i] = s[i]
      /\ Append(s, n)[Len(s) + 1] = n
  OBVIOUS
<1>2. Range(Append(s, n)) \subseteq Range(s) \cup {n}
  BY <1>1 DEF Range
<1>3. Range(s) \cup {n} \subseteq Range(Append(s, n))
  BY <1>1 DEF Range
<1>. QED  BY <1>1, <1>2, <1>3

\* A queue stays ordered when a packet later than all others is appended.
LEMMA AppendIncreasing ==
    ASSUME NEW s \in Seq(Nat), NEW n \in Nat,
           Increasing(s), \A x \in Range(s) : x < n
    PROVE  Increasing(Append(s, n))
<1>1. /\ DOMAIN Append(s, n) = 1 .. Len(s) + 1
      /\ DOMAIN s = 1 .. Len(s)
      /\ Len(s) \in Nat
      /\ \A i \in 1 .. Len(s) : Append(s, n)[i] = s[i]
      /\ Append(s, n)[Len(s) + 1] = n
  OBVIOUS
<1>2. \A i \in DOMAIN s : s[i] < n
  BY DEF Range
<1>. QED  BY <1>1, <1>2 DEF Increasing

\* Removing the head of an ordered queue leaves it ordered, with packets later
\* than the one removed.
LEMMA TailFacts ==
    ASSUME NEW s \in Seq(Nat), s # <<>>, Increasing(s)
    PROVE  /\ Tail(s) \in Seq(Nat) /\ Head(s) \in Nat
           /\ Increasing(Tail(s))
           /\ Range(s) = {Head(s)} \cup Range(Tail(s))
           /\ \A x \in Range(Tail(s)) : Head(s) < x
<1>1. /\ Tail(s) \in Seq(Nat) /\ Head(s) \in Nat
      /\ Len(s) \in Nat /\ Len(s) >= 1
      /\ DOMAIN s = 1 .. Len(s)
      /\ DOMAIN Tail(s) = 1 .. Len(s) - 1
      /\ \A i \in 1 .. Len(s) - 1 : Tail(s)[i] = s[i + 1]
      /\ Head(s) = s[1]
      /\ \A i \in 1 .. Len(s) : s[i] \in Nat
  OBVIOUS
<1>2. Increasing(Tail(s))
  BY <1>1 DEF Increasing
<1>3. ASSUME NEW x \in Range(Tail(s)) PROVE Head(s) < x
  <2>1. PICK i \in 1 .. Len(s) - 1 : x = s[i + 1]
    BY <1>1 DEF Range
  <2>2. 1 \in DOMAIN s /\ i + 1 \in DOMAIN s /\ 1 < i + 1
    BY <1>1
  <2>. QED  BY <1>1, <2>1, <2>2 DEF Increasing
<1>4. Range(Tail(s)) \subseteq Range(s) /\ Head(s) \in Range(s)
  BY <1>1 DEF Range
<1>5. ASSUME NEW x \in Range(s) PROVE x = Head(s) \/ x \in Range(Tail(s))
  <2>1. PICK i \in 1 .. Len(s) : x = s[i]
    BY <1>1 DEF Range
  <2>2. CASE i = 1
    BY <1>1, <2>1, <2>2
  <2>3. CASE i # 1
    <3>1. i - 1 \in 1 .. Len(s) - 1 /\ Tail(s)[i - 1] = x
      BY <1>1, <2>1, <2>3
    <3>. QED  BY <1>1, <3>1 DEF Range
  <2>. QED  BY <2>2, <2>3
<1>. QED  BY <1>1, <1>2, <1>3, <1>4, <1>5


-----------------------------------------------------------------------------
\* Type correctness.

\* Every action keeps the variables in their types.
LEMMA TypeStep == TypeOK /\ [Next]_vars => TypeOK'
<1>. SUFFICES ASSUME TypeOK, [Next]_vars PROVE TypeOK'
  OBVIOUS
<1>. USE RolesAssumption, HasItemRegistryAssumption, BoundsAssumption
     DEF TypeOK, connVars, chanVars, closeVars, wireVars, writeVars
<1>w. \A k \in WriteKinds : Append(wrote, k) \in Seq(WriteKinds)
  OBVIOUS
<1>r. /\ Append(reports, "failure") \in Seq(ReportKinds)
      /\ Append(reports, "post") \in Seq(ReportKinds)
  BY DEF ReportKinds
<1>ws. \A k \in WriteKinds : WriteSucceeds(k) => wrote' \in Seq(WriteKinds)
  BY <1>w DEF WriteSucceeds
<1>wk. /\ "ConnectionRequest" \in WriteKinds
       /\ "RequestChunkRadius" \in WriteKinds
       /\ "ClientCacheStatus" \in WriteKinds
       /\ "SetLocalPlayerAsInitialised" \in WriteKinds
       /\ "Other" \in WriteKinds
  BY DEF WriteKinds
<1>wf. WriteFails => wrote' \in Seq(WriteKinds)
  BY DEF WriteFails
<1>1. CASE UNCHANGED vars
  BY <1>1 DEF vars
<1>2. CASE Reader
  <2>1. CASE SelectDone \/ SelectSpawned \/ SelectDefault
    <3>1. CASE SelectDone
      BY <3>1 DEF SelectDone, ReaderStates
    <3>2. CASE SelectSpawned
      BY <3>2 DEF SelectSpawned, ReaderStates
    <3>3. CASE SelectDefault
      BY <3>3 DEF SelectDefault, ReaderStates
    <3>. QED  BY <2>1, <3>1, <3>2, <3>3
  <2>2. CASE SelectDeferred
    <3>1. Head(deferred) \in Nat /\ Tail(deferred) \in Seq(Nat)
      BY <2>2 DEF SelectDeferred
    <3>. QED  BY <2>2, <3>1, AppendFacts DEF SelectDeferred
  <2>3. CASE ReadDecoded
    BY <2>3 DEF ReadDecoded, Readable, ReaderStates
  <2>4. CASE ReadRaw
    BY <2>4, AppendFacts DEF ReadRaw, Readable, ReaderStates, deferPacket
  <2>5. CASE ReadGame
    BY <2>5, AppendFacts DEF ReadGame, Readable, ReaderStates
  <2>6. CASE ReadError
    BY <2>6 DEF ReadError, ReaderStates
  <2>16. CASE ReadEmpty
    BY <2>16 DEF ReadEmpty, ReaderStates
  <2>7. CASE HandleUnexpected
    BY <2>7, AppendFacts DEF HandleUnexpected, ReaderStates, deferPacket
  <2>8. CASE HandleConnectionResponse
    BY <2>8 DEF HandleConnectionResponse, ReaderStates, HandshakeKinds
  <2>9. CASE HandleStartGame
    <3>1. wrote' \in Seq(WriteKinds)
      BY <2>9, <1>ws, <1>wk, <1>wf DEF HandleStartGame
    <3>2. expected' \in HandshakeKinds
      BY <2>9 DEF HandleStartGame, AfterStartGame, HandshakeKinds
    <3>3. /\ gameData' \in [entity : Nat, world : Nat, items : Nat, radius : Nat]
          /\ hand' \in Nat /\ reader' \in ReaderStates
      <4>1. [entity |-> runtimeID, world |-> hand, items |-> 0, radius |-> 0]
              \in [entity : Nat, world : Nat, items : Nat, radius : Nat]
        OBVIOUS
      <4>. QED  BY <2>9, <4>1, SMTT(30) DEF HandleStartGame, ReaderStates
    <3>. QED  BY <2>9, <3>1, <3>2, <3>3 DEF HandleStartGame
  <2>10. CASE HandleItemRegistry
    BY <2>10, <1>ws, <1>wk, <1>wf, Zenon
       DEF HandleItemRegistry, ReaderStates, HandshakeKinds
  <2>11. CASE HandleChunkRadiusUpdated
    BY <2>11, AppendFacts, Zenon DEF HandleChunkRadiusUpdated, ReaderStates,
                              HandshakeKinds, deferPacket
  <2>12. CASE HandlePlayStatus
    BY <2>12, AppendFacts DEF HandlePlayStatus, ReaderStates, deferPacket
  <2>13. CASE CallOnConnect
    BY <2>13 DEF CallOnConnect, ReaderStates
  <2>14. CASE CallbackSpawn
    BY <2>14, <1>r DEF CallbackSpawn, SpawnSignal, ReaderStates
  <2>15. CASE CallbackInitialise
    <3>1. wrote' \in Seq(WriteKinds)
      BY <2>15, <1>ws, <1>wk, <1>wf DEF CallbackInitialise
    <3>2. reports' \in Seq(ReportKinds) /\ reader' \in ReaderStates
      BY <2>15, <1>r, Zenon DEF CallbackInitialise, ReaderStates
    <3>. QED  BY <2>15, <3>1, <3>2 DEF CallbackInitialise
  <2>. QED
    BY <1>2, <2>1, <2>2, <2>3, <2>4, <2>5, <2>6, <2>7, <2>8, <2>9, <2>10,
       <2>11, <2>12, <2>13, <2>14, <2>15, <2>16, Zenon DEF Reader
<1>3. CASE Owner
  <2>1. CASE DoConnect
    BY <2>1, <1>ws, <1>wk, <1>wf, <1>r DEF DoConnect, OwnerStates
  <2>2. CASE OnConnect
    BY <2>2 DEF OnConnect, OwnerStates
  <2>5. CASE WaitConnect
    BY <2>5 DEF WaitConnect, OwnerStates
  <2>6. CASE StartGame
    BY <2>6 DEF StartGame, OwnerStates
  <2>7. CASE GiveUp
    BY <2>7 DEF GiveUp, OwnerStates
  <2>3. CASE DoSpawn
    BY <2>3 DEF DoSpawn, SpawnSignal, OwnerStates
  <2>4. CASE DoSpawnWrites
    BY <2>4, <1>ws, <1>wk, <1>wf DEF DoSpawnWrites, OwnerStates
  <2>. QED  BY <1>3, <2>1, <2>2, <2>3, <2>4, <2>5, <2>6, <2>7 DEF Owner
<1>4. CASE Closer
  <2>1. CASE CloseCheck
    BY <2>1 DEF CloseCheck, OnceStates
  <2>2. CASE CloseNotify
    BY <2>2, <1>r DEF CloseNotify, OnceStates
  <2>3. CASE CloseCancel
    BY <2>3 DEF CloseCancel, OnceStates
  <2>4. CASE CloseConn
    BY <2>4 DEF CloseConn, OnceStates
  <2>. QED  BY <1>4, <2>1, <2>2, <2>3, <2>4 DEF Closer
<1>5. CASE Environment
  <2>1. ASSUME NEW k \in Kinds, Send(k) PROVE TypeOK'
    <3>1. Append(sent, k) \in Seq(Kinds) /\ Len(Append(sent, k)) = Len(sent) + 1
      OBVIOUS
    <3>. QED  BY <2>1, <3>1 DEF Send
  <2>2. CASE LinkFails
    BY <2>2 DEF LinkFails
  <2>3. CASE ForeignWrite
    BY <2>3, <1>ws, <1>wk DEF ForeignWrite
  <2>. QED  BY <1>5, <2>1, <2>2, <2>3 DEF Environment
<1>. QED  BY <1>1, <1>2, <1>3, <1>4, <1>5 DEF Next

\* NewConn's state has the types.
LEMMA TypeInit == Init => TypeOK
<1>. SUFFICES ASSUME Init PROVE TypeOK
  OBVIOUS
<1>1. /\ sent \in Seq(Kinds) /\ deferred \in Seq(Nat) /\ delivered \in Seq(Nat)
        /\ reports \in Seq(ReportKinds) /\ wrote \in Seq(WriteKinds)
  BY DEF Init
<1>2. nread \in 0 .. Len(sent)
  BY DEF Init
<1>3. gameData \in [entity : Nat, world : Nat, items : Nat, radius : Nat]
  BY DEF Init, NoGameData
<1>. QED
  BY <1>1, <1>2, <1>3 DEF Init, TypeOK, HandshakeKinds, OnceStates,
                            ReaderStates, OwnerStates

\* The variables of a Conn always have their types, for every server.
THEOREM TypeCorrect == Spec => []TypeOK
BY TypeInit, TypeStep, PTL DEF Spec

-----------------------------------------------------------------------------
\* The inductive step.

\* Steps that may not touch the queues: the reader stays where it is, or moves
\* without a packet in hand.
Frame ==
    /\ UNCHANGED <<role, nread, connVars, delivered>>
    /\ spawned => spawned'
    /\ \/ reader' = reader
       \/ /\ reader \notin {"handle", "failed"}
          /\ reader' \notin {"handle", "readGame"}

QueueInv == DeliveryOrder /\ NothingLost /\ HandInv /\ StageInv

\* The channels are closed in order and the goroutines past them know it.
LEMMA ControlStep == ControlInv /\ [Next]_vars => ControlInv'
<1>. SUFFICES ASSUME ControlInv, [Next]_vars PROVE ControlInv'
  OBVIOUS
<1>. USE DEF ControlInv, connVars, chanVars, closeVars, wireVars, writeVars
<1>1. CASE UNCHANGED vars
  BY <1>1 DEF vars
<1>2. CASE Reader
  <2>1. CASE SelectDone \/ SelectSpawned \/ SelectDefault
    BY <2>1 DEF SelectDone, SelectSpawned, SelectDefault
  <2>a. CASE SelectDeferred
    BY <2>a DEF SelectDeferred
  <2>2. CASE ReadDecoded \/ ReadRaw
    BY <2>2 DEF ReadDecoded, ReadRaw
  <2>3. CASE ReadGame \/ ReadError \/ ReadEmpty
    BY <2>3 DEF ReadGame, ReadError, ReadEmpty
  <2>4. CASE HandleUnexpected \/ HandleConnectionResponse
    BY <2>4 DEF HandleUnexpected, HandleConnectionResponse, Handling
  <2>5. CASE HandleStartGame
    BY <2>5 DEF HandleStartGame, Handling
  <2>6. CASE HandleItemRegistry
    BY <2>6 DEF HandleItemRegistry, Handling
  <2>7. CASE HandleChunkRadiusUpdated \/ HandlePlayStatus
    BY <2>7 DEF HandleChunkRadiusUpdated, HandlePlayStatus, Handling
  <2>8. CASE CallOnConnect \/ CallbackSpawn \/ CallbackInitialise
    BY <2>8 DEF CallOnConnect, CallbackSpawn, CallbackInitialise, SpawnSignal
  <2>. QED
    BY <1>2, <2>1, <2>a, <2>2, <2>3, <2>4, <2>5, <2>6, <2>7, <2>8 DEF Reader
<1>3. CASE Owner
  BY <1>3 DEF Owner, DoConnect, OnConnect, WaitConnect, StartGame, DoSpawn,
              DoSpawnWrites, GiveUp, SpawnSignal
<1>4. CASE Closer
  BY <1>4 DEF Closer, CloseCheck, CloseNotify, CloseCancel, CloseConn
<1>5. CASE Environment
  BY <1>5 DEF Environment, Send, LinkFails, ForeignWrite
<1>. QED  BY <1>1, <1>2, <1>3, <1>4, <1>5 DEF Next

\* A step that leaves the queues alone keeps what holds of them.
LEMMA FrameKeepsQueues == TypeOK /\ QueueInv /\ Frame => QueueInv'
<1>. SUFFICES ASSUME TypeOK, QueueInv, Frame PROVE QueueInv'
  OBVIOUS
<1>. USE DEF QueueInv, Frame, connVars
<1>1. DeliveryOrder'
  BY DEF DeliveryOrder
<1>2. NothingLost'
  BY DEF NothingLost, Absorbed
<1>3. HandInv'
  BY DEF HandInv, Absorbed
<1>4. StageInv'
  BY DEF StageInv
<1>. QED  BY <1>1, <1>2, <1>3, <1>4

\* All steps but those that take a packet off the stream, handle it or return
\* it are such steps.
LEMMA FrameSteps ==
    ASSUME TypeOK, ControlInv,
           \/ UNCHANGED vars \/ Owner \/ Closer \/ Environment
           \/ SelectDone \/ SelectDefault \/ ReadError \/ ReadEmpty
           \/ CallOnConnect \/ CallbackSpawn \/ CallbackInitialise
    PROVE  Frame
<1>. USE DEF Frame, TypeOK, connVars, chanVars, closeVars, wireVars, writeVars
<1>1. CASE UNCHANGED vars
  BY <1>1 DEF vars
<1>2. CASE Owner
  BY <1>2, Zenon DEF Owner, DoConnect, OnConnect, WaitConnect, StartGame, DoSpawn,
              DoSpawnWrites, GiveUp, SpawnSignal
<1>3. CASE Closer
  BY <1>3, SMTT(30) DEF Closer, CloseCheck, CloseNotify, CloseCancel, CloseConn
<1>4. CASE Environment
  BY <1>4, SMTT(30) DEF Environment, Send, LinkFails, ForeignWrite
<1>5. CASE SelectDone \/ SelectDefault \/ ReadError \/ ReadEmpty
  BY <1>5, SMTT(30) DEF SelectDone, SelectDefault, ReadError, ReadEmpty
<1>6. CASE CallOnConnect \/ CallbackSpawn \/ CallbackInitialise
  BY <1>6 DEF CallOnConnect, CallbackSpawn, CallbackInitialise, SpawnSignal
<1>. QED  BY <1>1, <1>2, <1>3, <1>4, <1>5, <1>6


\* Facts about the packets while one is handled or about to be read: everything
\* read before is earlier, and what is kept is neither returned nor in hand.
LEMMA Positions ==
    ASSUME TypeOK, QueueInv
    PROVE  /\ \A n \in Range(delivered) \cup Range(deferred) \cup Absorbed :
                 n \in 1 .. nread
           /\ hand # 0 => \A n \in Range(delivered) \cup Range(deferred)
                                     \cup Absorbed : n < hand
           /\ runtimeID # 0 => runtimeID \in Absorbed
           /\ gameData.world # 0 => gameData.world \in Absorbed
           /\ gameData.items # 0 => gameData.items \in Absorbed
<1>1. \A n \in Range(delivered) \cup Range(deferred) \cup Absorbed :
         n \in 1 .. nread
  BY DEF QueueInv, NothingLost
<1>2. hand # 0 => \A n \in Range(delivered) \cup Range(deferred) : n < hand
  BY DEF QueueInv, DeliveryOrder
<1>3. nread \in Nat
  BY DEF TypeOK
<1>4. hand # 0 => hand = nread /\ hand \notin Absorbed
  BY DEF QueueInv, HandInv
<1>5. hand # 0 => \A n \in Absorbed : n < hand
  BY <1>1, <1>3, <1>4
<1>6. /\ runtimeID # 0 => runtimeID \in Absorbed
      /\ gameData.world # 0 => gameData.world \in Absorbed
      /\ gameData.items # 0 => gameData.items \in Absorbed
  BY DEF Absorbed
<1>. QED  BY <1>1, <1>2, <1>5, <1>6

\* The packet in hand moves to the end of the deferred queue.
Defers ==
    /\ reader = "handle"
    /\ deferred' = deferPacket(hand)
    /\ hand' = 0
    /\ reader' \notin {"handle", "readGame"}
    /\ UNCHANGED <<nread, delivered, runtimeID>>
    /\ gameData' = [gameData EXCEPT !.radius = gameData'.radius]

\* Deferring keeps order and completeness of the queues.
LEMMA DefersKeepsOrder ==
    ASSUME TypeOK, QueueInv, Defers
    PROVE  DeliveryOrder' /\ NothingLost' /\ HandInv'
<1>. DEFINE old == Range(delivered) \cup Range(deferred)
<1>1. hand # 0 /\ hand = nread /\ hand \in Nat /\ nread \in Nat
  BY DEF QueueInv, HandInv, TypeOK, Defers
<1>2. \A n \in old : n < hand
  BY <1>1, Positions
<1>3. /\ Range(deferred') = Range(deferred) \cup {hand}
      /\ Increasing(deferred')
  BY <1>1, <1>2, AppendFacts, AppendIncreasing
     DEF TypeOK, QueueInv, DeliveryOrder, Defers, deferPacket
<1>4. Absorbed' = Absorbed
  BY DEF Absorbed, Defers, TypeOK
<1>5. DeliveryOrder'
  BY <1>2, <1>3 DEF QueueInv, DeliveryOrder, Defers
<1>6. NothingLost'
  BY <1>1, <1>2, <1>3, <1>4 DEF QueueInv, NothingLost, HandInv, Defers
<1>7. HandInv'
  BY DEF HandInv, Defers
<1>. QED  BY <1>5, <1>6, <1>7

\* The packet in hand is kept by the connection sequence.
Keeps ==
    /\ reader = "handle"
    /\ hand' = 0
    /\ Absorbed' = Absorbed \cup {hand}
    /\ reader' \notin {"handle", "readGame"}
    /\ UNCHANGED <<nread, delivered, deferred>>

\* Keeping a packet keeps order and completeness of the queues.
LEMMA KeepsKeepsOrder ==
    ASSUME TypeOK, QueueInv, Keeps
    PROVE  DeliveryOrder' /\ NothingLost' /\ HandInv'
<1>1. hand # 0 /\ hand = nread /\ hand \in Nat /\ nread \in Nat
  BY DEF QueueInv, HandInv, TypeOK, Keeps
<1>2. \A n \in Range(delivered) \cup Range(deferred) : n < hand
  BY <1>1, Positions
<1>3. DeliveryOrder'
  BY DEF QueueInv, DeliveryOrder, Keeps
<1>4. hand \notin Range(delivered) \cup Range(deferred)
  BY <1>1, <1>2
<1>5. NothingLost'
  BY <1>1, <1>4 DEF QueueInv, NothingLost, Keeps
<1>6. HandInv'
  BY DEF HandInv, Keeps
<1>. QED  BY <1>3, <1>5, <1>6


\* Every step keeps the queues ordered and complete and the sequence in stage.
LEMMA QueueStep ==
    TypeOK /\ TypeOK' /\ ControlInv /\ QueueInv /\ [Next]_vars => QueueInv'
<1>. SUFFICES ASSUME TypeOK, TypeOK', ControlInv, QueueInv, [Next]_vars
              PROVE  QueueInv'
  OBVIOUS
<1>h. reader = "handle" => hand # 0 /\ hand \in Nat
  BY DEF QueueInv, HandInv, TypeOK
<1>n. nread \in Nat /\ nread + 1 # 0
  BY DEF TypeOK
<1>1. CASE SelectDeferred
  <2>. DEFINE n == Head(deferred)
  <2>1. hand = 0 /\ reader' = reader
    BY <1>1 DEF SelectDeferred, QueueInv, HandInv
  <2>2. /\ n \in Nat
        /\ Increasing(deferred')
        /\ Range(deferred) = {n} \cup Range(deferred')
        /\ \A x \in Range(deferred') : n < x
    BY <1>1, TailFacts DEF SelectDeferred, TypeOK, QueueInv, DeliveryOrder
  <2>3. \A x \in Range(delivered) : x < n
    BY <2>2 DEF QueueInv, DeliveryOrder
  <2>4. /\ Range(delivered') = Range(delivered) \cup {n}
        /\ Increasing(delivered')
    BY <1>1, <2>2, <2>3, AppendFacts, AppendIncreasing
       DEF SelectDeferred, TypeOK, QueueInv, DeliveryOrder
  <2>5. hand' = 0 /\ Absorbed' = Absorbed /\ nread' = nread
    BY <1>1, <2>1 DEF SelectDeferred, Absorbed, wireVars
  <2>6. DeliveryOrder'
    BY <2>2, <2>4, <2>5 DEF QueueInv, DeliveryOrder
  <2>7. NothingLost'
    BY <2>1, <2>2, <2>4, <2>5 DEF QueueInv, NothingLost
  <2>8. HandInv'
    BY <1>1, <2>1, <2>5 DEF HandInv, SelectDeferred
  <2>9. StageInv'
    BY <1>1 DEF QueueInv, StageInv, SelectDeferred
  <2>. QED  BY <2>6, <2>7, <2>8, <2>9 DEF QueueInv
<1>2. CASE SelectSpawned
  <2>1. UNCHANGED <<nread, connVars, delivered>> /\ hand = 0
    BY <1>2 DEF SelectSpawned, wireVars, QueueInv, HandInv
  <2>2. DeliveryOrder' /\ NothingLost'
    BY <2>1 DEF QueueInv, DeliveryOrder, NothingLost, Absorbed, connVars
  <2>3. HandInv' /\ StageInv'
    BY <1>2, <2>1 DEF QueueInv, HandInv, StageInv, SelectSpawned, connVars
  <2>. QED  BY <2>2, <2>3 DEF QueueInv
<1>3. CASE ReadDecoded
  <2>1. /\ hand = 0 /\ hand' = nread + 1 /\ nread' = nread + 1
        /\ UNCHANGED <<delivered, deferred, expected, runtimeID, gameData>>
        /\ Absorbed' = Absorbed /\ reader' = "handle"
    BY <1>3 DEF ReadDecoded, QueueInv, HandInv, Absorbed
  <2>2. \A n \in Range(delivered) \cup Range(deferred) \cup Absorbed :
           n \in 1 .. nread
    BY Positions
  <2>3. DeliveryOrder'
    BY <1>n, <2>1, <2>2 DEF QueueInv, DeliveryOrder
  <2>4. NothingLost'
    <3>1. 1 .. nread' = (1 .. nread) \cup {nread + 1}
      BY <1>n, <2>1
    <3>. QED  BY <1>n, <2>1, <2>2, <3>1 DEF QueueInv, NothingLost
  <2>5. HandInv'
    BY <1>n, <2>1, <2>2 DEF HandInv
  <2>6. StageInv'
    BY <1>3, <2>1 DEF QueueInv, StageInv, ReadDecoded
  <2>. QED  BY <2>3, <2>4, <2>5, <2>6 DEF QueueInv
<1>4. CASE ReadRaw
  <2>1. /\ hand = 0 /\ hand' = 0 /\ nread' = nread + 1
        /\ UNCHANGED <<delivered, expected, runtimeID, gameData>>
        /\ deferred' = Append(deferred, nread + 1)
        /\ Absorbed' = Absorbed /\ reader' = "select"
    BY <1>4 DEF ReadRaw, QueueInv, HandInv, Absorbed, deferPacket
  <2>2. \A n \in Range(delivered) \cup Range(deferred) \cup Absorbed :
           n \in 1 .. nread
    BY Positions
  <2>3. /\ Range(deferred') = Range(deferred) \cup {nread + 1}
        /\ Increasing(deferred')
    <3>1. deferred \in Seq(Nat) /\ nread + 1 \in Nat
      BY DEF TypeOK
    <3>2. Increasing(deferred)
      BY DEF QueueInv, DeliveryOrder
    <3>3. \A n \in Range(deferred) : n < nread + 1
      BY <1>n, <2>2
    <3>4. Range(Append(deferred, nread + 1)) = Range(deferred) \cup {nread + 1}
      BY <3>1, AppendFacts
    <3>5. Increasing(Append(deferred, nread + 1))
      BY <3>1, <3>2, <3>3, AppendIncreasing
    <3>. QED  BY <2>1, <3>4, <3>5
  <2>4. DeliveryOrder'
    BY <1>n, <2>1, <2>2, <2>3 DEF QueueInv, DeliveryOrder
  <2>5. NothingLost'
    <3>1. 1 .. nread' = (1 .. nread) \cup {nread + 1}
      BY <1>n, <2>1
    <3>. QED  BY <1>n, <2>1, <2>2, <2>3, <3>1 DEF QueueInv, NothingLost
  <2>6. HandInv'
    BY <2>1 DEF HandInv
  <2>7. StageInv'
    BY <1>4, <2>1 DEF QueueInv, StageInv, ReadRaw
  <2>. QED  BY <2>4, <2>5, <2>6, <2>7 DEF QueueInv
<1>5. CASE ReadGame
  <2>1. /\ hand = 0 /\ hand' = 0 /\ nread' = nread + 1 /\ deferred = <<>>
        /\ UNCHANGED <<deferred, expected, runtimeID, gameData>>
        /\ delivered' = Append(delivered, nread + 1)
        /\ Absorbed' = Absorbed /\ reader' = "select"
    BY <1>5 DEF ReadGame, QueueInv, HandInv, Absorbed, connVars
  <2>2. \A n \in Range(delivered) \cup Range(deferred) \cup Absorbed :
           n \in 1 .. nread
    BY Positions
  <2>3. /\ Range(delivered') = Range(delivered) \cup {nread + 1}
        /\ Increasing(delivered')
    BY <1>n, <2>1, <2>2, AppendFacts, AppendIncreasing
       DEF TypeOK, QueueInv, DeliveryOrder
  <2>4. Range(deferred') = {}
    BY <2>1 DEF Range
  <2>5. DeliveryOrder'
    BY <1>n, <2>1, <2>2, <2>3, <2>4 DEF QueueInv, DeliveryOrder
  <2>6. NothingLost'
    <3>1. 1 .. nread' = (1 .. nread) \cup {nread + 1}
      BY <1>n, <2>1
    <3>. QED  BY <1>n, <2>1, <2>2, <2>3, <3>1 DEF QueueInv, NothingLost
  <2>7. HandInv'
    BY <2>1 DEF HandInv
  <2>8. StageInv'
    BY <1>5, <2>1 DEF QueueInv, StageInv, ReadGame
  <2>. QED  BY <2>5, <2>6, <2>7, <2>8 DEF QueueInv
<1>6. CASE HandleUnexpected
  <2>1. Defers
    BY <1>6 DEF HandleUnexpected, Defers, TypeOK, wireVars
  <2>2. StageInv'
    BY <1>6 DEF HandleUnexpected, QueueInv, StageInv
  <2>. QED  BY <2>1, <2>2, DefersKeepsOrder DEF QueueInv
<1>7. CASE HandleConnectionResponse
  <2>1. Absorbed' = Absorbed \cup {hand}
    BY <1>7, <1>h DEF HandleConnectionResponse, Handling, Absorbed, QueueInv,
                      StageInv
  <2>2. Keeps
    BY <1>7, <2>1 DEF HandleConnectionResponse, Handling, Keeps, wireVars
  <2>3. StageInv'
    BY <1>7, <1>h DEF HandleConnectionResponse, Handling, QueueInv, StageInv
  <2>. QED  BY <2>2, <2>3, KeepsKeepsOrder DEF QueueInv
<1>8. CASE HandleStartGame
  <2>1. /\ gameData = NoGameData /\ 0 < runtimeID /\ runtimeID < hand
        /\ runtimeID \in Nat
    <3>1. expected = "StartGame" /\ runtimeID \in Nat
      BY <1>8 DEF HandleStartGame, Handling, TypeOK
    <3>2. gameData = NoGameData /\ 0 < runtimeID
      BY <3>1 DEF QueueInv, StageInv
    <3>3. runtimeID \in Absorbed
      BY <3>2, Positions
    <3>4. hand # 0 => \A n \in Absorbed : n < hand
      BY Positions
    <3>5. hand # 0
      BY <1>8, <1>h DEF HandleStartGame, Handling
    <3>. QED  BY <3>1, <3>2, <3>3, <3>4, <3>5
  <2>2. CASE reader' = "failed"
    <3>1. /\ ~HasItemRegistry[role]
          /\ UNCHANGED <<role, nread, delivered, deferred, hand, runtimeID, gameData>>
          /\ expected' = "ChunkRadiusUpdated" /\ reader = "handle"
      BY <1>8, <2>2, HasItemRegistryAssumption
         DEF HandleStartGame, Handling, wireVars, AfterStartGame
    <3>2. DeliveryOrder' /\ NothingLost' /\ HandInv'
      BY <2>2, <3>1 DEF QueueInv, DeliveryOrder, NothingLost, HandInv, Absorbed
    <3>3. StageInv'
      BY <2>1, <2>2, <3>1 DEF StageInv, NoGameData
    <3>. QED  BY <3>2, <3>3 DEF QueueInv
  <2>3. CASE reader' # "failed"
    <3>1. /\ gameData' = [entity |-> runtimeID, world |-> hand,
                          items |-> 0, radius |-> 0]
          /\ hand' = 0 /\ reader' = "select" /\ reader = "handle"
          /\ expected' = AfterStartGame
          /\ UNCHANGED <<role, nread, delivered, deferred, runtimeID>>
      BY <1>8, <2>3 DEF HandleStartGame, Handling, wireVars
    <3>2. Absorbed' = Absorbed \cup {hand}
      BY <1>h, <2>1, <3>1 DEF Absorbed, NoGameData
    <3>3. Keeps
      BY <3>1, <3>2 DEF Keeps
    <3>4. StageInv'
      BY <2>1, <3>1 DEF StageInv, AfterStartGame
    <3>. QED  BY <3>3, <3>4, KeepsKeepsOrder DEF QueueInv
  <2>. QED  BY <2>2, <2>3
<1>9. CASE HandleItemRegistry
  <2>1. /\ HasItemRegistry[role] /\ gameData.items = 0 /\ 0 < runtimeID
        /\ gameData.entity = runtimeID /\ runtimeID < gameData.world
    BY <1>9 DEF HandleItemRegistry, Handling, QueueInv, StageInv
  <2>2. gameData.world < hand
    BY <1>9, <1>h, <2>1, Positions DEF HandleItemRegistry, Handling, TypeOK
  <2>3. /\ gameData'.items = hand /\ gameData'.world = gameData.world
        /\ gameData'.entity = gameData.entity
        /\ hand' = 0 /\ reader = "handle" /\ reader' \in {"select", "failed"}
        /\ expected' = "ChunkRadiusUpdated"
        /\ UNCHANGED <<role, nread, delivered, deferred, runtimeID>>
    BY <1>9 DEF HandleItemRegistry, Handling, TypeOK, wireVars
  <2>4. Absorbed' = Absorbed \cup {hand}
    BY <1>h, <2>1, <2>3 DEF Absorbed
  <2>5. Keeps
    BY <2>3, <2>4 DEF Keeps
  <2>6. StageInv'
    BY <2>1, <2>2, <2>3 DEF StageInv
  <2>. QED  BY <2>5, <2>6, KeepsKeepsOrder DEF QueueInv
<1>10. CASE HandleChunkRadiusUpdated
  <2>1. /\ 0 < runtimeID /\ gameData.entity = runtimeID
        /\ runtimeID < gameData.world
        /\ IF HasItemRegistry[role] THEN gameData.world < gameData.items
                                    ELSE gameData.items = 0
    BY <1>10 DEF HandleChunkRadiusUpdated, Handling, QueueInv, StageInv
  <2>2. gameData.world < hand /\ gameData.items < hand
    <3>1. reader = "handle" /\ hand \in Nat /\ 0 < hand
      BY <1>10, <1>h DEF HandleChunkRadiusUpdated, Handling
    <3>2. /\ gameData.world # 0 => gameData.world < hand
          /\ gameData.items # 0 => gameData.items < hand
      BY <3>1, Positions
    <3>3. gameData.world \in Nat /\ gameData.items \in Nat
      BY DEF TypeOK
    <3>. QED  BY <3>1, <3>2, <3>3
  <2>3. /\ gameData' = [gameData EXCEPT !.radius = hand]
        /\ gameData'.radius = hand
        /\ gameData'.items = gameData.items /\ gameData'.world = gameData.world
        /\ gameData'.entity = gameData.entity
        /\ reader = "handle" /\ reader' = "select" /\ hand' = 0
        /\ deferred' = deferPacket(hand)
        /\ expected' = "PlayStatus"
        /\ UNCHANGED <<role, nread, delivered, runtimeID>>
    BY <1>10 DEF HandleChunkRadiusUpdated, Handling, TypeOK, wireVars
  <2>4. Defers
    BY <2>3 DEF Defers
  <2>5. StageInv'
    BY <2>1, <2>2, <2>3 DEF StageInv
  <2>. QED  BY <2>4, <2>5, DefersKeepsOrder DEF QueueInv
<1>11. CASE HandlePlayStatus
  <2>1. Defers
    BY <1>11 DEF HandlePlayStatus, Handling, Defers, TypeOK, wireVars
  <2>2. StageInv'
    BY <1>11 DEF HandlePlayStatus, Handling, QueueInv, StageInv
  <2>. QED  BY <2>1, <2>2, DefersKeepsOrder DEF QueueInv
<1>12. CASE \/ UNCHANGED vars \/ Owner \/ Closer \/ Environment
           \/ SelectDone \/ SelectDefault \/ ReadError \/ ReadEmpty
           \/ CallOnConnect \/ CallbackSpawn \/ CallbackInitialise
  BY <1>12, FrameSteps, FrameKeepsQueues
<1>. QED
  BY <1>1, <1>2, <1>3, <1>4, <1>5, <1>6, <1>7, <1>8, <1>9, <1>10, <1>11, <1>12
     DEF Next, Reader

-----------------------------------------------------------------------------
\* The theorems.

\* The inductive invariant holds throughout.
THEOREM Invariance == Spec => []Inv
<1>1. Init => Inv
  <2>. SUFFICES ASSUME Init PROVE Inv
    OBVIOUS
  <2>1. Range(<<>>) = {}
    BY DEF Range
  <2>2. Absorbed = {}
    BY DEF Init, Absorbed, NoGameData
  <2>3. DeliveryOrder /\ NothingLost
    BY <2>1, <2>2 DEF Init, DeliveryOrder, NothingLost, Increasing
  <2>4. HandInv /\ StageInv /\ ControlInv
    BY DEF Init, HandInv, StageInv, ControlInv
  <2>. QED  BY <2>3, <2>4, TypeInit DEF Inv
<1>2. Inv /\ [Next]_vars => Inv'
  BY TypeStep, ControlStep, QueueStep DEF Inv, QueueInv
<1>. QED  BY <1>1, <1>2, PTL DEF Spec

\* ReadPacket returns the server's packets in order and none of the packets read
\* is lost or returned besides being kept, whatever the server sends and
\* whenever the connection is closed.
THEOREM PacketsInOrder == Spec => [](DeliveryOrder /\ NothingLost)
<1>1. Inv => DeliveryOrder /\ NothingLost
  BY DEF Inv
<1>. QED  BY <1>1, Invariance, PTL

\* In particular none is lost (handlePacket, ReadPacket).
COROLLARY NothingIsLost == Spec => []NothingLost
BY PacketsInOrder, PTL

\* The game data is complete whenever the owner may read it.
THEOREM GameDataCorrect == Spec => []GameDataComplete
<1>1. Inv => GameDataComplete
  BY HasItemRegistryAssumption
     DEF Inv, TypeOK, StageInv, ControlInv, GameDataComplete
<1>. QED  BY <1>1, Invariance, PTL

\* Packets reach handleServer only after DoSpawn, and that only after the
\* connection sequence.
THEOREM SpawnCorrect == Spec => []SpawnAfterSequence
<1>1. Inv => SpawnAfterSequence
  BY DEF Inv, ControlInv, SpawnAfterSequence
<1>. QED  BY <1>1, Invariance, PTL

\* CloseWithError calls the callback of an unfinished sequence once.
Notified == once \in {"notified", "cancelled", "done"} /\ ~sawConnected
InCallback == {"connected", "callback", "initialise", "initialised"}

\* The callback is told by CloseWithError at most once, and once by the reader after
\* the sequence; without a callback only a failed DoConnect is reported.
ReportInv ==
    /\ owner \in {"doConnect", "setOnConnect"} => ~onConnect
    /\ ~onConnect =>
          /\ reader \notin {"callback", "initialise", "initialised"}
          /\ Len(reports) = 0 \/ (Len(reports) = 1 /\ owner = "failed")
    /\ onConnect => Len(reports) <= IF Notified THEN 2 ELSE 1
    /\ onConnect /\ (~connected \/ (~crashed /\ reader \in InCallback)) =>
          Len(reports) <= IF Notified THEN 1 ELSE 0

\* A report makes the list longer by one.
LEMMA ReportLen ==
  ASSUME TypeOK
  PROVE  /\ Len(reports) \in Nat
         /\ \A r \in ReportKinds : Len(Append(reports, r)) = Len(reports) + 1
<1>1. reports \in Seq(ReportKinds)
  BY DEF TypeOK
<1>. QED  BY <1>1

\* Every step keeps it.
LEMMA ReportStep == TypeOK /\ ControlInv /\ ReportInv /\ [Next]_vars => ReportInv'
<1>. SUFFICES ASSUME TypeOK, ControlInv, ReportInv, [Next]_vars PROVE ReportInv'
  OBVIOUS
<1>. USE DEF ReportInv, Notified, InCallback, chanVars, closeVars
<1>1. CASE UNCHANGED vars
  BY <1>1 DEF vars
<1>r. "failure" \in ReportKinds /\ "post" \in ReportKinds
  BY SMTT(30) DEF ReportKinds
<1>2. CASE SelectDone \/ SelectDeferred \/ SelectSpawned \/ SelectDefault
  BY <1>2, SMTT(30) DEF SelectDone, SelectDeferred, SelectSpawned, SelectDefault
<1>3. CASE ReadDecoded \/ ReadRaw \/ ReadGame \/ ReadError \/ ReadEmpty
  BY <1>3 DEF ReadDecoded, ReadRaw, ReadGame, ReadError, ReadEmpty
<1>4. CASE HandleUnexpected \/ HandleConnectionResponse \/ HandleStartGame
             \/ HandleItemRegistry \/ HandleChunkRadiusUpdated
  BY <1>4 DEF HandleUnexpected, HandleConnectionResponse, HandleStartGame,
              HandleItemRegistry, HandleChunkRadiusUpdated, Handling
<1>5. CASE HandlePlayStatus
  <2>1. /\ UNCHANGED <<once, sawConnected, reports, owner, onConnect>>
        /\ reader' = "connected" /\ connected' /\ (crashed' <=> connected)
    BY <1>5 DEF HandlePlayStatus
  <2>. QED  BY <2>1
<1>6. CASE CallOnConnect
  BY <1>6 DEF CallOnConnect
<1>7. CASE CallbackSpawn /\ ~crashed
  <2>1. /\ onConnect /\ connected /\ ~crashed
        /\ reader \in InCallback
    BY <1>7 DEF CallbackSpawn, ControlInv
  <2>2. \/ reader' = "initialise" /\ UNCHANGED reports
        \/ reader' = "select" /\ reports' = Append(reports, "failure")
    BY <1>7 DEF CallbackSpawn
  <2>3. UNCHANGED <<connected, onConnect, once, sawConnected, owner, crashed>>
    BY <1>7 DEF CallbackSpawn
  <2>4. Len(reports) <= IF Notified THEN 1 ELSE 0
    BY <2>1
  <2>. QED  BY <2>1, <2>2, <2>3, <2>4, <1>r, ReportLen
<1>8. CASE CallbackInitialise /\ ~crashed
  <2>1. /\ onConnect /\ connected /\ ~crashed
        /\ reader \in InCallback
    BY <1>8 DEF CallbackInitialise, ControlInv
  <2>2. \/ reader' = "initialised" /\ UNCHANGED reports
        \/ /\ reader' = "select"
           /\ \E r \in ReportKinds : reports' = Append(reports, r)
    BY <1>8, <1>r DEF CallbackInitialise
  <2>3. UNCHANGED <<connected, onConnect, once, sawConnected, owner, crashed>>
    BY <1>8 DEF CallbackInitialise
  <2>4. Len(reports) <= IF Notified THEN 1 ELSE 0
    BY <2>1
  <2>. QED  BY <2>1, <2>2, <2>3, <2>4, ReportLen
<1>9. CASE DoConnect
  BY <1>9, <1>r, ReportLen DEF DoConnect
<1>10. CASE OnConnect
  BY <1>10, ReportLen, SMTT(30) DEF OnConnect
<1>11. CASE WaitConnect \/ StartGame \/ DoSpawn \/ DoSpawnWrites \/ GiveUp
  BY <1>11 DEF WaitConnect, StartGame, DoSpawn, DoSpawnWrites, GiveUp
<1>12. CASE CloseCheck \/ CloseCancel \/ CloseConn
  BY <1>12 DEF CloseCheck, CloseCancel, CloseConn
<1>13. CASE CloseNotify
  BY <1>13, <1>r, ReportLen, SMTT(30) DEF CloseNotify
<1>14. CASE Environment
  BY <1>14 DEF Environment, Send, LinkFails, ForeignWrite
<1>. QED
  BY <1>1, <1>2, <1>3, <1>4, <1>5, <1>6, <1>7, <1>8, <1>9, <1>10, <1>11, <1>12, <1>13,
     <1>14, Zenon DEF Next, Reader, Owner, Closer

\* The processor hears of a transfer once, but for the race of CloseWithError with
\* the last packet of the sequence.
THEOREM TransferReportedOnce == Spec => []ReportedOnce
<1>1. Init => ReportInv
  BY DEF Init, ReportInv
<1>2. ReportInv /\ TypeOK => ReportedOnce
  <2>. SUFFICES ASSUME ReportInv, TypeOK, Len(reports) > 1 PROVE ReportedOnce
    BY DEF ReportedOnce
  <2>1. reports \in Seq(ReportKinds) /\ Len(reports) \in Nat
    BY ReportLen DEF TypeOK
  <2>2. onConnect /\ Notified /\ Len(reports) = 2
    <3>n. PICK n \in Nat : n = Len(reports)
      BY <2>1
    <3>1. ~onConnect => n = 0 \/ n = 1
      BY <3>n DEF ReportInv
    <3>2. n > 1
      BY <3>n
    <3>3. onConnect
      BY <3>1, <3>2
    <3>4. (Notified => n <= 2) /\ (~Notified => n <= 1)
      BY <3>n, <3>3 DEF ReportInv
    <3>5. Notified /\ n = 2
      BY <3>2, <3>4
    <3>. QED  BY <3>n, <3>3, <3>5
  <2>3. connected
    BY <2>1, <2>2 DEF ReportInv
  <2>. QED  BY <2>1, <2>2, <2>3 DEF Notified, ReportedOnce
<1>3. Inv => TypeOK /\ ControlInv
  BY DEF Inv
<1>. QED  BY <1>1, <1>2, <1>3, Invariance, ReportStep, PTL DEF Spec

-----------------------------------------------------------------------------
\* The order of the packets the connection sequence writes.

Written(k) == \E i \in DOMAIN wrote : wrote[i] = k

\* Only the login's owner spawns by itself; only a transfer registers a callback.
RoleInv ==
    /\ owner \in {"waitConnect", "startGame", "doSpawn", "initialise",
                  "initialised"} => role = "login"
    /\ owner = "setOnConnect" => role = "transfer"
    /\ onConnect \/ reader \in {"callback", "initialise", "initialised"} =>
          role = "transfer"

\* What has been written when each goroutine gets to its next write.  The
\* callback runs once because a second PlayStatus ends the process.
ProgressInv ==
    /\ owner = "doConnect" => ~Written("ConnectionRequest")
    /\ expected # "ConnectionResponse" \/ "ConnectionResponse" \in Range(sent) =>
          Written("ConnectionRequest")
    /\ expected \in {"ConnectionResponse", "StartGame", "ItemRegistry"} =>
          ~Written("RequestChunkRadius")
    /\ \/ expected = "ChunkRadiusUpdated" /\ reader # "failed"
       \/ expected = "PlayStatus"
       => Written("RequestChunkRadius")
    /\ \/ ~connected
       \/ /\ role = "transfer" /\ ~crashed
          /\ reader \in {"connected", "callback", "initialise"}
       \/ /\ role = "login"
          /\ owner \in {"doConnect", "waitConnect", "startGame", "doSpawn",
                        "initialise"}
       => ~Written("ClientCacheStatus")
    /\ reader = "initialised" \/ owner = "initialised" =>
          Written("ClientCacheStatus") /\ ~Written("SetLocalPlayerAsInitialised")
    /\ ~Written("ClientCacheStatus") => ~Written("SetLocalPlayerAsInitialised")

\* A write adds its kind to what has been written.
LEMMA WrittenFacts ==
    ASSUME TypeOK, NEW k \in WriteKinds, wrote' = Append(wrote, k)
    PROVE  \A x \in WriteKinds : Written(x)' <=> Written(x) \/ x = k
<1>1. /\ wrote \in Seq(WriteKinds) /\ Len(wrote) \in Nat
      /\ DOMAIN wrote = 1 .. Len(wrote)
      /\ DOMAIN wrote' = 1 .. Len(wrote) + 1
      /\ \A i \in 1 .. Len(wrote) : wrote'[i] = wrote[i]
      /\ wrote'[Len(wrote) + 1] = k
  BY DEF TypeOK
<1>. PICK n \in Nat : n = Len(wrote)
  BY <1>1, Zenon
<1>2. /\ DOMAIN wrote = 1 .. n /\ DOMAIN wrote' = 1 .. n + 1
      /\ \A i \in 1 .. n : wrote'[i] = wrote[i]
      /\ wrote'[n + 1] = k
  BY <1>1
<1>. QED  BY <1>2 DEF Written

\* The order is kept by a write of the kind whose turn it is.
LEMMA OrderKept ==
    ASSUME TypeOK, HandshakeWriteOrder, NEW k \in WriteKinds,
           wrote' = Append(wrote, k),
           k # "Other" => ~Written(k),
           \A j \in 2 .. 4 : k = WriteSequence[j] => Written(WriteSequence[j - 1])
    PROVE  HandshakeWriteOrder'
<1>1. /\ wrote \in Seq(WriteKinds) /\ Len(wrote) \in Nat
      /\ DOMAIN wrote = 1 .. Len(wrote)
      /\ DOMAIN wrote' = 1 .. Len(wrote) + 1
      /\ \A i \in 1 .. Len(wrote) : wrote'[i] = wrote[i]
      /\ wrote'[Len(wrote) + 1] = k
  BY DEF TypeOK
<1>. PICK n \in Nat : n = Len(wrote)
  BY <1>1, Zenon
<1>2. /\ DOMAIN wrote = 1 .. n /\ DOMAIN wrote' = 1 .. n + 1
      /\ \A i \in 1 .. n : wrote'[i] = wrote[i]
      /\ wrote'[n + 1] = k
  BY <1>1
<1>3. DOMAIN WriteSequence = 1 .. 4 /\ \A j \in 1 .. 4 : WriteSequence[j] # "Other"
  BY DEF WriteSequence
<1>. SUFFICES ASSUME NEW j \in 1 .. 4, NEW m \in 1 .. n + 1,
                     wrote'[m] = WriteSequence[j]
              PROVE  /\ \A i \in 1 .. n + 1 : wrote'[i] = WriteSequence[j] => i = m
                     /\ j > 1 => \E i \in 1 .. m - 1 :
                                    wrote'[i] = WriteSequence[j - 1]
  BY <1>2, <1>3 DEF HandshakeWriteOrder
<1>4. CASE m \in 1 .. n
  <2>1. wrote[m] = WriteSequence[j] /\ k # WriteSequence[j]
    <3>1. wrote[m] = WriteSequence[j]
      BY <1>2, <1>4
    <3>2. Written(WriteSequence[j])
      BY <1>2, <1>4, <3>1 DEF Written
    <3>. QED  BY <1>3, <3>1, <3>2
  <2>2. \A i \in 1 .. n : wrote[i] = WriteSequence[j] => i = m
    BY <1>2, <1>3, <1>4, <2>1 DEF HandshakeWriteOrder
  <2>3. ASSUME j > 1 PROVE \E i \in 1 .. m - 1 : wrote[i] = WriteSequence[j - 1]
    BY <1>2, <1>3, <1>4, <2>1, <2>3 DEF HandshakeWriteOrder
  <2>4. \A i \in 1 .. m - 1 : wrote'[i] = wrote[i]
    BY <1>2, <1>4
  <2>5. \A i \in 1 .. n + 1 : wrote'[i] = WriteSequence[j] => i = m
    BY <1>2, <2>1, <2>2
  <2>. QED  BY <2>3, <2>4, <2>5
<1>5. CASE m = n + 1
  <2>1. k = WriteSequence[j]
    BY <1>2, <1>5
  <2>2. \A i \in 1 .. n : wrote[i] # WriteSequence[j]
    BY <1>2, <1>3, <2>1 DEF Written
  <2>3. ASSUME j > 1 PROVE \E i \in 1 .. n : wrote'[i] = WriteSequence[j - 1]
    <3>1. j \in 2 .. 4
      BY <2>3
    <3>. QED  BY <1>2, <2>1, <3>1 DEF Written
  <2>. QED  BY <1>2, <1>5, <2>2, <2>3
<1>. QED  BY <1>4, <1>5

\* The owner and the callback keep to their roles.
LEMMA RoleStep == TypeOK /\ RoleInv /\ [Next]_vars => RoleInv'
<1>. SUFFICES ASSUME TypeOK, RoleInv, [Next]_vars PROVE RoleInv'
  OBVIOUS
<1>. USE DEF RoleInv, connVars, chanVars, closeVars, wireVars, writeVars
<1>t. role \in {"login", "transfer"}
  BY RolesAssumption DEF TypeOK
<1>1. CASE UNCHANGED vars
  BY <1>1 DEF vars
<1>2. CASE Reader
  <2>1. CASE SelectDone \/ SelectDeferred \/ SelectSpawned \/ SelectDefault
    BY <2>1, SMTT(30) DEF SelectDone, SelectDeferred, SelectSpawned, SelectDefault
  <2>2. CASE ReadDecoded \/ ReadRaw \/ ReadGame \/ ReadError \/ ReadEmpty
    BY <2>2, SMTT(30) DEF ReadDecoded, ReadRaw, ReadGame, ReadError, ReadEmpty
  <2>3. CASE HandleUnexpected \/ HandleConnectionResponse \/ HandleStartGame
    BY <2>3 DEF HandleUnexpected, HandleConnectionResponse, HandleStartGame
  <2>4. CASE HandleItemRegistry \/ HandleChunkRadiusUpdated \/ HandlePlayStatus
    BY <2>4, SMTT(30) DEF HandleItemRegistry, HandleChunkRadiusUpdated, HandlePlayStatus
  <2>5. CASE CallOnConnect \/ CallbackSpawn \/ CallbackInitialise
    BY <2>5 DEF CallOnConnect, CallbackSpawn, CallbackInitialise, SpawnSignal
  <2>. QED
    BY <1>2, <2>1, <2>2, <2>3, <2>4, <2>5, SMTT(30) DEF Reader
<1>3. CASE Owner
  <2>1. CASE DoConnect
    BY <2>1, <1>t DEF DoConnect
  <2>2. CASE OnConnect
    BY <2>2, <1>t DEF OnConnect
  <2>3. CASE WaitConnect \/ StartGame
    BY <2>3, <1>t DEF WaitConnect, StartGame
  <2>4. CASE DoSpawn \/ DoSpawnWrites
    BY <2>4, <1>t DEF DoSpawn, DoSpawnWrites
  <2>5. CASE GiveUp
    BY <2>5, <1>t, SMTT(30) DEF GiveUp
  <2>. QED  BY <1>3, <2>1, <2>2, <2>3, <2>4, <2>5 DEF Owner
<1>4. CASE Closer
  BY <1>4, SMTT(30) DEF Closer, CloseCheck, CloseNotify, CloseCancel, CloseConn
<1>5. CASE Environment
  BY <1>5 DEF Environment, Send, LinkFails, ForeignWrite
<1>. QED  BY <1>1, <1>2, <1>3, <1>4, <1>5 DEF Next

\* A step that leaves what the progress is measured by, or moves it on without a
\* write.
LEMMA SameWritten ==
    UNCHANGED wrote => \A x \in WriteKinds : Written(x)' <=> Written(x)
  BY DEF Written

\* The packets of the sequence are in order in w.
OrderIn(w) ==
    \A j \in DOMAIN WriteSequence, m \in DOMAIN w :
        w[m] = WriteSequence[j] =>
            /\ \A n \in DOMAIN w : w[n] = WriteSequence[j] => n = m
            /\ j > 1 => \E n \in 1 .. m - 1 : w[n] = WriteSequence[j - 1]
\* A step that leaves wrote alone leaves the order of the writes.
LEMMA SameOrder ==
    HandshakeWriteOrder /\ UNCHANGED wrote => HandshakeWriteOrder'
<1>1. HandshakeWriteOrder <=> OrderIn(wrote)
  BY Zenon DEF HandshakeWriteOrder, OrderIn
<1>2. HandshakeWriteOrder' <=> OrderIn(wrote')
  BY Zenon DEF HandshakeWriteOrder, OrderIn
<1>3. UNCHANGED wrote => (OrderIn(wrote) <=> OrderIn(wrote'))
  BY Zenon
<1>. QED  BY <1>1, <1>2, <1>3, Zenon

\* Every action keeps the packets written in step with the goroutines, and the
\* order with them.
LEMMA ProgressStep ==
    Inv /\ RoleInv /\ ProgressInv /\ HandshakeWriteOrder /\ [Next]_vars
       => ProgressInv' /\ HandshakeWriteOrder'
<1>. SUFFICES ASSUME Inv, RoleInv, ProgressInv, HandshakeWriteOrder, [Next]_vars
              PROVE  ProgressInv' /\ HandshakeWriteOrder'
  OBVIOUS
<1>t. TypeOK /\ ControlInv /\ HandInv /\ role \in {"login", "transfer"}
  BY RolesAssumption DEF Inv, TypeOK
<1>k. /\ "ConnectionRequest" \in WriteKinds /\ "RequestChunkRadius" \in WriteKinds
      /\ "ClientCacheStatus" \in WriteKinds /\ "Other" \in WriteKinds
      /\ "SetLocalPlayerAsInitialised" \in WriteKinds
  BY DEF WriteKinds
<1>o. UNCHANGED wrote => HandshakeWriteOrder'
  BY SameOrder
<1>s. /\ WriteSequence[1] = "ConnectionRequest"
      /\ WriteSequence[2] = "RequestChunkRadius"
      /\ WriteSequence[3] = "ClientCacheStatus"
      /\ WriteSequence[4] = "SetLocalPlayerAsInitialised"
  BY DEF WriteSequence
<1>c. ASSUME NEW k \in WriteKinds, WriteSucceeds(k)
      PROVE  \A x \in WriteKinds : Written(x)' <=> Written(x) \/ x = k
  BY <1>t, <1>c, WrittenFacts DEF WriteSucceeds
<1>f. WriteFails => UNCHANGED wrote
  BY DEF WriteFails
<1>p. ASSUME NEW k \in WriteKinds, WriteSucceeds(k), k # "Other" => ~Written(k),
             \A j \in 2 .. 4 : k = WriteSequence[j] => Written(WriteSequence[j - 1])
      PROVE  HandshakeWriteOrder'
  BY <1>t, <1>p, OrderKept DEF WriteSucceeds
<1>. USE DEF connVars, chanVars, closeVars, wireVars, writeVars
<1>1. CASE \/ SelectDone \/ SelectDeferred \/ SelectSpawned \/ SelectDefault
           \/ ReadDecoded \/ ReadRaw \/ ReadGame \/ ReadError \/ ReadEmpty
           \/ HandleUnexpected
  <2>1. /\ UNCHANGED <<wrote, sent, expected, connected, owner, role>>
        /\ \/ reader' = "failed" \/ UNCHANGED reader
           \/ /\ reader' \in {"readGame", "readHandshake", "handle", "select"}
              /\ reader # "failed"
        /\ UNCHANGED crashed \/ reader' \in {"readHandshake", "readGame"}
    BY <1>1, Zenon DEF SelectDone, SelectDeferred, SelectSpawned, SelectDefault,
       ReadDecoded, ReadRaw, ReadGame, ReadError, ReadEmpty, HandleUnexpected
  <2>. QED  BY <1>k, <1>o, <2>1, SameWritten DEF ProgressInv
<1>2. CASE HandleConnectionResponse
  <2>1. "ConnectionResponse" \in Range(sent)
    BY <1>2, <1>t, SMTT(30) DEF HandleConnectionResponse, Handling, HandInv, TypeOK, Range
  <2>. QED
    BY <1>2, <1>k, <1>o, <1>t, <2>1, SameWritten, SMTT(30)
       DEF HandleConnectionResponse, Handling, ProgressInv, ControlInv
<1>3. CASE HandleStartGame /\ UNCHANGED wrote
  BY <1>3, <1>k, <1>o, <1>t, HasItemRegistryAssumption, SameWritten
     DEF HandleStartGame, Handling, AfterStartGame, ProgressInv, ControlInv,
         WriteSucceeds
<1>5. CASE /\ HandleStartGame \/ HandleItemRegistry
           /\ WriteSucceeds("RequestChunkRadius")
  <2>1. /\ ~Written("RequestChunkRadius") /\ Written("ConnectionRequest")
    BY <1>5 DEF HandleStartGame, HandleItemRegistry, Handling, ProgressInv
  <2>2. HandshakeWriteOrder'
    BY <1>5, <1>k, <1>p, <1>s, <2>1
  <2>3. /\ UNCHANGED <<sent, connected, owner, role, crashed>>
        /\ reader = "handle" /\ expected # "PlayStatus" /\ ~connected
        /\ expected \in {"StartGame", "ItemRegistry"}
        /\ expected' \in {"ItemRegistry", "ChunkRadiusUpdated"}
    BY <1>5, <1>t DEF HandleStartGame, HandleItemRegistry, Handling,
       AfterStartGame, ControlInv
  <2>4. expected' = "ChunkRadiusUpdated"
    BY <1>5, HasItemRegistryAssumption, <1>t DEF HandleStartGame,
       HandleItemRegistry, AfterStartGame, WriteSucceeds, TypeOK
  <2>5. reader' \in {"select", "failed"}
    BY <1>5 DEF HandleStartGame, HandleItemRegistry
  <2>6. owner \notin {"initialised"}
    BY <1>t, <2>3, SMTT(30) DEF ControlInv
  <2>7. ProgressInv'
    BY <1>5, <1>c, <1>k, <2>1, <2>3, <2>4, <2>5, <2>6 DEF ProgressInv
  <2>. QED  BY <2>2, <2>7
<1>6. CASE HandleItemRegistry /\ UNCHANGED wrote
  BY <1>6, <1>k, <1>o, <1>t, SameWritten
     DEF HandleItemRegistry, Handling, ProgressInv, ControlInv, WriteSucceeds
<1>7. CASE HandleChunkRadiusUpdated
  BY <1>7, <1>k, <1>o, <1>t, SameWritten, SMTT(30)
     DEF HandleChunkRadiusUpdated, Handling, ProgressInv, ControlInv
<1>8. CASE HandlePlayStatus
  BY <1>8, <1>k, <1>o, <1>t, SameWritten, SMTT(30)
     DEF HandlePlayStatus, Handling, ProgressInv, ControlInv
<1>9. CASE CallOnConnect \/ CallbackSpawn
  BY <1>9, <1>k, <1>o, <1>t, SameWritten
     DEF CallOnConnect, CallbackSpawn, SpawnSignal, ProgressInv, RoleInv
<1>10. CASE CallbackInitialise
  <2>1. /\ role = "transfer" /\ connected /\ expected = "PlayStatus"
        /\ UNCHANGED <<sent, expected, connected, owner, role, crashed>>
    BY <1>10, <1>t DEF CallbackInitialise, RoleInv, ControlInv
  <2>2. owner # "initialised" /\ owner # "initialise"
    BY <2>1, SMTT(30) DEF RoleInv
  <2>3. CASE reader = "initialise" /\ WriteSucceeds("ClientCacheStatus")
             /\ reader' = "initialised"
    <3>1. ~crashed
      BY <1>10 DEF Next, vars, CallbackInitialise, WriteFails, WriteSucceeds
    <3>2. ~Written("ClientCacheStatus") /\ Written("RequestChunkRadius")
          /\ ~Written("SetLocalPlayerAsInitialised")
      BY <2>1, <2>3, <3>1 DEF ProgressInv
    <3>3. HandshakeWriteOrder'
      BY <1>k, <1>p, <1>s, <2>3, <3>2
    <3>4. ProgressInv'
      BY <1>c, <1>k, <2>1, <2>2, <2>3, <3>2 DEF ProgressInv
    <3>. QED  BY <3>3, <3>4
  <2>4. CASE reader = "initialised" /\ reader' = "select"
             /\ WriteSucceeds("SetLocalPlayerAsInitialised")
    <3>2. Written("ClientCacheStatus") /\ ~Written("SetLocalPlayerAsInitialised")
      BY <2>4 DEF ProgressInv
    <3>3. HandshakeWriteOrder'
      BY <1>k, <1>p, <1>s, <2>4, <3>2, SMTT(30)
    <3>4. ProgressInv'
      BY <1>c, <1>k, <2>1, <2>2, <2>4, <3>2, SMTT(30) DEF ProgressInv
    <3>. QED  BY <3>3, <3>4
  <2>5. CASE WriteFails /\ reader' = "select"
    BY <1>f, <1>k, <1>o, <2>1, <2>2, <2>5, SameWritten, SMTT(30) DEF ProgressInv
  <2>. QED  BY <1>10, <2>3, <2>4, <2>5 DEF CallbackInitialise
<1>11. CASE DoConnect
  <2>1. /\ owner = "doConnect" /\ owner' # "doConnect" /\ owner' # "initialised"
        /\ UNCHANGED <<sent, expected, connected, reader, role, crashed>>
    BY <1>11 DEF DoConnect
  <2>2. CASE WriteSucceeds("ConnectionRequest")
    <3>1. ~Written("ConnectionRequest")
      BY <2>1 DEF ProgressInv
    <3>2. HandshakeWriteOrder'
      BY <1>k, <1>p, <1>s, <2>2, <3>1, SMTT(30)
    <3>3. ProgressInv'
      BY <1>c, <1>k, <2>1, <2>2, <3>1, SMTT(30) DEF ProgressInv
    <3>. QED  BY <3>2, <3>3
  <2>3. CASE WriteFails
    BY <1>f, <1>k, <1>o, <2>1, <2>3, SameWritten, SMTT(30) DEF ProgressInv
  <2>. QED  BY <1>11, <2>2, <2>3 DEF DoConnect
<1>12. CASE OnConnect \/ WaitConnect \/ StartGame \/ DoSpawn \/ GiveUp
  BY <1>12, <1>k, <1>o, <1>t, SameWritten, Zenon
     DEF OnConnect, WaitConnect, StartGame, DoSpawn, GiveUp, ProgressInv, RoleInv
<1>13. CASE DoSpawnWrites
  <2>1. /\ role = "login" /\ connected /\ expected = "PlayStatus"
        /\ UNCHANGED <<sent, expected, connected, reader, role, crashed>>
    BY <1>13, <1>t DEF DoSpawnWrites, RoleInv, ControlInv
  <2>2. reader # "initialised" /\ reader # "initialise"
    BY <2>1 DEF RoleInv
  <2>3. CASE owner = "initialise" /\ WriteSucceeds("ClientCacheStatus")
             /\ owner' = "initialised"
    <3>2. ~Written("ClientCacheStatus") /\ Written("RequestChunkRadius")
          /\ ~Written("SetLocalPlayerAsInitialised")
      BY <2>1, <2>3, SMTT(30) DEF ProgressInv
    <3>3. HandshakeWriteOrder'
      BY <1>k, <1>p, <1>s, <2>3, <3>2
    <3>4. ProgressInv'
      BY <1>c, <1>k, <2>1, <2>2, <2>3, <3>2 DEF ProgressInv
    <3>. QED  BY <3>3, <3>4
  <2>4. CASE owner = "initialised" /\ owner' = "done"
             /\ WriteSucceeds("SetLocalPlayerAsInitialised")
    <3>2. Written("ClientCacheStatus") /\ ~Written("SetLocalPlayerAsInitialised")
      BY <2>4 DEF ProgressInv
    <3>3. HandshakeWriteOrder'
      BY <1>k, <1>p, <1>s, <2>4, <3>2, SMTT(30)
    <3>4. ProgressInv'
      BY <1>c, <1>k, <2>1, <2>2, <2>4, <3>2, SMTT(30) DEF ProgressInv
    <3>. QED  BY <3>3, <3>4
  <2>5. CASE WriteFails /\ owner' = "giveUp"
    BY <1>f, <1>k, <1>o, <2>1, <2>2, <2>5, SameWritten, SMTT(30) DEF ProgressInv
  <2>. QED  BY <1>13, <2>3, <2>4, <2>5, SMTT(30) DEF DoSpawnWrites
<1>14. CASE Closer \/ LinkFails \/ UNCHANGED vars
  <2>1. UNCHANGED <<wrote, sent, expected, connected, owner, role, reader, crashed>>
    BY <1>14, Zenon DEF Closer, CloseCheck, CloseNotify, CloseCancel, CloseConn,
                 LinkFails, vars
  <2>. QED  BY <1>k, <1>o, <2>1, SameWritten, SMTT(30) DEF ProgressInv
<1>15. ASSUME NEW k \in Kinds, Send(k)
       PROVE  ProgressInv' /\ HandshakeWriteOrder'
  <2>1. UNCHANGED <<wrote, expected, connected, owner, role, reader, crashed>>
    BY <1>15, SMTT(30) DEF Send
  <2>2. ASSUME "ConnectionResponse" \in Range(sent)',
               "ConnectionResponse" \notin Range(sent)
        PROVE  Written("ConnectionRequest")
    <3>1. k = "ConnectionResponse"
      <4>1. /\ sent \in Seq(Kinds) /\ Len(sent) \in Nat
            /\ sent' = Append(sent, k)
        BY <1>15, <1>t DEF Send, TypeOK
      <4>2. PICK i \in DOMAIN sent' : sent'[i] = "ConnectionResponse"
        BY <2>2 DEF Range
      <4>3. CASE i = Len(sent) + 1
        BY <4>1, <4>2, <4>3
      <4>4. CASE i \in 1 .. Len(sent)
        <5>1. sent[i] = "ConnectionResponse" /\ i \in DOMAIN sent
          BY <4>1, <4>2, <4>4
        <5>. QED  BY <2>2, <5>1 DEF Range
      <4>. QED  BY <4>1, <4>3, <4>4, SMTT(30)
    <3>. QED  BY <1>15, <3>1 DEF Send, Written
  <2>. QED  BY <1>k, <1>o, <2>1, <2>2, SameWritten, SMTT(30) DEF ProgressInv
<1>16. CASE ForeignWrite
  <2>1. WriteSucceeds("Other")
        /\ UNCHANGED <<sent, expected, connected, owner, role, reader, crashed>>
    BY <1>16 DEF ForeignWrite
  <2>2. HandshakeWriteOrder'
    BY <1>k, <1>p, <1>s, <2>1, SMTT(30)
  <2>3. ProgressInv'
    BY <1>c, <1>k, <2>1 DEF ProgressInv
  <2>. QED  BY <2>2, <2>3
<1>17. CASE HandleStartGame \/ HandleItemRegistry
  <2>1. UNCHANGED wrote \/ WriteSucceeds("RequestChunkRadius")
    BY <1>17, <1>f DEF HandleStartGame, HandleItemRegistry
  <2>. QED  BY <1>3, <1>5, <1>6, <1>17, <2>1
<1>. QED
  BY <1>1, <1>2, <1>7, <1>8, <1>9, <1>10, <1>11, <1>12, <1>13, <1>14, <1>15, <1>16,
     <1>17 DEF Next, Reader, Owner, Environment

\* The packets of the connection sequence are written in its order, each once, for
\* both kinds of owner and whatever else is written in between.
THEOREM WritesInOrder == Spec => []HandshakeWriteOrder
<1>1. Init => RoleInv /\ ProgressInv /\ HandshakeWriteOrder
  BY DEF Init, RoleInv, ProgressInv, HandshakeWriteOrder, Written, Range
<1>2. Inv => TypeOK
  BY DEF Inv
<1>. QED  BY <1>1, <1>2, Invariance, RoleStep, ProgressStep, PTL DEF Spec

\* Nothing changes the game data once the owner may read it.
THEOREM GameDataStable == Spec => GameDataFrozen
<1>1. Inv /\ [Next]_vars => [connected => gameData' = gameData]_vars
  <2>. SUFFICES ASSUME Inv, [Next]_vars, connected PROVE gameData' = gameData
    OBVIOUS
  <2>1. expected = "PlayStatus"
    BY DEF Inv, ControlInv
  <2>. USE DEF connVars
  <2>2. CASE Reader
    <3>1. /\ ~HandleStartGame /\ ~HandleItemRegistry
          /\ ~HandleChunkRadiusUpdated
      BY <2>1, SMTT(30) DEF HandleStartGame, HandleItemRegistry, HandleChunkRadiusUpdated,
                  Handling
    <3>. QED
      BY <2>2, <3>1, Zenon
         DEF Reader, SelectDone, SelectDeferred, SelectSpawned, SelectDefault,
             ReadDecoded, ReadRaw, ReadGame, ReadError, ReadEmpty,
             HandleUnexpected, HandleConnectionResponse, HandlePlayStatus,
             CallOnConnect, CallbackSpawn, CallbackInitialise
  <2>3. CASE Owner \/ Closer
    BY <2>3, ZenonT(30) DEF Owner, DoConnect, OnConnect, WaitConnect, StartGame, DoSpawn,
                DoSpawnWrites, GiveUp, Closer, CloseCheck, CloseNotify,
                CloseCancel, CloseConn
  <2>4. CASE Environment \/ UNCHANGED vars
    BY <2>4, SMTT(30) DEF Environment, Send, LinkFails, ForeignWrite, vars
  <2>. QED  BY <2>2, <2>3, <2>4 DEF Next
<1>. QED  BY <1>1, Invariance, PTL DEF Spec, GameDataFrozen

-----------------------------------------------------------------------------
\* A Conn implements a PacketPipe.

\* The packets inside the pipe are those deferred, the one in hand and those
\* that read() has not taken off the stream yet.
LEMMA InsidePipe ==
    ASSUME Inv
    PROVE  Pipe!Inside = Range(deferred) \cup ({hand} \ {0})
                           \cup (nread + 1 .. Len(sent))
<1>1. /\ nread \in Nat /\ Len(sent) \in Nat /\ nread <= Len(sent)
      /\ 1 .. nread = Range(delivered) \cup Range(deferred)
                         \cup ({hand} \ {0}) \cup Absorbed
      /\ Absorbed \cap (Range(delivered) \cup Range(deferred)) = {}
  BY DEF Inv, TypeOK, NothingLost
<1>2. hand # 0 => hand \notin Absorbed \cup Range(delivered)
  BY DEF Inv, TypeOK, HandInv, DeliveryOrder
<1>3. Range(deferred) \cap Range(delivered) = {}
  <2>1. Range(deferred) \subseteq Nat
    BY <1>1, SMTT(30)
  <2>. QED  BY <2>1 DEF Inv, DeliveryOrder
<1>4. Pipe!Inside = (1 .. Len(sent)) \ (Absorbed \cup Range(delivered))
  BY DEF Pipe!Inside, Range
<1>5. 1 .. Len(sent) = (1 .. nread) \cup (nread + 1 .. Len(sent))
  BY <1>1
<1>6. \A n \in nread + 1 .. Len(sent) : n \notin 1 .. nread
  BY <1>1
<1>. QED  BY <1>1, <1>2, <1>3, <1>4, <1>5, <1>6

\* Every step of a Conn puts a packet into the pipe, withdraws one before it is
\* opened, opens it, delivers the oldest packet inside, or does nothing to it.
LEMMA PipeStep == Inv /\ Inv' /\ [Next]_vars => [Pipe!Next]_(Pipe!vars)
<1>. SUFFICES ASSUME Inv, Inv', [Next]_vars PROVE [Pipe!Next]_(Pipe!vars)
  OBVIOUS
<1>. DEFINE Same == UNCHANGED <<Len(sent), Absorbed, delivered>>
<1>s. Same /\ UNCHANGED spawned => UNCHANGED Pipe!vars
  BY DEF Pipe!vars
<1>o. Same /\ spawned' = TRUE => Pipe!Next
  BY DEF Pipe!Next, Pipe!Open
<1>t. nread \in Nat /\ Len(sent) \in Nat /\ nread <= Len(sent)
  BY DEF Inv, TypeOK
<1>1. ASSUME NEW k \in Kinds, Send(k) PROVE Pipe!Next
  <2>1. Len(sent') = Len(sent) + 1
    BY <1>1, SMTT(30) DEF Send, Inv, TypeOK
  <2>2. UNCHANGED <<spawned, Absorbed, delivered>>
    BY <1>1 DEF Send, Absorbed, connVars, chanVars
  <2>. QED  BY <2>1, <2>2, SMTT(30) DEF Pipe!Next, Pipe!Put
<1>2. CASE SelectDeferred
  <2>1. /\ Head(deferred) \in Nat
        /\ Range(deferred) = {Head(deferred)} \cup Range(Tail(deferred))
        /\ \A x \in Range(Tail(deferred)) : Head(deferred) < x
    BY <1>2, TailFacts, Zenon DEF SelectDeferred, Inv, TypeOK, DeliveryOrder
  <2>2. Head(deferred) \in Pipe!Inside /\ Head(deferred) \in 1 .. nread
    BY <2>1, InsidePipe, SMTT(30) DEF Inv, NothingLost
  <2>3. ASSUME NEW m \in Pipe!Inside PROVE Head(deferred) <= m
    <3>1. CASE m \in Range(deferred)
      BY <2>1, <3>1 DEF Inv, NothingLost
    <3>2. CASE m = hand /\ hand # 0
      BY <1>2, <3>2 DEF SelectDeferred, Inv, HandInv
    <3>3. CASE m \in nread + 1 .. Len(sent)
      BY <1>t, <2>2, <3>3, SMTT(30)
    <3>. QED  BY <3>1, <3>2, <3>3, InsidePipe
  <2>4. /\ spawned
        /\ delivered' = Append(delivered, Head(deferred))
        /\ UNCHANGED <<Len(sent), spawned, Absorbed>>
    BY <1>2 DEF SelectDeferred, Absorbed, chanVars, wireVars
  <2>. QED  BY <2>2, <2>3, <2>4, SMTT(30) DEF Pipe!Next, Pipe!Deliver
<1>3. CASE ReadGame
  <2>1. /\ hand = 0 /\ deferred = <<>> /\ spawned
        /\ nread < Len(sent)
        /\ delivered' = Append(delivered, nread + 1)
        /\ UNCHANGED <<Len(sent), spawned, Absorbed>>
    BY <1>3 DEF ReadGame, Readable, Inv, HandInv, ControlInv, Absorbed,
                connVars, chanVars
  <2>2. Pipe!Inside = nread + 1 .. Len(sent)
    <3>1. Range(deferred) = {}
      BY <2>1 DEF Range
    <3>. QED  BY <2>1, <3>1, InsidePipe
  <2>3. nread + 1 \in Pipe!Inside /\ \A m \in Pipe!Inside : nread + 1 <= m
    BY <1>t, <2>1, <2>2
  <2>. QED  BY <2>1, <2>3, SMTT(30) DEF Pipe!Next, Pipe!Deliver
<1>4. ASSUME reader = "handle", ~spawned, UNCHANGED <<sent, spawned, delivered>>,
             Absorbed' = Absorbed \cup {hand}
      PROVE  Pipe!Next
  <2>1. hand \in Pipe!Inside
    BY <1>4, InsidePipe DEF Inv, HandInv
  <2>. QED  BY <1>4, <2>1 DEF Pipe!Next, Pipe!Withdraw
<1>5. expected # "PlayStatus" => ~spawned
  BY DEF Inv, ControlInv
<1>h. reader = "handle" => hand # 0
  BY DEF Inv, HandInv
<1>6. CASE HandleConnectionResponse
  <2>1. Absorbed' = Absorbed \cup {hand}
    BY <1>6, <1>h, SMTT(30) DEF HandleConnectionResponse, Handling, Absorbed, Inv, StageInv
  <2>. QED
    BY <1>4, <1>5, <1>6, <2>1, SMTT(30) DEF HandleConnectionResponse, Handling, chanVars,
                                  wireVars
<1>7. CASE HandleStartGame
  <2>1. gameData = NoGameData
    BY <1>7, SMTT(30) DEF HandleStartGame, Handling, Inv, StageInv
  <2>2. /\ reader = "handle" /\ ~spawned
        /\ UNCHANGED <<sent, spawned, delivered, runtimeID>>
    BY <1>5, <1>7 DEF HandleStartGame, Handling, chanVars, wireVars
  <2>3. CASE UNCHANGED gameData
    BY <1>s, <2>2, <2>3 DEF Absorbed
  <2>4. CASE gameData' = [entity |-> runtimeID, world |-> hand,
                          items |-> 0, radius |-> 0]
    <3>1. Absorbed' = Absorbed \cup {hand}
      BY <1>h, <2>1, <2>2, <2>4 DEF Absorbed, NoGameData
    <3>. QED  BY <1>4, <2>2, <3>1, SMTT(30)
  <2>. QED  BY <1>7, <2>3, <2>4, SMTT(30) DEF HandleStartGame
<1>8. CASE HandleItemRegistry
  <2>1. gameData.items = 0 /\ gameData'.items = hand
        /\ gameData'.world = gameData.world /\ UNCHANGED runtimeID
    BY <1>8 DEF HandleItemRegistry, Handling, Inv, TypeOK, StageInv
  <2>2. Absorbed' = Absorbed \cup {hand}
    BY <1>8, <1>h, <2>1 DEF HandleItemRegistry, Handling, Absorbed
  <2>. QED
    BY <1>4, <1>5, <1>8, <2>2 DEF HandleItemRegistry, Handling, chanVars,
                                  wireVars
<1>9. CASE HandleChunkRadiusUpdated
  <2>1. gameData'.world = gameData.world /\ gameData'.items = gameData.items
    BY <1>9 DEF HandleChunkRadiusUpdated, Inv, TypeOK
  <2>. QED
    BY <1>s, <1>9, <2>1 DEF HandleChunkRadiusUpdated, Absorbed, chanVars, wireVars
<1>10. CASE \/ SelectDone \/ SelectSpawned \/ SelectDefault \/ ReadDecoded
            \/ ReadRaw \/ ReadError \/ ReadEmpty
  BY <1>s, <1>10, Zenon DEF SelectDone, SelectSpawned, SelectDefault, ReadDecoded,
     ReadRaw, ReadError, ReadEmpty, Absorbed, connVars, chanVars, wireVars
<1>11. CASE \/ HandleUnexpected \/ HandlePlayStatus \/ CallOnConnect
            \/ CallbackInitialise
  BY <1>s, <1>11, SMTT(30) DEF HandleUnexpected, HandlePlayStatus, CallOnConnect,
     CallbackInitialise, Absorbed, connVars, chanVars, wireVars
<1>12. CASE CallbackSpawn \/ DoSpawn
  BY <1>s, <1>o, <1>12 DEF CallbackSpawn, DoSpawn, SpawnSignal, Absorbed,
     connVars, wireVars
<1>13. CASE \/ DoConnect \/ OnConnect \/ WaitConnect \/ StartGame
            \/ DoSpawnWrites \/ GiveUp \/ Closer
  BY <1>s, <1>13, Zenon DEF DoConnect, OnConnect, WaitConnect, StartGame,
     DoSpawnWrites, GiveUp, Closer, CloseCheck, CloseNotify, CloseCancel,
     CloseConn, Absorbed, connVars, chanVars, wireVars
<1>14. CASE LinkFails \/ ForeignWrite \/ UNCHANGED vars
  BY <1>s, <1>14 DEF LinkFails, ForeignWrite, vars, Absorbed, connVars,
     chanVars, wireVars
<1>. QED
  BY <1>1, <1>2, <1>3, <1>6, <1>7, <1>8, <1>9, <1>10, <1>11, <1>12, <1>13,
     <1>14 DEF Next, Reader, Owner, Environment

\* A Conn implements a PacketPipe.
THEOREM ConnIsPipe == Spec => PipeSpec
<1>1. Init => Pipe!Init
  BY DEF Init, Pipe!Init, Absorbed, NoGameData
<1>. QED  BY <1>1, PipeStep, Invariance, PTL DEF Spec, Pipe!Spec, PipeSpec

=============================================================================
