---------------------------- MODULE ClientBatch ----------------------------
(***************************************************************************)
(* The way of a player's packets to the server: handleClient's batches     *)
(* (session/handler.go), the pooled PacketContexts (session/processor.go), *)
(* WriteBatch and WritePacket (server/conn.go) and, from Framing, the      *)
(* stream.  handleLatency writes to the same conn; the pool is shared with *)
(* other goroutines and sessions.                                          *)
(***************************************************************************)
EXTENDS Framing, Functions

CONSTANTS
    Packets,     \* what the client may send
    Ctxs,        \* bound: PacketContexts in memory
    MaxBatch,    \* bound: packets in a batch
    MaxPackets,  \* bound: packets in all batches
    MaxLatency   \* bound: ticks of handleLatency

ASSUME GoroutinesAssumption == {"client", "latency"} \subseteq Writers
\* A packet whose header can be read is not empty.
ASSUME PacketsAssumption ==
    \A p \in Packets : p.size \in Nat /\ (p.header => p.size > 0)
ASSUME BoundsAssumption ==
    MaxBatch \in Nat /\ MaxPackets \in Nat /\ MaxLatency \in Nat

VARIABLES
    opts,      \* SyncProtocol, EnableAllClientDecode, and is the client up to date
    client,    \* where handleClient is
    input,     \* the batch it handles
    done,      \* how many packets of the batch are decoded
    ctxBatch,  \* handleClientBatch's contexts, those not yet encoded
    fate,      \* what the processor did with each packet of the batch
    payloads,  \* handleClientBatch's payloadBatch
    mem,       \* the fields of each context
    pool,      \* pkCtxPool
    other,     \* contexts other goroutines use
    latency,   \* where handleLatency is
    left,      \* packets and ticks still to come
    connDone,  \* the conn's context is done
    owed,      \* ghost: what was handed to the Writer and not read by the peer
    agreed     \* ghost: all the peer read so far is what it was owed

batchVars == <<client, input, done, ctxBatch, fate, payloads>>
poolVars == <<mem, pool, other>>
vars == <<streamVars, opts, batchVars, poolVars, latency, left, connDone, owed,
          agreed>>

Fresh == [raw |-> <<>>, decoded |-> <<>>, modified |-> FALSE, canceled |-> FALSE]

Init ==
    /\ FramingInit
    /\ opts \in [sync : BOOLEAN, all : BOOLEAN, latest : BOOLEAN]
    /\ client = "read" /\ input = <<>> /\ done = 0 /\ ctxBatch = <<>>
    /\ fate = <<>> /\ payloads = <<>>
    /\ mem = [c \in Ctxs |-> Fresh] /\ pool = {} /\ other = {}
    /\ latency = "wait" /\ left = [packet |-> MaxPackets, tick |-> MaxLatency]
    /\ connDone = FALSE /\ owed = <<>> /\ agreed = TRUE

\* A packet in the encoding of one protocol version.
Encoded(p, latest, changed) ==
    [id |-> p.id, size |-> p.size, latest |-> latest, changed |-> changed]
\* The version handleClientBatch encodes with: the client's under SyncProtocol.
ProtoLatest == opts.latest \/ ~opts.sync

-----------------------------------------------------------------------------
\* PacketContext.

\* NewPacketContext: pkCtxPool.Get returns a pooled context or a new one.
InUse == Range(ctxBatch) \cup other
Gettable == pool \cup (Ctxs \ InUse)
\* Mutant: the context stays in the pool.
NewPacketContextShared(c, raw, decoded) ==
    /\ c \in Gettable
    /\ mem' = [mem EXCEPT ![c] = [Fresh EXCEPT !.raw = raw, !.decoded = decoded]]
    /\ UNCHANGED pool

NewPacketContext(c, raw, decoded) ==
    /\ c \in Gettable
    /\ LET old == IF c \in pool THEN mem[c] ELSE Fresh IN
       mem' = [mem EXCEPT ![c] = [old EXCEPT !.raw = raw, !.decoded = decoded]]
    /\ pool' = pool \ {c}

\* Mutant: something that is no context is put into the pool.
ReturnNothing(c) == pool' = pool \cup {"nil"} /\ UNCHANGED mem

ReturnPacketContext(c) ==
    /\ mem' = [mem EXCEPT ![c] = Fresh]
    /\ pool' = pool \cup {c}

\* A context nobody refers to is garbage.
Forget(c) == mem' = [mem EXCEPT ![c] = Fresh] /\ UNCHANGED pool

\* Another session's handleClientBatch, or handleServer, which never returns its
\* contexts: a pooled context is taken and marked by the processor, then returned
\* or left to the garbage collector.
OtherTakes ==
    /\ other = {}
    /\ \E c \in pool :
          /\ mem' = [mem EXCEPT ![c] = [raw |-> <<>>, decoded |-> <<>>,
                                        modified |-> TRUE, canceled |-> TRUE]]
          /\ pool' = pool \ {c}
          /\ other' = {c}
    /\ UNCHANGED <<streamVars, opts, batchVars, latency, left, connDone, owed, agreed>>
OtherReturns ==
    /\ \E c \in other : ReturnPacketContext(c) \/ Forget(c)
    /\ other' = {}
    /\ UNCHANGED <<streamVars, opts, batchVars, latency, left, connDone, owed, agreed>>

-----------------------------------------------------------------------------
\* handleClient.

ReadBatch ==
    /\ client = "read"
    /\ \E n \in 1 .. MaxBatch :
          /\ n <= left.packet
          /\ input' \in [1 .. n -> Packets]
          /\ left' = [left EXCEPT !.packet = @ - n]
    /\ client' = "decode"
    /\ UNCHANGED <<streamVars, opts, done, ctxBatch, fate, payloads, poolVars, latency,
                   connDone, owed, agreed>>

\* Mutant: an outdated client's packets need no decoding either.
RawAllowedLegacy(p) == ~opts.all /\ ~p.listed
\* decodeAndCreateContext: not every packet has to be decoded.
RawAllowed(p) == ~opts.all /\ ~p.listed /\ (opts.sync \/ opts.latest)
Upgrades == ~opts.sync /\ ~opts.latest
DecodeFails(p) == ~p.header \/ (~RawAllowed(p) /\ ~p.body)
\* The upgrade to the latest version may leave nothing; the code takes the first
\* packet if there are more.
Dropped(p) == ~RawAllowed(p) /\ Upgrades /\ p.upgrades = 0

DecodeNext ==
    /\ client = "decode" /\ done < Len(input)
    /\ LET p == input[done + 1] IN
       \/ /\ DecodeFails(p)
          /\ client' = "failed"
          /\ UNCHANGED <<done, ctxBatch, mem, pool>>
       \/ /\ ~DecodeFails(p) /\ Dropped(p)
          /\ done' = done + 1
          /\ UNCHANGED <<client, ctxBatch, mem, pool>>
       \/ /\ ~DecodeFails(p) /\ ~Dropped(p)
          /\ \E c \in Ctxs :
                /\ NewPacketContext(c, <<Encoded(p, opts.latest, FALSE)>>,
                                    IF RawAllowed(p) THEN <<>> ELSE <<p>>)
                /\ ctxBatch' = Append(ctxBatch, c)
          /\ done' = done + 1
          /\ UNCHANGED client
    /\ UNCHANGED <<streamVars, opts, input, fate, payloads, other, latency, left,
                   connDone, owed, agreed>>

\* ProcessClient: the processor cancels packets and modifies decoded ones.
ProcessClient ==
    /\ client = "decode" /\ done = Len(input)
    /\ \E f \in [DOMAIN ctxBatch -> {"pass", "cancel", "modify"}] :
          /\ \A i \in DOMAIN f : f[i] = "modify" => mem[ctxBatch[i]].decoded # <<>>
          /\ fate' = f
          /\ mem' = [c \in Ctxs |->
                IF \E i \in DOMAIN f : ctxBatch[i] = c
                THEN LET i == CHOOSE i \in DOMAIN f : ctxBatch[i] = c IN
                     [mem[c] EXCEPT !.canceled = @ \/ f[i] = "cancel",
                                    !.modified = @ \/ f[i] = "modify"]
                ELSE mem[c]]
    /\ client' = "encode"
    /\ UNCHANGED <<streamVars, opts, input, done, ctxBatch, payloads, pool, other,
                   latency, left, connDone, owed, agreed>>

ForwardsRaw(c) ==
    (mem[c].decoded = <<>> \/ ~mem[c].modified) /\ opts.latest

\* One context of the second loop: dropped, forwarded as it came, or encoded
\* again.  ctx.decoded.ID() panics when nothing was decoded; the recover of
\* handleClientBatch makes that an error of the whole batch.
EncodeNext ==
    /\ client = "encode" /\ ctxBatch # <<>>
    /\ LET c == Head(ctxBatch) IN
       \/ /\ mem[c].canceled
          /\ ReturnPacketContext(c)
          /\ UNCHANGED <<client, payloads>>
       \/ /\ ~mem[c].canceled /\ ForwardsRaw(c)
          /\ payloads' = payloads \o mem[c].raw
          /\ ReturnPacketContext(c)
          /\ UNCHANGED client
       \/ /\ ~mem[c].canceled /\ ~ForwardsRaw(c)
          /\ IF mem[c].decoded = <<>>
             THEN client' = "panicked" /\ UNCHANGED payloads
             ELSE /\ payloads' = Append(payloads, Encoded(mem[c].decoded[1],
                                                          ProtoLatest, mem[c].modified))
                  /\ UNCHANGED client
          /\ Forget(c)
    /\ ctxBatch' = Tail(ctxBatch)
    /\ UNCHANGED <<streamVars, opts, input, done, fate, other, latency, left,
                   connDone, owed, agreed>>

\* What the server should get of a batch, from what the processor decided: of the
\* packets the upgrade leaves those not cancelled.
Kept[n \in 0 .. Len(input)] ==
    IF n = 0 THEN <<>>
    ELSE IF Dropped(input[n]) THEN Kept[n - 1] ELSE Append(Kept[n - 1], input[n])
Wanted[n \in 0 .. Len(fate)] ==
    IF n = 0 THEN <<>>
    ELSE IF fate[n] = "cancel" THEN Wanted[n - 1]
    ELSE Append(Wanted[n - 1],
                Encoded(Kept[Len(input)][n], ProtoLatest, fate[n] = "modify"))
Expected == Wanted[Len(fate)]

\* WriteBatch returns early for a conn that is done and for an empty batch.
WriteBatch ==
    /\ client = "encode" /\ ctxBatch = <<>>
    /\ \/ /\ connDone
          /\ client' = "failed"
          /\ UNCHANGED <<input, done, fate, payloads, owed>>
       \/ /\ ~connDone /\ payloads = <<>>
          /\ client' = "read"
          /\ owed' = IF Expected = <<>> THEN owed ELSE Append(owed, Expected)
          /\ input' = <<>> /\ done' = 0 /\ fate' = <<>> /\ payloads' = <<>>
       \/ /\ ~connDone /\ payloads # <<>>
          /\ client' = "lock"
          /\ UNCHANGED <<input, done, fate, payloads, owed>>
    /\ UNCHANGED <<streamVars, opts, ctxBatch, poolVars, latency, left, connDone,
                   agreed>>

\* By the time it has the Writer to itself the conn may be done.
WriteBatchFrame ==
    /\ client = "lock"
    /\ Lock("client", Frame({"batch"}, BatchBytes(payloads)))
    /\ client' = "write"
    /\ owed' = Append(owed, Expected)
    /\ input' = <<>> /\ done' = 0 /\ fate' = <<>> /\ payloads' = <<>>
    /\ UNCHANGED <<opts, ctxBatch, poolVars, latency, left, connDone, agreed>>

ClientWrites ==
    /\ \/ /\ WritePart("client")
          /\ client' = IF Len(rest["client"]) = 1 THEN "read" ELSE client
       \/ /\ WriteFails("client")
          /\ client' = "failed"
    /\ UNCHANGED <<opts, input, done, ctxBatch, fate, payloads, poolVars, latency,
                   left, connDone, owed, agreed>>

\* After any error the conn is closed and handleClient leaves its loop.
ClientEnds ==
    /\ client \in {"failed", "panicked"}
    /\ connDone' = TRUE
    /\ client' = "exited"
    /\ input' = <<>> /\ done' = 0 /\ ctxBatch' = <<>> /\ fate' = <<>> /\ payloads' = <<>>
    /\ mem' = [c \in Ctxs |-> IF c \in Range(ctxBatch) THEN Fresh ELSE mem[c]]
    /\ UNCHANGED <<streamVars, opts, pool, other, latency, left, owed, agreed>>

-----------------------------------------------------------------------------
\* handleLatency, and closing the conn.

LatencyPacket == [id |-> "Latency", size |-> 1, latest |-> TRUE, changed |-> FALSE]

\* WritePacket; handleLatency only logs its error.
LatencyTick ==
    /\ latency = "wait" /\ left.tick > 0
    /\ left' = [left EXCEPT !.tick = @ - 1]
    /\ latency' = IF connDone THEN "wait" ELSE "lock"
    /\ UNCHANGED <<streamVars, opts, batchVars, poolVars, connDone, owed, agreed>>
LatencyFrame ==
    /\ latency = "lock"
    /\ Lock("latency", Frame({}, PacketBytes(LatencyPacket)))
    /\ latency' = "write"
    /\ owed' = Append(owed, <<LatencyPacket>>)
    /\ UNCHANGED <<opts, batchVars, poolVars, left, connDone, agreed>>
LatencyWrites ==
    /\ \/ /\ WritePart("latency")
          /\ latency' = IF Len(rest["latency"]) = 1 THEN "wait" ELSE latency
       \/ WriteFails("latency") /\ latency' = "wait"
    /\ UNCHANGED <<opts, batchVars, poolVars, left, connDone, owed, agreed>>

\* CloseWithError of the conn: its context first, then the stream.
ConnClosed ==
    /\ ~connDone
    /\ connDone' = TRUE
    /\ UNCHANGED <<streamVars, opts, batchVars, poolVars, latency, left, owed, agreed>>
StreamEnds ==
    /\ LinkFails
    /\ UNCHANGED <<opts, batchVars, poolVars, latency, left, connDone, owed, agreed>>

\* The server.
PeerReads ==
    \/ /\ ReadFails
       /\ UNCHANGED <<opts, batchVars, poolVars, latency, left, connDone, owed, agreed>>
    \/ /\ ReadPacket
       /\ agreed' = (agreed /\ owed # <<>> /\ Decode(NextFrame) = Head(owed))
       /\ owed' = IF owed = <<>> THEN owed ELSE Tail(owed)
       /\ UNCHANGED <<opts, batchVars, poolVars, latency, left, connDone>>

-----------------------------------------------------------------------------
Next ==
    \/ ReadBatch \/ DecodeNext \/ ProcessClient \/ EncodeNext \/ WriteBatch
    \/ WriteBatchFrame \/ ClientWrites \/ ClientEnds \/ OtherTakes \/ OtherReturns
    \/ LatencyTick \/ LatencyFrame \/ LatencyWrites \/ ConnClosed \/ StreamEnds
    \/ PeerReads
Spec == Init /\ [][Next]_vars

TypeOK ==
    /\ client \in {"read", "decode", "encode", "lock", "write", "failed", "panicked",
                   "exited"}
    /\ latency \in {"wait", "lock", "write"} /\ mu \in Writers \cup {"none"}
    /\ pool \subseteq Ctxs /\ other \subseteq Ctxs
    /\ \A c \in Ctxs : Len(mem[c].raw) <= 1 /\ Len(mem[c].decoded) <= 1
    /\ done \in 0 .. MaxBatch /\ linkUp \in BOOLEAN /\ connDone \in BOOLEAN

\* The server gets every batch as the processor left it: each packet once and in
\* order, none that was cancelled, modified ones as modified, all in the protocol
\* version it speaks, and no bytes of another goroutine's frame in between, if it
\* reads the lengths in a batch in the byte order they are written in
\* (handleClientBatch, decodeAndCreateContext, WriteBatch, Writer, Reader).
ServerGetsBatches == agreed

\* A context belongs to one packet at a time, although every session takes them
\* from one pool (NewPacketContext, ReturnPacketContext).
ContextsApart ==
    /\ \A i, j \in DOMAIN ctxBatch : i # j => ctxBatch[i] # ctxBatch[j]
    /\ Range(ctxBatch) \cap other = {} /\ pool \cap other = {}
    /\ pool \cap Range(ctxBatch) = {}

\* A batch is lost to the nil decoded packet that EncodeNext would encode again only
\* for an outdated client under SyncProtocol; every other client's undecoded packets
\* are forwarded as they came (handleClientBatch, decodeAndCreateContext).
PanicOnlyLegacySync == client = "panicked" => opts.sync /\ ~opts.latest
=============================================================================
