------------------------------ MODULE Framing ------------------------------
(***************************************************************************)
(* protocol/writer.go and protocol/reader.go over one stream, with the     *)
(* payloads that server/conn.go puts into frames.  Several goroutines of a *)
(* session share the Writer; the stream may break at any byte.             *)
(*                                                                         *)
(* A byte is a record: a length (an uint32 counts as one, in the byte      *)
(* order it is written in), the flags, one of the bytes of a packet, or    *)
(* what snappy made of a whole buffer.                                     *)
(***************************************************************************)
EXTENDS Naturals, Sequences

CONSTANTS
    Writers,     \* goroutines that write
    Threshold,   \* compressionThreshold
    BatchOrder   \* byte order in which the peer reads the lengths inside a batch

ASSUME WritersAssumption == "none" \notin Writers
ASSUME ThresholdAssumption == Threshold \in Nat
\* The peer, which is not in the repository, reads what WriteBatch writes.  A
\* peer written from WriteBatch's comment ("Write the length of the packet, 4
\* bytes big-endian") would not.
ASSUME BatchOrderAssumption == BatchOrder = "little"

VARIABLES
    stream,   \* bytes on their way to the peer
    linkUp,   \* the stream takes bytes
    mu,       \* who holds w.mu, or "none"
    rest,     \* the Write calls each goroutine still has to make for its frame
    peerUp    \* the peer's reader has not failed

streamVars == <<stream, linkUp, mu, rest, peerUp>>

FramingInit ==
    /\ stream = <<>> /\ linkUp = TRUE /\ mu = "none"
    /\ rest = [w \in Writers |-> <<>>]
    /\ peerUp = TRUE

-----------------------------------------------------------------------------
\* Payloads.  A packet is a record with its size in bytes.

LengthByte(n, order) == [is |-> "length", of |-> n, order |-> order]
FlagsByte(flags) == [is |-> "flags", of |-> flags]
PacketBytes(p) == [i \in 1 .. p.size |-> [is |-> "packet", of |-> p]]
snappyEncode(bytes) == <<[is |-> "snappy", of |-> bytes]>>

\* What a round of WriteBatch's loop writes, and its buffer after each round.  The
\* lengths are little-endian here, that of a frame is big-endian.
Prefixed(p) == <<LengthByte(p.size, "little")>> \o PacketBytes(p)
Filling(payloads) ==
    LET buf[i \in 0 .. Len(payloads)] ==
          IF i = 0 THEN <<>> ELSE buf[i - 1] \o Prefixed(payloads[i])
    IN  buf
BatchBytes(payloads) == Filling(payloads)[Len(payloads)]

\* The Write calls of WriteWithFlags: the length and the flags, then the data.
WriteWithFlags(flags, data) ==
    <<<<LengthByte(Len(data) + 1, "big"), FlagsByte(flags)>>, data>>

\* The end of WriteBatch, WritePacket and Write: large buffers are compressed.
Frame(flags, buf) ==
    IF Len(buf) > Threshold
    THEN WriteWithFlags(flags \cup {"compressed"}, snappyEncode(buf))
    ELSE WriteWithFlags(flags, buf)

-----------------------------------------------------------------------------
\* The Writer.

\* Mutant: the Writer has no mutex.
LockNothing(w, frame) ==
    /\ rest' = [rest EXCEPT ![w] = frame]
    /\ UNCHANGED <<stream, linkUp, mu, peerUp>>

Lock(w, frame) ==
    /\ mu = "none"
    /\ mu' = w
    /\ rest' = [rest EXCEPT ![w] = frame]
    /\ UNCHANGED <<stream, linkUp, peerUp>>

\* One Write of the underlying stream; after the last one w.mu is released.  A
\* stream that is broken may take bytes for a while; they reach nobody.
WritePart(w) ==
    /\ rest[w] # <<>>
    /\ stream' = IF linkUp THEN stream \o Head(rest[w]) ELSE stream
    /\ rest' = [rest EXCEPT ![w] = Tail(@)]
    /\ mu' = IF Len(rest[w]) = 1 THEN "none" ELSE mu
    /\ UNCHANGED <<linkUp, peerUp>>

\* It fails: the frame is abandoned and w.mu released.
WriteFails(w) ==
    /\ rest[w] # <<>> /\ ~linkUp
    /\ rest' = [rest EXCEPT ![w] = <<>>]
    /\ mu' = "none"
    /\ UNCHANGED <<stream, linkUp, peerUp>>

\* The stream breaks or is closed, for good, possibly in the middle of a Write.
LinkFails ==
    /\ linkUp
    /\ linkUp' = FALSE
    /\ \/ UNCHANGED stream
       \/ \E w \in Writers : /\ rest[w] # <<>>
                             /\ \E n \in 1 .. Len(Head(rest[w])) :
                                   stream' = stream \o SubSeq(Head(rest[w]), 1, n)
    /\ UNCHANGED <<mu, rest, peerUp>>

-----------------------------------------------------------------------------
\* The peer's Reader: ReadPacket reads a length, then that many bytes.

\* An uint32 read in the other byte order.
Reversed(n) ==
    (n % 256) * 16777216 + ((n \div 256) % 256) * 65536
    + ((n \div 65536) % 256) * 256 + ((n \div 16777216) % 256)

\* Any byte read as a length is a number.
AsLength(byte, order) ==
    IF byte.is # "length" THEN 1
    ELSE IF byte.order = order THEN byte.of ELSE Reversed(byte.of)

NextLength == IF stream = <<>> THEN 0 ELSE AsLength(Head(stream), "big")
Complete == stream # <<>> /\ Len(stream) > NextLength
NextFrame == SubSeq(stream, 2, NextLength + 1)

ReadPacket ==
    /\ peerUp /\ Complete
    /\ stream' = SubSeq(stream, NextLength + 2, Len(stream))
    /\ UNCHANGED <<linkUp, mu, rest, peerUp>>

\* Both reads fail at the end of the stream, ReadFull also in mid-frame.
ReadFails ==
    /\ peerUp /\ ~linkUp /\ ~Complete
    /\ peerUp' = FALSE
    /\ UNCHANGED <<stream, linkUp, mu, rest>>

-----------------------------------------------------------------------------
\* What the peer makes of a frame.

snappyDecode(bytes) ==
    IF Len(bytes) = 1 /\ bytes[1].is = "snappy" THEN bytes[1].of ELSE <<>>

Garbage == [size |-> 0]
AsPacket(bytes) ==
    IF bytes # <<>> /\ bytes[1].is = "packet" /\ bytes = PacketBytes(bytes[1].of)
    THEN bytes[1].of ELSE Garbage

\* One packet taken out of a batch: a length, then that many bytes.  A length that
\* overruns the batch ends it.
Take(bytes, s) ==
    IF s.at = Len(bytes) THEN s
    ELSE LET n == AsLength(bytes[s.at + 1], BatchOrder) IN
         IF s.at + n >= Len(bytes)
         THEN [at |-> Len(bytes), got |-> Append(s.got, Garbage)]
         ELSE [at |-> s.at + n + 1,
               got |-> Append(s.got, AsPacket(SubSeq(bytes, s.at + 2, s.at + n + 1)))]
Taking(bytes) ==
    LET taken[i \in 0 .. Len(bytes)] ==
          IF i = 0 THEN [at |-> 0, got |-> <<>>] ELSE Take(bytes, taken[i - 1])
    IN  taken
Unbatch(bytes) == Taking(bytes)[Len(bytes)].got

Decode(frame) ==
    LET flags == IF frame # <<>> /\ frame[1].is = "flags" THEN frame[1].of ELSE {}
        data == IF frame = <<>> THEN <<>> ELSE Tail(frame)
        buf == IF "compressed" \in flags THEN snappyDecode(data) ELSE data
    IN  IF "batch" \in flags THEN Unbatch(buf) ELSE <<AsPacket(buf)>>
=============================================================================
