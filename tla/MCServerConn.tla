---------------------------- MODULE MCServerConn ----------------------------
(* ServerConn with a server that sends each packet of the sequence at most   *)
(* the number of times that matters, in any order, plus ordinary packets.    *)
EXTENDS ServerConn

Bound(k, single, double) == IF k \in double THEN 2 ELSE IF k \in single THEN 1 ELSE 0

\* A player with a recent protocol logs in: the five packets, which out of their
\* turn are packets to forward, a second StartGame, a malformed and an empty frame.
NewProtocol == [k \in Kinds |->
    Bound(k, (HandshakeKinds \cup {"Bad", "Empty"}) \ {"StartGame"}, {"StartGame"})]
\* One with an older protocol is transferred: no item registry, a raw payload, and
\* another goroutine writes to the conn.
OldProtocol == [k \in Kinds |-> Bound(k, (HandshakeKinds \cup {"Raw"}) \ {"ItemRegistry"}, {})]

NewLogin == [r \in Roles |-> r = "login"]
Packets == [r \in Roles |-> IF r = "login" THEN NewProtocol ELSE OldProtocol]
Writes == [r \in Roles |-> IF r = "login" THEN 0 ELSE 1]

\* The shortest sequence, for the runs about what comments promise.
Nobody == [r \in Roles |-> FALSE]
Shortest == [r \in Roles |-> [k \in Kinds |->
    Bound(k, {"ConnectionResponse", "StartGame", "ChunkRadiusUpdated"},
             {"PlayStatus"})]]
NoWrites == [r \in Roles |-> 0]
=============================================================================
