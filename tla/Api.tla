-------------------------------- MODULE Api --------------------------------
(***************************************************************************)
(* api/: the service through which servers manage players, and Dial, its   *)
(* client side.  Each connection has a handler goroutine in the proxy.     *)
(* What the handlers of Kick and Transfer do is left to Proxy.             *)
(***************************************************************************)
EXTENDS Naturals, Sequences

CONSTANTS
    Peers,      \* connections that servers open
    Closers,    \* goroutines that call API.Close
    Window      \* bound: packets in flight from a peer to its handler

ASSUME WindowAssumption == Window \in Nat \ {0}

VARIABLES
    auth,       \* a.authentication # nil
    peer,       \* the server's end: inside Dial, or using the connection
    wire,       \* the packets on their way to the proxy
    first,      \* ghost: was the first packet a request with the right token
    answer,     \* the ConnectionResponse on its way to Dial
    handler,    \* where handle is
    id,         \* handle's id
    clients,    \* a.clients, as pairs of an id and a connection
    nextId,     \* a.nextId
    closed,     \* a.closed is closed
    accepting,  \* a.listener is open
    closer,     \* where each API.Close is
    crashed     \* a panic ended the proxy

peerVars == <<peer, first>>
handleVars == <<wire, answer, handler, id, clients, nextId>>
closeVars == <<closed, accepting, closer, crashed>>
apiVars == <<auth, peerVars, handleVars, closeVars>>

\* A ConnectionRequest with a token Authenticate takes, and with another, for which
\* no handler is registered later on; a Kick or Transfer; one ReadPacket fails on.
Kinds == {"good token", "bad token", "request", "bad"}

\* NewAPI and Listen.
ApiInit ==
    /\ auth \in BOOLEAN
    /\ peer = [c \in Peers |-> "off"] /\ first = [c \in Peers |-> "none"]
    /\ wire = [c \in Peers |-> <<>>] /\ answer = [c \in Peers |-> "none"]
    /\ handler = [c \in Peers |-> "none"] /\ id = [c \in Peers |-> 0]
    /\ clients = {} /\ nextId = 0
    /\ closed = FALSE /\ accepting = TRUE
    /\ closer = [k \in Closers |-> "idle"] /\ crashed = FALSE

-----------------------------------------------------------------------------
\* The server's end.

\* A server connects; it uses Dial or an implementation of its own.
PeerConnects(c) ==
    /\ peer[c] = "off" /\ accepting
    /\ \E how \in {"dialled", "other"} : peer' = [peer EXCEPT ![c] = how]
    /\ handler' = [handler EXCEPT ![c] = "backlog"]
    /\ UNCHANGED <<auth, first, wire, answer, id, clients, nextId, closeVars>>

Send(c, k) ==
    /\ Len(wire[c]) < Window
    /\ wire' = [wire EXCEPT ![c] = Append(@, k)]
    /\ first' = IF first[c] # "none" THEN first
                ELSE [first EXCEPT ![c] = IF k = "good token" THEN "right" ELSE "wrong"]

DialWrites(c) ==
    /\ peer[c] = "dialled"
    /\ \E k \in {"good token", "bad token"} : Send(c, k)
    /\ peer' = [peer EXCEPT ![c] = "requested"]
    /\ UNCHANGED <<auth, answer, handler, id, clients, nextId, closeVars>>

\* ConnectionResponse.Decode reads into a copy of the field, which stays zero.
DecodeResponse(r) == "success"

\* The read fails when handle closed the connection without an answer, or its
\* close discarded it (SetLinger(0)).  Every error return of Dial sets its result
\* to nil first, so that the deferred Close panics.
DialReads(c) ==
    /\ peer[c] = "requested"
    /\ \/ /\ answer[c] # "none" /\ DecodeResponse(answer[c]) = "success"
          /\ peer' = [peer EXCEPT ![c] = "client"]
          /\ answer' = [answer EXCEPT ![c] = "none"]
       \/ /\ handler[c] = "done" /\ answer[c] = "none"
          /\ peer' = [peer EXCEPT ![c] = "panicked"]
          /\ UNCHANGED answer
    /\ UNCHANGED <<auth, first, wire, handler, id, clients, nextId, closeVars>>

\* WritePacket.
PeerSends(c) ==
    /\ peer[c] \in {"client", "other"} /\ handler[c] # "done"
    /\ \E k \in Kinds : Send(c, k)
    /\ UNCHANGED <<auth, peer, answer, handler, id, clients, nextId, closeVars>>

PeerLeaves(c) ==
    /\ peer[c] \in {"dialled", "requested", "client", "other"}
    /\ peer' = [peer EXCEPT ![c] = "gone"]
    /\ answer' = [answer EXCEPT ![c] = "none"]
    /\ UNCHANGED <<auth, first, wire, handler, id, clients, nextId, closeVars>>

-----------------------------------------------------------------------------
\* Accept and handle.

AcceptClient(c) ==
    /\ handler[c] = "backlog" /\ accepting
    /\ id' = [id EXCEPT ![c] = nextId]
    /\ clients' = {x \in clients : x[1] # nextId} \cup {<<nextId, c>>}
    /\ nextId' = nextId + 1
    /\ handler' = [handler EXCEPT ![c] = "request"]
    /\ UNCHANGED <<auth, peerVars, wire, answer, closeVars>>

\* What ReadPacket returns: a packet, or an error for one that cannot be decoded
\* and at the end of the stream.
Gone(c) == peer[c] \in {"gone", "panicked"}
Reads(c, k) ==
    \/ wire[c] # <<>> /\ k = Head(wire[c]) /\ wire' = [wire EXCEPT ![c] = Tail(@)]
    \/ wire[c] = <<>> /\ Gone(c) /\ k = "bad" /\ UNCHANGED wire

\* Mutant: the token is not looked at.
ResponseUnchecked(k) == IF k \in {"good token", "bad token"} THEN "success" ELSE "fail"

Response(k) ==
    CASE k = "good token" \/ (k = "bad token" /\ ~auth) -> "success"
      [] k = "bad token" /\ auth -> "unauthorized"
      [] OTHER -> "fail"

\* The first packet, and the answer to it, whose write may fail.
HandleFirst(c) ==
    /\ handler[c] = "request"
    /\ \E k \in Kinds :
          /\ Reads(c, k)
          /\ \/ /\ answer' = IF peer[c] = "requested"
                              THEN [answer EXCEPT ![c] = Response(k)] ELSE answer
                /\ handler' = [handler EXCEPT ![c] =
                      IF Response(k) = "success" THEN "loop" ELSE "cleanup"]
             \/ /\ Gone(c)
                /\ handler' = [handler EXCEPT ![c] = "cleanup"]
                /\ UNCHANGED answer
    /\ UNCHANGED <<auth, peerVars, id, clients, nextId, closeVars>>

HandleLoop(c) ==
    /\ handler[c] = "loop"
    /\ handler' = [handler EXCEPT ![c] = IF closed THEN "cleanup" ELSE "read"]
    /\ UNCHANGED <<auth, peerVars, wire, answer, id, clients, nextId, closeVars>>

\* A packet nobody registered for is logged; an error ends the connection.
HandleRead(c) ==
    /\ handler[c] = "read"
    /\ \E k \in Kinds :
          /\ Reads(c, k)
          /\ handler' = [handler EXCEPT ![c] =
                CASE k = "request" -> "handle" [] k = "bad" -> "cleanup"
                  [] OTHER -> "loop"]
    /\ UNCHANGED <<auth, peerVars, answer, id, clients, nextId, closeVars>>

\* Mutant: the entry stays.
HandleForgetsEntry(c) ==
    /\ handler[c] = "cleanup"
    /\ handler' = [handler EXCEPT ![c] = "closing"]
    /\ UNCHANGED <<auth, peerVars, wire, answer, id, clients, nextId, closeVars>>

\* The deferred function: the entry is deleted, then the connection closed, which
\* may discard an answer that was not sent yet.
HandleDeletes(c) ==
    /\ handler[c] = "cleanup"
    /\ clients' = {x \in clients : x[1] # id[c]}
    /\ handler' = [handler EXCEPT ![c] = "closing"]
    /\ UNCHANGED <<auth, peerVars, wire, answer, id, nextId, closeVars>>
HandleCloses(c) ==
    /\ handler[c] = "closing"
    /\ handler' = [handler EXCEPT ![c] = "done"]
    /\ wire' = [wire EXCEPT ![c] = <<>>]
    /\ \/ UNCHANGED answer
       \/ answer' = [answer EXCEPT ![c] = "none"]
    /\ UNCHANGED <<auth, peerVars, id, clients, nextId, closeVars>>

-----------------------------------------------------------------------------
\* API.Close.

\* The select, by itself: another Close may be between it and close(a.closed).
CloseChecks(k) ==
    /\ closer[k] = "idle"
    /\ closer' = [closer EXCEPT ![k] = IF closed THEN "refused" ELSE "checked"]
    /\ UNCHANGED <<auth, peerVars, handleVars, closed, accepting, crashed>>

CloseChannel(k) ==
    /\ closer[k] = "checked"
    /\ closed' = TRUE /\ crashed' = closed
    /\ closer' = [closer EXCEPT ![k] = "closed"]
    /\ UNCHANGED <<auth, peerVars, handleVars, accepting>>

\* a.listener.Close(), which resets connections Accept has not taken.
CloseListener(k) ==
    /\ closer[k] = "closed"
    /\ accepting' = FALSE
    /\ handler' = [c \in Peers |-> IF handler[c] = "backlog" THEN "done" ELSE handler[c]]
    /\ closer' = [closer EXCEPT ![k] = "done"]
    /\ UNCHANGED <<auth, peerVars, wire, answer, id, clients, nextId, closed, crashed>>

-----------------------------------------------------------------------------
Serve(c) ==
    AcceptClient(c) \/ HandleFirst(c) \/ HandleLoop(c) \/ HandleRead(c)
        \/ HandleDeletes(c) \/ HandleCloses(c)
PeerStep(c) ==
    PeerConnects(c) \/ DialWrites(c) \/ DialReads(c) \/ PeerSends(c) \/ PeerLeaves(c)
CloseStep(k) == CloseChecks(k) \/ CloseChannel(k) \/ CloseListener(k)

WireOK == wire \in [Peers -> Seq(Kinds)]
ApiTypeOK ==
    /\ auth \in BOOLEAN /\ WireOK
    /\ peer \in [Peers -> {"off", "dialled", "other", "requested", "client", "gone",
                           "panicked"}]
    /\ first \in [Peers -> {"none", "right", "wrong"}]
    /\ answer \in [Peers -> {"none", "success", "unauthorized", "fail"}]
    /\ handler \in [Peers -> {"none", "backlog", "request", "loop", "read", "handle",
                              "cleanup", "closing", "done"}]
    /\ id \in [Peers -> Nat] /\ clients \subseteq Nat \X Peers /\ nextId \in Nat
    /\ closed \in BOOLEAN /\ accepting \in BOOLEAN /\ crashed \in BOOLEAN
    /\ closer \in [Closers -> {"idle", "refused", "checked", "closed", "done"}]

\* The connections that Clients returns are those whose handler is at work, each
\* under an id of its own (Accept, handle's deferred function).
ClientsAreServed ==
    clients = {<<id[c], c>> : c \in {d \in Peers :
        handler[d] \in {"request", "loop", "read", "handle", "cleanup"}}}
    /\ \A x, y \in clients : x[1] = y[1] => x = y

\* Only a connection whose first packet was a request with a token Authenticate
\* takes gets its packets handled (handle).
OnlyAuthenticated ==
    \A c \in Peers : auth /\ handler[c] \in {"loop", "read", "handle"} =>
        first[c] = "right"

-----------------------------------------------------------------------------
\* What comments of the code say and the code does not keep.

\* dial.go:12 "It returns a new Client instance if the connection and authentication
\* are successful.  Otherwise, it returns an error indicating the failure reason."
DialSucceedsOnlyIfAccepted ==
    \A c \in Peers : peer[c] = "client" /\ auth => first[c] = "right"

\* api.go:121 "Close closes the listener and all connected clients."
CloseEndsClients ==
    \A k \in Closers, c \in Peers :
        closer[k] = "done" ~> handler[c] \in {"none", "done"}
=============================================================================
