------------------------------- MODULE Session -------------------------------
(***************************************************************************)
(* session/session.go and session/handler.go: the goroutines of one player *)
(* session and the server connections they open, use, replace and close.   *)
(*                                                                         *)
(*   "login"    LoginContext, then Disconnect when it fails (Accept);      *)
(*   "server"   handleServer, also runs fallback and server-sent transfers;*)
(*   "client"   handleClient;                                              *)
(*   "latency"  handleLatency, whose ticks change nothing modelled here;   *)
(*   Callers    goroutines that call Transfer (the API, the application).  *)
(*                                                                         *)
(* A server connection is a number; what happens inside one is the subject *)
(* of ServerConn, so here its close and its connection sequence are single *)
(* steps.  s.ctx is derived from the client's context, so it is done once  *)
(* the client is gone.  The contexts of Login and Transfer derive from it. *)
(***************************************************************************)
EXTENDS Naturals

CONSTANTS
    Callers,    \* goroutines that call Transfer, once each
    MaxConns    \* bound: server connections that may be opened

ASSUME CallersAssumption ==
    Callers \cap {"login", "server", "client", "latency", "none"} = {}
ASSUME MaxConnsAssumption == MaxConns \in Nat \ {0}

VARIABLES
    pc,          \* where each goroutine is
    my,          \* the connection each goroutine works with, 0 if none
    viaFallback, \* the transfer handleServer runs is the fallback's
    ctxDone,     \* s.ctx is done
    writer,      \* who holds s.serverMu for writing, or "none"
    serverConn,  \* s.serverConn, 0 for nil
    opened,      \* how many connections were opened
    st,          \* is each connection open
    link,        \* is its stream alive
    seq,         \* its connection sequence
    cb,          \* its onConnect callback is set
    told,        \* what the processor was told of the transfer to it
    inFallback,  \* s.inFallback
    once,        \* progress of CloseWithError's s.once
    registered   \* the registry holds the session

threadVars == <<pc, my, viaFallback>>
connVars == <<serverConn, opened, st, link, seq, cb, told>>
vars == <<threadVars, ctxDone, writer, connVars, inFallback, once, registered>>

Conns == 1 .. MaxConns
Dialers == {"login", "server"} \cup Callers
Threads == Dialers \cup {"client", "latency"}

States == {"unborn", "pre", "dial", "lock", "dialing", "publish", "doConnect",
           "onConnect", "discover", "waitConnect", "startGame", "doSpawn",
           "register", "loop", "server", "read", "callback", "readErr",
           "lost", "fallback", "batch", "write", "failed", "close", "exited"}

Init ==
    /\ pc = [t \in Threads |-> IF t = "login" THEN "discover" ELSE "unborn"]
    /\ my = [t \in Threads |-> 0] /\ viaFallback = FALSE
    /\ ctxDone = FALSE /\ writer = "none"
    /\ serverConn = 0 /\ opened = 0
    /\ st = [c \in Conns |-> "unused"] /\ link = [c \in Conns |-> TRUE]
    /\ seq = [c \in Conns |-> "idle"] /\ cb = [c \in Conns |-> FALSE]
    /\ told = [c \in Conns |-> "nothing"]
    /\ inFallback = FALSE /\ once = "idle" /\ registered = FALSE

\* A goroutine goes on; where its connection is out of scope it drops it.
Go(t, to) ==
    /\ pc' = [pc EXCEPT ![t] = to]
    /\ my' = IF to \in {"loop", "pre", "fallback", "failed", "close", "exited"}
             THEN [my EXCEPT ![t] = 0] ELSE my
\* s.Server() needs s.serverMu for reading.
ServerReadable == writer = "none"
Open(c) == c # 0 /\ st[c] = "open"
\* Writes fail on a closed connection and may fail on a broken one.
Writable(c) == st[c] = "open"
Unwritable(c) == st[c] = "closed" \/ ~link[c]

\* server.Conn.CloseWithError: the callback hears of a sequence cut short.
CloseConn(c) ==
    IF Open(c)
    THEN /\ st' = [st EXCEPT ![c] = "closed"] /\ link' = [link EXCEPT ![c] = FALSE]
         /\ told' = IF cb[c] /\ seq[c] \in {"idle", "requested"}
                    THEN [told EXCEPT ![c] = "failure"] ELSE told
    ELSE UNCHANGED <<st, link, told>>

-----------------------------------------------------------------------------
\* dial, DoConnect and OnConnect, as LoginContext and TransferContext use them.

\* Mutant: the error is handled by nobody.
FailsNowhere(t) == Go(t, "unhandled")

\* An error of TransferContext: fallback closes the session, the others log it.
\* An error of LoginContext: Accept disconnects the session.
Fails(t) ==
    Go(t, CASE t = "login" -> "close"
            [] t = "server" -> IF viaFallback THEN "close" ELSE "loop"
            [] OTHER -> "exited")

StartTransfer(t) ==
    /\ t \in Callers /\ pc[t] = "unborn" /\ registered
    /\ Go(t, "pre")
    /\ UNCHANGED <<viaFallback, ctxDone, writer, connVars, inFallback, once,
                   registered>>

\* s.serverAddr is read and ProcessPreTransfer may cancel the transfer.
PreTransfer(t) ==
    /\ pc[t] = "pre" /\ ServerReadable
    /\ Go(t, "dial") \/ Fails(t)
    /\ UNCHANGED <<viaFallback, ctxDone, writer, connVars, inFallback, once,
                   registered>>

DialCheck(t) ==
    /\ pc[t] = "dial"
    /\ IF ctxDone THEN Fails(t) ELSE Go(t, "lock")
    /\ UNCHANGED <<viaFallback, ctxDone, writer, connVars, inFallback, once,
                   registered>>

\* Mutant: the connection being replaced stays open.
DialLockKeepsOld(t) ==
    /\ pc[t] = "lock" /\ writer = "none"
    /\ writer' = t
    /\ Go(t, "dialing")
    /\ UNCHANGED <<viaFallback, ctxDone, connVars, inFallback, once,
                   registered>>

\* s.serverMu is taken and the connection in use is closed before the dial.
DialLock(t) ==
    /\ pc[t] = "lock" /\ writer = "none"
    /\ writer' = t
    /\ CloseConn(serverConn)
    /\ Go(t, "dialing")
    /\ UNCHANGED <<viaFallback, ctxDone, serverConn, opened, seq, cb,
                   inFallback, once, registered>>

\* s.transport.Dial: it fails, and never succeeds once its context is done.
DialResult(t) ==
    /\ pc[t] = "dialing"
    /\ \/ ~ctxDone /\ opened < MaxConns /\ Go(t, "publish") /\ UNCHANGED writer
       \/ Fails(t) /\ writer' = "none"
    /\ UNCHANGED <<viaFallback, ctxDone, connVars, inFallback, once,
                   registered>>

\* NewConn is stored and s.serverMu released; LoginContext then starts the
\* three goroutines.
DialPublish(t) ==
    /\ pc[t] = "publish"
    /\ opened' = opened + 1
    /\ st' = [st EXCEPT ![opened + 1] = "open"]
    /\ serverConn' = opened + 1
    /\ my' = [my EXCEPT ![t] = opened + 1]
    /\ writer' = "none"
    /\ pc' = [u \in Threads |->
                 CASE u = t -> "doConnect"
                   [] t = "login" /\ u \in {"server", "client", "latency"} -> "loop"
                   [] OTHER -> pc[u]]
    /\ UNCHANGED <<viaFallback, ctxDone, link, seq, cb, told, inFallback,
                   once, registered>>

DoConnect(t) ==
    /\ pc[t] = "doConnect"
    /\ \/ /\ Writable(my[t])
          /\ seq' = [seq EXCEPT ![my[t]] = "requested"]
          /\ Go(t, IF t = "login" THEN "waitConnect" ELSE "onConnect")
          /\ UNCHANGED told
       \/ /\ Unwritable(my[t])
          /\ Fails(t)
          /\ told' = IF t = "login" THEN told
                     ELSE [told EXCEPT ![my[t]] = "failure"]
          /\ UNCHANGED seq
    /\ UNCHANGED <<viaFallback, ctxDone, writer, serverConn, opened, st, link,
                   cb, inFallback, once, registered>>

OnConnect(t) ==
    /\ pc[t] = "onConnect"
    /\ cb' = [cb EXCEPT ![my[t]] = TRUE]
    /\ Go(t, IF t = "server" THEN "loop" ELSE "exited")
    /\ UNCHANGED <<viaFallback, ctxDone, writer, serverConn, opened, st, link,
                   seq, told, inFallback, once, registered>>

-----------------------------------------------------------------------------
\* LoginContext.

Discover ==
    /\ pc["login"] = "discover"
    /\ Go("login", "dial") \/ Fails("login")
    /\ UNCHANGED <<viaFallback, ctxDone, writer, connVars, inFallback, once,
                   registered>>

\* WaitConnect ends with the sequence, the connection or the login's context;
\* its error closes the connection.
WaitConnect ==
    /\ pc["login"] = "waitConnect"
    /\ LET c == my["login"] IN
          \/ /\ seq[c] \in {"connected", "spawned"}
             /\ Go("login", "startGame")
             /\ UNCHANGED <<st, link, told>>
          \/ CloseConn(c) /\ Fails("login")
    /\ UNCHANGED <<viaFallback, ctxDone, writer, serverConn, opened,
                   seq, cb, inFallback, once, registered>>

\* s.client.StartGame fails at the latest when the client is gone.
StartGame ==
    /\ pc["login"] = "startGame"
    /\ (~ctxDone /\ Go("login", "doSpawn")) \/ Fails("login")
    /\ UNCHANGED <<viaFallback, ctxDone, writer, connVars, inFallback, once,
                   registered>>

DoSpawn ==
    /\ pc["login"] = "doSpawn"
    /\ LET c == my["login"] IN
          \/ /\ Open(c)
             /\ seq' = [seq EXCEPT ![c] = "spawned"]
             /\ \/ Go("login", "register")
                \/ ~link[c] /\ Fails("login")
          \/ st[c] = "closed" /\ Fails("login") /\ UNCHANGED seq
    /\ UNCHANGED <<viaFallback, ctxDone, writer, serverConn, opened, st, link,
                   cb, told, inFallback, once, registered>>

\* s.registry.AddSession
Register ==
    /\ pc["login"] = "register"
    /\ registered' = TRUE
    /\ Go("login", "exited")
    /\ UNCHANGED <<viaFallback, ctxDone, writer, connVars, inFallback, once>>

-----------------------------------------------------------------------------
\* handleServer.

ServerLoop ==
    /\ pc["server"] = "loop"
    /\ Go("server", IF ctxDone THEN "close" ELSE "server")
    /\ UNCHANGED <<viaFallback, ctxDone, writer, connVars, inFallback, once,
                   registered>>

ServerGet ==
    /\ pc["server"] = "server" /\ ServerReadable
    /\ my' = [my EXCEPT !["server"] = serverConn]
    /\ pc' = [pc EXCEPT !["server"] = "read"]
    /\ UNCHANGED <<viaFallback, ctxDone, writer, connVars, inFallback, once,
                   registered>>

\* ReadPacket handles the last packet of the connection sequence.
ServerSequence ==
    LET c == my["server"] IN
    /\ pc["server"] = "read" /\ seq[c] = "requested"
    /\ seq' = [seq EXCEPT ![c] = "connected"]
    /\ Go("server", IF cb[c] THEN "callback" ELSE "read")
    /\ UNCHANGED <<viaFallback, ctxDone, writer, serverConn, opened, st, link,
                   cb, told, inFallback, once, registered>>

\* Mutant: the callback does not reset s.inFallback.
ServerCallbackKeepsFallback ==
    LET c == my["server"] IN
    /\ pc["server"] = "callback"
    /\ seq' = IF Open(c) THEN [seq EXCEPT ![c] = "spawned"] ELSE seq
    /\ \/ Open(c) /\ told' = [told EXCEPT ![c] = "post"]
       \/ Unwritable(c) /\ told' = [told EXCEPT ![c] = "failure"]
    /\ Go("server", "read")
    /\ UNCHANGED <<viaFallback, ctxDone, writer, serverConn, opened, st, link,
                   cb, inFallback, once, registered>>

\* The callback of TransferContext: DoSpawn, then the fallback is allowed again.
ServerCallback ==
    LET c == my["server"] IN
    /\ pc["server"] = "callback"
    /\ seq' = IF Open(c) THEN [seq EXCEPT ![c] = "spawned"] ELSE seq
    /\ \/ /\ Open(c)
          /\ inFallback' = FALSE
          /\ told' = [told EXCEPT ![c] = "post"]
       \/ /\ Unwritable(c)
          /\ told' = [told EXCEPT ![c] = "failure"]
          /\ UNCHANGED inFallback
    /\ Go("server", "read")
    /\ UNCHANGED <<viaFallback, ctxDone, writer, serverConn, opened, st, link,
                   cb, once, registered>>

\* ReadPacket returns a packet: it is handled here, or forwarded, which closes
\* the session if the client is gone, or it asks for a transfer.
ServerPacket ==
    /\ pc["server"] = "read" /\ seq[my["server"]] = "spawned"
    /\ \/ Go("server", "loop") /\ UNCHANGED viaFallback
       \/ ctxDone /\ Go("server", "close") /\ UNCHANGED viaFallback
       \/ Go("server", "pre") /\ viaFallback' = FALSE
    /\ UNCHANGED <<ctxDone, writer, connVars, inFallback, once, registered>>

\* ReadPacket fails: the connection is closed or was ended by the server, or a frame
\* on it cannot be decoded.
ServerReadError ==
    /\ pc["server"] = "read"
    /\ Go("server", "readErr")
    /\ UNCHANGED <<viaFallback, ctxDone, writer, connVars, inFallback, once,
                   registered>>

\* Mutant: a failed read of a replaced connection also starts a fallback.
ServerLostAlways ==
    /\ pc["server"] = "readErr" /\ ServerReadable
    /\ Go("server", "lost")
    /\ UNCHANGED <<viaFallback, ctxDone, writer, connVars, inFallback, once,
                   registered>>

\* Mutant: after a failed read the loop simply goes on.
ServerLostIgnored ==
    /\ pc["server"] = "readErr" /\ ServerReadable
    /\ Go("server", "loop")
    /\ UNCHANGED <<viaFallback, ctxDone, writer, connVars, inFallback, once,
                   registered>>

\* A connection that was replaced meanwhile is of no interest any more.
ServerLost ==
    /\ pc["server"] = "readErr" /\ ServerReadable
    /\ Go("server", IF my["server"] # serverConn THEN "loop" ELSE "lost")
    /\ UNCHANGED <<viaFallback, ctxDone, writer, connVars, inFallback, once,
                   registered>>

\* server.CloseWithError closes the one that was read, although s.serverConn may
\* be another by now.
ServerClosesLost ==
    /\ pc["server"] = "lost"
    /\ CloseConn(my["server"])
    /\ Go("server", "fallback")
    /\ UNCHANGED <<viaFallback, ctxDone, writer, serverConn, opened,
                   seq, cb, inFallback, once, registered>>

\* fallback: one attempt until a transfer succeeds, and only if there is a server
\* to fall back to.
Fallback ==
    /\ pc["server"] = "fallback"
    /\ IF ctxDone \/ inFallback
          THEN Go("server", "close") /\ UNCHANGED <<inFallback, viaFallback>>
          ELSE /\ inFallback' = TRUE
               /\ viaFallback' = TRUE
               /\ Go("server", "pre") \/ Go("server", "close")
    /\ UNCHANGED <<ctxDone, writer, connVars, once, registered>>

-----------------------------------------------------------------------------
\* handleClient and handleLatency.

\* A batch arrives, or the read fails because the client is gone.
ClientRead ==
    /\ pc["client"] = "loop"
    /\ IF ctxDone THEN Go("client", "close") ELSE Go("client", "batch")
    /\ UNCHANGED <<viaFallback, ctxDone, writer, connVars, inFallback, once,
                   registered>>

\* handleClientBatch: decoding fails, or the batch is for s.Server().
ClientBatch ==
    /\ pc["client"] = "batch"
    /\ \/ Go("client", "failed")
       \/ /\ ServerReadable
          /\ my' = [my EXCEPT !["client"] = serverConn]
          /\ pc' = [pc EXCEPT !["client"] = "write"]
    /\ UNCHANGED <<viaFallback, ctxDone, writer, connVars, inFallback, once,
                   registered>>

ClientWrite ==
    /\ pc["client"] = "write"
    /\ \/ Writable(my["client"]) /\ Go("client", "loop")
       \/ Unwritable(my["client"]) /\ Go("client", "failed")
    /\ UNCHANGED <<viaFallback, ctxDone, writer, connVars, inFallback, once,
                   registered>>

\* s.Server().CloseWithError, and the loop ends.
ClientFailed ==
    /\ pc["client"] = "failed" /\ ServerReadable
    /\ CloseConn(serverConn)
    /\ Go("client", "exited")
    /\ UNCHANGED <<viaFallback, ctxDone, writer, serverConn, opened,
                   seq, cb, inFallback, once, registered>>

LatencyDone ==
    /\ pc["latency"] = "loop" /\ ctxDone
    /\ Go("latency", "close")
    /\ UNCHANGED <<viaFallback, ctxDone, writer, connVars, inFallback, once,
                   registered>>

-----------------------------------------------------------------------------
\* CloseWithError.  The first caller runs the body of s.once, the others wait
\* for it to end.

CloseEnter(t) ==
    /\ pc[t] = "close" /\ once = "idle"
    /\ once' = "entered"
    /\ UNCHANGED <<threadVars, ctxDone, writer, connVars, inFallback,
                   registered>>

\* s.client.Close()
CloseClient ==
    /\ once = "entered"
    /\ ctxDone' = TRUE
    /\ once' = "clientClosed"
    /\ UNCHANGED <<threadVars, writer, connVars, inFallback, registered>>

\* Mutant: s.serverConn is read without s.serverMu.
CloseServerUnlocked ==
    /\ once = "clientClosed"
    /\ CloseConn(serverConn)
    /\ once' = "done"
    /\ registered' = FALSE
    /\ UNCHANGED <<threadVars, ctxDone, writer, serverConn, opened, seq,
                   cb, inFallback>>

\* Mutant: the server connection is left to itself.
CloseServerForgets ==
    /\ once = "clientClosed" /\ ServerReadable
    /\ once' = "done"
    /\ registered' = FALSE
    /\ UNCHANGED <<threadVars, ctxDone, writer, connVars, inFallback>>

\* s.Server() is closed and the registry forgets the session.
CloseServer ==
    /\ once = "clientClosed" /\ ServerReadable
    /\ CloseConn(serverConn)
    /\ once' = "done"
    /\ registered' = FALSE
    /\ UNCHANGED <<threadVars, ctxDone, writer, serverConn, opened, seq,
                   cb, inFallback>>

CloseReturn(t) ==
    /\ pc[t] = "close" /\ once = "done"
    /\ Go(t, "exited")
    /\ UNCHANGED <<viaFallback, ctxDone, writer, connVars, inFallback, once,
                   registered>>

\* Disconnect or Close is called from outside (the API, Spectrum.Close).
Disconnect ==
    /\ once = "idle"
    /\ once' = "entered"
    /\ UNCHANGED <<threadVars, ctxDone, writer, connVars, inFallback,
                   registered>>

-----------------------------------------------------------------------------
\* The environment: the player leaves, a server ends a connection.

ClientLeaves ==
    /\ ~ctxDone
    /\ ctxDone' = TRUE
    /\ UNCHANGED <<threadVars, writer, connVars, inFallback, once,
                   registered>>

LinkFails(c) ==
    /\ Open(c) /\ link[c]
    /\ link' = [link EXCEPT ![c] = FALSE]
    /\ UNCHANGED <<threadVars, ctxDone, writer, serverConn, opened, st, seq,
                   cb, told, inFallback, once, registered>>

-----------------------------------------------------------------------------
Transfer(t) == PreTransfer(t) \/ DialCheck(t) \/ DialLock(t) \/ DialResult(t)
                 \/ DialPublish(t) \/ DoConnect(t) \/ OnConnect(t)
Closing(t) == CloseEnter(t) \/ CloseReturn(t)

\* The steps each goroutine takes by itself, and those a peer lets it take.
Step(t) ==
    \/ t \in Dialers /\ Transfer(t)
    \/ Closing(t)
    \/ t = "login" /\ (Discover \/ WaitConnect \/ StartGame \/ DoSpawn \/ Register)
    \/ t = "server" /\ (ServerLoop \/ ServerGet \/ ServerCallback \/ ServerLost
                          \/ ServerClosesLost \/ Fallback)
    \/ t = "client" /\ ((ctxDone /\ ClientRead) \/ ClientBatch \/ ClientWrite
                          \/ ClientFailed)
    \/ t = "latency" /\ LatencyDone
CloseBody == CloseClient \/ CloseServer
PeerSteps ==
    \/ \E t \in Callers : StartTransfer(t)
    \/ ServerSequence \/ ServerPacket \/ ServerReadError \/ ClientRead
    \/ Disconnect \/ ClientLeaves \/ (\E c \in Conns : LinkFails(c))

\* Every goroutine has returned; a caller may never have called Transfer.
Stopped ==
    /\ once = "done"
    /\ \A t \in Threads : \/ pc[t] = "exited"
                           \/ pc[t] = "unborn"
Terminated == Stopped /\ UNCHANGED vars

Next == (\E t \in Threads : Step(t)) \/ CloseBody \/ PeerSteps \/ Terminated

\* Goroutines that can run are scheduled; the transport, the processor and
\* StartGame return (the contexts end them); a closed or broken connection
\* returns the packets it still has and then an error.  Nothing is assumed of
\* the player, the callers of Transfer, or the server.
Fairness ==
    /\ \A t \in Threads : WF_vars(Step(t))
    /\ WF_vars(CloseBody)
    /\ SF_vars(ServerReadError /\ Unwritable(my["server"]))

Spec == Init /\ [][Next]_vars
FairSpec == Spec /\ Fairness


-----------------------------------------------------------------------------
TypeOK ==
    /\ pc \in [Threads -> States]
    /\ my \in [Threads -> 0 .. opened] /\ viaFallback \in BOOLEAN
    /\ ctxDone \in BOOLEAN /\ writer \in Dialers \cup {"none"}
    /\ opened \in 0 .. MaxConns /\ serverConn \in 0 .. opened
    /\ st \in [Conns -> {"unused", "open", "closed"}]
    /\ link \in [Conns -> BOOLEAN]
    /\ seq \in [Conns -> {"idle", "requested", "connected", "spawned"}]
    /\ cb \in [Conns -> BOOLEAN]
    /\ told \in [Conns -> {"nothing", "failure", "post"}]
    /\ inFallback \in BOOLEAN
    /\ once \in {"idle", "entered", "clientClosed", "done"}
    /\ registered \in BOOLEAN

\* A session uses one server at a time: an open connection is the one in
\* s.serverConn, and none is open while another is being dialled (dial).
OnlyCurrentOpen ==
    \A c \in Conns : st[c] = "open" =>
        c = serverConn /\ \A t \in Dialers : pc[t] \notin {"dialing", "publish"}

\* Once CloseWithError has returned no server connection is open, although a
\* transfer may have been dialling all along (CloseWithError, dial).
NoConnLeak == once = "done" => \A c \in Conns : st[c] # "open"

\* While a player is spawned on a server without a failure reported, a fallback
\* is possible: an earlier one was taken back by its success (fallback,
\* TransferContext's callback).
FallbackAvailable ==
    /\ serverConn # 0 /\ Open(serverConn) /\ seq[serverConn] = "spawned"
    /\ told[serverConn] # "failure"
    /\ pc["server"] = "read" /\ my["server"] = serverConn
    => ~inFallback

\* handleServer decides on a fallback, whatever made its read fail, only while no
\* other connection is open than the one it read, and the close that follows closes
\* no other, although a transfer may run meanwhile.  A connection that is published
\* after the decision is replaced by the fallback's.
FallbackOnlyWhenLost ==
    [][/\ pc["server"] = "readErr" /\ pc'["server"] = "lost" =>
            \A c \in Conns : Open(c) => c = my["server"]
       /\ pc["server"] = "lost" /\ pc'["server"] = "fallback" =>
            \A c \in Conns : Open(c) /\ ~Open(c)' => c = my["server"]]_vars

\* When the client is gone the session closes and every goroutine returns,
\* whatever it was waiting for (CloseWithError, handleServer, handleClient,
\* handleLatency, LoginContext, TransferContext).
SessionStops == ctxDone ~> Stopped

\* A session does not stay on a lost server: it gets another connection or it is
\* closed (handleServer, fallback).
ServerLossHandled ==
    \A c \in Conns :
        (serverConn = c /\ Unwritable(c)) ~> (serverConn # c \/ once = "done")

-----------------------------------------------------------------------------
\* What comments of the code say and the code does not keep.

\* session.go:151 "It ensures that only one transfer occurs at a time, returning
\* an error if another transfer is already in progress."
OneTransferAtATime ==
    \A t, u \in Dialers \ {"login"} :
        pc[t] \in {"dialing", "publish", "doConnect", "onConnect"}
        /\ pc[u] \in {"dialing", "publish", "doConnect", "onConnect"}
        => t = u

\* session.go:136 "It sets a default timeout of 1 minute for the transfer
\* operation": a transfer does not wait for ever for a server that stays silent.
TransferEnds ==
    \A c \in Conns :
        cb[c] /\ seq[c] = "requested" ~> (told[c] # "nothing" \/ st[c] = "closed")
=============================================================================
