---------------------------- MODULE ProxyProofs ----------------------------
(* Proofs about Proxy: the registry and the API by an induction each, and   *)
(* then together.                                                           *)
EXTENDS Proxy, TLAPS

-----------------------------------------------------------------------------
\* The registry.  Spectrum.Close waits at one session, and those it has passed are
\* closed.
RegistryInv ==
    /\ RegistryTypeOK /\ LoggedInIsListed /\ EntryIsOwn
    /\ \A s \in active : s \in todo \/ s = at \/ once[s] = "done"
    /\ shutdown # "closing" => todo = {} /\ at = None
    /\ at # None => once[at] # "idle"

\* It holds at the start.
LEMMA RegistryStart == RegistryInit => RegistryInv
  BY DEF RegistryInit, RegistryInv, RegistryTypeOK, LoggedInIsListed, EntryIsOwn

\* s.once is only entered, never left.
LEMMA EnterKeeps ==
  ASSUME RegistryInv, NEW s \in Sessions, Enter(s),
         UNCHANGED <<player, login, sessions, listening, shutdownVars>>
  PROVE  /\ RegistryInv' /\ once'[s] # "idle"
         /\ \A u \in Sessions : once[u] # "idle" => once'[u] # "idle"
<1>1. /\ once' \in [Sessions -> {"idle", "entered", "closed", "done"}]
      /\ once'[s] # "idle"
      /\ \A u \in Sessions : /\ once[u] # "idle" => once'[u] # "idle"
                             /\ (once[u] = "done") <=> (once'[u] = "done")
  BY DEF Enter, RegistryInv, RegistryTypeOK
<1>2. RegistryTypeOK'
  BY <1>1 DEF RegistryInv, RegistryTypeOK, shutdownVars
<1>3. LoggedInIsListed' /\ EntryIsOwn'
  BY <1>1 DEF RegistryInv, LoggedInIsListed, EntryIsOwn
<1> QED BY <1>1, <1>2, <1>3 DEF RegistryInv, RegistryTypeOK, shutdownVars

\* Every step of the registry's users keeps the invariant, and once only grows.
LEMMA RegistryStep ==
  ASSUME RegistryInv, RegistryNext
  PROVE  RegistryInv' /\ \A u \in Sessions : once[u] # "idle" => once'[u] # "idle"
<1> USE NoneAssumption DEF shutdownVars
<1>1. ASSUME NEW s \in Sessions, AcceptPlayer(s) \/ LoginSpawned(s) PROVE RegistryInv'
  <2>1. /\ UNCHANGED <<player, once, sessions, listening, shutdownVars>>
        /\ login' \in [Sessions -> {"none", "started", "spawned", "done", "failed"}]
        /\ \A u \in Sessions : (login[u] = "done") <=> (login'[u] = "done")
    BY <1>1 DEF AcceptPlayer, LoginSpawned, RegistryInv, RegistryTypeOK
  <2>2. RegistryTypeOK'
    BY <2>1 DEF RegistryInv, RegistryTypeOK
  <2>3. LoggedInIsListed' /\ EntryIsOwn'
    BY <2>1 DEF RegistryInv, RegistryTypeOK, LoggedInIsListed, EntryIsOwn
  <2> QED BY <2>1, <2>2, <2>3 DEF RegistryInv
<1>2. ASSUME NEW s \in Sessions, LoginFails(s) PROVE RegistryInv'
  <2>1. /\ UNCHANGED <<player, sessions, listening, shutdownVars>>
        /\ login' \in [Sessions -> {"none", "started", "spawned", "done", "failed"}]
        /\ once' \in [Sessions -> {"idle", "entered", "closed", "done"}]
        /\ \A u \in Sessions : /\ (login[u] = "done") <=> (login'[u] = "done")
                               /\ (once[u] = "done") <=> (once'[u] = "done")
                               /\ once[u] # "idle" => once'[u] # "idle"
    BY <1>2 DEF LoginFails, Enter, RegistryInv, RegistryTypeOK
  <2>2. RegistryTypeOK'
    BY <2>1 DEF RegistryInv, RegistryTypeOK
  <2>3. LoggedInIsListed' /\ EntryIsOwn'
    BY <2>1 DEF RegistryInv, RegistryTypeOK, LoggedInIsListed, EntryIsOwn
  <2> QED BY <2>1, <2>2, <2>3 DEF RegistryInv, RegistryTypeOK
<1>3. ASSUME NEW s \in Sessions, LoginRegisters(s) PROVE RegistryInv'
  <2>1. /\ UNCHANGED <<player, once, listening, shutdownVars>>
        /\ login' \in [Sessions -> {"none", "started", "spawned", "done", "failed"}]
        /\ \A u \in Sessions : login'[u] = IF u = s THEN "done" ELSE login[u]
        /\ sessions' \in [Players -> Sessions \cup {None}]
        /\ \A p \in Players : sessions'[p] = IF p = player[s] THEN s ELSE sessions[p]
    BY <1>3 DEF LoginRegisters, AddSession, RegistryInv, RegistryTypeOK
  <2>2. RegistryTypeOK'
    BY <2>1 DEF RegistryInv, RegistryTypeOK
  <2>3. EntryIsOwn'
    BY <2>1 DEF RegistryInv, RegistryTypeOK, EntryIsOwn
  <2>4. LoggedInIsListed'
    BY <2>1 DEF RegistryInv, RegistryTypeOK, LoggedInIsListed
  <2> QED BY <2>1, <2>2, <2>3, <2>4 DEF RegistryInv
<1>4. ASSUME NEW s \in Sessions, CloseEnter(s) PROVE RegistryInv'
  BY <1>4, EnterKeeps DEF CloseEnter
<1>5. ASSUME NEW s \in Sessions, CloseConns(s) PROVE RegistryInv'
  <2>1. /\ UNCHANGED <<player, login, sessions, listening, shutdownVars>>
        /\ once' \in [Sessions -> {"idle", "entered", "closed", "done"}]
        /\ \A u \in Sessions : /\ (once[u] = "done") <=> (once'[u] = "done")
                               /\ once[u] # "idle" => once'[u] # "idle"
    BY <1>5 DEF CloseConns, RegistryInv, RegistryTypeOK
  <2>2. RegistryTypeOK'
    BY <2>1 DEF RegistryInv, RegistryTypeOK
  <2>3. LoggedInIsListed' /\ EntryIsOwn'
    BY <2>1 DEF RegistryInv, RegistryTypeOK, LoggedInIsListed, EntryIsOwn
  <2> QED BY <2>1, <2>2, <2>3 DEF RegistryInv, RegistryTypeOK
<1>6. ASSUME NEW s \in Sessions, CloseRemoves(s) PROVE RegistryInv'
  <2>1. /\ UNCHANGED <<player, login, listening, shutdownVars>>
        /\ once' \in [Sessions -> {"idle", "entered", "closed", "done"}]
        /\ \A u \in Sessions : once'[u] = IF u = s THEN "done" ELSE once[u]
        /\ sessions' \in [Players -> Sessions \cup {None}]
        /\ \A p \in Players : sessions'[p] = IF p = player[s] THEN None ELSE sessions[p]
    BY <1>6 DEF CloseRemoves, RemoveSession, RegistryInv, RegistryTypeOK
  <2>2. RegistryTypeOK'
    BY <2>1 DEF RegistryInv, RegistryTypeOK
  <2>3. EntryIsOwn'
    BY <2>1 DEF RegistryInv, RegistryTypeOK, EntryIsOwn
  <2>4. LoggedInIsListed'
    BY <2>1 DEF RegistryInv, RegistryTypeOK, LoggedInIsListed
  <2> QED BY <2>1, <2>2, <2>3, <2>4 DEF RegistryInv, RegistryTypeOK
<1>7. ASSUME NEW s \in Sessions, ShutdownDisconnects(s) PROVE RegistryInv'
  <2>1. /\ UNCHANGED <<player, login, sessions, listening, shutdown, active>>
        /\ shutdown = "closing" /\ at' = s /\ todo' = todo \ {s} /\ s \in active
        /\ at = None
        /\ once' \in [Sessions -> {"idle", "entered", "closed", "done"}]
        /\ once'[s] # "idle"
        /\ \A u \in Sessions : (once[u] = "done") <=> (once'[u] = "done")
    BY <1>7 DEF ShutdownDisconnects, Enter, RegistryInv, RegistryTypeOK
  <2>2. RegistryTypeOK'
    BY <2>1 DEF RegistryInv, RegistryTypeOK
  <2>3. LoggedInIsListed' /\ EntryIsOwn'
    BY <2>1 DEF RegistryInv, RegistryTypeOK, LoggedInIsListed, EntryIsOwn
  <2> QED BY <2>1, <2>2, <2>3 DEF RegistryInv, RegistryTypeOK
<1>8. CASE ShutdownBegins
  <2>1. /\ UNCHANGED <<player, login, once, sessions, listening, at>>
        /\ shutdown' = "closing" /\ active' = todo' /\ at = None
        /\ active' \subseteq Sessions
    BY <1>8 DEF ShutdownBegins, GetSessions, RegistryInv, RegistryTypeOK
  <2>2. RegistryTypeOK'
    BY <2>1 DEF RegistryInv, RegistryTypeOK
  <2>3. LoggedInIsListed' /\ EntryIsOwn'
    BY <2>1 DEF RegistryInv, LoggedInIsListed, EntryIsOwn
  <2> QED BY <2>1, <2>2, <2>3 DEF RegistryInv
<1>9. CASE ShutdownGoesOn \/ ShutdownListener
  <2>1. /\ UNCHANGED <<player, login, once, sessions, active, todo>>
        /\ at' = None
    BY <1>9 DEF ShutdownGoesOn, ShutdownListener
  <2>2. RegistryTypeOK'
    BY <1>9, <2>1 DEF RegistryInv, RegistryTypeOK, ShutdownGoesOn, ShutdownListener
  <2>3. LoggedInIsListed' /\ EntryIsOwn'
    BY <2>1 DEF RegistryInv, LoggedInIsListed, EntryIsOwn
  <2> QED BY <1>9, <2>1, <2>2, <2>3 DEF RegistryInv, ShutdownGoesOn, ShutdownListener
<1>10. \A u \in Sessions : once[u] # "idle" => once'[u] # "idle"
  BY DEF RegistryNext, RegistryInv, RegistryTypeOK, AcceptPlayer, LoginFails, LoginSpawned,
         LoginRegisters, CloseEnter, CloseConns, CloseRemoves, ShutdownDisconnects, Enter,
         ShutdownBegins, ShutdownGoesOn, ShutdownListener
<1> QED BY <1>1, <1>2, <1>3, <1>4, <1>5, <1>6, <1>7, <1>8, <1>9, <1>10 DEF RegistryNext

-----------------------------------------------------------------------------
\* The API.
Served == {"request", "loop", "read", "handle", "cleanup"}
Unread == {"none", "backlog", "request"}
Judged(k) == IF k = "good token" THEN "right" ELSE "wrong"

\* A connection has a handler once it is there.
Connected == \A c \in Peers : (peer[c] = "off") <=> (handler[c] = "none")
\* Ids are given out in order, each once.
IdsApart ==
    /\ \A c \in Peers : handler[c] \in Served => id[c] < nextId
    /\ \A c, d \in Peers :
          handler[c] \in Served /\ handler[d] \in Served /\ id[c] = id[d] => c = d
\* The first packet is on the wire until the handler has read it.
FirstOnWire ==
    /\ \A c \in Peers : first[c] = "none" => wire[c] = <<>>
    /\ \A c \in Peers : handler[c] \in Unread /\ first[c] # "none" =>
          wire[c] # <<>> /\ first[c] = Judged(Head(wire[c]))
ApiInv ==
    /\ ApiTypeOK /\ ClientsAreServed /\ OnlyAuthenticated /\ Connected /\ IdsApart
    /\ FirstOnWire

\* It holds at the start.
LEMMA ApiStart == ApiInit => ApiInv
<1> SUFFICES ASSUME ApiInit PROVE ApiInv
  OBVIOUS
<1>1. WireOK
  <2>1. <<>> \in Seq(Kinds)
    OBVIOUS
  <2> QED BY <2>1 DEF ApiInit, WireOK
<1>2. ApiTypeOK
  BY <1>1 DEF ApiInit, ApiTypeOK
<1>3. FirstOnWire
  BY DEF ApiInit, FirstOnWire
<1> QED BY <1>2, <1>3 DEF ApiInit, ApiInv, ClientsAreServed, OnlyAuthenticated, Connected,
                         IdsApart, Served

\* What a step keeps that does not touch the state it is about.
LEMMA Untouched ==
  ASSUME ApiInv
  PROVE  /\ UNCHANGED wire => WireOK'
         /\ UNCHANGED <<handler, first, wire>> => FirstOnWire'
         /\ UNCHANGED <<handler, id, clients>> => ClientsAreServed'
         /\ UNCHANGED <<handler, id, nextId>> => IdsApart'
         /\ UNCHANGED <<handler, auth, first>> => OnlyAuthenticated'
<1>1. UNCHANGED wire => WireOK'
  BY DEF ApiInv, ApiTypeOK, WireOK
<1>2. UNCHANGED <<handler, first, wire>> => FirstOnWire'
  BY DEF ApiInv, FirstOnWire
<1>3. UNCHANGED <<handler, id, clients>> => ClientsAreServed'
  BY DEF ApiInv, ClientsAreServed
<1>4. UNCHANGED <<handler, id, nextId>> => IdsApart'
  BY DEF ApiInv, IdsApart
<1>5. UNCHANGED <<handler, auth, first>> => OnlyAuthenticated'
  BY DEF ApiInv, OnlyAuthenticated
<1> QED BY <1>1, <1>2, <1>3, <1>4, <1>5

\* The server's end: it may write the first packet, and changes no handler but by
\* connecting.
LEMMA PeerKeeps ==
  ASSUME ApiInv, NEW c \in Peers, PeerStep(c)
  PROVE  ApiInv'
<1> USE DEF closeVars
<1>1. CASE PeerConnects(c)
  <2>1. /\ UNCHANGED <<auth, first, wire, answer, id, clients, nextId, closeVars>>
        /\ peer[c] = "off" /\ handler[c] = "none"
        /\ peer'[c] \in {"dialled", "other"} /\ handler'[c] = "backlog"
        /\ \A d \in Peers \ {c} : peer'[d] = peer[d] /\ handler'[d] = handler[d]
    BY <1>1 DEF PeerConnects, ApiInv, ApiTypeOK, Connected
  <2>2. ApiTypeOK'
    BY <1>1, <2>1, Untouched DEF PeerConnects, ApiInv, ApiTypeOK
  <2>3. {d \in Peers : handler'[d] \in Served} = {d \in Peers : handler[d] \in Served}
    BY <2>1 DEF Served
  <2>4. ClientsAreServed' /\ IdsApart'
    <3>1. ClientsAreServed'
      BY <2>1, <2>3 DEF ApiInv, ClientsAreServed, Served
    <3>2. IdsApart'
      BY <2>1, <2>3 DEF ApiInv, IdsApart
    <3> QED BY <3>1, <3>2
  <2>5. OnlyAuthenticated' /\ Connected'
    BY <2>1 DEF ApiInv, OnlyAuthenticated, Connected
  <2>6. FirstOnWire'
    BY <2>1 DEF ApiInv, FirstOnWire, Unread
  <2> QED BY <2>2, <2>4, <2>5, <2>6 DEF ApiInv
<1>2. ASSUME NEW k \in Kinds, Send(c, k), peer[c] # "off",
             UNCHANGED <<auth, answer, handler, id, clients, nextId, closeVars>>,
             peer' \in [Peers -> {"off", "dialled", "other", "requested", "client",
                                 "gone", "panicked"}],
             \A d \in Peers : (peer[d] = "off") <=> (peer'[d] = "off")
      PROVE  ApiInv'
  <2>1. wire \in [Peers -> Seq(Kinds)] /\ first \in [Peers -> {"none", "right", "wrong"}]
    BY DEF ApiInv, ApiTypeOK, WireOK
  <2>2. wire' = [wire EXCEPT ![c] = Append(wire[c], k)]
    BY <1>2 DEF Send
  <2>3. wire[c] \in Seq(Kinds) /\ Append(wire[c], k) \in Seq(Kinds)
    BY <1>2, <2>1
  <2>4. WireOK'
    BY <2>1, <2>2, <2>3 DEF WireOK
  <2>5. first' \in [Peers -> {"none", "right", "wrong"}]
    BY <1>2, <2>1 DEF Send
  <2>6. wire'[c] = Append(wire[c], k) /\ \A d \in Peers \ {c} : wire'[d] = wire[d]
    BY <2>1, <2>2
  <2>7. /\ \A d \in Peers \ {c} : first'[d] = first[d]
        /\ first'[c] = IF first[c] # "none" THEN first[c] ELSE Judged(k)
    BY <1>2, <2>1 DEF Send, Judged
  <2>8. /\ wire'[c] # <<>>
        /\ Head(wire'[c]) = IF wire[c] = <<>> THEN k ELSE Head(wire[c])
    BY <2>3, <2>6
  <2>9. ApiTypeOK'
    BY <1>2, <2>4, <2>5 DEF ApiInv, ApiTypeOK
  <2>10. FirstOnWire'
    <3>1. first'[c] # "none"
      BY <2>7 DEF Judged
    <3>2. handler[c] \in Unread => first'[c] = Judged(Head(wire'[c]))
      BY <2>7, <2>8 DEF ApiInv, FirstOnWire
    <3> QED BY <1>2, <2>6, <2>7, <2>8, <3>1, <3>2 DEF ApiInv, FirstOnWire
  <2>11. Connected'
    BY <1>2 DEF ApiInv, Connected
  <2>12. OnlyAuthenticated'
    BY <1>2, <2>7 DEF ApiInv, OnlyAuthenticated
  <2> QED BY <1>2, <2>9, <2>10, <2>11, <2>12, Untouched DEF ApiInv
<1>3. CASE DialWrites(c)
  BY <1>2, <1>3 DEF DialWrites, Kinds, ApiInv, ApiTypeOK
<1>4. CASE PeerSends(c)
  BY <1>2, <1>4 DEF PeerSends, Kinds, ApiInv, ApiTypeOK
<1>5. CASE DialReads(c) \/ PeerLeaves(c)
  <2>1. UNCHANGED <<auth, first, wire, handler, id, clients, nextId, closeVars>>
    BY <1>5 DEF DialReads, PeerLeaves
  <2>2. /\ peer' \in [Peers -> {"off", "dialled", "other", "requested", "client",
                               "gone", "panicked"}]
        /\ answer' \in [Peers -> {"none", "success", "unauthorized", "fail"}]
        /\ \A d \in Peers : (peer[d] = "off") <=> (peer'[d] = "off")
    BY <1>5 DEF DialReads, PeerLeaves, ApiInv, ApiTypeOK
  <2>3. ApiTypeOK'
    BY <2>1, <2>2, Untouched DEF ApiInv, ApiTypeOK
  <2>4. Connected'
    BY <2>1, <2>2, SMTT(30) DEF ApiInv, Connected
  <2> QED BY <2>1, <2>3, <2>4, Untouched DEF ApiInv
<1> QED BY <1>1, <1>3, <1>4, <1>5 DEF PeerStep

\* A handler that goes on, among those that are served and have read their first
\* packet, keeps it.
LEMMA HandlerMoves ==
  ASSUME ApiInv, NEW c \in Peers, NEW to \in {"loop", "read", "handle", "cleanup"},
         handler[c] \in Served, handler' = [handler EXCEPT ![c] = to],
         to = "cleanup" \/ handler[c] # "request" \/ (auth => first[c] = "right"),
         handler[c] = "cleanup" => to = "cleanup",
         UNCHANGED <<auth, peer, first, id, clients, nextId, closed, accepting, closer,
                     crashed>>,
         WireOK', \A d \in Peers \ {c} : wire'[d] = wire[d],
         wire[c] = <<>> => wire'[c] = <<>>,
         answer' \in [Peers -> {"none", "success", "unauthorized", "fail"}]
  PROVE  ApiInv'
<1>1. /\ handler'[c] = to /\ \A d \in Peers \ {c} : handler'[d] = handler[d]
  BY DEF ApiInv, ApiTypeOK
<1>3. handler' \in [Peers -> {"none", "backlog", "request", "loop", "read", "handle",
                              "cleanup", "closing", "done"}]
  BY DEF ApiInv, ApiTypeOK
<1>4. ApiTypeOK'
  BY <1>3 DEF ApiInv, ApiTypeOK
<1>5. {d \in Peers : handler'[d] \in Served} = {d \in Peers : handler[d] \in Served}
  BY <1>1 DEF Served
<1>6. ClientsAreServed' /\ IdsApart'
  BY <1>5 DEF ApiInv, ClientsAreServed, IdsApart, Served
<1>7. OnlyAuthenticated'
  BY <1>1 DEF ApiInv, OnlyAuthenticated, Served
<1>8. FirstOnWire'
  BY <1>1 DEF ApiInv, FirstOnWire, Unread
<1>9. Connected'
  BY <1>1 DEF ApiInv, Connected, Served
<1> QED BY <1>4, <1>6, <1>7, <1>8, <1>9 DEF ApiInv

\* What ReadPacket takes off the wire.
LEMMA ReadsKeeps ==
  ASSUME ApiInv, NEW c \in Peers, NEW k, Reads(c, k)
  PROVE  /\ WireOK' /\ \A d \in Peers \ {c} : wire'[d] = wire[d]
         /\ wire[c] = <<>> => wire'[c] = <<>>
<1>1. wire \in [Peers -> Seq(Kinds)]
  BY DEF ApiInv, ApiTypeOK, WireOK
<1>2. CASE wire[c] # <<>> /\ k = Head(wire[c]) /\ wire' = [wire EXCEPT ![c] = Tail(wire[c])]
  <2>1. Tail(wire[c]) \in Seq(Kinds)
    BY <1>1, <1>2
  <2> QED BY <1>1, <1>2, <2>1 DEF WireOK
<1>3. CASE wire[c] = <<>> /\ Gone(c) /\ k = "bad" /\ UNCHANGED wire
  BY <1>1, <1>3 DEF WireOK
<1> QED BY <1>2, <1>3 DEF Reads

\* The handlers.
LEMMA ServeKeeps ==
  ASSUME ApiInv, NEW c \in Peers, Serve(c)
  PROVE  ApiInv'
<1> USE DEF closeVars, peerVars
<1>1. CASE AcceptClient(c)
  <2>1. /\ UNCHANGED <<auth, peer, first, wire, answer, closed, accepting, closer, crashed>>
        /\ handler[c] = "backlog" /\ nextId \in Nat /\ nextId' = nextId + 1
        /\ handler'[c] = "request" /\ id'[c] = nextId
        /\ \A d \in Peers \ {c} : handler'[d] = handler[d] /\ id'[d] = id[d]
        /\ clients' = {x \in clients : x[1] # nextId} \cup {<<nextId, c>>}
    BY <1>1 DEF AcceptClient, ApiInv, ApiTypeOK
  <2>2. clients = {<<id[d], d>> : d \in {e \in Peers : handler[e] \in Served}}
    BY DEF ApiInv, ClientsAreServed, Served
  <2>3. \A d \in Peers : id[d] \in Nat
    BY DEF ApiInv, ApiTypeOK
  <2>4. \A d \in Peers : handler'[d] \in Served <=> d = c \/ handler[d] \in Served
    BY <2>1 DEF Served
  <2>5. clients' = clients \cup {<<nextId, c>>}
    BY <2>1, <2>2, <2>3 DEF ApiInv, IdsApart
  <2>6. clients' = {<<id'[d], d>> : d \in {e \in Peers : handler'[e] \in Served}}
    <3>1. c \notin {e \in Peers : handler[e] \in Served}
      BY <2>1 DEF Served
    <3> QED BY <2>1, <2>2, <2>4, <2>5, <3>1
  <2>7. IdsApart'
    BY <2>1, <2>3, <2>4 DEF ApiInv, IdsApart
  <2>8. ClientsAreServed'
    BY <2>6, <2>7 DEF ClientsAreServed, IdsApart, Served
  <2>9. ApiTypeOK'
    <3>1. clients' \subseteq Nat \X Peers /\ nextId' \in Nat
      BY <2>1, <2>5 DEF ApiInv, ApiTypeOK
    <3> QED BY <1>1, <3>1, Untouched DEF AcceptClient, ApiInv, ApiTypeOK
  <2>10. OnlyAuthenticated' /\ Connected'
    BY <2>1 DEF ApiInv, OnlyAuthenticated, Connected
  <2>11. FirstOnWire'
    BY <2>1 DEF ApiInv, FirstOnWire, Unread
  <2> QED BY <2>7, <2>8, <2>9, <2>10, <2>11 DEF ApiInv
<1>2. CASE HandleFirst(c)
  <2>1. PICK k \in Kinds :
          /\ Reads(c, k)
          /\ \/ /\ answer' = IF peer[c] = "requested"
                              THEN [answer EXCEPT ![c] = Response(k)] ELSE answer
                /\ handler' = [handler EXCEPT ![c] =
                      IF Response(k) = "success" THEN "loop" ELSE "cleanup"]
             \/ /\ Gone(c)
                /\ handler' = [handler EXCEPT ![c] = "cleanup"]
                /\ UNCHANGED answer
    BY <1>2, SMTT(30) DEF HandleFirst
  <2>2. PICK to \in {"loop", "cleanup"} :
          handler' = [handler EXCEPT ![c] = to] /\ (to = "loop" => Response(k) = "success")
    BY <2>1
  <2>3. answer' \in [Peers -> {"none", "success", "unauthorized", "fail"}]
    <3>1. Response(k) \in {"success", "unauthorized", "fail"}
      BY DEF Response, Kinds, ApiInv, ApiTypeOK
    <3>2. answer \in [Peers -> {"none", "success", "unauthorized", "fail"}]
      BY DEF ApiInv, ApiTypeOK
    <3> QED BY <2>1, <3>1, <3>2
  <2>4. to = "loop" /\ auth => first[c] = "right"
    <3>1. SUFFICES ASSUME to = "loop", auth PROVE first[c] = "right"
      OBVIOUS
    <3>2. k = "good token"
      BY <2>2, <3>1 DEF Response
    <3>3. wire[c] # <<>> /\ k = Head(wire[c])
      BY <2>1, <3>2 DEF Reads
    <3>4. handler[c] = "request" /\ first[c] # "none"
      BY <1>2, <3>3 DEF HandleFirst, ApiInv, FirstOnWire
    <3> QED BY <3>2, <3>3, <3>4 DEF ApiInv, FirstOnWire, Unread, Judged
  <2> QED BY <1>2, <2>1, <2>2, <2>3, <2>4, HandlerMoves, ReadsKeeps DEF HandleFirst, Served
<1>3. CASE HandleLoop(c)
  <2>1. answer \in [Peers -> {"none", "success", "unauthorized", "fail"}] /\ WireOK'
    BY <1>3, Untouched DEF HandleLoop, ApiInv, ApiTypeOK
  <2> QED BY <1>3, <2>1, HandlerMoves DEF HandleLoop, Served
<1>4. CASE HandleRead(c)
  <2>1. PICK k \in Kinds :
          /\ Reads(c, k)
          /\ handler' = [handler EXCEPT ![c] =
                CASE k = "request" -> "handle" [] k = "bad" -> "cleanup" [] OTHER -> "loop"]
    BY <1>4 DEF HandleRead
  <2>2. PICK to \in {"loop", "handle", "cleanup"} : handler' = [handler EXCEPT ![c] = to]
    BY <2>1
  <2>3. handler[c] = "read" /\ answer' \in [Peers -> {"none", "success", "unauthorized", "fail"}]
    BY <1>4 DEF HandleRead, ApiInv, ApiTypeOK
  <2> QED BY <1>4, <2>1, <2>2, <2>3, HandlerMoves, ReadsKeeps DEF HandleRead, Served
<1>5. CASE HandleDeletes(c)
  <2>1. /\ UNCHANGED <<auth, peer, first, wire, answer, id, nextId, closed, accepting, closer, crashed>>
        /\ handler[c] = "cleanup" /\ handler'[c] = "closing"
        /\ \A d \in Peers \ {c} : handler'[d] = handler[d]
        /\ clients' = {x \in clients : x[1] # id[c]}
    BY <1>5 DEF HandleDeletes, ApiInv, ApiTypeOK
  <2>2. \A d \in Peers : handler'[d] \in Served <=> d # c /\ handler[d] \in Served
    BY <2>1 DEF Served
  <2>3. \A d \in Peers : handler[d] \in Served /\ id[d] = id[c] => d = c
    BY <2>1 DEF ApiInv, IdsApart, Served
  <2>4. clients' = {<<id'[d], d>> : d \in {e \in Peers : handler'[e] \in Served}}
    <3>1. clients = {<<id[d], d>> : d \in {e \in Peers : handler[e] \in Served}}
      BY DEF ApiInv, ClientsAreServed, Served
    <3> QED BY <2>1, <2>2, <2>3, <3>1
  <2>5. ClientsAreServed' /\ IdsApart'
    BY <2>1, <2>2, <2>4 DEF ApiInv, ClientsAreServed, IdsApart, Served
  <2>6. ApiTypeOK'
    BY <1>5, Untouched, SMTT(30) DEF HandleDeletes, ApiInv, ApiTypeOK
  <2>7. OnlyAuthenticated' /\ Connected'
    BY <2>1 DEF ApiInv, OnlyAuthenticated, Connected
  <2>8. FirstOnWire'
    BY <2>1 DEF ApiInv, FirstOnWire, Unread
  <2> QED BY <2>5, <2>6, <2>7, <2>8 DEF ApiInv
<1>6. CASE HandleCloses(c)
  <2>1. /\ UNCHANGED <<auth, peer, first, id, clients, nextId, closed, accepting, closer, crashed>>
        /\ handler[c] = "closing" /\ handler'[c] = "done"
        /\ \A d \in Peers \ {c} : handler'[d] = handler[d]
    BY <1>6 DEF HandleCloses, ApiInv, ApiTypeOK
  <2>2. WireOK' /\ wire'[c] = <<>> /\ \A d \in Peers \ {c} : wire'[d] = wire[d]
    <3>1. wire \in [Peers -> Seq(Kinds)] /\ wire' = [wire EXCEPT ![c] = <<>>]
      BY <1>6 DEF HandleCloses, ApiInv, ApiTypeOK, WireOK
    <3>2. <<>> \in Seq(Kinds)
      OBVIOUS
    <3> QED BY <3>1, <3>2 DEF WireOK
  <2>3. {d \in Peers : handler'[d] \in Served} = {d \in Peers : handler[d] \in Served}
    BY <2>1 DEF Served
  <2>4. ClientsAreServed' /\ IdsApart'
    BY <2>1, <2>3 DEF ApiInv, ClientsAreServed, IdsApart, Served
  <2>5. /\ answer' \in [Peers -> {"none", "success", "unauthorized", "fail"}]
        /\ handler' \in [Peers -> {"none", "backlog", "request", "loop", "read", "handle",
                                  "cleanup", "closing", "done"}]
    BY <1>6 DEF HandleCloses, ApiInv, ApiTypeOK
  <2>6. ApiTypeOK'
    BY <2>1, <2>2, <2>5, SMTT(30) DEF ApiInv, ApiTypeOK
  <2>7. OnlyAuthenticated' /\ Connected'
    BY <2>1 DEF ApiInv, OnlyAuthenticated, Connected
  <2>8. FirstOnWire'
    BY <2>1, <2>2, Zenon DEF ApiInv, FirstOnWire, Unread
  <2> QED BY <2>4, <2>6, <2>7, <2>8 DEF ApiInv
<1> QED BY <1>1, <1>2, <1>3, <1>4, <1>5, <1>6 DEF Serve

\* API.Close.
LEMMA CloseKeeps ==
  ASSUME ApiInv, NEW k \in Closers, CloseStep(k)
  PROVE  ApiInv'
<1> USE DEF peerVars, handleVars
<1>1. CASE CloseChecks(k) \/ CloseChannel(k)
  <2>1. /\ UNCHANGED <<auth, peer, first, wire, answer, handler, id, clients, nextId>>
        /\ closed => closed'
    BY <1>1 DEF CloseChecks, CloseChannel
  <2>2. ApiTypeOK'
    BY <1>1, Untouched DEF CloseChecks, CloseChannel, ApiInv, ApiTypeOK
  <2>3. Connected'
    BY <2>1 DEF ApiInv, Connected
  <2> QED BY <2>1, <2>2, <2>3, Untouched DEF ApiInv
<1>2. CASE CloseListener(k)
  <2>1. /\ UNCHANGED <<auth, peer, first, wire, answer, id, clients, nextId, closed>>
        /\ \A d \in Peers : handler'[d] = IF handler[d] = "backlog" THEN "done" ELSE handler[d]
    BY <1>2 DEF CloseListener
  <2>2. ApiTypeOK'
    BY <1>2, Untouched DEF CloseListener, ApiInv, ApiTypeOK
  <2>3. {d \in Peers : handler'[d] \in Served} = {d \in Peers : handler[d] \in Served}
    BY <2>1 DEF Served
  <2>4. ClientsAreServed' /\ IdsApart'
    BY <2>1, <2>3 DEF ApiInv, ClientsAreServed, IdsApart, Served
  <2>5. OnlyAuthenticated' /\ Connected'
    BY <2>1 DEF ApiInv, OnlyAuthenticated, Connected
  <2>6. FirstOnWire'
    BY <2>1 DEF ApiInv, FirstOnWire, Unread
  <2> QED BY <2>2, <2>4, <2>5, <2>6 DEF ApiInv
<1> QED BY <1>1, <1>2 DEF CloseStep

-----------------------------------------------------------------------------
\* Both parts, and whom the handlers of Kick wait for.
ProxyInv ==
    /\ RegistryInv /\ ApiInv /\ target \in [Peers -> Sessions \cup {None}]
    /\ \A c \in Peers : target[c] # None => once[target[c]] # "idle"

\* Every step of the proxy keeps it.
LEMMA ProxyStep ==
  ASSUME ProxyInv, [Next]_vars
  PROVE  ProxyInv'
<1> USE NoneAssumption
<1>1. ASSUME UNCHANGED registryVars PROVE RegistryInv' /\ UNCHANGED once
  BY <1>1 DEF ProxyInv, RegistryInv, RegistryTypeOK, LoggedInIsListed, EntryIsOwn, registryVars,
              shutdownVars
<1>2. ASSUME UNCHANGED apiVars PROVE ApiInv'
  <2>1. UNCHANGED <<auth, peer, first, wire, answer, handler, id, clients, nextId, closed,
                    accepting, closer, crashed>>
    BY <1>2 DEF apiVars, peerVars, handleVars, closeVars
  <2>2. ApiTypeOK'
    BY <2>1, Untouched DEF ProxyInv, ApiInv, ApiTypeOK
  <2>3. Connected'
    BY <2>1 DEF ProxyInv, ApiInv, Connected
  <2> QED BY <2>1, <2>2, <2>3, Untouched DEF ProxyInv, ApiInv
<1>3. CASE RegistryNext /\ UNCHANGED <<apiVars, target>>
  BY <1>2, <1>3, RegistryStep, SMTT(30) DEF ProxyInv
<1>4. ASSUME NEW c \in Peers, HandleNobody(c) \/ HandleTransfer(c) \/ HandleKicked(c)
      PROVE  ProxyInv'
  <2>1. ApiInv'
    <3>1. /\ handler[c] = "handle" /\ handler' = [handler EXCEPT ![c] = "loop"]
          /\ UNCHANGED <<auth, peer, first, wire, answer, id, clients, nextId, closed,
                         accepting, closer, crashed>>
      BY <1>4 DEF HandleNobody, HandleTransfer, HandleKicked, peerVars, closeVars
    <3>2. answer \in [Peers -> {"none", "success", "unauthorized", "fail"}] /\ WireOK'
      BY <3>1, Untouched DEF ProxyInv, ApiInv, ApiTypeOK
    <3> QED BY <3>1, <3>2, HandlerMoves, Zenon DEF Served, ProxyInv
  <2>2. /\ target' \in [Peers -> Sessions \cup {None}]
        /\ \A d \in Peers : target'[d] # None => target'[d] = target[d]
    BY <1>4 DEF HandleNobody, HandleTransfer, HandleKicked, ProxyInv
  <2> QED BY <1>1, <1>4, <2>1, <2>2 DEF HandleNobody, HandleTransfer, HandleKicked, ProxyInv
<1>5. ASSUME NEW c \in Peers, HandleKick(c) PROVE ProxyInv'
  <2>1. PICK p \in Players : /\ GetSession(p) # None /\ Enter(GetSession(p))
                             /\ target' = [target EXCEPT ![c] = GetSession(p)]
    BY <1>5 DEF HandleKick
  <2>2. GetSession(p) \in Sessions
    BY <2>1 DEF GetSession, ProxyInv, RegistryInv, RegistryTypeOK
  <2>3. /\ RegistryInv' /\ once'[GetSession(p)] # "idle"
        /\ \A u \in Sessions : once[u] # "idle" => once'[u] # "idle"
    BY <1>5, <2>1, <2>2, EnterKeeps DEF HandleKick, ProxyInv
  <2> QED BY <1>2, <1>5, <2>1, <2>2, <2>3 DEF HandleKick, ProxyInv
<1>6. ASSUME NEW c \in Peers, Serve(c) \/ PeerStep(c), UNCHANGED <<registryVars, target>>
      PROVE  ProxyInv'
  BY <1>1, <1>6, ServeKeeps, PeerKeeps DEF ProxyInv
<1>7. ASSUME NEW k \in Closers, CloseStep(k), UNCHANGED <<registryVars, target>>
      PROVE  ProxyInv'
  BY <1>1, <1>7, CloseKeeps DEF ProxyInv
<1>8. CASE UNCHANGED vars
  BY <1>1, <1>2, <1>8 DEF ProxyInv, vars
<1> QED BY <1>3, <1>4, <1>5, <1>6, <1>7, <1>8 DEF Next, Handle

\* For any number of sessions, players, API connections and callers of Close: all
\* that is said of the proxy below follows from it.
LEMMA ProxyAlways == Spec => []ProxyInv
<1>1. Init => ProxyInv
  BY RegistryStart, ApiStart DEF Init, ProxyInv
<1> QED BY <1>1, ProxyStep, PTL DEF Spec

\* Every variable keeps its type (registry.go, spectrum.go, api.go).
THEOREM ProxyTyped == Spec => []TypeOK
<1>1. ProxyInv => TypeOK
  BY DEF ProxyInv, RegistryInv, ApiInv, TypeOK
<1> QED BY <1>1, ProxyAlways, PTL

\* A logged-in player is listed, but for another session of theirs (LoginContext,
\* CloseWithError).
THEOREM LoggedInAlwaysListed == Spec => []LoggedInIsListed
<1>1. ProxyInv => LoggedInIsListed
  BY DEF ProxyInv, RegistryInv
<1> QED BY <1>1, ProxyAlways, PTL

\* An entry is a session of that player which spawned (AddSession).
THEOREM EntryAlwaysOwn == Spec => []EntryIsOwn
<1>1. ProxyInv => EntryIsOwn
  BY DEF ProxyInv, RegistryInv
<1> QED BY <1>1, ProxyAlways, PTL

\* Spectrum.Close returns with all it listed closed.
THEOREM ShutdownAlwaysComplete == Spec => []ShutdownComplete
<1>1. ProxyInv => ShutdownComplete
  BY NoneAssumption DEF ProxyInv, RegistryInv, RegistryTypeOK, ShutdownComplete
<1> QED BY <1>1, ProxyAlways, PTL

\* The table of the API holds the connections at work (Accept, handle).
THEOREM ClientsAlwaysServed == Spec => []ClientsAreServed
<1>1. ProxyInv => ClientsAreServed
  BY DEF ProxyInv, ApiInv
<1> QED BY <1>1, ProxyAlways, PTL

\* No packet is handled before the connection is authenticated (handle).
THEOREM AlwaysAuthenticated == Spec => []OnlyAuthenticated
<1>1. ProxyInv => OnlyAuthenticated
  BY DEF ProxyInv, ApiInv
<1> QED BY <1>1, ProxyAlways, PTL

\* Nobody waits for a close that nobody began (Disconnect, s.once).
THEOREM AlwaysWaitsForClose == Spec => []WaitsForClose
<1>1. ProxyInv => WaitsForClose
  BY DEF ProxyInv, RegistryInv, WaitsForClose
<1> QED BY <1>1, ProxyAlways, PTL
=============================================================================
