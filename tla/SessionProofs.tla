---------------------------- MODULE SessionProofs ----------------------------
(* Proofs about Session, for any number of callers of Transfer and of       *)
(* connections.                                                             *)
EXTENDS Session, TLAPS

\* Who dials holds s.serverMu, and dial does not end well after CloseWithError.
Locked ==
    /\ \A t \in Dialers : pc[t] \in {"dialing", "publish"} => writer = t
    /\ \A t \in Dialers : pc[t] = "publish" => opened < MaxConns /\ once # "done"
    /\ once \in {"clientClosed", "done"} => ctxDone

\* A connection is not used before it is opened, and never again opened.
Numbered ==
    \A c \in Conns : IF c > opened THEN st[c] = "unused" /\ seq[c] = "idle"
                                   ELSE st[c] # "unused"

\* handleServer is started by LoginContext, after dial.
Dialled == {"discover", "pre", "dial", "lock", "dialing", "publish"}
StartedByLogin ==
    /\ pc["login"] \in Dialled => pc["server"] = "unborn"
    /\ pc["server"] = "unborn" => ~inFallback
    /\ pc["server"] # "unborn" => serverConn # 0

\* What handleServer reads from is a connection.
ReadsConn ==
    pc["server"] \in {"read", "callback", "readErr", "lost"} => my["server"] # 0

\* From the loss of a server to the success of a transfer nobody is spawned on an
\* open connection, nor can LoginContext spawn the player on its own; except on the
\* lost one, until handleServer has closed it.
Spawning == {"doConnect", "waitConnect", "startGame", "doSpawn"}
BeingClosed(c) == pc["server"] = "lost" /\ c = my["server"]
NobodySpawned ==
    inFallback \/ pc["server"] \in {"lost", "fallback"} =>
        /\ \A c \in Conns : st[c] = "open" /\ seq[c] = "spawned" =>
              told[c] = "failure" \/ BeingClosed(c)
        /\ pc["login"] \in Spawning => ~Open(my["login"]) \/ BeingClosed(my["login"])

SessionInv ==
    /\ TypeOK /\ Locked /\ OnlyCurrentOpen /\ NoConnLeak /\ Numbered /\ StartedByLogin
    /\ ReadsConn /\ NobodySpawned

\* It holds for a new session.
LEMMA SessionStart == Init => SessionInv
<1> SUFFICES ASSUME Init PROVE SessionInv
  OBVIOUS
<1>1. /\ pc["login"] = "discover" /\ pc["server"] = "unborn"
      /\ \A t \in Threads : pc[t] \in {"discover", "unborn"}
  BY DEF Init, Threads, Dialers
<1>2. TypeOK
  <2>1. opened \in 0 .. MaxConns /\ serverConn \in 0 .. opened /\ my \in [Threads -> 0 .. opened]
    BY MaxConnsAssumption DEF Init
  <2>2. pc \in [Threads -> States]
    BY DEF Init, States
  <2> QED BY <2>1, <2>2 DEF Init, TypeOK
<1>3. Locked /\ OnlyCurrentOpen /\ NoConnLeak
  BY <1>1 DEF Init, Locked, OnlyCurrentOpen, NoConnLeak, Threads
<1>4. Numbered
  BY MaxConnsAssumption DEF Init, Numbered, Conns
<1>5. StartedByLogin /\ ReadsConn /\ NobodySpawned
  BY <1>1 DEF Init, StartedByLogin, ReadsConn, NobodySpawned
<1> QED BY <1>2, <1>3, <1>4, <1>5 DEF SessionInv

\* Connections are numbered from 1.
LEMMA ConnRange ==
  ASSUME SessionInv
  PROVE  /\ opened \in Nat /\ serverConn \in 0 .. opened
         /\ \A c \in 0 .. opened : c # 0 => c \in Conns /\ c \in 1 .. opened /\ ~(c > opened)
  BY MaxConnsAssumption DEF SessionInv, TypeOK, Conns

\* Connections are at most closed, failures reported, and nobody is spawned.
Tame ==
    /\ st' \in [Conns -> {"unused", "open", "closed"}]
    /\ seq' \in [Conns -> {"idle", "requested", "connected", "spawned"}]
    /\ told' \in [Conns -> {"nothing", "failure", "post"}] /\ link' \in [Conns -> BOOLEAN]
    /\ \A c \in Conns :
          /\ st'[c] = st[c] \/ (st[c] = "open" /\ st'[c] = "closed")
          /\ told'[c] = told[c] \/ told'[c] = "failure"
          /\ seq'[c] = seq[c] \/ (c <= opened /\ seq'[c] # "spawned")

\* So it is when nothing happens to them, and in server.Conn.CloseWithError.
LEMMA CloseIsTame ==
  ASSUME SessionInv, UNCHANGED seq
  PROVE  /\ UNCHANGED <<st, link, told>> => Tame
         /\ \A c \in 0 .. opened : CloseConn(c) =>
               Tame /\ (c # 0 => st'[c] = "closed")
<1>1. UNCHANGED <<st, link, told>> => Tame
  BY DEF SessionInv, TypeOK, Tame
<1>2. ASSUME NEW c \in 0 .. opened, CloseConn(c)
      PROVE  Tame /\ (c # 0 => st'[c] = "closed")
  <2>1. CASE Open(c)
    BY <1>2, <2>1, ConnRange DEF CloseConn, Open, SessionInv, TypeOK, Tame
  <2>2. CASE ~Open(c)
    <3>1. c # 0 => st[c] = "closed"
      BY <2>2, ConnRange DEF SessionInv, TypeOK, Numbered, Open
    <3> QED BY <1>1, <1>2, <2>2, <3>1 DEF CloseConn
  <2> QED BY <2>1, <2>2
<1> QED BY <1>1, <1>2

\* A goroutine goes on and leaves the connections tame.
LEMMA Moves ==
  ASSUME SessionInv, NEW t \in Threads, NEW to \in States, Go(t, to),
         UNCHANGED <<ctxDone, serverConn, opened, inFallback, once>>, Tame,
         viaFallback' \in BOOLEAN, registered' \in BOOLEAN, cb' \in [Conns -> BOOLEAN],
         writer' = writer \/ (writer = t /\ writer' = "none"),
         to \notin {"dialing", "publish", "unborn"},
         to \in Spawning => pc[t] \in Spawning,
         t = "login" /\ to \in Dialled => pc[t] \in Dialled,
         t = "server" => pc[t] # "unborn",
         t = "server" /\ to \in {"read", "callback", "readErr", "lost"} => my[t] # 0,
         t = "server" /\ to = "lost" => \A c \in Conns : st[c] = "open" => c = my[t],
         t = "server" => (pc[t] = "lost" <=> to = "fallback"),
         t = "server" /\ to = "fallback" => my[t] \in Conns /\ st'[my[t]] # "open"
  PROVE  SessionInv'
<1>1. /\ pc' \in [Threads -> States] /\ pc'[t] = to
      /\ \A u \in Threads \ {t} : pc'[u] = pc[u] /\ my'[u] = my[u]
      /\ my' \in [Threads -> 0 .. opened]
      /\ to \notin {"loop", "pre", "fallback", "failed", "close", "exited"} => my'[t] = my[t]
  BY DEF Go, SessionInv, TypeOK
<1>2. TypeOK'
  BY <1>1 DEF SessionInv, TypeOK, Tame
<1>3. "login" \in Threads /\ "server" \in Threads /\ Dialers \subseteq Threads
  BY DEF Threads, Dialers
<1>4. Locked' /\ OnlyCurrentOpen' /\ NoConnLeak'
  BY <1>1, <1>3 DEF SessionInv, Locked, OnlyCurrentOpen, NoConnLeak, Tame
<1>5. Numbered'
  BY DEF SessionInv, TypeOK, Numbered, Conns, Tame
<1>6. StartedByLogin'
  BY <1>1, <1>3 DEF SessionInv, StartedByLogin
<1>7. ReadsConn'
  BY <1>1, <1>3 DEF SessionInv, ReadsConn
<1>8. NobodySpawned'
  <2>1. \A c \in 0 .. opened : Open(c)' => Open(c) /\ c \in Conns
    BY ConnRange DEF Open, Tame
  <2>2. my["login"] \in 0 .. opened
    BY <1>3 DEF SessionInv, TypeOK
  <2>3. pc'["login"] \in Spawning => my'["login"] = my["login"] /\ pc["login"] \in Spawning
    BY <1>1, <1>3 DEF Spawning
  <2>4. CASE t # "server"
    BY <1>1, <1>3, <2>1, <2>2, <2>3, <2>4 DEF SessionInv, NobodySpawned, BeingClosed, Tame
  <2>5. CASE t = "server" /\ to = "lost"
    BY <1>1, <1>3, <2>1, <2>2, <2>3, <2>5 DEF NobodySpawned, BeingClosed, Tame, Open
  <2>6. CASE t = "server" /\ to = "fallback"
    <3>1. pc["server"] = "lost"
      BY <2>6
    <3>2. \A c \in Conns : st'[c] = "open" /\ seq'[c] = "spawned" => told'[c] = "failure"
      <4>1. SUFFICES ASSUME NEW c \in Conns, st'[c] = "open", seq'[c] = "spawned"
                     PROVE  told'[c] = "failure"
        OBVIOUS
      <4>2. c # my["server"] /\ st[c] = "open" /\ seq[c] = "spawned"
        BY <2>6, <4>1 DEF Tame
      <4> QED BY <3>1, <4>1, <4>2 DEF SessionInv, NobodySpawned, BeingClosed, Tame
    <3>3. pc'["login"] \in Spawning => ~Open(my["login"])'
      <4>1. SUFFICES ASSUME pc'["login"] \in Spawning, Open(my["login"])' PROVE FALSE
        OBVIOUS
      <4>2. my'["login"] = my["login"] /\ pc["login"] \in Spawning
        BY <2>3, <4>1
      <4>3. st'[my["login"]] = "open" /\ Open(my["login"])
        BY <2>1, <2>2, <4>1, <4>2 DEF Open
      <4>4. my["login"] # my["server"]
        BY <2>6, <4>3
      <4> QED BY <3>1, <4>2, <4>3, <4>4 DEF SessionInv, NobodySpawned, BeingClosed
    <3> QED BY <3>2, <3>3 DEF NobodySpawned
  <2>7. CASE t = "server" /\ to \notin {"lost", "fallback"}
    BY <1>1, <1>3, <2>1, <2>2, <2>3, <2>7 DEF SessionInv, NobodySpawned, BeingClosed, Tame
  <2> QED BY <2>4, <2>5, <2>6, <2>7
<1> QED BY <1>2, <1>4, <1>5, <1>6, <1>7, <1>8 DEF SessionInv

\* The goroutines stay where they are: a step of CloseWithError or of a peer.
LEMMA Stays ==
  ASSUME SessionInv, Tame,
         UNCHANGED <<threadVars, serverConn, opened, writer, cb, inFallback>>,
         ctxDone' \in BOOLEAN, ctxDone => ctxDone', registered' \in BOOLEAN,
         once' \in {"idle", "entered", "clientClosed", "done"},
         once' \in {"clientClosed", "done"} => ctxDone',
         once' = "done" => \/ once = "done"
                           \/ writer = "none" /\ \A c \in Conns : st'[c] # "open"
  PROVE  SessionInv'
<1> USE DEF threadVars
<1>1. TypeOK'
  BY DEF SessionInv, TypeOK, Tame
<1>2. "login" \in Threads /\ "server" \in Threads /\ "none" \notin Dialers
  BY CallersAssumption DEF Threads, Dialers
<1>3. Locked'
  BY <1>2 DEF SessionInv, Locked
<1>4. OnlyCurrentOpen' /\ NoConnLeak'
  BY DEF SessionInv, OnlyCurrentOpen, NoConnLeak, Tame
<1>5. Numbered'
  BY DEF SessionInv, TypeOK, Numbered, Conns, Tame
<1>6. StartedByLogin'
  BY DEF SessionInv, StartedByLogin
<1>7. \A c \in 0 .. opened : Open(c)' => Open(c)
  BY ConnRange DEF Open, Tame
<1>8. my["login"] \in 0 .. opened
  BY <1>2 DEF SessionInv, TypeOK
<1>9. ReadsConn'
  BY DEF SessionInv, ReadsConn
<1>10. NobodySpawned'
  BY <1>7, <1>8 DEF SessionInv, NobodySpawned, BeingClosed, Tame
<1> QED BY <1>1, <1>3, <1>4, <1>5, <1>6, <1>9, <1>10 DEF SessionInv

\* dial takes s.serverMu and closes the connection in use.
LEMMA DialLockKeeps ==
  ASSUME SessionInv, NEW t \in Dialers, DialLock(t)
  PROVE  SessionInv'
<1>1. t \in Threads /\ "login" \in Threads /\ "server" \in Threads /\ "none" \notin Dialers
      /\ Dialers \subseteq Threads
  BY CallersAssumption DEF Threads, Dialers
<1>2. /\ pc[t] = "lock" /\ writer = "none" /\ writer' = t
      /\ pc' = [pc EXCEPT ![t] = "dialing"] /\ my' = my
      /\ UNCHANGED <<viaFallback, ctxDone, serverConn, opened, seq, cb, inFallback,
                     once, registered>>
  BY DEF DialLock, Go
<1>3. Tame /\ (serverConn # 0 => st'[serverConn] = "closed")
  BY <1>2, ConnRange, CloseIsTame DEF DialLock
<1>4. \A c \in Conns : st'[c] # "open"
  BY <1>3, ConnRange DEF SessionInv, OnlyCurrentOpen, Tame, Conns
<1>5. pc' \in [Threads -> States] /\ pc'[t] = "dialing" /\ \A u \in Threads \ {t} : pc'[u] = pc[u]
  BY <1>1, <1>2 DEF SessionInv, TypeOK, States
<1>6. \A u \in Dialers : pc[u] \notin {"dialing", "publish"}
  BY <1>1, <1>2 DEF SessionInv, Locked
<1>7. TypeOK'
  BY <1>2, <1>3, <1>5 DEF SessionInv, TypeOK, Tame
<1>8. Locked' /\ OnlyCurrentOpen' /\ NoConnLeak'
  BY <1>1, <1>2, <1>4, <1>5, <1>6 DEF SessionInv, Locked, OnlyCurrentOpen, NoConnLeak
<1>9. Numbered'
  BY <1>2, <1>3 DEF SessionInv, TypeOK, Numbered, Conns, Tame
<1>10. StartedByLogin'
  BY <1>1, <1>2, <1>5 DEF SessionInv, StartedByLogin, Dialled
<1>11. ReadsConn'
  BY <1>1, <1>2, <1>5 DEF SessionInv, ReadsConn
<1>12. NobodySpawned'
  <2>1. \A c \in 0 .. opened : ~Open(c)'
    BY <1>2, <1>4, ConnRange DEF Open
  <2>2. my["login"] \in 0 .. opened
    BY <1>1 DEF SessionInv, TypeOK
  <2> QED BY <1>2, <1>4, <2>1, <2>2 DEF NobodySpawned
<1> QED BY <1>7, <1>8, <1>9, <1>10, <1>11, <1>12 DEF SessionInv

\* dial stores the new connection.
LEMMA DialPublishKeeps ==
  ASSUME SessionInv, NEW t \in Dialers, DialPublish(t)
  PROVE  SessionInv'
<1>1. t \in Threads /\ "login" \in Threads /\ "server" \in Threads /\ Dialers \subseteq Threads
      /\ {"client", "latency"} \subseteq Threads /\ {"client", "latency"} \cap Dialers = {}
  BY CallersAssumption DEF Threads, Dialers
<1>2. /\ pc[t] = "publish" /\ writer = t /\ opened < MaxConns /\ once # "done"
      /\ \A c \in Conns : st[c] # "open"
      /\ opened' = opened + 1 /\ serverConn' = opened + 1 /\ writer' = "none"
      /\ st' = [st EXCEPT ![opened + 1] = "open"] /\ my' = [my EXCEPT ![t] = opened + 1]
      /\ UNCHANGED <<viaFallback, ctxDone, link, seq, cb, told, inFallback, once, registered>>
  BY DEF DialPublish, SessionInv, Locked, OnlyCurrentOpen
<1>3. /\ opened \in Nat /\ opened + 1 \in Conns /\ opened + 1 \in Nat
      /\ \A c \in 0 .. opened : c \in 0 .. (opened + 1) /\ c # opened + 1
      /\ opened + 1 \in 0 .. MaxConns
  BY <1>2, MaxConnsAssumption DEF SessionInv, TypeOK, Conns
<1>4. \A u \in Threads : pc'[u] = CASE u = t -> "doConnect"
                   [] t = "login" /\ u \in {"server", "client", "latency"} -> "loop"
                   [] OTHER -> pc[u]
  BY DEF DialPublish
<1>5. /\ pc' \in [Threads -> States] /\ pc'[t] = "doConnect"
      /\ \A u \in Threads \ {t} : pc'[u] = pc[u] \/ (pc'[u] = "loop" /\ t = "login")
      /\ t = "login" => pc'["server"] = "loop"
  BY <1>1, <1>4 DEF DialPublish, SessionInv, TypeOK, States
<1>6. my' \in [Threads -> 0 .. opened'] /\ my'[t] = opened + 1
      /\ \A u \in Threads \ {t} : my'[u] = my[u] /\ my[u] \in 0 .. opened
  BY <1>1, <1>2, <1>3 DEF SessionInv, TypeOK
<1>7. st' \in [Conns -> {"unused", "open", "closed"}] /\ st'[opened + 1] = "open"
      /\ \A c \in Conns \ {opened + 1} : st'[c] = st[c]
  BY <1>2, <1>3 DEF SessionInv, TypeOK
<1>8. TypeOK'
  BY <1>2, <1>3, <1>5, <1>6, <1>7 DEF SessionInv, TypeOK
<1>9. \A u \in Dialers : pc'[u] \notin {"dialing", "publish"}
  BY <1>1, <1>2, <1>5 DEF SessionInv, Locked
<1>10. Locked' /\ OnlyCurrentOpen' /\ NoConnLeak'
  BY <1>2, <1>7, <1>9 DEF SessionInv, Locked, OnlyCurrentOpen, NoConnLeak
<1>11. Numbered'
  BY <1>2, <1>3, <1>7 DEF SessionInv, TypeOK, Numbered, Conns
<1>12. StartedByLogin'
  BY <1>1, <1>2, <1>3, <1>5 DEF SessionInv, StartedByLogin, Dialled
<1>13. ReadsConn'
  <2>1. pc'["server"] \in {"read", "callback", "readErr", "lost"} =>
          pc'["server"] = pc["server"] /\ my'["server"] = my["server"]
    BY <1>1, <1>5, <1>6
  <2> QED BY <2>1 DEF SessionInv, ReadsConn
<1>14. NobodySpawned'
  <2>1. SUFFICES ASSUME inFallback \/ pc'["server"] \in {"lost", "fallback"}
                 PROVE  NobodySpawned'
    BY <1>2 DEF NobodySpawned
  <2>2. t # "login"
    <3>1. t = "login" => pc["server"] = "unborn"
      BY <1>2 DEF SessionInv, StartedByLogin, Dialled
    <3> QED BY <1>5, <2>1, <3>1 DEF SessionInv, StartedByLogin
  <2>3. seq[opened + 1] = "idle"
    BY <1>3 DEF SessionInv, Numbered
  <2>4. ~Open(my["login"])'
    BY <1>1, <1>2, <1>3, <1>6, <1>7, <2>2, ConnRange DEF Open
  <2> QED BY <1>2, <1>7, <2>3, <2>4 DEF NobodySpawned
<1> QED BY <1>8, <1>10, <1>11, <1>12, <1>13, <1>14 DEF SessionInv

\* Where an error takes a goroutine.
LEMMA FailsGoes ==
  ASSUME NEW t \in Threads, Fails(t)
  PROVE  \E to \in {"close", "loop", "exited"} : Go(t, to)
  BY DEF Fails

\* A goroutine goes on, and nothing else happens.
LEMMA Goes ==
  ASSUME SessionInv, NEW t \in Threads, NEW to \in States, Go(t, to),
         UNCHANGED <<ctxDone, connVars, inFallback, once, writer>>,
         viaFallback' \in BOOLEAN, registered' \in BOOLEAN,
         to \notin {"dialing", "publish", "unborn", "fallback"}, t = "server" => pc[t] # "lost",
         to \in Spawning => pc[t] \in Spawning,
         t = "login" /\ to \in Dialled => pc[t] \in Dialled,
         t = "server" => pc[t] # "unborn",
         t = "server" /\ to \in {"read", "callback", "readErr", "lost"} => my[t] # 0,
         t = "server" /\ to = "lost" => \A c \in Conns : st[c] = "open" => c = my[t]
  PROVE  SessionInv'
<1>1. Tame /\ cb' \in [Conns -> BOOLEAN]
  BY CloseIsTame DEF connVars, SessionInv, TypeOK
<1> QED BY <1>1, Moves DEF connVars

\* TransferContext, and dial for LoginContext too.
LEMMA TransferKeeps ==
  ASSUME SessionInv, NEW t \in Dialers, Transfer(t)
  PROVE  SessionInv'
<1>1. t \in Threads /\ viaFallback \in BOOLEAN /\ registered \in BOOLEAN
  BY DEF Threads, SessionInv, TypeOK
<1>2. CASE PreTransfer(t)
  BY <1>1, <1>2, Goes, FailsGoes DEF PreTransfer, States, Spawning, Dialled
<1>3. CASE DialCheck(t)
  BY <1>1, <1>3, Goes, FailsGoes DEF DialCheck, States, Spawning, Dialled
<1>4. CASE DialResult(t)
  <2>1. CASE ~ctxDone /\ opened < MaxConns /\ Go(t, "publish") /\ UNCHANGED writer
    <3>1. /\ pc[t] = "dialing" /\ pc' = [pc EXCEPT ![t] = "publish"]
          /\ UNCHANGED <<my, viaFallback, ctxDone, writer, connVars, inFallback, once, registered>>
      BY <1>4, <2>1 DEF DialResult, Go
    <3>2. /\ pc' \in [Threads -> States] /\ pc'[t] = "publish"
          /\ \A u \in Threads \ {t} : pc'[u] = pc[u]
      BY <1>1, <3>1 DEF SessionInv, TypeOK, States
    <3>3. "login" \in Threads /\ "server" \in Threads /\ Dialers \subseteq Threads
      BY DEF Threads, Dialers
    <3>4. UNCHANGED <<serverConn, opened, st, link, seq, cb, told>>
      BY <3>1 DEF connVars
    <3>5. TypeOK'
      BY <3>1, <3>2, <3>4 DEF SessionInv, TypeOK
    <3>6. Locked' /\ OnlyCurrentOpen' /\ NoConnLeak'
      BY <2>1, <3>1, <3>2, <3>3, <3>4 DEF SessionInv, Locked, OnlyCurrentOpen, NoConnLeak
    <3>7. Numbered' /\ StartedByLogin'
      BY <3>1, <3>2, <3>3, <3>4 DEF SessionInv, Numbered, StartedByLogin, Dialled
    <3>8. ReadsConn' /\ NobodySpawned'
      BY <3>1, <3>2, <3>3, <3>4 DEF SessionInv, ReadsConn, NobodySpawned, BeingClosed, Open, Spawning
    <3> QED BY <3>5, <3>6, <3>7, <3>8 DEF SessionInv
  <2>2. CASE Fails(t) /\ writer' = "none"
    <3>1. pc[t] = "dialing" /\ writer = t
      BY <1>4 DEF DialResult, SessionInv, Locked
    <3>2. Tame /\ cb' \in [Conns -> BOOLEAN]
      BY <1>4, CloseIsTame DEF DialResult, connVars, SessionInv, TypeOK
    <3>3. PICK to \in {"close", "loop", "exited"} : Go(t, to)
      BY <1>1, <2>2, FailsGoes
    <3> QED BY <1>1, <1>4, <2>2, <3>1, <3>2, <3>3, Moves
            DEF DialResult, connVars, States, Spawning, Dialled
  <2> QED BY <1>4, <2>1, <2>2 DEF DialResult
<1>5. CASE DoConnect(t)
  <2>1. Tame
    <3>1. my[t] \in 0 .. opened
      BY <1>1 DEF SessionInv, TypeOK
    <3>2. /\ seq' = seq \/ seq' = [seq EXCEPT ![my[t]] = "requested"]
          /\ told' = told \/ told' = [told EXCEPT ![my[t]] = "failure"]
          /\ st' = st /\ link' = link
      BY <1>5 DEF DoConnect
    <3>3. \A c \in Conns : /\ seq'[c] = seq[c] \/ (c = my[t] /\ seq'[c] = "requested")
                           /\ told'[c] = told[c] \/ told'[c] = "failure"
      BY <3>2 DEF SessionInv, TypeOK
    <3>4. /\ seq' \in [Conns -> {"idle", "requested", "connected", "spawned"}]
          /\ told' \in [Conns -> {"nothing", "failure", "post"}]
          /\ st' \in [Conns -> {"unused", "open", "closed"}] /\ link' \in [Conns -> BOOLEAN]
      BY <3>2 DEF SessionInv, TypeOK
    <3> QED BY <3>1, <3>2, <3>3, <3>4, ConnRange DEF Tame
  <2>2. PICK to \in {"close", "loop", "exited", "waitConnect", "onConnect"} : Go(t, to)
    BY <1>1, <1>5, FailsGoes DEF DoConnect
  <2>3. pc[t] = "doConnect" /\ cb \in [Conns -> BOOLEAN]
    BY <1>5 DEF DoConnect, SessionInv, TypeOK
  <2> QED BY <1>1, <1>5, <2>1, <2>2, <2>3, Moves DEF DoConnect, States, Spawning, Dialled
<1>6. CASE OnConnect(t)
  <2>1. Tame /\ cb' \in [Conns -> BOOLEAN]
    BY <1>6, CloseIsTame DEF OnConnect, SessionInv, TypeOK
  <2>2. PICK to \in {"loop", "exited"} : Go(t, to)
    BY <1>6 DEF OnConnect
  <2> QED BY <1>1, <1>6, <2>1, <2>2, Moves DEF OnConnect, States, Spawning, Dialled
<1> QED BY <1>2, <1>3, <1>4, <1>5, <1>6, DialLockKeeps, DialPublishKeeps DEF Transfer

\* A player is spawned on an open connection: by LoginContext on its own, or by the
\* callback of TransferContext, which ends the time without a fallback.
LEMMA SpawnKeeps ==
  ASSUME SessionInv, NEW t \in {"login", "server"}, NEW to \in States, Go(t, to),
         to \notin Dialled \cup Spawning \cup {"unborn", "callback", "readErr", "lost", "fallback"},
         pc[t] \notin {"unborn", "lost"}, my[t] # 0, t = "login" => to # "read",
         UNCHANGED <<viaFallback, ctxDone, writer, serverConn, opened, st, link, cb, once,
                     registered>>,
         inFallback' \in BOOLEAN, inFallback' => inFallback,
         seq' = seq \/ seq' = [seq EXCEPT ![my[t]] = "spawned"],
         told' \in [Conns -> {"nothing", "failure", "post"}],
         \A c \in Conns : c # my[t] => told'[c] = told[c],
         \/ seq' = seq /\ told' = told
         \/ ~inFallback' /\ pc'["server"] \notin {"lost", "fallback"}
         \/ told'[my[t]] = "failure"
         \/ t = "login" /\ BeingClosed(my[t])
  PROVE  SessionInv'
<1>1. /\ t \in Threads /\ "login" \in Threads /\ "server" \in Threads /\ Dialers \subseteq Threads
      /\ my[t] \in 0 .. opened
  BY DEF Threads, Dialers, SessionInv, TypeOK
<1>2. /\ pc' \in [Threads -> States] /\ pc'[t] = to
      /\ my' \in [Threads -> 0 .. opened]
      /\ to \notin {"loop", "pre", "fallback", "failed", "close", "exited"} => my'[t] = my[t]
      /\ \A u \in Threads \ {t} : pc'[u] = pc[u] /\ my'[u] = my[u]
  BY <1>1 DEF Go, SessionInv, TypeOK
<1>3. /\ seq' \in [Conns -> {"idle", "requested", "connected", "spawned"}]
      /\ \A c \in Conns : c # my[t] => seq'[c] = seq[c]
  BY DEF SessionInv, TypeOK
<1>4. TypeOK'
  BY <1>2, <1>3 DEF SessionInv, TypeOK
<1>5. Locked' /\ OnlyCurrentOpen' /\ NoConnLeak'
  BY <1>1, <1>2 DEF SessionInv, Locked, OnlyCurrentOpen, NoConnLeak, Dialled
<1>6. Numbered'
  BY <1>1, <1>3, ConnRange DEF SessionInv, Numbered
<1>7. StartedByLogin'
  BY <1>1, <1>2 DEF SessionInv, StartedByLogin
<1>8. ReadsConn'
  BY <1>1, <1>2 DEF SessionInv, ReadsConn
<1>9. NobodySpawned'
  BY <1>1, <1>2, <1>3 DEF SessionInv, NobodySpawned, BeingClosed, Open
<1> QED BY <1>4, <1>5, <1>6, <1>7, <1>8, <1>9 DEF SessionInv

\* LoginContext.
LEMMA LoginKeeps ==
  ASSUME SessionInv, Discover \/ WaitConnect \/ StartGame \/ DoSpawn \/ Register
  PROVE  SessionInv'
<1>1. /\ "login" \in Threads /\ viaFallback \in BOOLEAN /\ registered \in BOOLEAN
      /\ cb \in [Conns -> BOOLEAN] /\ inFallback \in BOOLEAN
      /\ told \in [Conns -> {"nothing", "failure", "post"}]
  BY DEF Threads, Dialers, SessionInv, TypeOK
<1>2. CASE Discover
  BY <1>1, <1>2, Goes, FailsGoes DEF Discover, States, Spawning, Dialled
<1>3. CASE WaitConnect
  <2>1. my["login"] \in 0 .. opened /\ UNCHANGED seq
    BY <1>1, <1>3 DEF WaitConnect, SessionInv, TypeOK
  <2>2. Tame
    BY <1>3, <2>1, CloseIsTame DEF WaitConnect
  <2>3. PICK to \in {"close", "loop", "exited", "startGame"} : Go("login", to)
    BY <1>1, <1>3, FailsGoes DEF WaitConnect
  <2> QED BY <1>1, <1>3, <2>2, <2>3, Moves DEF WaitConnect, States, Spawning, Dialled
<1>4. CASE StartGame
  BY <1>1, <1>4, Goes, FailsGoes DEF StartGame, States, Spawning, Dialled
<1>5. CASE DoSpawn
  <2>1. CASE Open(my["login"])
    <3>1. \/ ~inFallback /\ pc["server"] \notin {"lost", "fallback"}
          \/ BeingClosed(my["login"])
      BY <1>5, <2>1, SMTT(30) DEF DoSpawn, SessionInv, NobodySpawned, Spawning
    <3>2. PICK to \in {"close", "loop", "exited", "register"} : Go("login", to)
      BY <1>1, <1>5, <2>1, FailsGoes DEF DoSpawn
    <3>3. pc'["server"] = pc["server"]
      BY <3>2, <1>1 DEF Go, Threads, Dialers, SessionInv, TypeOK
    <3>4. /\ seq' = seq \/ seq' = [seq EXCEPT ![my["login"]] = "spawned"]
          /\ pc["login"] = "doSpawn" /\ my["login"] # 0
          /\ UNCHANGED <<viaFallback, ctxDone, writer, serverConn, opened, st, link, cb, told,
                         inFallback, once, registered>>
      BY <1>5, <2>1 DEF DoSpawn, Open
    <3> QED BY <1>1, <3>1, <3>2, <3>3, <3>4, SpawnKeeps DEF States, Spawning, Dialled
  <2>2. CASE st[my["login"]] = "closed" /\ Fails("login") /\ UNCHANGED seq
    BY <1>1, <1>5, <2>2, Goes, FailsGoes DEF DoSpawn, connVars, States, Spawning, Dialled
  <2> QED BY <1>5, <2>1, <2>2 DEF DoSpawn
<1>6. CASE Register
  BY <1>1, <1>6, Goes DEF Register, States, Spawning, Dialled
<1> QED BY <1>2, <1>3, <1>4, <1>5, <1>6

\* handleServer and fallback.
LEMMA ServerKeeps ==
  ASSUME SessionInv,
         ServerLoop \/ ServerGet \/ ServerSequence \/ ServerCallback \/ ServerPacket
           \/ ServerReadError \/ ServerLost \/ ServerClosesLost \/ Fallback
  PROVE  SessionInv'
<1>1. /\ "server" \in Threads /\ "login" \in Threads /\ Dialers \subseteq Threads
      /\ viaFallback \in BOOLEAN /\ registered \in BOOLEAN /\ inFallback \in BOOLEAN
      /\ cb \in [Conns -> BOOLEAN] /\ my["server"] \in 0 .. opened
  BY DEF Threads, Dialers, SessionInv, TypeOK
<1>2. CASE ServerLoop
  BY <1>1, <1>2, Goes DEF ServerLoop, States, Spawning, Dialled
<1>3. CASE ServerGet
  <2>1. /\ serverConn # 0 /\ serverConn \in 0 .. opened
        /\ UNCHANGED <<viaFallback, ctxDone, writer, serverConn, opened, st, link, seq, cb, told,
                       inFallback, once, registered>>
    BY <1>3, ConnRange DEF ServerGet, connVars, SessionInv, StartedByLogin
  <2>2. /\ pc' \in [Threads -> States] /\ my' \in [Threads -> 0 .. opened]
        /\ pc'["server"] = "read" /\ my'["server"] = serverConn
        /\ \A u \in Threads \ {"server"} : pc'[u] = pc[u] /\ my'[u] = my[u]
    BY <1>1, <1>3, <2>1 DEF ServerGet, SessionInv, TypeOK, States
  <2>3. TypeOK'
    BY <2>1, <2>2 DEF SessionInv, TypeOK
  <2>4. Locked' /\ OnlyCurrentOpen' /\ NoConnLeak'
    BY <1>1, <2>1, <2>2 DEF SessionInv, Locked, OnlyCurrentOpen, NoConnLeak
  <2>5. Numbered' /\ StartedByLogin'
    BY <1>1, <1>3, <2>1, <2>2 DEF ServerGet, SessionInv, Numbered, StartedByLogin
  <2>6. ReadsConn' /\ NobodySpawned'
    BY <1>1, <1>3, <2>1, <2>2 DEF ServerGet, SessionInv, ReadsConn, NobodySpawned, BeingClosed, Open
  <2> QED BY <2>3, <2>4, <2>5, <2>6 DEF SessionInv
<1>4. CASE ServerSequence
  <2>1. my["server"] # 0 /\ pc["server"] = "read"
    BY <1>4 DEF ServerSequence, SessionInv, ReadsConn
  <2>2. Tame
    BY <1>1, <1>4, <2>1, ConnRange, SMTT(30) DEF ServerSequence, Tame, SessionInv, TypeOK
  <2>3. PICK to \in {"read", "callback"} : Go("server", to)
    BY <1>4 DEF ServerSequence
  <2> QED BY <1>1, <1>4, <2>1, <2>2, <2>3, Moves DEF ServerSequence, States, Spawning, Dialled
<1>5. CASE ServerCallback
  <2>1. /\ my["server"] # 0 /\ my["server"] \in Conns /\ pc["server"] = "callback"
        /\ Go("server", "read")
        /\ seq' = seq \/ seq' = [seq EXCEPT ![my["server"]] = "spawned"]
        /\ UNCHANGED <<viaFallback, ctxDone, writer, serverConn, opened, st, link, cb, once,
                       registered>>
    BY <1>1, <1>5, ConnRange DEF ServerCallback, SessionInv, ReadsConn
  <2>2. pc'["server"] = "read"
    BY <1>1, <2>1 DEF Go, SessionInv, TypeOK
  <2>3. /\ inFallback' \in BOOLEAN /\ (inFallback' => inFallback)
        /\ told' \in [Conns -> {"nothing", "failure", "post"}]
        /\ \A c \in Conns : c # my["server"] => told'[c] = told[c]
        /\ ~inFallback' \/ told'[my["server"]] = "failure"
    <3>1. told \in [Conns -> {"nothing", "failure", "post"}]
      BY DEF SessionInv, TypeOK
    <3>2. CASE inFallback' = FALSE /\ told' = [told EXCEPT ![my["server"]] = "post"]
      BY <3>1, <3>2
    <3>3. CASE UNCHANGED inFallback /\ told' = [told EXCEPT ![my["server"]] = "failure"]
      BY <1>1, <2>1, <3>1, <3>3
    <3> QED BY <1>5, <3>2, <3>3 DEF ServerCallback
  <2> QED BY <2>1, <2>2, <2>3, SpawnKeeps DEF States, Spawning, Dialled
<1>6. CASE ServerPacket
  <2>1. PICK to \in {"loop", "close", "pre"} : Go("server", to)
    BY <1>6 DEF ServerPacket
  <2> QED BY <1>1, <1>6, <2>1, Goes DEF ServerPacket, States, Spawning, Dialled
<1>7. CASE ServerReadError
  BY <1>1, <1>7, Goes DEF ServerReadError, States, Spawning, Dialled, SessionInv, ReadsConn
<1>8. CASE ServerLost
  <2>1. PICK to \in {"loop", "lost"} : Go("server", to) /\ (to = "lost" => my["server"] = serverConn)
    BY <1>8 DEF ServerLost
  <2>2. to = "lost" => \A c \in Conns : st[c] = "open" => c = my["server"]
    BY <2>1 DEF SessionInv, OnlyCurrentOpen
  <2>3. pc["server"] = "readErr" /\ my["server"] # 0
    BY <1>8 DEF ServerLost, SessionInv, ReadsConn
  <2> QED BY <1>1, <1>8, <2>1, <2>2, <2>3, Goes DEF ServerLost, States, Spawning, Dialled
<1>10. CASE ServerClosesLost
  <2>1. /\ CloseConn(my["server"]) /\ Go("server", "fallback") /\ pc["server"] = "lost"
        /\ UNCHANGED seq /\ my["server"] # 0 /\ my["server"] \in Conns
    BY <1>1, <1>10, ConnRange DEF ServerClosesLost, SessionInv, ReadsConn
  <2>2. Tame /\ st'[my["server"]] = "closed"
    BY <1>1, <2>1, CloseIsTame
  <2> QED BY <1>1, <1>10, <2>1, <2>2, Moves DEF ServerClosesLost, States, Spawning, Dialled
<1>9. CASE Fallback
  <2>1. PICK to \in {"close", "pre"} : Go("server", to)
    BY <1>9 DEF Fallback
  <2>2. /\ pc["server"] = "fallback" /\ inFallback' \in BOOLEAN /\ viaFallback' \in BOOLEAN
        /\ UNCHANGED <<ctxDone, writer, serverConn, opened, st, link, seq, cb, told, once,
                       registered>>
    BY <1>1, <1>9 DEF Fallback, connVars
  <2>3. /\ pc' \in [Threads -> States] /\ my' \in [Threads -> 0 .. opened]
        /\ pc'["server"] = to
        /\ \A u \in Threads \ {"server"} : pc'[u] = pc[u] /\ my'[u] = my[u]
    BY <1>1, <2>1 DEF Go, SessionInv, TypeOK, States
  <2>4. TypeOK'
    BY <2>2, <2>3 DEF SessionInv, TypeOK
  <2>5. Locked' /\ OnlyCurrentOpen' /\ NoConnLeak'
    BY <1>1, <2>2, <2>3 DEF SessionInv, Locked, OnlyCurrentOpen, NoConnLeak
  <2>6. Numbered' /\ StartedByLogin'
    BY <1>1, <2>2, <2>3 DEF SessionInv, Numbered, StartedByLogin
  <2>7. ReadsConn' /\ NobodySpawned'
    BY <1>1, <2>2, <2>3 DEF SessionInv, ReadsConn, NobodySpawned, BeingClosed, Open
  <2> QED BY <2>4, <2>5, <2>6, <2>7 DEF SessionInv
<1> QED BY <1>2, <1>3, <1>4, <1>5, <1>6, <1>7, <1>8, <1>9, <1>10

\* handleClient and handleLatency.
LEMMA ClientKeeps ==
  ASSUME SessionInv, ClientRead \/ ClientBatch \/ ClientWrite \/ ClientFailed \/ LatencyDone
  PROVE  SessionInv'
<1>1. /\ "client" \in Threads /\ "latency" \in Threads /\ "server" \in Threads
      /\ "login" \in Threads /\ Dialers \subseteq Threads \ {"client", "latency"}
      /\ viaFallback \in BOOLEAN /\ registered \in BOOLEAN /\ cb \in [Conns -> BOOLEAN]
  BY CallersAssumption DEF Threads, Dialers, SessionInv, TypeOK
<1>2. CASE ClientRead
  BY <1>1, <1>2, Goes DEF ClientRead, States, Spawning, Dialled
<1>3. CASE ClientBatch
  <2>1. CASE Go("client", "failed")
    BY <1>1, <1>3, <2>1, Goes DEF ClientBatch, States, Spawning, Dialled
  <2>2. CASE /\ my' = [my EXCEPT !["client"] = serverConn]
             /\ pc' = [pc EXCEPT !["client"] = "write"]
    <3>1. UNCHANGED <<viaFallback, ctxDone, writer, serverConn, opened, st, link, seq, cb, told,
                      inFallback, once, registered>>
      BY <1>3 DEF ClientBatch, connVars
    <3>2. /\ pc' \in [Threads -> States] /\ my' \in [Threads -> 0 .. opened]
          /\ \A u \in Threads \ {"client"} : pc'[u] = pc[u] /\ my'[u] = my[u]
      BY <2>2, ConnRange DEF SessionInv, TypeOK, States
    <3>3. TypeOK'
      BY <3>1, <3>2 DEF SessionInv, TypeOK
    <3>4. Locked' /\ OnlyCurrentOpen' /\ NoConnLeak'
      BY <1>1, <3>1, <3>2 DEF SessionInv, Locked, OnlyCurrentOpen, NoConnLeak
    <3>5. Numbered' /\ StartedByLogin'
      BY <1>1, <3>1, <3>2 DEF SessionInv, Numbered, StartedByLogin
    <3>6. ReadsConn' /\ NobodySpawned'
      BY <1>1, <3>1, <3>2 DEF SessionInv, ReadsConn, NobodySpawned, BeingClosed, Open
    <3> QED BY <3>3, <3>4, <3>5, <3>6 DEF SessionInv
  <2> QED BY <1>3, <2>1, <2>2 DEF ClientBatch
<1>4. CASE ClientWrite
  BY <1>1, <1>4, Goes DEF ClientWrite, States, Spawning, Dialled
<1>5. CASE ClientFailed
  <2>1. Tame
    BY <1>5, ConnRange, CloseIsTame DEF ClientFailed
  <2> QED BY <1>1, <1>5, <2>1, Moves DEF ClientFailed, States, Spawning, Dialled
<1>6. CASE LatencyDone
  BY <1>1, <1>6, Goes DEF LatencyDone, States, Spawning, Dialled
<1> QED BY <1>2, <1>3, <1>4, <1>5, <1>6

\* CloseWithError, and what comes from outside.
LEMMA RestKeeps ==
  ASSUME SessionInv,
         CloseClient \/ CloseServer \/ Disconnect \/ ClientLeaves
           \/ (\E t \in Threads : CloseEnter(t)) \/ (\E c \in Conns : LinkFails(c))
  PROVE  SessionInv'
<1>1. /\ ctxDone \in BOOLEAN /\ registered \in BOOLEAN
      /\ once \in {"idle", "entered", "clientClosed", "done"}
      /\ (once \in {"clientClosed", "done"} => ctxDone)
  BY DEF SessionInv, TypeOK, Locked
<1>2. CASE CloseServer
  <2>1. Tame /\ (serverConn # 0 => st'[serverConn] = "closed")
    BY <1>2, ConnRange, CloseIsTame DEF CloseServer
  <2>2. \A c \in Conns : st'[c] # "open"
    BY <2>1, ConnRange DEF SessionInv, OnlyCurrentOpen, Tame, Conns
  <2> QED BY <1>1, <1>2, <2>1, <2>2, Stays DEF CloseServer, ServerReadable
<1>3. ASSUME NEW c \in Conns, LinkFails(c) PROVE SessionInv'
  <2>1. Tame
    BY <1>3 DEF LinkFails, SessionInv, TypeOK, Tame
  <2> QED BY <1>1, <1>3, <2>1, Stays DEF LinkFails
<1>4. CASE CloseClient \/ Disconnect \/ ClientLeaves \/ (\E t \in Threads : CloseEnter(t))
  <2>1. UNCHANGED <<threadVars, writer, connVars, inFallback, registered>>
    BY <1>4 DEF CloseClient, Disconnect, ClientLeaves, CloseEnter
  <2>2. Tame
    BY <2>1, CloseIsTame DEF connVars
  <2>3. /\ ctxDone' \in BOOLEAN /\ (ctxDone => ctxDone')
        /\ once' \in {"idle", "entered", "clientClosed", "done"}
        /\ once' \in {"clientClosed", "done"} => ctxDone'
        /\ once' = "done" => once = "done"
    BY <1>1, <1>4 DEF CloseClient, Disconnect, ClientLeaves, CloseEnter
  <2> QED BY <1>1, <2>1, <2>2, <2>3, Stays DEF connVars
<1> QED BY <1>2, <1>3, <1>4

\* Every step of the session keeps the invariant.
LEMMA SessionStep ==
  ASSUME SessionInv, [Next]_vars
  PROVE  SessionInv'
<1>1. ASSUME NEW t \in Threads, Step(t) PROVE SessionInv'
  <2>1. CASE CloseReturn(t)
    <3>1. viaFallback \in BOOLEAN /\ registered \in BOOLEAN
      BY DEF SessionInv, TypeOK
    <3> QED BY <2>1, <3>1, Goes DEF CloseReturn, States, Spawning, Dialled
  <2> QED BY <1>1, <2>1, TransferKeeps, LoginKeeps, ServerKeeps, ClientKeeps, RestKeeps
          DEF Step, Closing
<1>2. ASSUME NEW t \in Callers, StartTransfer(t) PROVE SessionInv'
  <2>1. /\ t \in Threads /\ t # "login" /\ t # "server"
        /\ viaFallback \in BOOLEAN /\ registered \in BOOLEAN
    BY CallersAssumption DEF Threads, Dialers, SessionInv, TypeOK
  <2> QED BY <1>2, <2>1, Goes DEF StartTransfer, States, Spawning, Dialled
<1>3. CASE UNCHANGED vars
  <2>1. Tame
    BY <1>3, CloseIsTame DEF vars, connVars
  <2>2. /\ ctxDone \in BOOLEAN /\ registered \in BOOLEAN
        /\ once \in {"idle", "entered", "clientClosed", "done"}
        /\ (once \in {"clientClosed", "done"} => ctxDone)
    BY DEF SessionInv, TypeOK, Locked
  <2> QED BY <1>3, <2>1, <2>2, Stays DEF vars, connVars
<1> QED BY <1>1, <1>2, <1>3, ServerKeeps, ClientKeeps, RestKeeps
        DEF Next, CloseBody, PeerSteps, Terminated

\* For any number of callers of Transfer and of connections.
LEMMA SessionAlways == Spec => []SessionInv
<1> QED BY SessionStart, SessionStep, PTL DEF Spec

\* Every variable keeps its type (session.go).
THEOREM SessionTyped == Spec => []TypeOK
<1>1. SessionInv => TypeOK
  BY DEF SessionInv
<1> QED BY <1>1, SessionAlways, PTL

\* A session uses one server at a time (dial).
THEOREM OneServerAtATime == Spec => []OnlyCurrentOpen
<1>1. SessionInv => OnlyCurrentOpen
  BY DEF SessionInv
<1> QED BY <1>1, SessionAlways, PTL

\* No connection outlives CloseWithError, whoever dials meanwhile.
THEOREM NoConnLeaks == Spec => []NoConnLeak
<1>1. SessionInv => NoConnLeak
  BY DEF SessionInv
<1> QED BY <1>1, SessionAlways, PTL

\* A spawned player has a fallback (fallback, TransferContext's callback).
THEOREM FallbackAlwaysAvailable == Spec => []FallbackAvailable
<1>1. SessionInv => FallbackAvailable
  <2>1. SUFFICES ASSUME SessionInv PROVE FallbackAvailable
    OBVIOUS
  <2> QED BY <2>1, ConnRange DEF SessionInv, NobodySpawned, BeingClosed, FallbackAvailable, Open
<1> QED BY <1>1, SessionAlways, PTL

\* When handleServer decides on a fallback no other connection is open than the one
\* its read failed on, and it closes no other before the fallback.
THEOREM FallbackOnlyAfterLoss == Spec => FallbackOnlyWhenLost
<1>1. ASSUME SessionInv, [Next]_vars
      PROVE  [/\ pc["server"] = "readErr" /\ pc'["server"] = "lost" =>
                   \A c \in Conns : Open(c) => c = my["server"]
              /\ pc["server"] = "lost" /\ pc'["server"] = "fallback" =>
                   \A c \in Conns : Open(c) /\ ~Open(c)' => c = my["server"]]_vars
  <2>1. SUFFICES ASSUME \/ pc["server"] = "readErr" /\ pc'["server"] = "lost"
                        \/ pc["server"] = "lost" /\ pc'["server"] = "fallback"
                 PROVE  /\ pc["server"] = "readErr" =>
                              \A c \in Conns : Open(c) => c = my["server"]
                        /\ pc["server"] = "lost" =>
                              \A c \in Conns : Open(c) /\ ~Open(c)' => c = my["server"]
    OBVIOUS
  <2>2. pc \in [Threads -> States] /\ "server" \in Threads /\ "server" \notin Callers
    BY <1>1, CallersAssumption DEF SessionInv, TypeOK, Threads, Dialers
  <2>3. ASSUME NEW t \in Threads \ {"server"}, NEW to, Go(t, to) PROVE FALSE
    BY <2>1, <2>2, <2>3 DEF Go
  <2>4. ASSUME NEW t \in Threads, Step(t), t # "server" PROVE FALSE
    <3>1. ASSUME Fails(t) PROVE FALSE
      BY <2>3, <2>4, <3>1, FailsGoes
    <3>2. CASE Transfer(t)
      BY <2>1, <2>2, <2>3, <2>4, <3>1, <3>2
         DEF Transfer, PreTransfer, DialCheck, DialLock, DialResult, DialPublish, DoConnect, OnConnect
    <3>3. CASE Closing(t)
      BY <2>1, <2>3, <2>4, <3>3, SMTT(30) DEF Closing, CloseEnter, CloseReturn, threadVars
    <3>4. CASE t = "login" /\ (Discover \/ WaitConnect \/ StartGame \/ DoSpawn \/ Register)
      BY <2>3, <2>4, <3>1, <3>4 DEF Discover, WaitConnect, StartGame, DoSpawn, Register
    <3>5. CASE t \in {"client", "latency"}
               /\ (ClientRead \/ ClientBatch \/ ClientWrite \/ ClientFailed \/ LatencyDone)
      <4>1. {"client", "latency"} \subseteq Threads
        BY DEF Threads
      <4> QED BY <2>1, <2>2, <2>3, <3>5, <4>1
              DEF ClientRead, ClientBatch, ClientWrite, ClientFailed, LatencyDone
    <3> QED BY <2>4, <3>2, <3>3, <3>4, <3>5 DEF Step
  <2>5. ASSUME Step("server") PROVE ServerLost \/ ServerClosesLost
    BY <2>1, <2>5, SMTT(30) DEF Step, Transfer, PreTransfer, DialCheck, DialLock, DialResult, DialPublish,
          DoConnect, OnConnect, Closing, CloseEnter, CloseReturn, ServerLoop, ServerGet,
          ServerCallback, Fallback
  <2>6. ASSUME PeerSteps \/ CloseBody \/ Terminated \/ UNCHANGED vars PROVE FALSE
    <3>1. ASSUME NEW t \in Callers, StartTransfer(t) PROVE FALSE
      BY <2>2, <2>3, <3>1 DEF StartTransfer, Threads, Dialers
    <3>2. CASE ClientRead
      BY <2>3, <3>2 DEF ClientRead, Threads
    <3> QED BY <2>1, <2>6, <3>1, <3>2
            DEF PeerSteps, CloseBody, Terminated, vars, threadVars, ServerSequence, ServerPacket,
                ServerReadError, Disconnect, ClientLeaves, LinkFails, CloseClient, CloseServer
  <2>7. ServerLost \/ ServerClosesLost
    BY <1>1, <2>4, <2>5, <2>6 DEF Next
  <2>8. CASE ServerLost
    <3>1. pc["server"] = "readErr" /\ my["server"] = serverConn
      BY <2>1, <2>2, <2>8 DEF ServerLost, Go
    <3> QED BY <1>1, <3>1 DEF SessionInv, OnlyCurrentOpen, Open
  <2>9. CASE ServerClosesLost
    <3>1. pc["server"] = "lost" /\ CloseConn(my["server"])
      BY <2>9 DEF ServerClosesLost
    <3> QED BY <1>1, <3>1 DEF CloseConn, Open, SessionInv, TypeOK
  <2> QED BY <2>7, <2>8, <2>9
<1> QED BY <1>1, SessionAlways, PTL DEF Spec, FallbackOnlyWhenLost
=============================================================================
