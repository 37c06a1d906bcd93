------------------------------- MODULE Proxy -------------------------------
(***************************************************************************)
(* The proxy as a server sees it that manages players: the API and the     *)
(* registry it shares with the sessions.  The handlers of NewAPI look a    *)
(* session up by name and then work on it, while it may be closing and     *)
(* while the player may already have another one.                          *)
(***************************************************************************)
EXTENDS Registry, Api, FiniteSets

CONSTANT
    Turnout     \* bound: how many players and how many servers may turn up together

VARIABLE target   \* the session each handler works on

vars == <<registryVars, apiVars, target>>

Init == RegistryInit /\ ApiInit /\ target = [c \in Peers |-> None]

\* The look-up of a packet Kick or Transfer; without a session it is logged.
HandleNobody(c) ==
    /\ handler[c] = "handle" /\ target[c] = None
    /\ \E p \in Players : GetSession(p) = None
    /\ handler' = [handler EXCEPT ![c] = "loop"]
    /\ UNCHANGED <<registryVars, auth, peerVars, wire, answer, id, clients, nextId,
                   closeVars, target>>

\* Kick: s.Disconnect, which waits for the body of s.once.
HandleKick(c) ==
    /\ handler[c] = "handle" /\ target[c] = None
    /\ \E p \in Players :
          /\ GetSession(p) # None
          /\ target' = [target EXCEPT ![c] = GetSession(p)]
          /\ Enter(GetSession(p))
    /\ UNCHANGED <<player, login, sessions, listening, shutdownVars, apiVars>>
HandleKicked(c) ==
    /\ handler[c] = "handle" /\ target[c] # None /\ once[target[c]] = "done"
    /\ target' = [target EXCEPT ![c] = None]
    /\ handler' = [handler EXCEPT ![c] = "loop"]
    /\ UNCHANGED <<registryVars, auth, peerVars, wire, answer, id, clients, nextId,
                   closeVars>>

\* Transfer: the session is looked up and s.Transfer, the subject of Session,
\* returns, at the latest when the session ends.
HandleTransfer(c) ==
    /\ handler[c] = "handle" /\ target[c] = None
    /\ \E p \in Players : GetSession(p) # None
    /\ handler' = [handler EXCEPT ![c] = "loop"]
    /\ UNCHANGED <<registryVars, auth, peerVars, wire, answer, id, clients, nextId,
                   closeVars, target>>

-----------------------------------------------------------------------------
Handle(c) == HandleNobody(c) \/ HandleKick(c) \/ HandleKicked(c) \/ HandleTransfer(c)

Fits ==
    \E m \in Turnout : /\ Cardinality({s \in Sessions : login[s] # "none"}) <= m[1]
                       /\ Cardinality({c \in Peers : peer[c] # "off"}) <= m[2]

Next ==
    /\ ~crashed
    /\ \/ RegistryNext /\ UNCHANGED <<apiVars, target>>
       \/ \E c \in Peers : Handle(c)
       \/ \E c \in Peers : (Serve(c) \/ PeerStep(c)) /\ UNCHANGED <<registryVars, target>>
       \/ \E k \in Closers : CloseStep(k) /\ UNCHANGED <<registryVars, target>>
    /\ Fits'

Spec == Init /\ [][Next]_vars

\* The goroutines that serve a connection, call API.Close or close a session go on
\* as long as they can; a read waits for what the peer sends, if it sends anything.
Fairness ==
    /\ \A c \in Peers : WF_vars(~crashed /\
          (Handle(c) \/ (Serve(c) /\ UNCHANGED <<registryVars, target>>)))
    /\ \A k \in Closers : WF_vars(~crashed /\ closer[k] # "idle" /\
          CloseStep(k) /\ UNCHANGED <<registryVars, target>>)
    /\ \A s \in Sessions : WF_vars(~crashed /\
          (CloseConns(s) \/ CloseRemoves(s)) /\ UNCHANGED <<apiVars, target>>)
FairSpec == Spec /\ Fairness
-----------------------------------------------------------------------------
TypeOK ==
    /\ RegistryTypeOK /\ ApiTypeOK
    /\ target \in [Peers -> Sessions \cup {None}]

\* Whoever waits for a session to close, Spectrum.Close or the handler of a Kick,
\* waits for a close that is under way or over (Disconnect, CloseWithError's once).
WaitsForClose ==
    /\ at # None => once[at] # "idle"
    /\ \A c \in Peers : target[c] # None => once[target[c]] # "idle"
=============================================================================
