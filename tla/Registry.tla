------------------------------ MODULE Registry ------------------------------
(***************************************************************************)
(* session/registry.go with its users: Accept and Close of spectrum.go,    *)
(* the end of LoginContext and CloseWithError of session.go.  A player who *)
(* reconnects has a new session while the old one may still be closing.    *)
(* What a session does in between is the subject of Session.               *)
(***************************************************************************)
CONSTANTS
    Sessions,   \* sessions that may be accepted
    Players,    \* XUIDs, each with one display name
    None        \* no session

ASSUME NoneAssumption == None \notin Sessions

VARIABLES
    player,     \* s.client.IdentityData() of each session
    login,      \* how far the session's login is
    once,       \* progress of CloseWithError's s.once
    sessions,   \* the registry's map
    listening,  \* the listener accepts players
    shutdown,   \* progress of Spectrum.Close
    active,     \* the sessions GetSessions returned to it
    todo,       \* those it has not disconnected
    at          \* the one it is disconnecting

shutdownVars == <<shutdown, active, todo, at>>
registryVars == <<player, login, once, sessions, listening, shutdownVars>>

RegistryInit ==
    /\ player \in [Sessions -> Players]
    /\ login = [s \in Sessions |-> "none"] /\ once = [s \in Sessions |-> "idle"]
    /\ sessions = [p \in Players |-> None]
    /\ listening = TRUE
    /\ shutdown = "no" /\ active = {} /\ todo = {} /\ at = None

-----------------------------------------------------------------------------
\* The registry.  Every method holds its mutex throughout.

\* Mutant: the session is not stored.
AddSessionNowhere(s) == UNCHANGED sessions
AddSession(s) == sessions' = [sessions EXCEPT ![player[s]] = s]

\* Mutant: the key stays, with a nil session.
RemoveSessionKeepsKey(s) == sessions' = [sessions EXCEPT ![player[s]] = "nil"]
\* The removal is by XUID, whichever session is there.
RemoveSession(s) == sessions' = [sessions EXCEPT ![player[s]] = None]

GetSession(p) == sessions[p]
GetSessions == {sessions[p] : p \in Players} \ {None}

-----------------------------------------------------------------------------
\* One session.

AcceptPlayer(s) ==
    /\ listening /\ login[s] = "none"
    /\ login' = [login EXCEPT ![s] = "started"]
    /\ UNCHANGED <<player, once, sessions, listening, shutdownVars>>

\* CloseWithError: the first caller runs the body of s.once.
Enter(s) == once' = IF once[s] = "idle" THEN [once EXCEPT ![s] = "entered"] ELSE once

LoginFails(s) ==
    /\ login[s] = "started"
    /\ login' = [login EXCEPT ![s] = "failed"]
    /\ Enter(s)
    /\ UNCHANGED <<player, sessions, listening, shutdownVars>>

\* DoSpawn, the last step that can fail, needs the conn to be open.
LoginSpawned(s) ==
    /\ login[s] = "started" /\ once[s] \in {"idle", "entered"}
    /\ login' = [login EXCEPT ![s] = "spawned"]
    /\ UNCHANGED <<player, once, sessions, listening, shutdownVars>>

LoginRegisters(s) ==
    /\ login[s] = "spawned"
    /\ login' = [login EXCEPT ![s] = "done"]
    /\ AddSession(s)
    /\ UNCHANGED <<player, once, listening, shutdownVars>>

\* The player leaves, the servers are lost, the application disconnects it.
CloseEnter(s) ==
    /\ login[s] # "none" /\ once[s] = "idle"
    /\ Enter(s)
    /\ UNCHANGED <<player, login, sessions, listening, shutdownVars>>

\* The client, the conn and the context.
CloseConns(s) ==
    /\ once[s] = "entered"
    /\ once' = [once EXCEPT ![s] = "closed"]
    /\ UNCHANGED <<player, login, sessions, listening, shutdownVars>>

CloseRemoves(s) ==
    /\ once[s] = "closed"
    /\ RemoveSession(s)
    /\ once' = [once EXCEPT ![s] = "done"]
    /\ UNCHANGED <<player, login, listening, shutdownVars>>

-----------------------------------------------------------------------------
\* Spectrum.Close.

ShutdownBegins ==
    /\ shutdown = "no"
    /\ shutdown' = "closing"
    /\ active' = GetSessions /\ todo' = GetSessions
    /\ UNCHANGED <<player, login, once, sessions, listening, at>>

\* Disconnect, which returns when the body of s.once has.
ShutdownDisconnects(s) ==
    /\ shutdown = "closing" /\ at = None /\ s \in todo
    /\ at' = s /\ todo' = todo \ {s}
    /\ Enter(s)
    /\ UNCHANGED <<player, login, sessions, listening, shutdown, active>>
\* Mutant: it does not wait.
ShutdownHurries ==
    /\ at # None
    /\ at' = None
    /\ UNCHANGED <<player, login, once, sessions, listening, shutdown, active, todo>>

ShutdownGoesOn ==
    /\ at # None /\ once[at] = "done"
    /\ at' = None
    /\ UNCHANGED <<player, login, once, sessions, listening, shutdown, active, todo>>

ShutdownListener ==
    /\ shutdown = "closing" /\ at = None /\ todo = {}
    /\ listening' = FALSE /\ shutdown' = "closed"
    /\ UNCHANGED <<player, login, once, sessions, active, todo, at>>

-----------------------------------------------------------------------------
RegistryNext ==
    \/ \E s \in Sessions :
          \/ AcceptPlayer(s) \/ LoginFails(s) \/ LoginSpawned(s) \/ LoginRegisters(s)
          \/ CloseEnter(s) \/ CloseConns(s) \/ CloseRemoves(s)
          \/ ShutdownDisconnects(s)
    \/ ShutdownBegins \/ ShutdownGoesOn \/ ShutdownListener

RegistryTypeOK ==
    /\ player \in [Sessions -> Players]
    /\ login \in [Sessions -> {"none", "started", "spawned", "done", "failed"}]
    /\ once \in [Sessions -> {"idle", "entered", "closed", "done"}]
    /\ sessions \in [Players -> Sessions \cup {None}]
    /\ listening \in BOOLEAN /\ shutdown \in {"no", "closing", "closed"}
    /\ active \subseteq Sessions /\ todo \subseteq active
    /\ at \in active \cup {None}

\* A player who is logged in can be looked up, by the API as well, unless the same
\* player has another session: one that took the entry, or one whose close, running
\* late, removed it (AddSession, RemoveSession by XUID, CloseWithError).
LoggedInIsListed ==
    \A s \in Sessions :
        login[s] = "done" /\ once[s] # "done" /\ sessions[player[s]] # s =>
            \E u \in Sessions \ {s} :
                /\ player[u] = player[s]
                /\ sessions[player[s]] = u \/ once[u] = "done"

\* The entry of a player is one of their own sessions, and one whose login got as
\* far as spawning them (AddSession, LoginContext).
EntryIsOwn ==
    \A p \in Players : sessions[p] # None =>
        player[sessions[p]] = p /\ login[sessions[p]] = "done"

\* When Spectrum.Close has returned, every session it found listed is closed, also
\* one that another goroutine was already closing (Close, CloseWithError).
ShutdownComplete == shutdown = "closed" => \A s \in active : once[s] = "done"
=============================================================================
