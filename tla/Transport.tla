----------------------------- MODULE Transport -----------------------------
(***************************************************************************)
(* transport/quic.go and transport/spectral.go, which share one algorithm: *)
(* Dial keeps a connection per server address in a map and opens a stream  *)
(* on it; a goroutine per connection removes it from the map when it ends. *)
(* Connections are numbered; 0 stands for none.                            *)
(***************************************************************************)
EXTENDS Naturals

CONSTANTS
    Addrs,      \* the servers
    Callers,    \* goroutines that call Dial, any number of times
    MaxConns    \* bound: connections that may be established

ASSUME MaxConnsAssumption == MaxConns \in Nat
ASSUME NamesAssumption == "none" \notin Addrs \cup Callers

VARIABLES
    table,    \* connections: address -> connection
    opened,   \* how many connections were established
    addr,     \* the server of each connection
    alive,    \* its context is not done
    watched,  \* its goroutine has not finished
    mu,       \* the caller that holds the mutex, or "none"
    pc,       \* where each caller is
    want,     \* the address it dials
    conn      \* the connection it opens a stream on

connVars == <<opened, addr, alive, watched>>
vars == <<table, connVars, mu, pc, want, conn>>

Conns == 1 .. MaxConns

Init ==
    /\ table = [a \in Addrs |-> 0] /\ opened = 0
    /\ addr = [c \in Conns |-> "none"]
    /\ alive = [c \in Conns |-> FALSE] /\ watched = [c \in Conns |-> FALSE]
    /\ mu = "none" /\ pc = [t \in Callers |-> "idle"]
    /\ want = [t \in Callers |-> "none"] /\ conn = [t \in Callers |-> 0]

\* The caller returns from Dial, which unlocks the mutex.
Return(t) ==
    /\ mu' = "none"
    /\ pc' = [pc EXCEPT ![t] = "idle"]
    /\ want' = [want EXCEPT ![t] = "none"]
    /\ conn' = [conn EXCEPT ![t] = 0]

Call(t, a) ==
    /\ pc[t] = "idle"
    /\ want' = [want EXCEPT ![t] = a]
    /\ pc' = [pc EXCEPT ![t] = "lock"]
    /\ UNCHANGED <<table, connVars, mu, conn>>

\* Mutant: the mutex is not waited for.
LockUnheld(t) ==
    /\ pc[t] = "lock"
    /\ mu' = t
    /\ conn' = [conn EXCEPT ![t] = table[want[t]]]
    /\ pc' = [pc EXCEPT ![t] = IF table[want[t]] = 0 THEN "dial" ELSE "open"]
    /\ UNCHANGED <<table, connVars, want>>

\* The mutex is taken and the map consulted.
Lock(t) ==
    /\ pc[t] = "lock" /\ mu = "none"
    /\ mu' = t
    /\ conn' = [conn EXCEPT ![t] = table[want[t]]]
    /\ pc' = [pc EXCEPT ![t] = IF table[want[t]] = 0 THEN "dial" ELSE "open"]
    /\ UNCHANGED <<table, connVars, want>>

\* Mutant: what a failed dial returned is stored before the error is tested.
EstablishUnchecked(t) ==
    /\ pc[t] = "dial"
    /\ table' = [table EXCEPT ![want[t]] = opened + 1]
    /\ Return(t)
    /\ UNCHANGED connVars

\* Mutant: the new connection gets no goroutine.
EstablishUnwatched(t) ==
    /\ pc[t] = "dial" /\ opened + 1 \in Conns
    /\ opened' = opened + 1
    /\ addr' = [addr EXCEPT ![opened + 1] = want[t]]
    /\ alive' = [alive EXCEPT ![opened + 1] = TRUE]
    /\ table' = [table EXCEPT ![want[t]] = opened + 1]
    /\ conn' = [conn EXCEPT ![t] = opened + 1]
    /\ pc' = [pc EXCEPT ![t] = "open"]
    /\ UNCHANGED <<watched, mu, want>>

\* No entry: a connection is established, stored and watched, or the error is
\* returned.
Establish(t) ==
    /\ pc[t] = "dial"
    /\ \/ LET c == opened + 1 IN
          /\ c \in Conns
          /\ opened' = c
          /\ addr' = [addr EXCEPT ![c] = want[t]]
          /\ alive' = [alive EXCEPT ![c] = TRUE]
          /\ watched' = [watched EXCEPT ![c] = TRUE]
          /\ table' = [table EXCEPT ![want[t]] = c]
          /\ conn' = [conn EXCEPT ![t] = c]
          /\ pc' = [pc EXCEPT ![t] = "open"]
          /\ UNCHANGED <<mu, want>>
       \/ Return(t) /\ UNCHANGED <<table, connVars>>

\* A stream is opened on a live connection.
OpenStream(t) ==
    /\ pc[t] = "open" /\ alive[conn[t]]
    /\ Return(t)
    /\ UNCHANGED <<table, connVars>>

\* Mutant: the error path returns without unlocking.
OpenStreamFailsLocked(t) ==
    /\ pc[t] = "open"
    /\ table' = [table EXCEPT ![want[t]] = 0]
    /\ pc' = [pc EXCEPT ![t] = "idle"]
    /\ want' = [want EXCEPT ![t] = "none"]
    /\ conn' = [conn EXCEPT ![t] = 0]
    /\ UNCHANGED <<connVars, mu>>

\* No stream: the connection ended, or the caller's context did.
OpenStreamFails(t) ==
    /\ pc[t] = "open"
    /\ table' = [table EXCEPT ![want[t]] = 0]
    /\ Return(t)
    /\ UNCHANGED connVars

\* Mutant: the goroutine removes whatever its address maps to.
WatcherUnchecked(c) ==
    /\ watched[c] /\ ~alive[c] /\ mu = "none"
    /\ table' = [table EXCEPT ![addr[c]] = 0]
    /\ watched' = [watched EXCEPT ![c] = FALSE]
    /\ UNCHANGED <<opened, addr, alive, mu, pc, want, conn>>

\* Mutant: the goroutine removes an entry of any other connection only.
WatcherInverted(c) ==
    /\ watched[c] /\ ~alive[c] /\ mu = "none"
    /\ table' = IF table[addr[c]] # c THEN [table EXCEPT ![addr[c]] = 0] ELSE table
    /\ watched' = [watched EXCEPT ![c] = FALSE]
    /\ UNCHANGED <<opened, addr, alive, mu, pc, want, conn>>

\* The goroutine of an ended connection removes it, if it is still the entry.
Watcher(c) ==
    /\ watched[c] /\ ~alive[c] /\ mu = "none"
    /\ table' = IF table[addr[c]] = c THEN [table EXCEPT ![addr[c]] = 0] ELSE table
    /\ watched' = [watched EXCEPT ![c] = FALSE]
    /\ UNCHANGED <<opened, addr, alive, mu, pc, want, conn>>

\* The server, the network or the idle timeout ends a connection.
Ends(c) ==
    /\ alive[c]
    /\ alive' = [alive EXCEPT ![c] = FALSE]
    /\ UNCHANGED <<table, opened, addr, watched, mu, pc, want, conn>>

Dial(t) == Establish(t) \/ OpenStream(t) \/ OpenStreamFails(t)

Next ==
    \/ \E t \in Callers : Dial(t) \/ Lock(t) \/ (\E a \in Addrs : Call(t, a))
    \/ \E c \in Conns : Watcher(c) \/ Ends(c)

\* The network calls return, since their context or the idle timeout ends them;
\* a sync.Mutex lets no waiter starve.
Fairness ==
    /\ \A t \in Callers : WF_vars(Dial(t)) /\ SF_vars(Lock(t))
    /\ \A c \in Conns : SF_vars(Watcher(c))

Spec == Init /\ [][Next]_vars
FairSpec == Spec /\ Fairness

-----------------------------------------------------------------------------
TypeOK ==
    /\ table \in [Addrs -> 0 .. opened] /\ opened \in 0 .. MaxConns
    /\ addr \in [Conns -> Addrs \cup {"none"}]
    /\ alive \in [Conns -> BOOLEAN] /\ watched \in [Conns -> BOOLEAN]
    /\ mu \in Callers \cup {"none"}
    /\ pc \in [Callers -> {"idle", "lock", "dial", "open"}]
    /\ want \in [Callers -> Addrs \cup {"none"}]
    /\ conn \in [Callers -> 0 .. opened]

\* Every entry of the map is a connection to that server which either lives or
\* will be removed by its goroutine; no dead entry stays for good, although the
\* connection may end while Dial holds the mutex (Dial and its goroutine).
EntriesWatched ==
    \A a \in Addrs : table[a] # 0 => addr[table[a]] = a /\ watched[table[a]]

\* The stream a caller is about to open is on the connection the map holds for
\* the address it asked for: nobody replaces it meanwhile (Dial's mutex).
DialsEntry ==
    \A t \in Callers : pc[t] = "open" => mu = t /\ table[want[t]] = conn[t]

\* A live connection leaves the map only because Dial could not open a stream on
\* it, never because an older connection to that server ended (the goroutine's
\* found == conn).
LiveEntryKept ==
    [][\A a \in Addrs :
          table[a] # 0 /\ alive[table[a]] /\ table'[a] # table[a]
          => \E t \in Callers : pc[t] = "open" /\ conn[t] = table[a]]_vars

\* A connection that ended leaves the map.
DeadEntryLeaves ==
    \A a \in Addrs, c \in Conns :
        (table[a] = c /\ ~alive[c]) ~> (table[a] # c)

\* Every call of Dial returns, whoever else is dialling.
DialReturns == \A t \in Callers : pc[t] = "lock" ~> pc[t] = "idle"
=============================================================================
