SPECIFICATION Spec
CONSTANTS
    Sessions = {s1, s2}
    Players = {p1}
    None = None
    Peers = {a1, a2}
    Closers = {k1}
    Window = 1
    Turnout <- PlayersOrServers
SYMMETRY Interchangeable
INVARIANTS
    TypeOK
    LoggedInIsListed
    ShutdownComplete
    ClientsAreServed
    OnlyAuthenticated
CHECK_DEADLOCK FALSE
