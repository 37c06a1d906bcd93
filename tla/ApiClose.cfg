SPECIFICATION FairSpec
CONSTANTS
    Sessions = {s1}
    Players = {p1}
    None = None
    Peers = {a1}
    Closers = {k1}
    Window = 1
    Turnout <- One
PROPERTIES
    CloseEndsClients
CHECK_DEADLOCK FALSE
