SPECIFICATION Spec
CONSTANTS
    Sessions = {s1}
    Players = {p1}
    None = None
    Peers = {a1}
    Closers = {k1, k2}
    Window = 1
    Turnout <- One
INVARIANTS
    DialSucceedsOnlyIfAccepted
CHECK_DEADLOCK FALSE
