SPECIFICATION FairSpec
CONSTANTS
    Callers = {"t1"}
    MaxConns = 2
INVARIANTS
    TypeOK
    OnlyCurrentOpen
    NoConnLeak
    FallbackAvailable
PROPERTIES
    FallbackOnlyWhenLost
    SessionStops
    ServerLossHandled
