SPECIFICATION FairSpec
CONSTANTS
    Addrs = {"a", "b"}
    Callers = {"s1", "s2"}
    MaxConns = 3
INVARIANTS
    TypeOK
    EntriesWatched
    DialsEntry
PROPERTIES
    LiveEntryKept
    DeadEntryLeaves
    DialReturns
