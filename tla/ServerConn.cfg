SPECIFICATION FairSpec
CONSTANTS
    Roles = {"login", "transfer"}
    HasItemRegistry <- NewLogin
    Limit <- Packets
    Window = 1
    MaxForeign <- Writes
INVARIANTS
    TypeOK
    DeliveryOrder
    NothingLost
    GameDataComplete
    SpawnAfterSequence
    HandshakeWriteOrder
    ReportedOnce
PROPERTIES
    GameDataFrozen
    PipeSpec
    CloseStopsReader
    LoginResolves
    EarlyCallbackCalled
CHECK_DEADLOCK FALSE
