SPECIFICATION FairSpec
CONSTANTS
    Roles = {"transfer"}
    HasItemRegistry <- Nobody
    Limit <- Shortest
    Window = 1
    MaxForeign <- NoWrites
PROPERTIES
    OnConnectInvoked
CHECK_DEADLOCK FALSE
