SPECIFICATION Spec
CONSTANTS
    Roles = {"login"}
    HasItemRegistry <- Nobody
    Limit <- Shortest
    Window = 1
    MaxForeign <- NoWrites
INVARIANTS
    OnlyFirstPlayStatusHandled
CHECK_DEADLOCK FALSE
