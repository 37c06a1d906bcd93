SPECIFICATION ViewSpec
CONSTANTS
    Entities = {}
    BossBars = {"bar"}
    Players = {}
    Effects = {"effect"}
    Scoreboards = {}
    MaxServers = 3
INVARIANTS
    ShownIsTracked
    OldServerGone
    PresetsFirst
    HeldForAReason
    ScreenAppears
CHECK_DEADLOCK FALSE
