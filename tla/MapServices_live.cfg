SPECIFICATION ServicesFairSpec
CONSTANTS
    None = None
    Retention = 2
    MinHold = 3
    Flips = TRUE
    Disables = FALSE
    MaxDeaths = 0
    MaxStops = 0
    MaxFails = 0
    MaxBlind = 2
    Parts = {"warm", "autoscaler", "memory", "watchdog"}
    GameMaps <- OneMap
    Core = {}
    Ttl = 1
    IdleTicks = 1
    Clocked = FALSE
    ByHand = TRUE
    Raises = FALSE
    Hosted = {"m1", "m2", "m3"}
    Uses = {1, 4}
    Sets = {}
    Default = 4
    Startable = {}
    NMaps = 2
    Autoscales = TRUE
    Marked = FALSE
    Crashes = 2
    Glitches = 0
PROPERTIES
    WarmFollowsUse
    MapsAreServed
