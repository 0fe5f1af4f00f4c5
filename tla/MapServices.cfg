SPECIFICATION ServicesSpec
CONSTANTS
    None = None
    Retention = 2
    MinHold = 3
    Flips = TRUE
    Disables = TRUE
    MaxDeaths = 1
    MaxStops = 1
    MaxFails = 1
    MaxBlind = 1
    Parts = {"warm", "autoscaler", "pair", "memory", "failing", "watchdog", "scaled"}
    GameMaps <- OneMap
    Core = {}
    Ttl = 1
    IdleTicks = 2
    Clocked = TRUE
    ByHand = TRUE
    Raises = TRUE
    Hosted = {"m1", "m2"}
    Uses = {1, 2, 3}
    Sets = {2}
    Default = 3
    Startable = {"m2"}
    NMaps = 2
    Autoscales = FALSE
    Marked = TRUE
    Crashes = 1
    Glitches = 2
PROPERTIES
    HoldKept
    CalmBeforeSqueeze
    WindowsAreKept
    LimitsAreRestored
    RecoveriesAreSound
