SPECIFICATION WorkSpec
CONSTANTS
    once = once
    daily = daily
    j1 = j1
    j2 = j2
    None = None
    Parts = {"events", "restarts", "rebooted", "notified", "backups", "upkeep",
             "restored", "beside", "late", "outside"}
    Events = {once, daily}
    Plan <- PlanMixed
    Repeat <- Repeats
    MaxRuns <- Limits
    RunAts = {0, 1}
    Handlers = {"h1"}
    Worker = "worker"
    MaxClock = 3
    MaxFaults = 1
    Refusals = TRUE
    Jobs = {j1, j2}
    Standalone = {}
    DailyAt = 2
    RetryDelay = 1
    Announcing = {FALSE}
    LastTime = 3
    MaxDeaths = 1
    MaxBoots = 0
    Interval = 2
    Retry = 1
    Retentions = {0, 1}
    Day = 1
    LastDay = 4
    MaxSets = 2
    MaxRestarts = 1
SYMMETRY Symmetry
INVARIANT EventsKeepTheirPlan
PROPERTIES
    CancelIsFinal
    RestartsAreOrderly
    ScheduleIsHonest
    DataIsCovered
CHECK_DEADLOCK FALSE
