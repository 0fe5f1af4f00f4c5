SPECIFICATION WatchSpec
CONSTANTS
    o1 = o1
    o2 = o2
    None = None
    Parts = {"alerts", "briefing", "canary", "canaries", "assured", "contended"}
    Alerts = {"a1"}
    Pollers = {"worker", "reader"}
    Worker = "worker"
    Operators = {o1, o2}
    MaxFires = 2
    MaxDeaths = 1
    Cats = {"well", "ill"}
    Notifiers = {"n1"}
    MaxChanges = 2
    MaxRefreshes = 1
    MaxRestarts = 1
SYMMETRY Symmetry
INVARIANTS
    ToldInOrder
    InboxIsTrue
    BriefingIsFresh
PROPERTIES
    CanariesWaitTheirTurn
    DeploymentsAreProved
CHECK_DEADLOCK FALSE
