SPECIFICATION LedgersSpec
CONSTANTS
    h1 = h1
    h2 = h2
    d1 = d1
    d2 = d2
    None = None
    Parts = {"ledger", "shop", "play", "engage"}
    Threads = {h1, h2}
    Events <- MCEvents
    VerifyCache = 1
    MaxClock = 3
    Buyers = {"ann"}
    Ids = {d1, d2}
    Keys = {"k1", "k2"}
    References = {"gift"}
    WebhookIds = {"vote"}
    Amounts = {2}
    Prices = {0, 1}
    Stocks <- MCStocks
    Quantities = {2}
    MaxVersion = 2
    Players = {"p1"}
    Order <- MCOrder
    PlayTickers = {h1, h2}
    Interval = 2
    MaxGap = 2
    LevelXp <- MCLevelXp
    MaxTime = 3
    MaxFaults = 1
    Places = {"A", "B"}
    Policies <- MCPolicies
    Day = 1
    Week = 2
    Seconds = 3
SYMMETRY Symmetry
INVARIANTS
    LedgerIsSound
    ShopBooksBalance
    PlaytimeIsReal
    EngagementIsEarned
PROPERTIES
    UnsealedHeadClosesLedger
    QuietDamageIsCaught
    ImplementsSealedLog
CHECK_DEADLOCK FALSE
