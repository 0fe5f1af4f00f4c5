SPECIFICATION ProgressSpec
CONSTANTS
    None = None
    Gone = Gone
    Torn = Torn
    Parts = {"events", "restarts", "backups", "farm", "deploy", "canary", "alerts", "webhooks", "briefing", "bans", "sales"}
PROPERTIES
    NothingWaitsForEver
    ComesToTheTruth
CHECK_DEADLOCK FALSE
