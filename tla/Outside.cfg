SPECIFICATION OutsideSpec
CONSTANTS
    Events = {e1, e2, e3}
    Producers = {p, q, r}
    Workers = {v, w}
    Endpoints <- MCEndpoints
    Plain = {"hall"}
    Capacity = 2
    Attempts = 3
    Uncaught = TRUE
    MaxLate = 3
    None = None
    e1 = e1
    e2 = e2
    e3 = e3
    p = p
    q = q
    r = r
    v = v
    w = w
    a1 = a1
    a2 = a2
    b1 = b1
    worker1 = worker1
    worker2 = worker2
    Gone = Gone
    Torn = Torn
    Parts = {"webhooks", "players", "policy", "threads", "market", "overnight",
             "claims", "fills"}
SYMMETRY Symmetry
INVARIANTS
    InOrder
    DeliveriesAreTrue
    BooksBalance
PROPERTIES
    BansAreEnforced
CHECK_DEADLOCK FALSE
