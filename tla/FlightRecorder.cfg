SPECIFICATION FairSpec
CONSTANTS
    h1 = h1
    h2 = h2
    r1 = r1
    r2 = r2
    r3 = r3
    None = None
    Threads = {h1, h2}
    Requests = {r1, r2, r3}
INVARIANTS
    RunIsSealed
    OneStoryPerRequest
PROPERTY EveryRequestReturns
