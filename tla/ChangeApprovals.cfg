SPECIFICATION Spec
CONSTANTS
    h1 = h1
    h2 = h2
    ann = ann
    bob = bob
    None = None
    Threads = {h1, h2}
    Operators = {ann, bob}
    Ids = {1}
    Mutations <- MCMutations
    Lifetimes = {2}
    BusyTimeout = 1
    MaxClock = 3
SYMMETRY Symmetry
INVARIANTS
    TwoPersonRule
    LedgerTellsTheStory
PROPERTIES
    ConsumedInTime
    ImplementsDualControl
