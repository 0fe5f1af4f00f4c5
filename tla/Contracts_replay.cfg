SPECIFICATION Spec
CONSTANTS
    h1 = h1
    h2 = h2
    ann = ann
    bob = bob
    restore = restore
    grant = grant
    r1 = r1
    r2 = r2
    None = None
    Threads = {h1, h2}
    Operators = {ann, bob}
    Targets = {restore, grant}
    DualControlled = {restore}
    ContractIds = {1}
    ApprovalIds = {1}
    Requests = {r1, r2}
    TTL = 1
    MaxClock = 1
    MaxRestarts = 1
SYMMETRY Symmetry
CHECK_DEADLOCK FALSE
INVARIANT OneAttempt
