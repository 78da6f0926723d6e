CONSTANTS
    Jobs = {j1, j2}
    Consumers = {r1, r2}
    NoJob = none
    OpOf <- MCOpOf
    MaxAttempts = 2
    MaxDeferrals = 0
    MaxVersion = 2
    p1 = p1
    n1 = n1
    j1 = j1
    j2 = j2
    Payments = {p1}
    Notes = {n1}
    MaxStamped = 1
    Handlers = {h1, h2}
    Refreshers = {f1}
    DocOf <- MCDocOf
    User = user
    NoRow = norow
    NoHandler = nohandler
    Faults = {"crash", "config", "db", "enqueue"}
SYMMETRY Symmetry
SPECIFICATION Spec
INVARIANTS
    TypeOK
    CancelledAtSat
    DoneReachedSat
    OneRequest
CHECK_DEADLOCK FALSE
