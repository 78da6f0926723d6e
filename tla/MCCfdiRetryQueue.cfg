CONSTANTS
    s1 = s1
    c1 = c1
    r1 = r1
    r2 = r2
    none = none
    Jobs = {s1, c1}
    Consumers = {r1, r2}
    NoJob = none
    OpOf <- MCOpOf
    MaxAttempts = 2
    MaxDeferrals = 1
    MaxVersion = 6
SPECIFICATION Spec
INVARIANTS
    TypeOK
    SingleOwner
    AttemptBudget
PROPERTIES
    ClosedRowsStay
    AttemptsNeverLost
    ImplementsLease
CHECK_DEADLOCK FALSE
