CONSTANTS
    Jobs = {j1}
    Consumers = {r1, r2}
    NoJob = none
    OpOf <- MCOpOf
    MaxAttempts = 2
    MaxDeferrals = 0
    MaxVersion = 4
    i1 = i1
    Invoices = {i1}
    Handlers = {h1}
    Refreshers = {f1}
    DocOf <- MCDocOf
    User = user
    NoInvoice = noinvoice
    NoHandler = nohandler
    Faults = {"crash", "config", "db", "enqueue"}
SYMMETRY Symmetry
SPECIFICATION Spec
INVARIANTS
    TypeOK
    CancelledAtSat
    NoPaymentOnCancelled
    DoneReachedSat
CHECK_DEADLOCK FALSE
