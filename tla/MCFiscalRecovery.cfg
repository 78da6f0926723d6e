CONSTANTS
    Jobs = {j1}
    Consumers = {r1}
    NoJob = none
    OpOf <- MCOpOf
    MaxAttempts = 1
    MaxDeferrals = 1
    MaxVersion = 6
    Invoices = {i1}
    Handlers = {h1}
    Reconcilers = {}
    DocOf <- MCDocOf
    User = user
    NoInvoice = noinvoice
    NoHandler = nohandler
    MaxDocs = 1
    MaxEdits = 0
    MaxStampingAttempts = 1
    PacIsPrompt = TRUE
    Faults = {"db", "slow"}
    Actions = {a1, a2}
    MaxRetries = 1
    AttemptsLimit = 2
    ServerDies = TRUE
SYMMETRY Symmetry
SPECIFICATION HistorySpec
INVARIANTS
    OneHolder
    AttemptsAreGranted
    UncrossedIsFinished
CHECK_DEADLOCK FALSE
