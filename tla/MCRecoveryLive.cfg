CONSTANTS
    Jobs = {j1}
    Consumers = {r1}
    NoJob = none
    OpOf <- MCOpOf
    MaxAttempts = 1
    MaxDeferrals = 1
    MaxVersion = 6
    Invoices = {i1}
    Handlers = {h1}
    Reconcilers = {}
    DocOf <- MCDocOf
    User = user
    NoInvoice = noinvoice
    NoHandler = nohandler
    MaxDocs = 1
    MaxEdits = 0
    MaxStampingAttempts = 1
    PacIsPrompt = TRUE
    Faults = {}
    Actions = {a1}
    MaxRetries = 1
    AttemptsLimit = 2
    ServerDies = FALSE
SPECIFICATION HistorySpec
INVARIANTS
    IdentifiedIsFinished
CHECK_DEADLOCK FALSE
