CONSTANTS
    Jobs = {j1}
    Consumers = {r1}
    NoJob = none
    OpOf <- MCOpOf
    MaxAttempts = 1
    MaxDeferrals = 1
    MaxVersion = 3
    Invoices = {i1}
    Handlers = {h1, h2}
    Reconcilers = {w1}
    DocOf <- MCDocOf
    User = user
    NoInvoice = noinvoice
    NoHandler = nohandler
    MaxDocs = 2
    MaxEdits = 0
    MaxStampingAttempts = 2
    PacIsPrompt = FALSE
    Faults = {"crash","config","db","enqueue","slow","stub"}
SPECIFICATION FairSpec
INVARIANTS
    SingleEmitter
    OneCfdi
    StampedIsFiscal
PROPERTIES
    FiscalIdentityStays
    StampingResolves
CHECK_DEADLOCK FALSE
