CONSTANTS
    Jobs = {j1, j2}
    Consumers = {r1, r2}
    NoJob = none
    OpOf <- MCOpOf
    MaxAttempts = 2
    MaxDeferrals = 1
    MaxVersion = 3
    Invoices = {i1}
    Handlers = {h1}
    Reconcilers = {w1, w2}
    DocOf <- MCDocOf
    User = user
    NoInvoice = noinvoice
    NoHandler = nohandler
    MaxDocs = 2
    MaxEdits = 1
    MaxStampingAttempts = 2
    PacIsPrompt = TRUE
    Faults = {"db"}
SYMMETRY Symmetry
SPECIFICATION Spec
INVARIANTS
    OneReconciler
    IssuedIsTracked
CHECK_DEADLOCK FALSE
