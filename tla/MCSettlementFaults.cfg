CONSTANTS
    NoRow = norow
    MaxXmlAttempts = 2
    MaxMisses = 2
    Payments = {p1}
    Notes = {n1}
    MaxRows = 1
    Total = 2
    Handlers = {h1, h2}
    Reconcilers = {w1}
    MaxDocs = 2
    PacIsPrompt = FALSE
    UserMoves = {"cancel","delete","edit"}
    Faults = {"config","crash","db","stub"}
SPECIFICATION FairSpec
INVARIANTS
    SingleEmitter
    OneCfdi
    StampedIsFiscal
PROPERTIES
    FiscalIdentityStays
    StampingResolves
    FolioArrives
CHECK_DEADLOCK FALSE
