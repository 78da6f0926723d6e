CONSTANTS
    Payments = {p1, p2}
    Notes = {n1, n2}
    MaxRows = 2
    NoRow = norow
    Total = 2
    Handlers = {h1, h2}
    Reconcilers = {w1}
    MaxDocs = 3
    MaxMisses = 2
    MaxXmlAttempts = 2
    PacIsPrompt = TRUE
    UserMoves = {"cancel"}
    Faults = {"config","crash","db"}
SYMMETRY Symmetry
SPECIFICATION Spec
INVARIANTS
    TypeOK
    InstalmentsDiffer
    NotesWithinTotal
    ComplementMatchesRow
    IssuedIsTracked
CHECK_DEADLOCK FALSE
