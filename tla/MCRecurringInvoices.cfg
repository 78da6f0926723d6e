SPECIFICATION Spec
CONSTANTS
    Bookings = {1, 2}
    Requests = {r1}
    Savers = {s1}
    Cancellers = {c1}
    MonthLength = 2
    LastDay = 4
    FirstToday = 2
    LastToday = 3
    Contract <- MCContract
    Extension <- MCExtension
    Changing = {2}
    ManualPeriods <- MCManualPeriods
    MaxInvoices = 3
    RaceWindow = FALSE
INVARIANT TypeOK BilledOnce ReportedIsBilled NoDeadlock
PROPERTY FutureExtendsPrefix
CHECK_DEADLOCK FALSE
