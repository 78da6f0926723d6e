--------------------------- MODULE RecurringState ---------------------------
(***************************************************************************)
(* The rows behind recurring billing (bookings, and the invoices that      *)
(* cover periods of them), the locks the transactions on them take, and    *)
(* what the code computes from the history of a booking                    *)
(* (generate-recurring-invoices/coverage.ts, invoiceHistory.ts,            *)
(* periods.ts; drizzle/migrations/0125_recurring_future_coverage.sql).     *)
(*                                                                         *)
(* A date is a number of days, a month has MonthLength of them.  Invoices  *)
(* are drafts: "active" is what quote_charge_invoice_active decides from   *)
(* the fiscal columns, which other modules follow.  All bookings have one  *)
(* organization, customer, currency and exchange rate, so that groups are  *)
(* formed by period alone.  Left out: legacy invoices without dates, and   *)
(* last_billed_date, a maximum that no decision here reads.                *)
(***************************************************************************)
EXTENDS Integers, FiniteSets

CONSTANTS
    Bookings,       \* numbers: locks are taken in the order of the ids
    Requests,       \* requests of operators to generate-recurring-invoices
    Savers,         \* users who save an invoice by hand
    Cancellers,     \* users who cancel an invoice
    MonthLength,    \* days in a month
    LastDay,        \* bound: the last day of the calendar
    FirstToday,     \* the day on which the behaviour begins
    LastToday,      \* bound: the day on which it ends
    Contract,       \* the first and last day of each booking
    Extension,      \* the day to which a booking may be extended
    Changing,       \* bound: the bookings users change
    ManualPeriods,  \* the periods an invoice saved by hand may have
    MaxInvoices,    \* bound: rows of invoices
    RaceWindow      \* may recurring billing be switched between the two reads
                    \* of a booking by one save?

Txs == Requests \cup Savers \cup Cancellers
Days == 1..LastDay
InvoiceIds == 1..MaxInvoices
Free == 0

ASSUME BookingsAssumption == Bookings \subseteq Nat \ {0} /\ IsFiniteSet(Bookings)
ASSUME ChangingAssumption == Changing \subseteq Bookings
ASSUME CalendarAssumption ==
    /\ MonthLength \in Nat \ {0} /\ LastDay \in Nat \ {0}
    /\ FirstToday \in Days /\ LastToday \in Days
    /\ \A b \in Bookings : /\ Contract[b].first \in Days /\ Contract[b].last \in Days
                           /\ Contract[b].first <= Contract[b].last
                           /\ Extension[b] \in Days
    /\ ManualPeriods \subseteq [lo : Days, hi : Days]
    /\ MaxInvoices \in Nat
ASSUME TxsAssumption ==
    /\ Requests \cap Savers = {} /\ Requests \cap Cancellers = {} /\ Savers \cap Cancellers = {}
    /\ Free \notin Txs

VARIABLES
    today,      \* the day in Monterrey
    booking,    \* the rows of bookings
    invoice,    \* the committed rows of invoices, with their pivots
    advisory,   \* who holds the advisory lock of a booking
    rows,       \* who holds a lock on the row of a booking: a request holds it
                \* FOR UPDATE, the others FOR SHARE
    tx,         \* the transaction each actor is in
    request     \* what each request has planned and reported

vars == <<today, booking, invoice, advisory, rows, tx, request>>

Earlier(m, n) == IF m <= n THEN m ELSE n
Later(m, n) == IF m <= n THEN n ELSE m
Least(S) == CHOOSE m \in S : \A n \in S : m <= n
Greatest(S) == CHOOSE m \in S : \A n \in S : n <= m

-----------------------------------------------------------------------------
(* Coverage of a booking *)

Span(p) == p.lo..p.hi
Active(b) == {i \in InvoiceIds : invoice[i].state = "active" /\ b \in invoice[i].ids}
Covered(b) == UNION {Span(invoice[i]) : i \in Active(b)}
Recurring(b) == booking[b].recurring /\ booking[b].status = "confirmed"
Within(b, p) == booking[b].first <= p.lo /\ p.hi <= booking[b].last
SamePeriod(i, p) == invoice[i].lo = p.lo /\ invoice[i].hi = p.hi

\* The code with half-open ranges where the columns hold closed ones.
OverlappingOpen(b, p) == {i \in Active(b) : invoice[i].lo < p.hi /\ p.lo < invoice[i].hi}

Overlapping(b, p) == {i \in Active(b) : Span(invoice[i]) \cap Span(p) # {}}

\* New coverage that starts after today extends a covered prefix of the
\* contract: the days really covered, never last_billed_date.  The date of a
\* transaction is that of its start, however long it waited.
LeavesGap(b, p) ==
    p.lo > p.day /\ ~(booking[b].first..(p.lo - 1) \subseteq Covered(b))

-----------------------------------------------------------------------------
(* The canonical periods of a booking: calendar months, cut to the contract *)

FirstOfMonth(m) == (m - 1) * MonthLength + 1
LastOfMonth(m) == m * MonthLength
MonthOf(d) == (d - 1) \div MonthLength + 1

Canonical(b, m) == [booking |-> b, lo |-> Later(booking[b].first, FirstOfMonth(m)),
                                   hi |-> Earlier(booking[b].last, LastOfMonth(m))]

\* The months of a booking up to a limit that its invoices do not cover whole.
PendingPeriods(b, limit) ==
    {p \in {Canonical(b, m) :
               m \in MonthOf(booking[b].first)..MonthOf(Earlier(booking[b].last, limit))} :
        booking[b].first <= limit /\ ~(Span(p) \subseteq Covered(b))}

\* A month with part of it billed waits for review.
Uncovered(p) == Span(p) \cap Covered(p.booking) = {}

-----------------------------------------------------------------------------
(* Locks *)

\* The locks a transaction holds end with it.
Release(t) ==
    /\ advisory' = [b \in Bookings |-> IF advisory[b] = t THEN Free ELSE advisory[b]]
    /\ rows' = [b \in Bookings |-> rows[b] \ {t}]

Missing(t) == {b \in tx[t].ids : advisory[b] # t}

\* lock_bookings_for_billing and create_recurring_invoice take the advisory
\* locks one at a time, in the order of the ids, and wait for each.
TakeAdvisory(t) ==
    /\ tx[t].pc = "locking" /\ t \notin Cancellers /\ Missing(t) # {}
    /\ LET b == Least(Missing(t)) IN
          /\ advisory[b] = Free
          /\ advisory' = [advisory EXCEPT ![b] = t]
    /\ UNCHANGED <<today, booking, invoice, rows, tx, request>>

Shareable(b) == rows[b] \cap Requests = {}

\* The code with only the first row locked.
HoldFirstRow(t, S) ==
    rows' = [b \in Bookings |-> IF S # {} /\ b = Least(S) THEN rows[b] \cup {t} ELSE rows[b]]

HoldRows(t, S) == rows' = [b \in Bookings |-> IF b \in S THEN rows[b] \cup {t} ELSE rows[b]]

-----------------------------------------------------------------------------
(* Changes of a booking that need no advisory lock: one UPDATE of its row,
   which waits for whoever holds it. *)

Update(b, f) ==
    /\ rows[b] = {}
    /\ booking' = [booking EXCEPT ![b] = f]
    /\ UNCHANGED <<today, invoice, advisory, rows, tx, request>>

\* Whether recurring billing may be switched off now.  A save by hand reads it
\* twice, for what it calls a duplicate and for what the trigger protects, and
\* only has the row of its main booking locked in between.
Switchable(b) == RaceWindow \/ \A t \in Savers : b \in tx[t].ids => tx[t].pc # "checked"

\* The switch of the booking's page.
ToggleRecurring(b) ==
    /\ booking[b].status = "confirmed" /\ Switchable(b)
    /\ Update(b, [booking[b] EXCEPT !.recurring = ~@])

ExtendBooking(b) ==
    /\ booking[b].status = "confirmed" /\ booking[b].last < Extension[b]
    /\ Update(b, [booking[b] EXCEPT !.last = Extension[b]])

\* Drafts do not keep a booking from being cancelled; a trigger ends its
\* recurring billing.
CancelBooking(b) ==
    /\ booking[b].status = "confirmed" /\ Switchable(b)
    /\ Update(b, [booking[b] EXCEPT !.status = "cancelled", !.recurring = FALSE])

NextDay ==
    /\ today < LastToday
    /\ today' = today + 1
    /\ UNCHANGED <<booking, invoice, advisory, rows, tx, request>>

-----------------------------------------------------------------------------

NothingBlocked == [b \in Bookings |-> LastDay + 1]
NoTx == [pc |-> "new", ids |-> {}, primary |-> Free, lo |-> 1, hi |-> 1, day |-> FirstToday,
         invoice |-> Free]

Init ==
    /\ today = FirstToday
    /\ booking = [b \in Bookings |->
                     [status |-> "confirmed", recurring |-> TRUE,
                      first |-> Contract[b].first, last |-> Contract[b].last]]
    /\ invoice = [i \in InvoiceIds |-> [state |-> "none", ids |-> {}, lo |-> 1, hi |-> 1]]
    /\ advisory = [b \in Bookings |-> Free]
    /\ rows = [b \in Bookings |-> {}]
    /\ tx = [t \in Txs |-> NoTx]
    /\ request = [r \in Requests |->
                     [todo |-> {}, blocked |-> NothingBlocked, report |-> {}]]

\* The row a new invoice gets.  A transaction that has decided to insert one
\* keeps a place within the bound.
Unused == {i \in InvoiceIds : invoice[i].state = "none"}
NextRow(i) == i \in Unused /\ \A j \in Unused : i <= j
Inserting == {t \in Txs : tx[t].pc \in {"checked", "commit"} /\ tx[t].invoice = Free}
RoomForInvoice == Cardinality(Inserting) < Cardinality(Unused)
=============================================================================
