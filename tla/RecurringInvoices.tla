------------------------- MODULE RecurringInvoices -------------------------
(***************************************************************************)
(* Recurring billing: operators who ask generate-recurring-invoices for a  *)
(* selection of periods, users who save and cancel invoices by hand, and   *)
(* changes of the bookings, with each transaction of the database in       *)
(* steps: the locks it waits for, what it reads, its commit                *)
(* (generate-recurring-invoices/handler.ts; create_recurring_invoice, the  *)
(* triggers on coverage and sync_invoice_bookings).                        *)
(***************************************************************************)
EXTENDS RecurringState

(* A request: the plan, read once, and its groups *)

Limits == {today} \cup {LastOfMonth(m) : m \in MonthOf(today)..MonthOf(LastDay)}

Lines(limit) == UNION {PendingPeriods(b, limit) : b \in {b \in Bookings : Recurring(b)}}

\* A future period is only selected with every pending one before it.
TakesAllBefore(selection, lines) ==
    \A p \in selection : p.lo > today =>
        \A q \in lines : q.booking = p.booking /\ q.lo < p.lo => q \in selection

Groups(S) ==
    {[ids |-> {q.booking : q \in {q \in S : Span(q) = Span(p)}}, lo |-> p.lo, hi |-> p.hi,
      future |-> p.lo > today] : p \in S}

\* The period before which a booking must not be billed in advance.
Block(blocked, S) ==
    [b \in Bookings |-> Least({blocked[b]} \cup {p.lo : p \in {q \in S : q.booking = b}})]

\* Periods whose booking changed after they ended are left out, unless the
\* operator confirmed their rate: when a row changed last is not followed.
Ask(r) ==
    /\ tx[r].pc = "new"
    /\ \E limit \in Limits : \E selection \in SUBSET {p \in Lines(limit) : Uncovered(p)} :
       \E stale \in SUBSET {p \in selection : p.hi <= today} :
          /\ selection # {} /\ TakesAllBefore(selection, Lines(limit))
          /\ request' = [request EXCEPT ![r].todo = Groups(selection \ stale),
                                        ![r].blocked = Block(@, stale)]
          /\ tx' = [tx EXCEPT ![r].pc = "running"]
    /\ UNCHANGED <<today, booking, invoice, advisory, rows>>

\* Groups are tried by the start of their period.
FirstGroups(r) == {g \in request[r].todo : \A h \in request[r].todo : g.lo <= h.lo}

BlockedBefore(r, g) == g.future /\ \E b \in g.ids : request[r].blocked[b] < g.lo

Begin(r) ==
    /\ tx[r].pc = "running"
    /\ \E g \in FirstGroups(r) :
          /\ ~BlockedBefore(r, g)
          /\ tx' = [tx EXCEPT ![r] = [NoTx EXCEPT !.pc = "locking", !.ids = g.ids,
                                                  !.lo = g.lo, !.hi = g.hi, !.day = today]]
    /\ UNCHANGED <<today, booking, invoice, advisory, rows, request>>

\* What a failed group leaves: its bookings are not billed in advance any more.
Fail(r, g) ==
    /\ request' = [request EXCEPT
          ![r].todo = @ \ {g},
          ![r].blocked = Block(@, {[booking |-> b, lo |-> g.lo] : b \in g.ids})]
    /\ tx' = [tx EXCEPT ![r] = [NoTx EXCEPT !.pc = "running"]]

\* A group that follows a failed period, or whose customer or quote charges
\* refuse it, never reaches the database.
SkipGroup(r) ==
    /\ tx[r].pc = "running"
    /\ \E g \in FirstGroups(r) : Fail(r, g)
    /\ UNCHANGED <<today, booking, invoice, advisory, rows>>

\* The response, or the death of the function between two groups: what is left
\* is never tried.
EndRequest(r) ==
    /\ tx[r].pc = "running"
    /\ request' = [request EXCEPT ![r].todo = {}, ![r].blocked = NothingBlocked]
    /\ tx' = [tx EXCEPT ![r] = [NoTx EXCEPT !.pc = "done"]]
    /\ UNCHANGED <<today, booking, invoice, advisory, rows>>

-----------------------------------------------------------------------------
(* create_recurring_invoice: one transaction per group *)

GroupOf(r) == CHOOSE g \in request[r].todo : g.ids = tx[r].ids /\ g.lo = tx[r].lo

Billable(b, p) == Recurring(b) /\ Within(b, p)

\* Live coverage that overlaps the period without being exactly it.
PartlyCovered(b, p) == \E i \in Overlapping(b, p) : ~SamePeriod(i, p)

Existing(t) == UNION {{i \in Active(b) : SamePeriod(i, tx[t])} : b \in tx[t].ids}

\* The code before it checked that the invoice covers the whole group.
ReusesAny(t, i) == i \in Existing(t)

Reuses(t, i) == i \in Existing(t) /\ tx[t].ids \subseteq invoice[i].ids

Creates(t) ==
    /\ Existing(t) = {} /\ RoomForInvoice
    /\ \A b \in tx[t].ids : ~LeavesGap(b, tx[t])

\* The rows are locked FOR UPDATE after the advisory locks, then everything is
\* read again under both.
Locks(r) == tx[r].pc = "locking" /\ Missing(r) = {} /\ \A b \in tx[r].ids : rows[b] = {}

Decide(r) ==
    /\ Locks(r)
    /\ \A b \in tx[r].ids : Billable(b, tx[r]) /\ ~PartlyCovered(b, tx[r])
    /\ \/ \E i \in InvoiceIds : /\ Reuses(r, i)
                                /\ tx' = [tx EXCEPT ![r].pc = "commit", ![r].invoice = i]
       \/ Creates(r) /\ tx' = [tx EXCEPT ![r].pc = "commit"]
    /\ HoldRows(r, tx[r].ids)
    /\ UNCHANGED <<today, booking, invoice, advisory, request>>

Refuse(r) ==
    /\ Locks(r)
    /\ \/ \E b \in tx[r].ids : ~Billable(b, tx[r]) \/ PartlyCovered(b, tx[r])
       \/ \E i \in Existing(r) : ~Reuses(r, i)
       \/ Existing(r) = {} /\ ~Creates(r)
    /\ Fail(r, GroupOf(r))
    /\ Release(r)
    /\ UNCHANGED <<today, booking, invoice>>

Insert(t, i) ==
    invoice' = [invoice EXCEPT ![i] = [state |-> "active", ids |-> tx[t].ids,
                                       lo |-> tx[t].lo, hi |-> tx[t].hi]]

Commit(r) ==
    /\ tx[r].pc = "commit" /\ r \in Requests
    /\ \E i \in InvoiceIds :
          /\ \/ i = tx[r].invoice /\ UNCHANGED invoice
             \/ tx[r].invoice = Free /\ NextRow(i) /\ Insert(r, i)
          /\ request' = [request EXCEPT ![r].todo = @ \ {GroupOf(r)},
                ![r].report = @ \cup {[invoice |-> i, ids |-> tx[r].ids, lo |-> tx[r].lo]}]
    /\ tx' = [tx EXCEPT ![r] = [NoTx EXCEPT !.pc = "running"]]
    /\ Release(r)
    /\ UNCHANGED <<today, booking>>

-----------------------------------------------------------------------------
(* save_invoice_with_bookings: a user creates an invoice by hand *)

Ended(t) == tx' = [tx EXCEPT ![t] = [NoTx EXCEPT !.pc = "done"]]

Abort(t) ==
    /\ Ended(t) /\ Release(t)
    /\ UNCHANGED <<today, booking, invoice, request>>

BeginSave(t) ==
    /\ tx[t].pc = "new"
    /\ \E S \in (SUBSET Bookings) \ {{}}, p \in ManualPeriods : \E b \in S :
          tx' = [tx EXCEPT ![t] = [NoTx EXCEPT !.pc = "locking", !.ids = S, !.primary = b,
                                               !.lo = p.lo, !.hi = p.hi, !.day = today]]
    /\ UNCHANGED <<today, booking, invoice, advisory, rows, request>>

\* guard_confirmed_recurring_invoice_coverage: what a recurring booking asks of
\* any new coverage.
Guarded(b, p) ==
    Recurring(b) => Within(b, p) /\ Overlapping(b, p) = {} /\ ~LeavesGap(b, p)

\* The duplicates sync_invoice_bookings looks for: the same period of a
\* recurring booking, any overlap of another.
Duplicates(b, p) ==
    IF booking[b].recurring THEN {i \in Active(b) : SamePeriod(i, p)} ELSE Overlapping(b, p)

SyncAccepts(t) == \A b \in tx[t].ids : Within(b, tx[t]) /\ Duplicates(b, tx[t]) = {}

\* The insert locks the row of the main booking and fires the trigger for it;
\* the synchronization then reads all of them.
CheckSave(t) ==
    /\ t \in Savers /\ tx[t].pc = "locking" /\ Missing(t) = {} /\ Shareable(tx[t].primary)
    /\ IF Guarded(tx[t].primary, tx[t]) /\ SyncAccepts(t) /\ RoomForInvoice
       THEN /\ HoldRows(t, {tx[t].primary})
            /\ tx' = [tx EXCEPT ![t].pc = "checked"]
            /\ UNCHANGED <<today, booking, invoice, advisory, request>>
       ELSE Abort(t)

\* The pivots lock the other rows and fire the trigger for each booking.
LinkBookings(t) ==
    /\ tx[t].pc = "checked" /\ \A b \in tx[t].ids : Shareable(b)
    /\ IF \A b \in tx[t].ids : Guarded(b, tx[t])
       THEN /\ HoldRows(t, tx[t].ids)
            /\ tx' = [tx EXCEPT ![t].pc = "commit"]
            /\ UNCHANGED <<today, booking, invoice, advisory, request>>
       ELSE Abort(t)

CommitSave(t) ==
    /\ tx[t].pc = "commit" /\ t \in Savers
    /\ \E i \in InvoiceIds : NextRow(i) /\ Insert(t, i)
    /\ Ended(t) /\ Release(t)
    /\ UNCHANGED <<today, booking, request>>

-----------------------------------------------------------------------------
(* The cancellation of an invoice: it already holds rows, so that it never
   waits for an advisory lock. *)

BeginCancel(t) ==
    /\ tx[t].pc = "new"
    /\ \E i \in InvoiceIds :
          /\ invoice[i].state = "active" /\ \A b \in invoice[i].ids : Shareable(b)
          /\ HoldRows(t, invoice[i].ids)
          /\ tx' = [tx EXCEPT ![t] = [NoTx EXCEPT !.pc = "locking", !.ids = invoice[i].ids,
                                                  !.invoice = i]]
    /\ UNCHANGED <<today, booking, invoice, advisory, request>>

\* The code without lock_confirmed_recurring_coverage_change.
ToLockNothing(t) == {}

ToLock(t) == {b \in tx[t].ids : Recurring(b)}

Contended(t) == \E b \in ToLock(t) : advisory[b] # Free

\* The code with pg_advisory_xact_lock where it has pg_try_advisory_xact_lock.
AwaitLocks(t) ==
    /\ ~Contended(t)
    /\ advisory' = [b \in Bookings |-> IF b \in ToLock(t) THEN t ELSE advisory[b]]
    /\ tx' = [tx EXCEPT ![t].pc = "commit"]
    /\ UNCHANGED <<today, booking, invoice, rows, request>>

TryLocks(t) ==
    IF Contended(t)
    THEN Abort(t)
    ELSE /\ advisory' = [b \in Bookings |-> IF b \in ToLock(t) THEN t ELSE advisory[b]]
         /\ tx' = [tx EXCEPT ![t].pc = "commit"]
         /\ UNCHANGED <<today, booking, invoice, rows, request>>

LockCoverage(t) == t \in Cancellers /\ tx[t].pc = "locking" /\ TryLocks(t)

CommitCancel(t) ==
    /\ tx[t].pc = "commit" /\ t \in Cancellers
    /\ invoice' = [invoice EXCEPT ![tx[t].invoice].state = "cancelled"]
    /\ Ended(t) /\ Release(t)
    /\ UNCHANGED <<today, booking, request>>

-----------------------------------------------------------------------------

GroupStep(r) ==
    Begin(r) \/ SkipGroup(r) \/ TakeAdvisory(r) \/ Decide(r) \/ Refuse(r) \/ Commit(r)
SaveStep(t) == TakeAdvisory(t) \/ CheckSave(t) \/ LinkBookings(t) \/ CommitSave(t)
CancelTxStep(t) == LockCoverage(t) \/ CommitCancel(t)

BookingStep(b) == ToggleRecurring(b) \/ ExtendBooking(b) \/ CancelBooking(b)

Next ==
    \/ \E r \in Requests : Ask(r) \/ EndRequest(r) \/ GroupStep(r)
    \/ \E t \in Savers : BeginSave(t) \/ SaveStep(t)
    \/ \E t \in Cancellers : BeginCancel(t) \/ CancelTxStep(t)
    \/ \E b \in Changing : BookingStep(b)
    \/ NextDay

Spec == Init /\ [][Next]_vars

-----------------------------------------------------------------------------
(* Properties *)

BookingRow == [status : {"confirmed", "cancelled"}, recurring : BOOLEAN, first : Days,
               last : Days]
InvoiceRow == [state : {"none", "active", "cancelled"}, ids : SUBSET Bookings, lo : Days, hi : Days]
Group == [ids : (SUBSET Bookings) \ {{}}, lo : Days, hi : Days, future : BOOLEAN]

\* Rows, locks and transactions have the values their columns and steps allow,
\* and whoever is past its locks holds them.
TypeOK ==
    /\ today \in Days
    /\ booking \in [Bookings -> BookingRow]
    /\ invoice \in [InvoiceIds -> InvoiceRow]
    /\ advisory \in [Bookings -> Txs \cup {Free}]
    /\ rows \in [Bookings -> SUBSET Txs]
    /\ \A t \in Txs :
          /\ tx[t].pc \in {"new", "running", "locking", "checked", "commit", "done"}
          /\ tx[t].pc = "commit" => \A b \in tx[t].ids : t \in rows[b]
          /\ tx[t].pc = "checked" => Missing(t) = {}
    /\ \A r \in Requests : /\ request[r].todo \subseteq Group
                           /\ request[r].blocked \in [Bookings -> 1..(LastDay + 1)]

\* No day of a booking is billed twice, whoever creates the invoices and
\* whatever changes in between (create_recurring_invoice, the triggers on
\* coverage, sync_invoice_bookings).
BilledOnce ==
    \A b \in Bookings : \A i, j \in Active(b) :
        i # j => Span(invoice[i]) \cap Span(invoice[j]) = {}

\* An invoice of a recurring booking whose period has not begun is only created
\* when every day of the contract before it is covered at that very moment,
\* although invoices are cancelled all the time (0125, lines 249-273 and 557-559).
FutureExtendsPrefix ==
    [][\A i \in InvoiceIds :
          invoice[i].state = "none" /\ invoice'[i].state = "active" /\ invoice'[i].lo > today =>
              \A b \in invoice'[i].ids :
                  Recurring(b) => booking[b].first..(invoice'[i].lo - 1) \subseteq Covered(b)]_vars

\* What an operator is told is billed is billed: the invoice reported for a
\* group, new or found, covers each booking of the group in that period.
ReportedIsBilled ==
    \A r \in Requests : \A p \in request[r].report :
        /\ p.ids \subseteq invoice[p.invoice].ids
        /\ p.lo = invoice[p.invoice].lo

\* The transactions never wait for one another in a circle: advisory and row
\* locks are taken in orders that cannot cross (lock_bookings_for_billing; 0125,
\* lines 405-411 and 559).
NoDeadlock ==
    (\E t \in Txs : tx[t].pc = "locking") =>
        \/ \E r \in Requests : ENABLED GroupStep(r)
        \/ \E t \in Savers : ENABLED SaveStep(t)
        \/ \E t \in Cancellers : ENABLED CancelTxStep(t)
=============================================================================
