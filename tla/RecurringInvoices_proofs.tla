------------------------ MODULE RecurringInvoices_proofs ------------------------
(***************************************************************************)
(* Proofs about recurring billing, for any bookings, calendar and number   *)
(* of requests, saves and cancellations.                                   *)
(*                                                                         *)
(* The argument: whoever has decided to create an invoice holds the        *)
(* advisory lock of each of its bookings, so that nobody else adds         *)
(* coverage to them, and nobody takes away what a future period rests on.  *)
(* The second part follows the values of the rows and who holds which      *)
(* lock, whether or not recurring billing may be switched in between: the  *)
(* order in which locks are taken keeps the transactions from waiting for  *)
(* one another.                                                            *)
(***************************************************************************)
EXTENDS RecurringInvoices, FiniteSetTheorems, TLAPS

(* Types, as weak as the rest needs them.                                  *)

TypedBooking == [status : {"confirmed", "cancelled"}, recurring : BOOLEAN,
                 first : Int, last : Int]
TypedInvoice == [state : {"none", "active", "cancelled"}, ids : SUBSET Bookings,
                 lo : Int, hi : Int]
TypedTx == [pc : {"new", "running", "locking", "checked", "commit", "done"},
            ids : SUBSET Bookings, primary : Bookings \cup {Free}, lo : Int, hi : Int,
            day : Int, invoice : InvoiceIds \cup {Free}]
TypedGroup == [ids : SUBSET Bookings, lo : Int, hi : Int, future : BOOLEAN]

BookingsOK ==
    /\ today \in Int /\ FirstToday <= today
    /\ booking \in [Bookings -> TypedBooking]
    \* Whoever cancels a booking ends its recurring billing.
    /\ \A b \in Bookings : booking[b].recurring => booking[b].status = "confirmed"

InvoicesOK == invoice \in [InvoiceIds -> TypedInvoice]

LocksOK == advisory \in [Bookings -> Txs \cup {Free}] /\ rows \in [Bookings -> SUBSET Txs]

\* The date of a transaction is never in the future.
TxsOK ==
    /\ tx \in [Txs -> TypedTx]
    /\ \A t \in Txs : tx[t].day <= today

\* A request is a record; of what blocks it no more needs to be known.
RequestsOK ==
    \E B, R : request \in [Requests -> [todo : SUBSET TypedGroup, blocked : B, report : R]]

Typed == BookingsOK /\ InvoicesOK /\ LocksOK /\ TxsOK /\ RequestsOK

-----------------------------------------------------------------------------
(* What the locks are for.                                                 *)

Billers == Requests \cup Savers

\* A transaction that is about to insert an invoice.
Inserts(t) == t \in Billers /\ tx[t].pc = "commit" /\ tx[t].invoice = Free

\* Past its checks a transaction holds the advisory locks of its bookings, and
\* their rows when it is about to commit.
BillerHolds(t) ==
    t \in Billers =>
        /\ tx[t].pc \in {"checked", "commit"} => \A b \in tx[t].ids : advisory[b] = t
        /\ tx[t].pc = "commit" => \A b \in tx[t].ids : t \in rows[b]
        /\ t \in Savers \/ tx[t].pc = "locking" => tx[t].invoice = Free
        /\ t \in Requests => tx[t].pc # "checked"

\* A cancellation holds the rows of the bookings of its invoice, and before it
\* commits the advisory locks of those with recurring billing.
CancellerHolds(t) ==
    t \in Cancellers =>
        /\ tx[t].pc \in {"locking", "commit"} =>
              /\ tx[t].invoice \in InvoiceIds
              /\ invoice[tx[t].invoice].state # "none"
              /\ tx[t].ids = invoice[tx[t].invoice].ids
              /\ \A b \in tx[t].ids : t \in rows[b]
        /\ tx[t].pc = "commit" => \A b \in tx[t].ids : Recurring(b) => advisory[b] = t
        /\ tx[t].pc # "checked"

\* What the checks of a transaction found still holds.
Decided(t) ==
    Inserts(t) =>
        \A b \in tx[t].ids : /\ Overlapping(b, tx[t]) = {}
                             /\ Recurring(b) => ~LeavesGap(b, tx[t])

Checked(t) ==
    t \in Savers /\ tx[t].pc = "checked" =>
        \A b \in tx[t].ids : Recurring(b) \/ Overlapping(b, tx[t]) = {}

\* An invoice that was found for a group is still there.
FoundStays(t) ==
    t \in Requests /\ tx[t].pc = "commit" /\ tx[t].invoice # Free =>
        /\ invoice[tx[t].invoice].state # "none"
        /\ tx[t].ids \subseteq invoice[tx[t].invoice].ids
        /\ tx[t].lo = invoice[tx[t].invoice].lo

TxInv(t) == BillerHolds(t) /\ CancellerHolds(t) /\ Decided(t) /\ Checked(t) /\ FoundStays(t)

Reported ==
    \A r \in Requests : \A p \in request[r].report :
        /\ p.invoice \in InvoiceIds
        /\ invoice[p.invoice].state # "none"
        /\ p.ids \subseteq invoice[p.invoice].ids
        /\ p.lo = invoice[p.invoice].lo

BillingInv == Typed /\ (\A t \in Txs : TxInv(t)) /\ Reported /\ BilledOnce

-----------------------------------------------------------------------------
(* Types.                                                                  *)

LEMMA NoTxTyped ==
    ASSUME NEW pc \in {"new", "running", "locking", "checked", "commit", "done"}
    PROVE  [NoTx EXCEPT !.pc = pc] \in TypedTx /\ NoTx \in TypedTx
BY CalendarAssumption DEF NoTx, TypedTx, Days

LEMMA LinesTyped ==
    ASSUME Typed, NEW limit \in Int, NEW p \in Lines(limit)
    PROVE  p \in [booking : Bookings, lo : Int, hi : Int]
<1>1. PICK b \in Bookings : p \in PendingPeriods(b, limit)
  BY DEF Lines
<1>2. PICK m \in MonthOf(booking[b].first)..MonthOf(Earlier(booking[b].last, limit)) :
         p = Canonical(b, m)
  BY <1>1 DEF PendingPeriods
<1>3. m \in Int /\ MonthLength \in Int /\ booking[b].first \in Int /\ booking[b].last \in Int
  BY <1>2, CalendarAssumption DEF Typed, BookingsOK, TypedBooking
<1>4. FirstOfMonth(m) \in Int /\ LastOfMonth(m) \in Int
  BY <1>3 DEF FirstOfMonth, LastOfMonth
<1> QED
  BY <1>2, <1>3, <1>4 DEF Canonical, Earlier, Later

LEMMA LimitsTyped == ASSUME Typed, NEW limit \in Limits PROVE limit \in Int
<1>1. CASE limit = today
  BY <1>1 DEF Typed, BookingsOK
<1>2. CASE \E m \in MonthOf(today)..MonthOf(LastDay) : limit = LastOfMonth(m)
  BY <1>2, CalendarAssumption DEF LastOfMonth
<1> QED
  BY <1>1, <1>2 DEF Limits

LEMMA GroupsTyped ==
    ASSUME Typed, NEW S, \A p \in S : p \in [booking : Bookings, lo : Int, hi : Int]
    PROVE  Groups(S) \subseteq TypedGroup
<1> SUFFICES ASSUME NEW p \in S
             PROVE  [ids |-> {q.booking : q \in {q \in S : Span(q) = Span(p)}},
                     lo |-> p.lo, hi |-> p.hi, future |-> p.lo > today] \in TypedGroup
  BY DEF Groups
<1>1. {q.booking : q \in {q \in S : Span(q) = Span(p)}} \subseteq Bookings
  OBVIOUS
<1> QED
  BY <1>1 DEF TypedGroup, Typed, BookingsOK

-----------------------------------------------------------------------------
(* Frames.                                                                 *)

\* A transaction that took no step is not disturbed by a step that leaves the
\* rows of bookings and invoices and its locks as they are.
LEMMA OthersKeep ==
    ASSUME Typed, NEW u \in Txs, TxInv(u), UNCHANGED <<booking, invoice>>, tx'[u] = tx[u],
           \A b \in Bookings : /\ advisory[b] = u => advisory'[b] = u
                               /\ u \in rows[b] => u \in rows'[b]
    PROVE  TxInv(u)'
<1>1. tx[u].ids \subseteq Bookings
  BY DEF Typed, TxsOK, TypedTx
<1>2. \A b \in Bookings : /\ Recurring(b)' = Recurring(b)
                          /\ Overlapping(b, tx[u])' = Overlapping(b, tx[u])
                          /\ LeavesGap(b, tx[u])' = LeavesGap(b, tx[u])
  BY DEF Recurring, Overlapping, LeavesGap, Active, Covered, Span
<1>3. BillerHolds(u)' /\ CancellerHolds(u)'
  BY <1>1, <1>2 DEF TxInv, BillerHolds, CancellerHolds
<1>4. Decided(u)' /\ Checked(u)' /\ FoundStays(u)'
  BY <1>1, <1>2 DEF TxInv, Decided, Checked, FoundStays, Inserts
<1> QED
  BY <1>3, <1>4 DEF TxInv

\* Between transactions there is nothing to hold.
LEMMA RestingKeeps ==
    ASSUME NEW t \in Txs, tx'[t].pc \in {"new", "running", "done"},
           t \in Requests \/ tx'[t].invoice = Free
    PROVE  TxInv(t)'
BY TxsAssumption DEF TxInv, BillerHolds, CancellerHolds, Decided, Checked, FoundStays, Inserts,
   Txs, Billers

\* The end of a transaction takes only its own locks.
LEMMA ReleaseKeeps ==
    ASSUME Typed, NEW t \in Txs, Release(t)
    PROVE  /\ LocksOK'
           /\ \A u \in Txs \ {t}, b \in Bookings : /\ advisory[b] = u => advisory'[b] = u
                                                   /\ u \in rows[b] => u \in rows'[b]
BY DEF Typed, LocksOK, Release

LEMMA HoldRowsKeeps ==
    ASSUME Typed, NEW t \in Txs, NEW S, HoldRows(t, S), UNCHANGED advisory
    PROVE  /\ LocksOK'
           /\ \A u \in Txs, b \in Bookings : /\ advisory[b] = u => advisory'[b] = u
                                             /\ u \in rows[b] => u \in rows'[b]
           /\ \A b \in S \cap Bookings : t \in rows'[b]
BY DEF Typed, LocksOK, HoldRows

\* Reports and coverage only depend on the rows of invoices.
LEMMA ReportsKeep ==
    ASSUME Reported, BilledOnce, UNCHANGED invoice,
           \A r \in Requests : request'[r].report = request[r].report
    PROVE  Reported' /\ BilledOnce'
BY DEF Reported, BilledOnce, Active, Span

\* A step of one transaction between its begin and its commit.
LEMMA OneSteps ==
    ASSUME BillingInv, NEW t \in Txs, UNCHANGED <<today, booking, invoice>>,
           LocksOK', TxsOK', RequestsOK', TxInv(t)',
           \A u \in Txs \ {t} : tx'[u] = tx[u],
           \A r \in Requests : request'[r].report = request[r].report,
           \A u \in Txs \ {t}, b \in Bookings : /\ advisory[b] = u => advisory'[b] = u
                                                /\ u \in rows[b] => u \in rows'[b]
    PROVE  BillingInv'
<1>1. Typed'
  BY DEF BillingInv, Typed, BookingsOK, InvoicesOK
<1>2. ASSUME NEW u \in Txs PROVE TxInv(u)'
  <2>1. CASE u = t
    BY <2>1
  <2>2. CASE u # t
    <3>1. Typed /\ TxInv(u) /\ UNCHANGED <<booking, invoice>> /\ tx'[u] = tx[u]
      BY <2>2 DEF BillingInv
    <3>2. \A b \in Bookings : /\ advisory[b] = u => advisory'[b] = u
                              /\ u \in rows[b] => u \in rows'[b]
      BY <2>2
    <3> QED
      BY <3>1, <3>2, OthersKeep
  <2> QED
    BY <2>1, <2>2
<1>3. Reported' /\ BilledOnce'
  BY ReportsKeep DEF BillingInv
<1> QED
  BY <1>1, <1>2, <1>3 DEF BillingInv

-----------------------------------------------------------------------------
(* Requests of recurring billing.                                          *)

LEMMA AskKeeps == ASSUME BillingInv, NEW r \in Requests, Ask(r) PROVE BillingInv'
<1>1. PICK limit \in Limits : \E selection \in SUBSET {p \in Lines(limit) : Uncovered(p)} :
         \E stale \in SUBSET {p \in selection : p.hi <= today} :
            /\ request' = [request EXCEPT ![r].todo = Groups(selection \ stale),
                                          ![r].blocked = Block(@, stale)]
            /\ tx' = [tx EXCEPT ![r].pc = "running"]
  BY DEF Ask
<1>2. PICK selection \in SUBSET {p \in Lines(limit) : Uncovered(p)} : \E stale :
            /\ request' = [request EXCEPT ![r].todo = Groups(selection \ stale),
                                          ![r].blocked = Block(@, stale)]
            /\ tx' = [tx EXCEPT ![r].pc = "running"]
  BY <1>1
<1>3. PICK stale : /\ request' = [request EXCEPT ![r].todo = Groups(selection \ stale),
                                                 ![r].blocked = Block(@, stale)]
                   /\ tx' = [tx EXCEPT ![r].pc = "running"]
  BY <1>2
<1>8. Groups(selection \ stale) \subseteq TypedGroup
  <2>1. limit \in Int /\ Typed
    BY LimitsTyped DEF BillingInv
  <2>2. \A p \in selection \ stale : p \in [booking : Bookings, lo : Int, hi : Int]
    BY <2>1, LinesTyped
  <2> QED
    BY <2>1, <2>2, GroupsTyped
<1>4. r \in Txs /\ UNCHANGED <<today, booking, invoice, advisory, rows>>
  BY DEF Ask, Txs
<1>5. RequestsOK' /\ \A q \in Requests : request'[q].report = request[q].report
  <2> DEFINE blocked == Block(request[r].blocked, stale)
  <2>1. PICK B, R :
           request \in [Requests -> [todo : SUBSET TypedGroup, blocked : B, report : R]]
    BY DEF BillingInv, Typed, RequestsOK
  <2>2. request' \in [Requests -> [todo : SUBSET TypedGroup, blocked : B \cup {blocked},
                                  report : R]]
    BY <1>3, <1>8, <2>1
  <2> QED
    BY <1>3, <2>1, <2>2 DEF RequestsOK
<1>6. TxsOK' /\ (\A u \in Txs \ {r} : tx'[u] = tx[u]) /\ tx'[r].pc = "running"
  BY <1>3, <1>4 DEF BillingInv, Typed, TxsOK, TypedTx
<1>7. TxInv(r)' /\ LocksOK'
  BY <1>4, <1>6, RestingKeeps DEF BillingInv, Typed, LocksOK
<1> QED
  BY <1>4, <1>5, <1>6, <1>7, OneSteps

\* A transaction that ends, for a request or for good.
LEMMA EndKeeps ==
    ASSUME BillingInv, NEW t \in Txs, NEW pc \in {"running", "done"},
           tx' = [tx EXCEPT ![t] = [NoTx EXCEPT !.pc = pc]],
           Release(t) \/ UNCHANGED <<advisory, rows>>,
           UNCHANGED <<today, booking, invoice>>, RequestsOK',
           \A r \in Requests : request'[r].report = request[r].report
    PROVE  BillingInv'
<1>1. LocksOK' /\ \A u \in Txs \ {t}, b \in Bookings : 
                     (advisory[b] = u => advisory'[b] = u) /\ (u \in rows[b] => u \in rows'[b])
  BY ReleaseKeeps DEF BillingInv, Typed, LocksOK
<1>2. FirstToday <= today
  BY DEF BillingInv, Typed, BookingsOK
<1>3. [NoTx EXCEPT !.pc = pc] \in TypedTx
  BY NoTxTyped
<1>4. TxsOK' /\ (\A u \in Txs \ {t} : tx'[u] = tx[u]) /\ tx'[t].pc = pc /\ tx'[t].invoice = Free
  BY <1>2, <1>3 DEF BillingInv, Typed, TxsOK, NoTx
<1>5. TxInv(t)'
  BY <1>4, RestingKeeps
<1> QED
  BY <1>1, <1>4, <1>5, OneSteps

LEMMA FailKeeps ==
    ASSUME BillingInv, NEW r \in Requests, NEW g, Fail(r, g),
           Release(r) \/ UNCHANGED <<advisory, rows>>, UNCHANGED <<today, booking, invoice>>
    PROVE  BillingInv'
<1>1. RequestsOK' /\ \A q \in Requests : request'[q].report = request[q].report
  <2> DEFINE blocked == Block(request[r].blocked, {[booking |-> b, lo |-> g.lo] : b \in g.ids})
  <2>1. PICK B, R :
           request \in [Requests -> [todo : SUBSET TypedGroup, blocked : B, report : R]]
    BY DEF BillingInv, Typed, RequestsOK
  <2>2. request' \in [Requests -> [todo : SUBSET TypedGroup, blocked : B \cup {blocked},
                                  report : R]]
    BY <2>1 DEF Fail
  <2> QED
    BY <2>1, <2>2 DEF Fail, RequestsOK
<1> QED
  BY <1>1, EndKeeps DEF Fail, Txs

LEMMA BeginKeeps == ASSUME BillingInv, NEW r \in Requests, Begin(r) PROVE BillingInv'
<1>1. PICK g \in request[r].todo :
         tx' = [tx EXCEPT ![r] = [NoTx EXCEPT !.pc = "locking", !.ids = g.ids,
                                              !.lo = g.lo, !.hi = g.hi, !.day = today]]
  BY DEF Begin, FirstGroups
<1>2. g \in TypedGroup /\ r \in Txs /\ UNCHANGED <<today, booking, invoice, advisory, rows, request>>
  BY DEF Begin, BillingInv, Typed, RequestsOK, Txs
<1>6. [NoTx EXCEPT !.pc = "locking", !.ids = g.ids, !.lo = g.lo, !.hi = g.hi, !.day = today]
         \in TypedTx
  BY <1>2, NoTxTyped DEF BillingInv, Typed, BookingsOK, TypedTx, TypedGroup
<1>3. TxsOK' /\ (\A u \in Txs \ {r} : tx'[u] = tx[u]) /\ tx'[r].pc = "locking"
             /\ tx'[r].invoice = Free
  BY <1>1, <1>2, <1>6 DEF BillingInv, Typed, TxsOK, BookingsOK, NoTx
<1>4. TxInv(r)'
  BY <1>3, TxsAssumption DEF TxInv, BillerHolds, CancellerHolds, Decided, Checked, FoundStays,
     Inserts, Billers, Txs
<1>5. LocksOK' /\ RequestsOK'
  BY <1>2 DEF BillingInv, Typed, LocksOK, RequestsOK
<1> QED
  BY <1>2, <1>3, <1>4, <1>5, OneSteps

LEMMA TakeAdvisoryKeeps ==
    ASSUME BillingInv, NEW t \in Txs, TakeAdvisory(t)
    PROVE  BillingInv'
<1>1. PICK b : advisory[b] = Free /\ advisory' = [advisory EXCEPT ![b] = t]
  BY DEF TakeAdvisory
<1>2. UNCHANGED <<today, booking, invoice, rows, tx, request>> /\ tx[t].pc = "locking"
      /\ t \notin Cancellers
  BY DEF TakeAdvisory
<1>3. LocksOK' /\ TxsOK' /\ RequestsOK'
  BY <1>1, <1>2 DEF BillingInv, Typed, LocksOK, TxsOK, RequestsOK
<1>4. \A u \in Txs, a \in Bookings : advisory[a] = u => advisory'[a] = u
  BY <1>1, TxsAssumption DEF BillingInv, Typed, LocksOK
<1>5. TxInv(t)'
  BY <1>2, <1>4, OthersKeep DEF BillingInv
<1> QED
  BY <1>2, <1>3, <1>4, <1>5, OneSteps

\* The checks of create_recurring_invoice, under its locks.
LEMMA DecideKeeps == ASSUME BillingInv, NEW r \in Requests, Decide(r) PROVE BillingInv'
<1>1. r \in Txs /\ r \notin Savers /\ r \notin Cancellers
      /\ UNCHANGED <<today, booking, invoice, advisory, request>>
  BY TxsAssumption DEF Decide, Txs
<1>2. tx[r] \in TypedTx /\ Missing(r) = {} /\ tx[r].invoice = Free
  BY <1>1 DEF BillingInv, Typed, TxsOK, Decide, Locks, TxInv, BillerHolds, Billers
<1>3. /\ LocksOK'
      /\ \A u \in Txs, b \in Bookings :
            (advisory[b] = u => advisory'[b] = u) /\ (u \in rows[b] => u \in rows'[b])
      /\ \A b \in tx[r].ids : r \in rows'[b] /\ advisory'[b] = r
  <2>1. HoldRows(r, tx[r].ids) /\ tx[r].ids \subseteq Bookings
    BY <1>2 DEF Decide, TypedTx
  <2> QED
    BY <1>1, <1>2, <2>1, HoldRowsKeeps DEF BillingInv, Missing
<1>4. RequestsOK'
  BY <1>1 DEF BillingInv, Typed, RequestsOK
<1>5. CASE \E i \in InvoiceIds : Reuses(r, i) /\ tx' = [tx EXCEPT ![r].pc = "commit", ![r].invoice = i]
  <2>1. PICK i \in InvoiceIds : Reuses(r, i) /\ tx' = [tx EXCEPT ![r].pc = "commit", ![r].invoice = i]
    BY <1>5
  <2>2. TxsOK' /\ (\A u \in Txs \ {r} : tx'[u] = tx[u])
               /\ tx'[r] = [tx[r] EXCEPT !.pc = "commit", !.invoice = i]
    BY <1>1, <1>2, <2>1 DEF BillingInv, Typed, TxsOK, TypedTx
  <2>3. tx'[r].pc = "commit" /\ tx'[r].invoice = i /\ tx'[r].ids = tx[r].ids /\ tx'[r].lo = tx[r].lo
    BY <1>2, <2>2 DEF TypedTx
  <2>4. i # Free /\ invoice[i].state = "active" /\ tx[r].ids \subseteq invoice[i].ids
        /\ tx[r].lo = invoice[i].lo
    BY <2>1 DEF Reuses, Existing, Active, SamePeriod, InvoiceIds, Free
  <2>5. TxInv(r)'
    BY <1>1, <1>3, <2>3, <2>4 DEF TxInv, BillerHolds, CancellerHolds, Decided, Checked,
       FoundStays, Inserts
  <2> QED
    BY <1>1, <1>3, <1>4, <2>2, <2>5, OneSteps
<1>6. CASE Creates(r) /\ tx' = [tx EXCEPT ![r].pc = "commit"]
  <2>1. TxsOK' /\ (\A u \in Txs \ {r} : tx'[u] = tx[u])
               /\ tx'[r] = [tx[r] EXCEPT !.pc = "commit"]
    BY <1>1, <1>2, <1>6 DEF BillingInv, Typed, TxsOK, TypedTx
  <2>2. tx'[r].pc = "commit" /\ tx'[r].invoice = tx[r].invoice /\ tx'[r].ids = tx[r].ids
        /\ tx'[r].lo = tx[r].lo /\ tx'[r].hi = tx[r].hi /\ tx'[r].day = tx[r].day
    BY <1>2, <2>1 DEF TypedTx
  <2>3. \A b \in tx[r].ids : Overlapping(b, tx[r]) = {} /\ ~LeavesGap(b, tx[r])
    BY <1>6 DEF Decide, Creates, PartlyCovered, Existing, Overlapping
  <2>4. \A b \in tx[r].ids : Overlapping(b, tx[r])' = {} /\ ~LeavesGap(b, tx[r])'
    BY <1>1, <2>2, <2>3 DEF Overlapping, LeavesGap, Active, Covered, Span
  <2>5. Decided(r)'
    BY <2>2, <2>4 DEF Decided
  <2>6. FoundStays(r)'
    BY <1>2, <2>2 DEF FoundStays
  <2>7. TxInv(r)'
    BY <1>1, <1>3, <2>2, <2>5, <2>6 DEF TxInv, BillerHolds, CancellerHolds, Checked
  <2> QED
    BY <1>1, <1>3, <1>4, <2>1, <2>7, OneSteps
<1> QED
  BY <1>5, <1>6 DEF Decide

-----------------------------------------------------------------------------
(* An invoice is inserted.                                                 *)

\* What the insert changes of the coverage of a booking.
LEMMA InsertCovers ==
    ASSUME InvoicesOK, NEW t \in Txs, tx[t] \in TypedTx, NEW i \in InvoiceIds,
           NextRow(i), Insert(t, i)
    PROVE  /\ InvoicesOK'
           /\ invoice[i].state = "none"
           /\ invoice'[i] = [state |-> "active", ids |-> tx[t].ids, lo |-> tx[t].lo,
                             hi |-> tx[t].hi]
           /\ \A j \in InvoiceIds : j # i => invoice'[j] = invoice[j]
           /\ \A b \in Bookings : /\ i \notin Active(b)
                                  /\ b \notin tx[t].ids => Active(b)' = Active(b)
                                  /\ Active(b) \subseteq Active(b)'
                                  /\ Active(b)' \subseteq Active(b) \cup {i}
                                  /\ Covered(b) \subseteq Covered(b)'
<1>1. invoice[i].state = "none"
  BY DEF NextRow, Unused
<1>2. /\ invoice'[i] = [state |-> "active", ids |-> tx[t].ids, lo |-> tx[t].lo, hi |-> tx[t].hi]
      /\ \A j \in InvoiceIds : j # i => invoice'[j] = invoice[j]
  BY DEF Insert, InvoicesOK
<1>3. InvoicesOK'
  BY DEF Insert, InvoicesOK, TypedInvoice, TypedTx
<1>4. ASSUME NEW b \in Bookings
      PROVE  /\ i \notin Active(b)
             /\ b \notin tx[t].ids => Active(b)' = Active(b)
             /\ Active(b) \subseteq Active(b)'
             /\ Active(b)' \subseteq Active(b) \cup {i}
  BY <1>1, <1>2 DEF Active
<1>5. ASSUME NEW b \in Bookings PROVE Covered(b) \subseteq Covered(b)'
  <2>1. \A j \in Active(b) : j \in Active(b)' /\ Span(invoice'[j]) = Span(invoice[j])
    BY <1>2, <1>4 DEF Active
  <2> QED
    BY <2>1 DEF Covered
<1> QED
  BY <1>1, <1>2, <1>3, <1>4, <1>5

\* Nobody else is disturbed: each holds the locks of its bookings.
LEMMA InsertSpares ==
    ASSUME BillingInv, NEW t \in Txs, Inserts(t), NEW i \in InvoiceIds, NextRow(i), Insert(t, i),
           NEW u \in Txs \ {t}, UNCHANGED booking, tx'[u] = tx[u],
           \A b \in Bookings : (advisory[b] = u => advisory'[b] = u)
                               /\ (u \in rows[b] => u \in rows'[b])
    PROVE  TxInv(u)'
<1>1. InvoicesOK /\ tx[t] \in TypedTx /\ tx[u] \in TypedTx /\ TxInv(t) /\ TxInv(u)
  BY DEF BillingInv, Typed, TxsOK
<1>2. /\ invoice[i].state = "none"
      /\ \A j \in InvoiceIds : j # i => invoice'[j] = invoice[j]
      /\ \A b \in Bookings : /\ b \notin tx[t].ids => Active(b)' = Active(b)
                             /\ Covered(b) \subseteq Covered(b)'
                             /\ i \notin Active(b)
  BY <1>1, InsertCovers
<1>3. \A b \in Bookings : b \in tx[t].ids => advisory[b] = t
  BY <1>1 DEF TxInv, BillerHolds, Inserts
<1>4. BillerHolds(u)'
  BY <1>1 DEF TxInv, BillerHolds, TypedTx
<1>5. CancellerHolds(u)'
  <2>1. \A b \in Bookings : Recurring(b)' = Recurring(b)
    BY DEF Recurring
  <2> QED
    BY <1>1, <1>2, <2>1 DEF TxInv, CancellerHolds, TypedTx
<1>6. FoundStays(u)'
  BY <1>1, <1>2 DEF TxInv, FoundStays, TypedTx
<1>7. ASSUME NEW b \in Bookings, advisory[b] = u
      PROVE  /\ Overlapping(b, tx[u]) = {} => Overlapping(b, tx[u])' = {}
             /\ ~LeavesGap(b, tx[u]) => ~LeavesGap(b, tx[u])'
             /\ Recurring(b)' = Recurring(b)
  <2>1. Active(b)' = Active(b) /\ i \notin Active(b)
    BY <1>2, <1>3, <1>7
  <2>2. \A j \in Active(b) : j \in InvoiceIds /\ j # i /\ invoice'[j] = invoice[j]
    BY <1>2, <2>1 DEF Active
  <2>3. Overlapping(b, tx[u]) = {} => Overlapping(b, tx[u])' = {}
    BY <2>1, <2>2 DEF Overlapping, Span
  <2>4. ~LeavesGap(b, tx[u]) => ~LeavesGap(b, tx[u])'
    BY <1>2 DEF LeavesGap
  <2> QED
    BY <2>3, <2>4 DEF Recurring
<1>8. Decided(u)'
  BY <1>1, <1>7 DEF TxInv, Decided, BillerHolds, Inserts, TypedTx
<1>9. Checked(u)'
  BY <1>1, <1>7 DEF TxInv, Checked, BillerHolds, Billers, TypedTx
<1> QED
  BY <1>4, <1>5, <1>6, <1>8, <1>9 DEF TxInv

\* The days of the new invoice were free.
LEMMA InsertBillsOnce ==
    ASSUME BillingInv, NEW t \in Txs, Inserts(t), NEW i \in InvoiceIds, NextRow(i), Insert(t, i)
    PROVE  InvoicesOK' /\ BilledOnce'
<1>1. InvoicesOK /\ tx[t] \in TypedTx /\ Decided(t) /\ BilledOnce
  BY DEF BillingInv, Typed, TxsOK, TxInv
<1>2. /\ InvoicesOK'
      /\ invoice'[i].lo = tx[t].lo /\ invoice'[i].hi = tx[t].hi
      /\ \A j \in InvoiceIds : j # i => invoice'[j] = invoice[j]
      /\ \A b \in Bookings : /\ b \notin tx[t].ids => Active(b)' = Active(b)
                             /\ i \notin Active(b)
                             /\ Active(b)' \subseteq Active(b) \cup {i}
  <2>1. invoice'[i] = [state |-> "active", ids |-> tx[t].ids, lo |-> tx[t].lo, hi |-> tx[t].hi]
    BY <1>1, InsertCovers
  <2> QED
    BY <1>1, <2>1, InsertCovers
<1>3. ASSUME NEW b \in Bookings, NEW j \in Active(b)', j # i
      PROVE  j \in Active(b) /\ j \in InvoiceIds /\ Span(invoice'[j]) = Span(invoice[j])
  BY <1>2, <1>3 DEF Active
<1>4. ASSUME NEW b \in Bookings, i \in Active(b)', NEW j \in Active(b)', j # i
      PROVE  Span(invoice'[i]) \cap Span(invoice'[j]) = {}
  <2>1. b \in tx[t].ids
    BY <1>2, <1>4
  <2>2. Overlapping(b, tx[t]) = {}
    BY <1>1, <2>1 DEF Decided
  <2>3. Span(invoice'[i]) = Span(tx[t])
    BY <1>2 DEF Span
  <2> QED
    BY <1>3, <1>4, <2>2, <2>3 DEF Overlapping
<1>5. ASSUME NEW b \in Bookings, NEW j \in Active(b)', NEW k \in Active(b)', j # k
      PROVE  Span(invoice'[j]) \cap Span(invoice'[k]) = {}
  <2>1. CASE j = i
    BY <1>4, <1>5, <2>1
  <2>2. CASE k = i
    BY <1>4, <1>5, <2>2
  <2>3. CASE j # i /\ k # i
    BY <1>1, <1>3, <1>5, <2>3 DEF BilledOnce
  <2> QED
    BY <2>1, <2>2, <2>3
<1> QED
  BY <1>2, <1>5 DEF BilledOnce

-----------------------------------------------------------------------------
(* Commits.                                                                *)

\* A step of one transaction that inserts, or that only ends.
LEMMA CommitKeeps == ASSUME BillingInv, NEW r \in Requests, Commit(r) PROVE BillingInv'
<1>1. PICK i \in InvoiceIds :
         /\ \/ i = tx[r].invoice /\ UNCHANGED invoice
            \/ tx[r].invoice = Free /\ NextRow(i) /\ Insert(r, i)
         /\ request' = [request EXCEPT ![r].todo = @ \ {GroupOf(r)},
               ![r].report = @ \cup {[invoice |-> i, ids |-> tx[r].ids, lo |-> tx[r].lo]}]
  BY DEF Commit
<1>2. /\ r \in Txs /\ tx[r] \in TypedTx /\ tx[r].pc = "commit" /\ TxInv(r) /\ Typed
      /\ Release(r) /\ UNCHANGED <<today, booking>>
      /\ tx' = [tx EXCEPT ![r] = [NoTx EXCEPT !.pc = "running"]]
  BY DEF Commit, BillingInv, Typed, TxsOK, Txs
<1>3. LocksOK' /\ \A u \in Txs \ {r}, b \in Bookings :
                     (advisory[b] = u => advisory'[b] = u) /\ (u \in rows[b] => u \in rows'[b])
  BY <1>2, ReleaseKeeps
<1>4. [NoTx EXCEPT !.pc = "running"] \in TypedTx
  BY NoTxTyped
<1>5. TxsOK' /\ (\A u \in Txs \ {r} : tx'[u] = tx[u]) /\ tx'[r].pc = "running"
  BY <1>2, <1>4 DEF Typed, TxsOK, BookingsOK, NoTx
<1>6. TxInv(r)'
  BY <1>2, <1>5, RestingKeeps
<1>7. /\ RequestsOK'
      /\ request'[r].report = request[r].report
                                  \cup {[invoice |-> i, ids |-> tx[r].ids, lo |-> tx[r].lo]}
      /\ \A q \in Requests \ {r} : request'[q].report = request[q].report
  <2> DEFINE report == request[r].report
                          \cup {[invoice |-> i, ids |-> tx[r].ids, lo |-> tx[r].lo]}
  <2>1. PICK B, R :
           request \in [Requests -> [todo : SUBSET TypedGroup, blocked : B, report : R]]
    BY <1>2 DEF Typed, RequestsOK
  <2>2. request' \in [Requests -> [todo : SUBSET TypedGroup, blocked : B,
                                  report : R \cup {report}]]
    BY <1>1, <2>1
  <2> QED
    BY <1>1, <2>1, <2>2 DEF RequestsOK
<1>8. CASE i = tx[r].invoice /\ UNCHANGED invoice
  <2>1. i # Free /\ InvoicesOK' /\ BookingsOK'
    BY <1>2, <1>8 DEF InvoiceIds, Free, Typed, InvoicesOK, BookingsOK
  <2>2. invoice[i].state # "none" /\ tx[r].ids \subseteq invoice[i].ids /\ tx[r].lo = invoice[i].lo
    BY <1>2, <1>8, <2>1 DEF TxInv, FoundStays
  <2>3. ASSUME NEW u \in Txs \ {r} PROVE TxInv(u)'
    <3>1. /\ TxInv(u) /\ UNCHANGED <<booking, invoice>> /\ tx'[u] = tx[u]
          /\ \A b \in Bookings : (advisory[b] = u => advisory'[b] = u)
                                 /\ (u \in rows[b] => u \in rows'[b])
      BY <1>2, <1>3, <1>5, <1>8 DEF BillingInv
    <3> QED
      BY <1>2, <3>1, OthersKeep
  <2>4. Reported'
    BY <1>7, <1>8, <2>2 DEF BillingInv, Reported
  <2>5. BilledOnce'
    BY <1>8 DEF BillingInv, BilledOnce, Active, Span
  <2> QED
    BY <1>3, <1>5, <1>6, <1>7, <2>1, <2>3, <2>4, <2>5 DEF BillingInv, Typed
<1>9. CASE tx[r].invoice = Free /\ NextRow(i) /\ Insert(r, i)
  <2>1. Inserts(r)
    BY <1>2, <1>9 DEF Inserts, Billers
  <2>2. InvoicesOK' /\ BilledOnce' /\ BookingsOK'
    BY <1>2, <1>9, <2>1, InsertBillsOnce DEF Typed, BookingsOK
  <2>3. ASSUME NEW u \in Txs \ {r} PROVE TxInv(u)'
    <3>1. tx'[u] = tx[u] /\ \A b \in Bookings : (advisory[b] = u => advisory'[b] = u)
                                                /\ (u \in rows[b] => u \in rows'[b])
      BY <1>3, <1>5
    <3> QED
      BY <1>2, <1>9, <2>1, <3>1, InsertSpares
  <2>4. /\ invoice[i].state = "none"
        /\ invoice'[i] = [state |-> "active", ids |-> tx[r].ids, lo |-> tx[r].lo, hi |-> tx[r].hi]
        /\ \A j \in InvoiceIds : j # i => invoice'[j] = invoice[j]
    BY <1>2, <1>9, InsertCovers DEF Typed
  <2>5. Reported'
    BY <1>7, <2>4 DEF BillingInv, Reported
  <2> QED
    BY <1>3, <1>5, <1>6, <1>7, <2>2, <2>3, <2>5 DEF BillingInv, Typed
<1> QED
  BY <1>1, <1>8, <1>9

LEMMA CommitSaveKeeps == ASSUME BillingInv, NEW t \in Savers, CommitSave(t) PROVE BillingInv'
<1>1. PICK i \in InvoiceIds : NextRow(i) /\ Insert(t, i)
  BY DEF CommitSave
<1>2. /\ t \in Txs /\ tx[t] \in TypedTx /\ tx[t].pc = "commit" /\ TxInv(t) /\ Typed
      /\ Release(t) /\ UNCHANGED <<today, booking, request>>
      /\ tx' = [tx EXCEPT ![t] = [NoTx EXCEPT !.pc = "done"]]
  BY DEF CommitSave, Ended, BillingInv, Typed, TxsOK, Txs
<1>3. LocksOK' /\ \A u \in Txs \ {t}, b \in Bookings :
                     (advisory[b] = u => advisory'[b] = u) /\ (u \in rows[b] => u \in rows'[b])
  BY <1>2, ReleaseKeeps
<1>4. [NoTx EXCEPT !.pc = "done"] \in TypedTx
  BY NoTxTyped
<1>5. TxsOK' /\ (\A u \in Txs \ {t} : tx'[u] = tx[u]) /\ tx'[t].pc = "done" /\ tx'[t].invoice = Free
  BY <1>2, <1>4 DEF Typed, TxsOK, BookingsOK, NoTx
<1>6. TxInv(t)'
  BY <1>2, <1>5, RestingKeeps
<1>7. Inserts(t)
  BY <1>2 DEF Inserts, Billers, TxInv, BillerHolds
<1>8. InvoicesOK' /\ BilledOnce' /\ BookingsOK' /\ RequestsOK'
  BY <1>1, <1>2, <1>7, InsertBillsOnce DEF Typed, BookingsOK, RequestsOK
<1>9. ASSUME NEW u \in Txs \ {t} PROVE TxInv(u)'
  <2>1. tx'[u] = tx[u] /\ \A b \in Bookings : (advisory[b] = u => advisory'[b] = u)
                                              /\ (u \in rows[b] => u \in rows'[b])
    BY <1>3, <1>5
  <2> QED
    BY <1>1, <1>2, <1>7, <2>1, InsertSpares
<1>10. invoice[i].state = "none" /\ \A j \in InvoiceIds : j # i => invoice'[j] = invoice[j]
  BY <1>1, <1>2, InsertCovers DEF Typed
<1>11. Reported'
  BY <1>2, <1>10 DEF BillingInv, Reported
<1> QED
  BY <1>3, <1>5, <1>6, <1>8, <1>9, <1>11 DEF BillingInv, Typed

\* A cancellation takes away coverage, but not from under a transaction that
\* decided on it: it would hold the same advisory lock.
LEMMA CommitCancelKeeps ==
    ASSUME BillingInv, NEW t \in Cancellers, CommitCancel(t)
    PROVE  BillingInv'
<1> DEFINE c == tx[t].invoice
<1>2. /\ t \in Txs /\ tx[t] \in TypedTx /\ tx[t].pc = "commit" /\ TxInv(t) /\ Typed
      /\ Release(t) /\ UNCHANGED <<today, booking, request>>
      /\ tx' = [tx EXCEPT ![t] = [NoTx EXCEPT !.pc = "done"]]
      /\ invoice' = [invoice EXCEPT ![c].state = "cancelled"]
  BY DEF CommitCancel, Ended, BillingInv, Typed, TxsOK, Txs
<1>3. LocksOK' /\ \A u \in Txs \ {t}, b \in Bookings :
                     (advisory[b] = u => advisory'[b] = u) /\ (u \in rows[b] => u \in rows'[b])
  BY <1>2, ReleaseKeeps
<1>4. [NoTx EXCEPT !.pc = "done"] \in TypedTx
  BY NoTxTyped
<1>5. TxsOK' /\ (\A u \in Txs \ {t} : tx'[u] = tx[u]) /\ tx'[t].pc = "done" /\ tx'[t].invoice = Free
  BY <1>2, <1>4 DEF Typed, TxsOK, BookingsOK, NoTx
<1>6. TxInv(t)'
  BY <1>2, <1>5, RestingKeeps
<1>7. /\ c \in InvoiceIds /\ tx[t].ids = invoice[c].ids /\ invoice[c].state # "none"
      /\ \A b \in tx[t].ids : Recurring(b) => advisory[b] = t
  BY <1>2 DEF TxInv, CancellerHolds
<1>8. InvoicesOK' /\ BookingsOK' /\ RequestsOK'
  BY <1>2 DEF Typed, InvoicesOK, TypedInvoice, BookingsOK, RequestsOK
<1>9. \A j \in InvoiceIds : /\ invoice'[j].ids = invoice[j].ids
                            /\ invoice'[j].lo = invoice[j].lo /\ invoice'[j].hi = invoice[j].hi
                            /\ Span(invoice'[j]) = Span(invoice[j])
                            /\ invoice[j].state # "none" => invoice'[j].state # "none"
                            /\ invoice'[j].state = "active" => invoice[j].state = "active"
                            /\ j # c => invoice'[j] = invoice[j]
  BY <1>2 DEF Typed, InvoicesOK, TypedInvoice, Span
<1>10. \A b \in Bookings : Active(b)' \subseteq Active(b)
  BY <1>9 DEF Active
<1>11. ASSUME NEW u \in Txs \ {t} PROVE TxInv(u)'
  <2>1. /\ tx'[u] = tx[u] /\ TxInv(u) /\ tx[u] \in TypedTx
        /\ \A b \in Bookings : (advisory[b] = u => advisory'[b] = u)
                               /\ (u \in rows[b] => u \in rows'[b])
    BY <1>2, <1>3, <1>5 DEF BillingInv, Typed, TxsOK
  <2>2. BillerHolds(u)'
    BY <2>1 DEF TxInv, BillerHolds, TypedTx
  <2>3. \A b \in Bookings : Recurring(b)' = Recurring(b)
    BY <1>2 DEF Recurring
  <2>4. CancellerHolds(u)' /\ FoundStays(u)'
    BY <1>9, <2>1, <2>3 DEF TxInv, CancellerHolds, FoundStays, TypedTx
  <2>5. ASSUME NEW b \in Bookings, Overlapping(b, tx[u]) = {} PROVE Overlapping(b, tx[u])' = {}
    BY <1>9, <1>10, <2>1, <2>5 DEF Overlapping, Active, Span
  <2>6. ASSUME NEW b \in Bookings, Recurring(b), advisory[b] = u, ~LeavesGap(b, tx[u])
        PROVE  ~LeavesGap(b, tx[u])'
    <3>1. b \notin invoice[c].ids
      BY <1>7, <2>6
    <3>2. Active(b)' = Active(b) /\ \A j \in Active(b) : invoice'[j] = invoice[j]
      BY <1>9, <3>1 DEF Active
    <3>3. Covered(b)' = Covered(b)
      BY <3>2 DEF Covered
    <3> QED
      BY <1>2, <2>1, <2>6, <3>3 DEF LeavesGap
  <2>7. Decided(u)'
    BY <2>1, <2>3, <2>5, <2>6 DEF TxInv, Decided, Inserts, BillerHolds, TypedTx
  <2>8. Checked(u)'
    BY <2>1, <2>3, <2>5 DEF TxInv, Checked, TypedTx
  <2> QED
    BY <2>2, <2>4, <2>7, <2>8 DEF TxInv
<1>12. Reported'
  BY <1>2, <1>9 DEF BillingInv, Reported
<1>13. BilledOnce'
  BY <1>9, <1>10 DEF BillingInv, BilledOnce, Active
<1> QED
  BY <1>3, <1>5, <1>6, <1>8, <1>11, <1>12, <1>13 DEF BillingInv, Typed

-----------------------------------------------------------------------------
(* Users who save and cancel.                                              *)

LEMMA BeginSaveKeeps == ASSUME BillingInv, NEW t \in Savers, BeginSave(t) PROVE BillingInv'
<1>1. PICK S \in (SUBSET Bookings) \ {{}}, p \in ManualPeriods, b \in Bookings :
         tx' = [tx EXCEPT ![t] = [NoTx EXCEPT !.pc = "locking", !.ids = S, !.primary = b,
                                              !.lo = p.lo, !.hi = p.hi, !.day = today]]
  <2>1. PICK S \in (SUBSET Bookings) \ {{}}, p \in ManualPeriods : \E b \in S :
           tx' = [tx EXCEPT ![t] = [NoTx EXCEPT !.pc = "locking", !.ids = S, !.primary = b,
                                                !.lo = p.lo, !.hi = p.hi, !.day = today]]
    BY DEF BeginSave
  <2> QED
    BY <2>1
<1>2. t \in Txs /\ UNCHANGED <<today, booking, invoice, advisory, rows, request>>
  BY DEF BeginSave, Txs
<1>3. p.lo \in Int /\ p.hi \in Int
  BY CalendarAssumption DEF Days
<1>4. [NoTx EXCEPT !.pc = "locking", !.ids = S, !.primary = b, !.lo = p.lo, !.hi = p.hi,
                   !.day = today] \in TypedTx
  BY <1>1, <1>3, NoTxTyped DEF BillingInv, Typed, BookingsOK, TypedTx
<1>5. TxsOK' /\ (\A u \in Txs \ {t} : tx'[u] = tx[u]) /\ tx'[t].pc = "locking"
             /\ tx'[t].invoice = Free
  BY <1>1, <1>2, <1>4 DEF BillingInv, Typed, TxsOK, BookingsOK, NoTx
<1>6. TxInv(t)'
  BY <1>5, TxsAssumption DEF TxInv, BillerHolds, CancellerHolds, Decided, Checked, FoundStays,
     Inserts, Billers, Txs
<1>7. LocksOK' /\ RequestsOK'
  BY <1>2 DEF BillingInv, Typed, LocksOK, RequestsOK
<1> QED
  BY <1>2, <1>5, <1>6, <1>7, OneSteps

LEMMA AbortKeeps == ASSUME BillingInv, NEW t \in Txs, Abort(t) PROVE BillingInv'
<1>1. RequestsOK' /\ \A r \in Requests : request'[r].report = request[r].report
  BY DEF Abort, BillingInv, Typed, RequestsOK
<1> QED
  BY <1>1, EndKeeps DEF Abort, Ended

LEMMA CheckSaveKeeps == ASSUME BillingInv, NEW t \in Savers, CheckSave(t) PROVE BillingInv'
<1>1. t \in Txs /\ tx[t] \in TypedTx /\ TxInv(t) /\ t \notin Requests /\ t \notin Cancellers
  BY TxsAssumption DEF BillingInv, Typed, TxsOK, Txs
<1>2. CASE Abort(t)
  BY <1>1, <1>2, AbortKeeps
<1>3. CASE /\ Guarded(tx[t].primary, tx[t]) /\ SyncAccepts(t) /\ HoldRows(t, {tx[t].primary})
           /\ tx' = [tx EXCEPT ![t].pc = "checked"]
           /\ UNCHANGED <<today, booking, invoice, advisory, request>>
  <2>1. /\ LocksOK'
        /\ \A u \in Txs, b \in Bookings :
              (advisory[b] = u => advisory'[b] = u) /\ (u \in rows[b] => u \in rows'[b])
    BY <1>1, <1>3, HoldRowsKeeps DEF BillingInv
  <2>2. RequestsOK'
    BY <1>3 DEF BillingInv, Typed, RequestsOK
  <2>3. TxsOK' /\ (\A u \in Txs \ {t} : tx'[u] = tx[u]) /\ tx'[t] = [tx[t] EXCEPT !.pc = "checked"]
    BY <1>1, <1>3 DEF BillingInv, Typed, TxsOK, TypedTx
  <2>4. tx'[t].pc = "checked" /\ tx'[t].invoice = tx[t].invoice /\ tx'[t].ids = tx[t].ids
        /\ tx'[t].lo = tx[t].lo /\ tx'[t].hi = tx[t].hi
    BY <1>1, <2>3 DEF TypedTx
  <2>5. \A b \in tx[t].ids : advisory'[b] = t
    BY <1>3 DEF CheckSave, Missing
  <2>6. ASSUME NEW b \in tx[t].ids PROVE Recurring(b)' \/ Overlapping(b, tx[t])' = {}
    <3>1. b \in Bookings /\ Duplicates(b, tx[t]) = {}
      BY <1>1, <1>3 DEF SyncAccepts, TypedTx
    <3>2. CASE booking[b].recurring
      BY <1>3, <3>1, <3>2 DEF BillingInv, Typed, BookingsOK, Recurring
    <3>3. CASE ~booking[b].recurring
      <4>1. Overlapping(b, tx[t]) = {}
        BY <3>1, <3>3 DEF Duplicates
      <4> QED
        BY <1>3, <2>4, <4>1 DEF Overlapping, Active, Span
    <3> QED
      BY <3>2, <3>3
  <2>7. TxInv(t)'
    BY <1>1, <2>4, <2>5, <2>6 DEF TxInv, BillerHolds, CancellerHolds, Decided, Checked,
       FoundStays, Inserts, Billers
  <2> QED
    BY <1>1, <1>3, <2>1, <2>2, <2>3, <2>7, OneSteps
<1> QED
  BY <1>2, <1>3 DEF CheckSave

LEMMA LinkBookingsKeeps ==
    ASSUME BillingInv, NEW t \in Savers, LinkBookings(t)
    PROVE  BillingInv'
<1>1. t \in Txs /\ tx[t] \in TypedTx /\ TxInv(t) /\ t \notin Requests /\ t \notin Cancellers
  BY TxsAssumption DEF BillingInv, Typed, TxsOK, Txs
<1>2. CASE Abort(t)
  BY <1>1, <1>2, AbortKeeps
<1>3. CASE /\ \A b \in tx[t].ids : Guarded(b, tx[t])
           /\ HoldRows(t, tx[t].ids)
           /\ tx' = [tx EXCEPT ![t].pc = "commit"]
           /\ UNCHANGED <<today, booking, invoice, advisory, request>>
  <2>1. tx[t].ids \subseteq Bookings
    BY <1>1 DEF TypedTx
  <2>2. /\ LocksOK'
        /\ \A u \in Txs, b \in Bookings :
              (advisory[b] = u => advisory'[b] = u) /\ (u \in rows[b] => u \in rows'[b])
        /\ \A b \in tx[t].ids : t \in rows'[b]
    BY <1>1, <1>3, <2>1, HoldRowsKeeps DEF BillingInv
  <2>3. RequestsOK'
    BY <1>3 DEF BillingInv, Typed, RequestsOK
  <2>4. TxsOK' /\ (\A u \in Txs \ {t} : tx'[u] = tx[u]) /\ tx'[t] = [tx[t] EXCEPT !.pc = "commit"]
    BY <1>1, <1>3 DEF BillingInv, Typed, TxsOK, TypedTx
  <2>5. tx'[t].pc = "commit" /\ tx'[t].invoice = tx[t].invoice /\ tx'[t].ids = tx[t].ids
        /\ tx'[t].lo = tx[t].lo /\ tx'[t].hi = tx[t].hi /\ tx'[t].day = tx[t].day
    BY <1>1, <2>4 DEF TypedTx
  <2>6. \A b \in tx[t].ids : advisory'[b] = t
    BY <1>1, <1>3, <2>1 DEF TxInv, BillerHolds, Billers, LinkBookings
  <2>7. \A b \in tx[t].ids : Overlapping(b, tx[t]) = {} /\ (Recurring(b) => ~LeavesGap(b, tx[t]))
    BY <1>1, <1>3 DEF Guarded, TxInv, Checked, LinkBookings
  <2>8. \A b \in tx[t].ids : /\ Overlapping(b, tx[t])' = {}
                             /\ Recurring(b)' => ~LeavesGap(b, tx[t])'
    BY <1>3, <2>5, <2>7 DEF Overlapping, LeavesGap, Recurring, Active, Covered, Span
  <2>9. TxInv(t)'
    BY <1>1, <2>2, <2>5, <2>6, <2>8 DEF TxInv, BillerHolds, CancellerHolds, Decided, Checked,
       FoundStays, Inserts, Billers
  <2> QED
    BY <1>1, <1>3, <2>2, <2>3, <2>4, <2>9, OneSteps
<1> QED
  BY <1>2, <1>3 DEF LinkBookings

LEMMA BeginCancelKeeps ==
    ASSUME BillingInv, NEW t \in Cancellers, BeginCancel(t)
    PROVE  BillingInv'
<1>1. PICK i \in InvoiceIds :
         /\ invoice[i].state = "active" /\ HoldRows(t, invoice[i].ids)
         /\ tx' = [tx EXCEPT ![t] = [NoTx EXCEPT !.pc = "locking", !.ids = invoice[i].ids,
                                                 !.invoice = i]]
  BY DEF BeginCancel
<1>2. /\ t \in Txs /\ t \notin Requests /\ t \notin Savers
      /\ UNCHANGED <<today, booking, invoice, advisory, request>>
      /\ invoice[i].ids \subseteq Bookings
  BY TxsAssumption DEF BeginCancel, Txs, BillingInv, Typed, InvoicesOK, TypedInvoice
<1>3. /\ LocksOK'
      /\ \A u \in Txs, b \in Bookings :
            (advisory[b] = u => advisory'[b] = u) /\ (u \in rows[b] => u \in rows'[b])
      /\ \A b \in invoice[i].ids : t \in rows'[b]
  BY <1>1, <1>2, HoldRowsKeeps DEF BillingInv
<1>4. [NoTx EXCEPT !.pc = "locking", !.ids = invoice[i].ids, !.invoice = i] \in TypedTx
  BY <1>2, NoTxTyped DEF TypedTx
<1>5. TxsOK' /\ (\A u \in Txs \ {t} : tx'[u] = tx[u]) /\ tx'[t].pc = "locking"
             /\ tx'[t].invoice = i /\ tx'[t].ids = invoice[i].ids
  BY <1>1, <1>2, <1>4 DEF BillingInv, Typed, TxsOK, BookingsOK, NoTx
<1>6. TxInv(t)'
  BY <1>1, <1>2, <1>3, <1>5 DEF TxInv, BillerHolds, CancellerHolds, Decided, Checked,
     FoundStays, Inserts, Billers
<1>7. RequestsOK'
  BY <1>2 DEF BillingInv, Typed, RequestsOK
<1> QED
  BY <1>2, <1>3, <1>5, <1>6, <1>7, OneSteps

LEMMA LockCoverageKeeps ==
    ASSUME BillingInv, NEW t \in Cancellers, LockCoverage(t)
    PROVE  BillingInv'
<1>1. t \in Txs /\ tx[t] \in TypedTx /\ TxInv(t) /\ t \notin Requests /\ t \notin Savers
  BY TxsAssumption DEF BillingInv, Typed, TxsOK, Txs
<1>2. CASE Abort(t)
  BY <1>1, <1>2, AbortKeeps
<1>3. CASE /\ ~Contended(t)
           /\ advisory' = [b \in Bookings |-> IF b \in ToLock(t) THEN t ELSE advisory[b]]
           /\ tx' = [tx EXCEPT ![t].pc = "commit"]
           /\ UNCHANGED <<today, booking, invoice, rows, request>>
  <2>1. /\ LocksOK'
        /\ \A u \in Txs, b \in Bookings :
              (advisory[b] = u => advisory'[b] = u) /\ (u \in rows[b] => u \in rows'[b])
        /\ \A b \in ToLock(t) : advisory'[b] = t
    BY <1>1, <1>3, TxsAssumption
       DEF BillingInv, Typed, LocksOK, Contended, ToLock, TypedTx
  <2>2. TxsOK' /\ (\A u \in Txs \ {t} : tx'[u] = tx[u]) /\ tx'[t] = [tx[t] EXCEPT !.pc = "commit"]
    BY <1>1, <1>3 DEF BillingInv, Typed, TxsOK, TypedTx
  <2>3. tx'[t].pc = "commit" /\ tx'[t].invoice = tx[t].invoice /\ tx'[t].ids = tx[t].ids
    BY <1>1, <2>2 DEF TypedTx
  <2>4. RequestsOK'
    BY <1>3 DEF BillingInv, Typed, RequestsOK
  <2>5. \A b \in tx[t].ids : Recurring(b)' => advisory'[b] = t
    BY <1>3, <2>1 DEF ToLock, Recurring
  <2>6. TxInv(t)'
    BY <1>1, <1>3, <2>3, <2>5 DEF TxInv, BillerHolds, CancellerHolds, Decided, Checked,
       FoundStays, Inserts, Billers, LockCoverage
  <2> QED
    BY <1>1, <1>3, <2>1, <2>2, <2>4, <2>6, OneSteps
<1> QED
  BY <1>2, <1>3 DEF LockCoverage, TryLocks

-----------------------------------------------------------------------------
(* Changes of the bookings.                                                *)

\* Whoever is about to commit holds the row; a save between its two reads is
\* undisturbed as long as recurring billing is not switched there.
LEMMA BookingKeeps ==
    ASSUME BillingInv, ~RaceWindow, NEW b \in Bookings, BookingStep(b)
    PROVE  BillingInv'
<1>1. /\ rows[b] = {} /\ UNCHANGED <<today, invoice, advisory, rows, tx, request>>
      /\ \A a \in Bookings \ {b} : booking'[a] = booking[a]
  BY DEF BookingStep, ToggleRecurring, ExtendBooking, CancelBooking, Update, BillingInv, Typed,
     BookingsOK
<1>2. BookingsOK'
  <2>1. CASE ToggleRecurring(b)
    BY <2>1 DEF ToggleRecurring, Update, BillingInv, Typed, BookingsOK, TypedBooking
  <2>2. CASE ExtendBooking(b)
    <3>1. Extension[b] \in Int
      BY CalendarAssumption DEF Days
    <3> QED
      BY <2>2, <3>1 DEF ExtendBooking, Update, BillingInv, Typed, BookingsOK, TypedBooking
  <2>3. CASE CancelBooking(b)
    BY <2>3 DEF CancelBooking, Update, BillingInv, Typed, BookingsOK, TypedBooking
  <2> QED
    BY <2>1, <2>2, <2>3 DEF BookingStep
<1>3. Recurring(b)' = Recurring(b) \/ \A t \in Savers : b \in tx[t].ids => tx[t].pc # "checked"
  <2>1. CASE ToggleRecurring(b) \/ CancelBooking(b)
    BY <2>1 DEF ToggleRecurring, CancelBooking, Switchable
  <2>2. CASE ExtendBooking(b)
    BY <2>2 DEF ExtendBooking, Update, BillingInv, Typed, BookingsOK, TypedBooking, Recurring
  <2> QED
    BY <2>1, <2>2 DEF BookingStep
<1>4. Typed'
  BY <1>1, <1>2 DEF BillingInv, Typed, InvoicesOK, LocksOK, TxsOK, RequestsOK
<1>5. ASSUME NEW u \in Txs PROVE TxInv(u)'
  <2>1. TxInv(u) /\ tx[u].ids \subseteq Bookings
    BY DEF BillingInv, Typed, TxsOK, TypedTx
  <2>2. \A a \in Bookings : Overlapping(a, tx[u])' = Overlapping(a, tx[u])
    BY <1>1 DEF Overlapping, Active, Span
  <2>3. \A a \in Bookings \ {b} : /\ Recurring(a)' = Recurring(a)
                                  /\ LeavesGap(a, tx[u])' = LeavesGap(a, tx[u])
    BY <1>1 DEF Recurring, LeavesGap, Covered, Active, Span
  <2>4. BillerHolds(u)' /\ FoundStays(u)'
    BY <1>1, <2>1 DEF TxInv, BillerHolds, FoundStays
  <2>5. CancellerHolds(u)'
    BY <1>1, <2>1, <2>3 DEF TxInv, CancellerHolds
  <2>6. Decided(u)'
    <3>1. Inserts(u) => b \notin tx[u].ids
      BY <1>1, <2>1 DEF TxInv, BillerHolds, Inserts
    <3> QED
      BY <1>1, <2>1, <2>2, <2>3, <3>1 DEF TxInv, Decided, Inserts
  <2>7. Checked(u)'
    BY <1>1, <1>3, <2>1, <2>2, <2>3 DEF TxInv, Checked
  <2> QED
    BY <2>4, <2>5, <2>6, <2>7 DEF TxInv
<1>6. Reported' /\ BilledOnce'
  BY <1>1, ReportsKeep DEF BillingInv
<1> QED
  BY <1>4, <1>5, <1>6 DEF BillingInv

\* A day passes, or nothing does.
LEMMA DayKeeps ==
    ASSUME BillingInv, today' \in {today, today + 1},
           UNCHANGED <<booking, invoice, advisory, rows, tx, request>>
    PROVE  BillingInv'
<1>1. FirstToday \in Int
  BY CalendarAssumption DEF Days
<1>2. Typed'
  <2>1. today' \in Int /\ today <= today' /\ FirstToday <= today'
    BY <1>1 DEF BillingInv, Typed, BookingsOK
  <2>2. \A t \in Txs : tx[t].day \in Int /\ tx[t].day <= today /\ today \in Int
    BY DEF BillingInv, Typed, BookingsOK, TxsOK, TypedTx
  <2>3. TxsOK'
    <3>1. \A t \in Txs : tx[t].day <= today'
      BY <2>1, <2>2
    <3> QED
      BY <3>1 DEF BillingInv, Typed, TxsOK
  <2>4. BookingsOK' /\ InvoicesOK' /\ LocksOK' /\ RequestsOK'
    BY <2>1 DEF BillingInv, Typed, BookingsOK, InvoicesOK, LocksOK, RequestsOK
  <2> QED
    BY <2>3, <2>4 DEF Typed
<1>3. ASSUME NEW u \in Txs PROVE TxInv(u)'
  BY OthersKeep DEF BillingInv
<1>4. Reported' /\ BilledOnce'
  BY ReportsKeep DEF BillingInv
<1> QED
  BY <1>2, <1>3, <1>4 DEF BillingInv

-----------------------------------------------------------------------------
(* The theorems.                                                           *)

LEMMA BillingInvInit == Init => BillingInv
<1> SUFFICES ASSUME Init PROVE BillingInv
  OBVIOUS
<1>1. FirstToday \in Int /\ \A b \in Bookings : Contract[b].first \in Int /\ Contract[b].last \in Int
  BY CalendarAssumption DEF Days
<1>2. BookingsOK /\ InvoicesOK /\ LocksOK
  BY <1>1 DEF Init, BookingsOK, TypedBooking, InvoicesOK, TypedInvoice, LocksOK
<1>3. TxsOK
  BY <1>1, NoTxTyped DEF Init, TxsOK, NoTx
<1>4. request \in [Requests -> [todo : SUBSET TypedGroup, blocked : {NothingBlocked},
                                report : {{}}]]
  BY DEF Init
<1>5. RequestsOK /\ Reported
  BY <1>4 DEF RequestsOK, Reported
<1>6. ASSUME NEW t \in Txs PROVE TxInv(t)
  BY DEF Init, NoTx, TxInv, BillerHolds, CancellerHolds, Decided, Checked, FoundStays, Inserts
<1>7. BilledOnce
  BY DEF Init, BilledOnce, Active
<1> QED
  BY <1>2, <1>3, <1>5, <1>6, <1>7 DEF BillingInv, Typed

LEMMA BillingInvStep == ASSUME BillingInv, ~RaceWindow, [Next]_vars PROVE BillingInv'
<1>1. ASSUME NEW r \in Requests, Ask(r) \/ EndRequest(r) \/ GroupStep(r) PROVE BillingInv'
  <2>1. r \in Txs
    BY DEF Txs
  <2>2. CASE EndRequest(r)
    <3>1. PICK B, R :
             request \in [Requests -> [todo : SUBSET TypedGroup, blocked : B, report : R]]
      BY DEF BillingInv, Typed, RequestsOK
    <3>2. request' \in [Requests -> [todo : SUBSET TypedGroup, blocked : B \cup {NothingBlocked},
                                     report : R]]
      BY <2>2, <3>1 DEF EndRequest
    <3>3. RequestsOK' /\ \A q \in Requests : request'[q].report = request[q].report
      BY <2>2, <3>1, <3>2 DEF EndRequest, RequestsOK
    <3> QED
      BY <2>1, <2>2, <3>3, EndKeeps DEF EndRequest
  <2>3. CASE SkipGroup(r)
    BY <2>3, FailKeeps DEF SkipGroup
  <2>4. CASE Refuse(r)
    BY <2>4, FailKeeps DEF Refuse
  <2> QED
    BY <1>1, <2>1, <2>2, <2>3, <2>4, AskKeeps, BeginKeeps, TakeAdvisoryKeeps, DecideKeeps,
       CommitKeeps DEF GroupStep
<1>2. ASSUME NEW t \in Savers, BeginSave(t) \/ SaveStep(t) PROVE BillingInv'
  BY <1>2, BeginSaveKeeps, TakeAdvisoryKeeps, CheckSaveKeeps, LinkBookingsKeeps, CommitSaveKeeps
     DEF SaveStep, Txs
<1>3. ASSUME NEW t \in Cancellers, BeginCancel(t) \/ CancelTxStep(t) PROVE BillingInv'
  BY <1>3, BeginCancelKeeps, LockCoverageKeeps, CommitCancelKeeps DEF CancelTxStep
<1>4. ASSUME NEW b \in Changing, BookingStep(b) PROVE BillingInv'
  BY <1>4, BookingKeeps, ChangingAssumption
<1>5. CASE NextDay \/ UNCHANGED vars
  BY <1>5, DayKeeps DEF NextDay, vars
<1> QED
  BY <1>1, <1>2, <1>3, <1>4, <1>5 DEF Next

\* The locks protect what was decided, and with it no day is billed twice.
THEOREM BillingInvariant == ~RaceWindow => (Spec => []BillingInv)
<1> SUFFICES ASSUME ~RaceWindow PROVE Spec => []BillingInv
  OBVIOUS
<1>1. BillingInv /\ [Next]_vars => BillingInv'
  BY BillingInvStep
<1> QED
  BY <1>1, BillingInvInit, PTL DEF Spec

\* No day of a booking is billed twice, whoever creates invoices and whatever
\* changes (create_recurring_invoice, save_invoice_with_bookings), unless
\* recurring billing is switched between the two reads of one save.
THEOREM DaysBilledOnce == ~RaceWindow => (Spec => []BilledOnce)
<1> SUFFICES ASSUME ~RaceWindow PROVE Spec => []BilledOnce
  OBVIOUS
<1>1. Spec => []BillingInv
  BY BillingInvariant
<1>2. BillingInv => BilledOnce
  BY DEF BillingInv
<1> QED
  BY <1>1, <1>2, PTL

\* What an operator is told is billed is billed (create_recurring_invoice).
THEOREM ReportsAreBilled == ~RaceWindow => (Spec => []ReportedIsBilled)
<1> SUFFICES ASSUME ~RaceWindow PROVE Spec => []ReportedIsBilled
  OBVIOUS
<1>1. Spec => []BillingInv
  BY BillingInvariant
<1>2. BillingInv => ReportedIsBilled
  BY DEF BillingInv, Reported, ReportedIsBilled
<1> QED
  BY <1>1, <1>2, PTL

\* An invoice appears only by the commit of a transaction that decided on it.
LEMMA OnlyCommitsInsert ==
    ASSUME BillingInv, [Next]_vars, NEW i \in InvoiceIds,
           invoice[i].state = "none", invoice'[i].state = "active"
    PROVE  \E t \in Txs : /\ Inserts(t)
                          /\ invoice'[i] = [state |-> "active", ids |-> tx[t].ids,
                                            lo |-> tx[t].lo, hi |-> tx[t].hi]
<1>1. invoice' # invoice
  OBVIOUS
<1>2. InvoicesOK /\ \A t \in Txs : TxInv(t) /\ tx[t] \in TypedTx
  BY DEF BillingInv, Typed, TxsOK
<1>3. ASSUME NEW t \in Txs, Inserts(t), NEW j \in InvoiceIds, NextRow(j), Insert(t, j)
      PROVE  invoice'[i] = [state |-> "active", ids |-> tx[t].ids, lo |-> tx[t].lo,
                            hi |-> tx[t].hi]
  <2>1. CASE i = j
    BY <1>2, <1>3, <2>1, InsertCovers
  <2>2. CASE i # j
    <3>1. invoice'[i] = invoice[i]
      BY <1>2, <1>3, <2>2, InsertCovers
    <3> QED
      BY <3>1
  <2> QED
    BY <2>1, <2>2
<1>4. ASSUME NEW r \in Requests, Commit(r)
      PROVE  \E j \in InvoiceIds : Inserts(r) /\ NextRow(j) /\ Insert(r, j)
  BY <1>1, <1>4 DEF Commit, Inserts, Billers
<1>5. ASSUME NEW t \in Savers, CommitSave(t)
      PROVE  \E j \in InvoiceIds : Inserts(t) /\ NextRow(j) /\ Insert(t, j)
  <2>1. t \in Txs
    BY DEF Txs
  <2> QED
    BY <1>2, <1>5, <2>1 DEF CommitSave, Inserts, Billers, TxInv, BillerHolds
<1>6. ASSUME NEW t \in Cancellers PROVE ~CommitCancel(t)
  BY <1>2 DEF CommitCancel, InvoicesOK, TypedInvoice
<1>7. (\E r \in Requests : Commit(r)) \/ (\E t \in Savers : CommitSave(t))
  <2>1. \A r \in Requests : Ask(r) \/ EndRequest(r) \/ Begin(r) \/ SkipGroup(r)
           \/ TakeAdvisory(r) \/ Decide(r) \/ Refuse(r) => invoice' = invoice
    BY DEF Ask, EndRequest, Begin, SkipGroup, TakeAdvisory, Decide, Refuse
  <2>2. \A t \in Savers : BeginSave(t) \/ TakeAdvisory(t) \/ CheckSave(t) \/ LinkBookings(t)
           => invoice' = invoice
    BY DEF BeginSave, TakeAdvisory, CheckSave, LinkBookings, Abort
  <2>3. \A t \in Cancellers : BeginCancel(t) \/ LockCoverage(t) => invoice' = invoice
    BY DEF BeginCancel, LockCoverage, TryLocks, Abort
  <2>4. \A b \in Changing : BookingStep(b) => invoice' = invoice
    BY DEF BookingStep, ToggleRecurring, ExtendBooking, CancelBooking, Update
  <2>5. NextDay \/ UNCHANGED vars => invoice' = invoice
    BY DEF NextDay, vars
  <2> QED
    BY <1>1, <1>6, <2>1, <2>2, <2>3, <2>4, <2>5 DEF Next, GroupStep, SaveStep, CancelTxStep
<1>8. Requests \subseteq Txs /\ Savers \subseteq Txs
  BY DEF Txs
<1> QED
  BY <1>3, <1>4, <1>5, <1>7, <1>8

\* A future period only follows what is covered at that moment
\* (create_recurring_invoice, lock_confirmed_recurring_coverage_change).
THEOREM FutureFollowsCoverage == ~RaceWindow => (Spec => FutureExtendsPrefix)
<1> SUFFICES ASSUME ~RaceWindow PROVE Spec => FutureExtendsPrefix
  OBVIOUS
<1>1. Spec => []BillingInv
  BY BillingInvariant
<1>2. ASSUME BillingInv, [Next]_vars, NEW i \in InvoiceIds, invoice[i].state = "none",
             invoice'[i].state = "active", invoice'[i].lo > today,
             NEW b \in invoice'[i].ids, Recurring(b)
      PROVE  booking[b].first..(invoice'[i].lo - 1) \subseteq Covered(b)
  <2>1. PICK t \in Txs : /\ Inserts(t)
                         /\ invoice'[i] = [state |-> "active", ids |-> tx[t].ids,
                                           lo |-> tx[t].lo, hi |-> tx[t].hi]
    BY <1>2, OnlyCommitsInsert
  <2>2. b \in tx[t].ids /\ invoice'[i].lo = tx[t].lo
    BY <1>2, <2>1
  <2>3. ~LeavesGap(b, tx[t])
    BY <1>2, <2>1, <2>2 DEF BillingInv, TxInv, Decided
  <2>4. tx[t].lo > tx[t].day
    BY <1>2, <2>2 DEF BillingInv, Typed, TxsOK, TypedTx, BookingsOK
  <2> QED
    BY <2>2, <2>3, <2>4 DEF LeavesGap
<1>3. BillingInv /\ [Next]_vars =>
         [\A i \in InvoiceIds :
            invoice[i].state = "none" /\ invoice'[i].state = "active" /\ invoice'[i].lo > today =>
               \A b \in invoice'[i].ids :
                  Recurring(b) => booking[b].first..(invoice'[i].lo - 1) \subseteq Covered(b)]_vars
  BY <1>2
<1> QED
  BY <1>1, <1>3, PTL DEF Spec, FutureExtendsPrefix

-----------------------------------------------------------------------------
(* The calendar.                                                           *)

\* A month lies where it is: no later than its days, and from the first on.
LEMMA MonthBounds ==
    ASSUME NEW d \in Int
    PROVE  /\ MonthOf(d) \in Int
           /\ FirstOfMonth(MonthOf(d)) <= d
           /\ d >= 1 => MonthOf(d) >= 1
<1> DEFINE q == (d - 1) \div MonthLength
           e == (d - 1) % MonthLength
<1>1. MonthLength \in Nat \ {0}
  BY CalendarAssumption
<1>2. q \in Int /\ d - 1 = MonthLength * q + e /\ e \in 0..(MonthLength - 1)
  BY <1>1
<1>3. q * MonthLength \in Int /\ q * MonthLength <= d - 1
  BY <1>1, <1>2
<1>4. d >= 1 => q >= 0
  BY <1>1, <1>2
<1> HIDE DEF q
<1>5. MonthOf(d) = q + 1
  BY DEF MonthOf, q
<1> QED
  BY <1>2, <1>3, <1>4, <1>5 DEF FirstOfMonth

LEMMA MonthsOrdered ==
    ASSUME NEW k \in Int, NEW m \in Int, k <= m
    PROVE  /\ FirstOfMonth(k) \in Int /\ FirstOfMonth(m) \in Int /\ LastOfMonth(m) \in Int
           /\ FirstOfMonth(k) <= FirstOfMonth(m)
           /\ m >= 1 => LastOfMonth(m) >= 1
<1>1. MonthLength \in Nat \ {0}
  BY CalendarAssumption
<1>2. (k - 1) * MonthLength <= (m - 1) * MonthLength
  BY <1>1
<1>3. m >= 1 => m * MonthLength >= 1
  BY <1>1
<1> QED
  BY <1>1, <1>2, <1>3 DEF FirstOfMonth, LastOfMonth

\* A canonical period of a booking lies within the calendar.
LEMMA CanonicalInDays ==
    ASSUME NEW b \in Bookings, booking[b].first \in Days, booking[b].last \in Days,
           NEW limit \in Int,
           NEW m \in MonthOf(booking[b].first)..MonthOf(Earlier(booking[b].last, limit))
    PROVE  Canonical(b, m) \in [booking : Bookings, lo : Days, hi : Days]
<1> DEFINE end == Earlier(booking[b].last, limit)
<1>1. /\ LastDay \in Int /\ booking[b].first \in Int /\ booking[b].last \in Int
      /\ 1 <= booking[b].first /\ booking[b].first <= LastDay
      /\ 1 <= booking[b].last /\ booking[b].last <= LastDay
  BY CalendarAssumption DEF Days
<1>2. end \in Int /\ end <= booking[b].last
  BY <1>1 DEF Earlier
<1>3. /\ MonthOf(end) \in Int /\ FirstOfMonth(MonthOf(end)) <= end
      /\ MonthOf(booking[b].first) \in Int /\ MonthOf(booking[b].first) >= 1
  <2> HIDE DEF end
  <2> QED
    BY <1>1, <1>2, MonthBounds
<1>4. m \in Int /\ m >= 1 /\ m <= MonthOf(end)
  BY <1>3
<1> HIDE DEF end
<1>5. /\ FirstOfMonth(m) \in Int /\ LastOfMonth(m) \in Int /\ LastOfMonth(m) >= 1
      /\ FirstOfMonth(MonthOf(end)) \in Int /\ FirstOfMonth(m) <= FirstOfMonth(MonthOf(end))
  BY <1>3, <1>4, MonthsOrdered
<1>6. FirstOfMonth(m) <= LastDay
  BY <1>1, <1>2, <1>3, <1>5
<1>7. Later(booking[b].first, FirstOfMonth(m)) \in Days
  BY <1>1, <1>5, <1>6 DEF Later, Days
<1>8. Earlier(booking[b].last, LastOfMonth(m)) \in Days
  BY <1>1, <1>5 DEF Earlier, Days
<1> QED
  BY <1>7, <1>8 DEF Canonical

\* The least of some numbers is one of them, and no greater than the others.
LEMMA LeastIs ==
    ASSUME NEW S, S \subseteq Nat, S # {}
    PROVE  Least(S) \in S /\ \A n \in S : Least(S) <= n
<1> DEFINE starts == {1..n : n \in S}
<1>1. starts \subseteq FiniteSubsetsOf(Nat) /\ starts # {}
  <2>1. \A n \in S : 1..n \in SUBSET Nat /\ IsFiniteSet(1..n)
    BY FS_Interval
  <2> QED
    BY <2>1 DEF FiniteSubsetsOf
<1>2. PICK U \in starts : \A V \in starts : ~(<<V, U>> \in StrictSubsetOrdering(Nat))
  <2> HIDE DEF starts
  <2> QED
    BY <1>1, FS_StrictSubsetOrderingWellFounded, WFMin
<1>3. PICK m \in S : U = 1..m
  BY <1>2
<1>4. ASSUME NEW n \in S, n < m PROVE FALSE
  <2>1. n \in Nat /\ m \in Nat
    OBVIOUS
  <2>2. 1..n \subseteq 1..m /\ m \in 1..m /\ m \notin 1..n
    BY <1>4, <2>1
  <2>3. <<1..n, 1..m>> \in StrictSubsetOrdering(Nat)
    <3>1. 1..n \subseteq Nat /\ 1..m \subseteq Nat
      BY <2>1
    <3> QED
      BY <2>2, <3>1 DEF StrictSubsetOrdering
  <2> QED
    BY <1>2, <1>3, <2>3
<1>5. \A n \in S : m <= n
  BY <1>4
<1> QED
  BY <1>3, <1>5 DEF Least

\* Finitely many numbers have a greatest one among them.
LEMMA GreatestIs ==
    ASSUME NEW S, S \subseteq Nat, IsFiniteSet(S), S # {}
    PROVE  \E m \in S : \A n \in S : n <= m
<1> DEFINE from(m) == {n \in S : m <= n}
           ends == {from(m) : m \in S}
<1>1. ends \subseteq FiniteSubsetsOf(Nat) /\ ends # {}
  <2>1. \A m \in S : from(m) \in SUBSET Nat /\ from(m) \subseteq S
    OBVIOUS
  <2>2. \A m \in S : IsFiniteSet(from(m))
    <3> HIDE DEF from
    <3> QED
      BY <2>1, FS_Subset
  <2> QED
    BY <2>1, <2>2 DEF FiniteSubsetsOf
<1>2. PICK U \in ends : \A V \in ends : ~(<<V, U>> \in StrictSubsetOrdering(Nat))
  <2> HIDE DEF ends
  <2> QED
    BY <1>1, FS_StrictSubsetOrderingWellFounded, WFMin
<1>3. PICK m \in S : U = from(m)
  BY <1>2
<1>4. ASSUME NEW n \in S, m < n PROVE FALSE
  <2>1. n \in Nat /\ m \in Nat
    OBVIOUS
  <2>2. from(n) \subseteq from(m) /\ m \in from(m) /\ m \notin from(n)
    <3>1. m <= m /\ ~(n <= m) /\ \A k \in S : n <= k => m <= k
      BY <1>4, <2>1
    <3> QED
      BY <3>1
  <2>3. <<from(n), from(m)>> \in StrictSubsetOrdering(Nat)
    <3>1. from(n) \subseteq Nat /\ from(m) \subseteq Nat
      OBVIOUS
    <3> QED
      BY <2>2, <3>1 DEF StrictSubsetOrdering
  <2> QED
    BY <1>2, <1>3, <2>3
<1>5. \A n \in S : n <= m
  BY <1>4
<1> QED
  BY <1>5

-----------------------------------------------------------------------------
(* The ranges of the rows, and who holds which lock.                       *)

DayTx == [pc : {"new", "running", "locking", "checked", "commit", "done"},
          ids : SUBSET Bookings, primary : Bookings \cup {Free}, lo : Days, hi : Days,
          day : Days, invoice : InvoiceIds \cup {Free}]

RowsInDays ==
    /\ today \in Days
    /\ booking \in [Bookings -> BookingRow] /\ invoice \in [InvoiceIds -> InvoiceRow]

TxsInDays == tx \in [Txs -> DayTx]

RequestsInDays ==
    \E R : request \in [Requests -> [todo : SUBSET Group, blocked : [Bookings -> 1..(LastDay + 1)],
                                     report : R]]

\* When a transaction may hold rows, and when advisory locks.
MayHoldRows(t) ==
    \/ tx[t].pc = "commit"
    \/ tx[t].pc = "checked" /\ t \in Savers
    \/ tx[t].pc = "locking" /\ t \in Cancellers

MayHoldAdvisory(t) ==
    tx[t].pc = "commit" \/ (tx[t].pc \in {"locking", "checked"} /\ t \in Billers)

\* A transaction holds locks of its own bookings alone, takes the advisory ones in
\* the order of the ids, and past its locks holds them.  A request works on a group of
\* its plan, a save by hand on bookings with its main one among them.
Held(t) ==
    /\ \A b \in Bookings : t \in rows[b] => b \in tx[t].ids /\ MayHoldRows(t)
    /\ \A b \in Bookings : advisory[b] = t => b \in tx[t].ids /\ MayHoldAdvisory(t)
    /\ tx[t].pc = "commit" \/ (tx[t].pc = "locking" /\ t \in Cancellers) =>
          \A b \in tx[t].ids : t \in rows[b]
    /\ tx[t].pc = "checked" => t \in Savers
    /\ tx[t].pc \in {"checked", "commit"} /\ t \in Billers => Missing(t) = {}
    /\ tx[t].pc = "locking" /\ t \in Billers =>
          \A b \in tx[t].ids, c \in Missing(t) : advisory[b] = t => b < c
    /\ tx[t].pc \in {"locking", "commit"} /\ t \in Requests =>
          \E g \in request[t].todo : g.ids = tx[t].ids /\ g.lo = tx[t].lo
    /\ tx[t].pc = "locking" /\ t \in Savers => tx[t].primary \in tx[t].ids

LockInv == RowsInDays /\ LocksOK /\ TxsInDays /\ RequestsInDays /\ \A t \in Txs : Held(t)

LEMMA LockInvIsTypeOK == LockInv => TypeOK
<1> SUFFICES ASSUME LockInv PROVE TypeOK
  OBVIOUS
<1>1. \A t \in Txs : tx[t] \in DayTx /\ Held(t)
  BY DEF LockInv, TxsInDays
<1>2. ASSUME NEW t \in Txs
      PROVE  /\ tx[t].pc \in {"new", "running", "locking", "checked", "commit", "done"}
             /\ tx[t].pc = "commit" => \A b \in tx[t].ids : t \in rows[b]
             /\ tx[t].pc = "checked" => Missing(t) = {}
  BY <1>1 DEF DayTx, Held, Billers
<1>3. ASSUME NEW r \in Requests
      PROVE  request[r].todo \subseteq Group /\ request[r].blocked \in [Bookings -> 1..(LastDay + 1)]
  BY DEF LockInv, RequestsInDays
<1> QED
  BY <1>2, <1>3 DEF TypeOK, LockInv, RowsInDays, LocksOK

-----------------------------------------------------------------------------
(* Frames of the locks.                                                    *)

\* A step of t takes nothing from the others and gives them nothing.
Untouched(t) ==
    \A u \in Txs \ {t}, b \in Bookings : /\ advisory'[b] = u <=> advisory[b] = u
                                         /\ u \in rows'[b] <=> u \in rows[b]

HoldsNothing(t) == \A b \in Bookings : advisory[b] # t /\ t \notin rows[b]

LEMMA OneMoves ==
    ASSUME LockInv, NEW t \in Txs, RowsInDays', LocksOK', TxsInDays', RequestsInDays',
           Held(t)', Untouched(t), \A u \in Txs \ {t} : tx'[u] = tx[u],
           \A r \in Requests \ {t} : request'[r] = request[r]
    PROVE  LockInv'
<1>1. ASSUME NEW u \in Txs, u # t PROVE Held(u)'
  <2>1. Held(u) /\ tx'[u] = tx[u] /\ tx[u].ids \subseteq Bookings
    BY <1>1 DEF LockInv, TxsInDays, DayTx
  <2>2. \A b \in Bookings : /\ advisory'[b] = u <=> advisory[b] = u
                            /\ u \in rows'[b] <=> u \in rows[b]
    BY <1>1 DEF Untouched
  <2>3. Missing(u)' = Missing(u)
    BY <2>1, <2>2 DEF Missing
  <2> QED
    BY <2>1, <2>2, <2>3 DEF Held, MayHoldRows, MayHoldAdvisory
<1> QED
  BY <1>1 DEF LockInv

LEMMA NothingHeld ==
    ASSUME NEW t \in Txs, tx'[t].pc \in {"new", "running", "done"}, HoldsNothing(t)'
    PROVE  Held(t)'
BY DEF HoldsNothing, Held

LEMMA RestsWithNothing ==
    ASSUME LockInv, NEW t \in Txs, tx[t].pc \in {"new", "running", "done"}
    PROVE  HoldsNothing(t)
BY DEF LockInv, Held, MayHoldRows, MayHoldAdvisory, HoldsNothing

LEMMA ReleasesAll ==
    ASSUME LockInv, NEW t \in Txs, Release(t)
    PROVE  LocksOK' /\ Untouched(t) /\ HoldsNothing(t)'
BY TxsAssumption DEF LockInv, LocksOK, Release, Untouched, HoldsNothing

LEMMA LocksSame ==
    ASSUME LockInv, NEW t \in Txs, UNCHANGED <<advisory, rows>>
    PROVE  LocksOK' /\ Untouched(t)
BY DEF LockInv, LocksOK, Untouched

LEMMA HeldRows ==
    ASSUME LockInv, NEW t \in Txs, NEW S \in SUBSET Bookings, HoldRows(t, S), UNCHANGED advisory
    PROVE  /\ LocksOK' /\ Untouched(t)
           /\ \A b \in Bookings : t \in rows'[b] <=> b \in S \/ t \in rows[b]
BY DEF LockInv, LocksOK, HoldRows, Untouched

LEMMA NoTxInDays ==
    NoTx \in DayTx /\ NoTx.pc = "new" /\ NoTx.ids = {} /\ NoTx.invoice = Free
BY CalendarAssumption DEF NoTx, DayTx, Days

LEMMA TxMoves ==
    ASSUME LockInv, NEW t \in Txs, NEW after \in DayTx, tx' = [tx EXCEPT ![t] = after]
    PROVE  TxsInDays' /\ tx'[t] = after /\ \A u \in Txs \ {t} : tx'[u] = tx[u]
BY DEF LockInv, TxsInDays

LEMMA RequestsSame == ASSUME LockInv, UNCHANGED request PROVE RequestsInDays'
BY DEF LockInv, RequestsInDays

\* A request gets a new plan, or loses a group.
LEMMA RequestMoves ==
    ASSUME LockInv, NEW r \in Requests, NEW todo \in SUBSET Group,
           NEW blocked \in [Bookings -> 1..(LastDay + 1)],
           request' = [request EXCEPT ![r].todo = todo, ![r].blocked = blocked]
    PROVE  RequestsInDays' /\ \A q \in Requests \ {r} : request'[q] = request[q]
<1>1. PICK R : request \in [Requests -> [todo : SUBSET Group,
                                         blocked : [Bookings -> 1..(LastDay + 1)], report : R]]
  BY DEF LockInv, RequestsInDays
<1>2. request' \in [Requests -> [todo : SUBSET Group,
                                 blocked : [Bookings -> 1..(LastDay + 1)], report : R]]
  BY <1>1
<1> QED
  BY <1>1, <1>2 DEF RequestsInDays

\* A transaction that ends, for a request or for good.
LEMMA TxEnds ==
    ASSUME LockInv, NEW t \in Txs, NEW pc \in {"running", "done"},
           tx' = [tx EXCEPT ![t] = [NoTx EXCEPT !.pc = pc]],
           Release(t) \/ (UNCHANGED <<advisory, rows>> /\ tx[t].pc \in {"new", "running"}),
           RowsInDays', RequestsInDays', \A r \in Requests \ {t} : request'[r] = request[r]
    PROVE  LockInv'
<1> DEFINE after == [NoTx EXCEPT !.pc = pc]
<1>1. after \in DayTx /\ after.pc = pc
  BY NoTxInDays DEF DayTx
<1> HIDE DEF after
<1>2. LocksOK' /\ Untouched(t) /\ HoldsNothing(t)'
  BY ReleasesAll, LocksSame, RestsWithNothing DEF HoldsNothing
<1>3. TxsInDays' /\ tx'[t] = after /\ \A u \in Txs \ {t} : tx'[u] = tx[u]
  BY <1>1, TxMoves DEF after
<1>4. Held(t)'
  BY <1>1, <1>2, <1>3, NothingHeld
<1> QED
  BY <1>2, <1>3, <1>4, OneMoves

-----------------------------------------------------------------------------
(* Every step keeps the ranges and the locks.                              *)

LEMMA LinesInDays ==
    ASSUME LockInv, NEW limit \in Int, NEW p \in Lines(limit)
    PROVE  p \in [booking : Bookings, lo : Days, hi : Days]
<1>1. PICK b \in Bookings : p \in PendingPeriods(b, limit)
  BY DEF Lines
<1>2. PICK m \in MonthOf(booking[b].first)..MonthOf(Earlier(booking[b].last, limit)) :
         p = Canonical(b, m)
  BY <1>1 DEF PendingPeriods
<1>3. booking[b].first \in Days /\ booking[b].last \in Days
  BY DEF LockInv, RowsInDays, BookingRow
<1> QED
  BY <1>2, <1>3, CanonicalInDays

LEMMA LimitsAreDays == ASSUME LockInv, NEW limit \in Limits PROVE limit \in Int
<1>1. CASE limit = today
  BY <1>1 DEF LockInv, RowsInDays, Days
<1>2. CASE \E m \in MonthOf(today)..MonthOf(LastDay) : limit = LastOfMonth(m)
  BY <1>2, CalendarAssumption DEF LastOfMonth
<1> QED
  BY <1>1, <1>2 DEF Limits

LEMMA GroupsInDays ==
    ASSUME LockInv, NEW S, \A p \in S : p \in [booking : Bookings, lo : Days, hi : Days]
    PROVE  Groups(S) \subseteq Group
<1> SUFFICES ASSUME NEW p \in S
             PROVE  [ids |-> {q.booking : q \in {q \in S : Span(q) = Span(p)}},
                     lo |-> p.lo, hi |-> p.hi, future |-> p.lo > today] \in Group
  BY DEF Groups
<1> DEFINE ids == {q.booking : q \in {q \in S : Span(q) = Span(p)}}
<1>1. ids \in (SUBSET Bookings) \ {{}}
  <2>1. ids \subseteq Bookings
    OBVIOUS
  <2>2. p.booking \in ids
    <3>1. p \in {q \in S : Span(q) = Span(p)}
      OBVIOUS
    <3> QED
      BY <3>1
  <2> QED
    BY <2>1, <2>2
<1> HIDE DEF ids
<1>2. (p.lo > today) \in BOOLEAN /\ p.lo \in Days /\ p.hi \in Days
  OBVIOUS
<1> QED
  BY <1>1, <1>2 DEF Group, ids

\* What blocks a booking is a day, or the one after the last.
LEMMA BlockInDays ==
    ASSUME NEW blocked \in [Bookings -> 1..(LastDay + 1)], NEW S, \A p \in S : p.lo \in Days
    PROVE  Block(blocked, S) \in [Bookings -> 1..(LastDay + 1)]
<1> SUFFICES ASSUME NEW b \in Bookings
             PROVE  Least({blocked[b]} \cup {p.lo : p \in {q \in S : q.booking = b}})
                       \in 1..(LastDay + 1)
  BY DEF Block
<1> DEFINE T == {blocked[b]} \cup {p.lo : p \in {q \in S : q.booking = b}}
<1>1. T \subseteq 1..(LastDay + 1) /\ T # {}
  <2>1. Days \subseteq 1..(LastDay + 1)
    BY CalendarAssumption DEF Days
  <2>2. \A p \in {q \in S : q.booking = b} : p.lo \in 1..(LastDay + 1)
    BY <2>1
  <2> QED
    BY <2>2
<1> HIDE DEF T
<1>2. T \subseteq Nat
  BY <1>1, CalendarAssumption
<1>3. Least(T) \in T
  BY <1>1, <1>2, LeastIs
<1> QED
  BY <1>1, <1>3 DEF T

LEMMA AskLocks == ASSUME LockInv, NEW r \in Requests, Ask(r) PROVE LockInv'
<1>1. PICK limit \in Limits : \E selection \in SUBSET {p \in Lines(limit) : Uncovered(p)} :
         \E stale \in SUBSET {p \in selection : p.hi <= today} :
            /\ request' = [request EXCEPT ![r].todo = Groups(selection \ stale),
                                          ![r].blocked = Block(@, stale)]
            /\ tx' = [tx EXCEPT ![r].pc = "running"]
  BY DEF Ask
<1>2. PICK selection, stale :
         /\ selection \subseteq Lines(limit) /\ stale \subseteq selection
         /\ request' = [request EXCEPT ![r].todo = Groups(selection \ stale),
                                       ![r].blocked = Block(@, stale)]
         /\ tx' = [tx EXCEPT ![r].pc = "running"]
  BY <1>1
<1>3. r \in Txs /\ UNCHANGED <<today, booking, invoice, advisory, rows>> /\ tx[r].pc = "new"
  BY DEF Ask, Txs
<1>4. \A p \in selection : p \in [booking : Bookings, lo : Days, hi : Days]
  BY <1>2, LimitsAreDays, LinesInDays
<1>5. Groups(selection \ stale) \in SUBSET Group
  <2>1. \A p \in selection \ stale : p \in [booking : Bookings, lo : Days, hi : Days]
    BY <1>4
  <2> QED
    BY <2>1, GroupsInDays
<1>6. request[r].blocked \in [Bookings -> 1..(LastDay + 1)]
  BY DEF LockInv, RequestsInDays
<1>7. Block(request[r].blocked, stale) \in [Bookings -> 1..(LastDay + 1)]
  <2>1. \A p \in stale : p.lo \in Days
    BY <1>2, <1>4
  <2> QED
    BY <1>6, <2>1, BlockInDays
<1>8. RequestsInDays' /\ \A q \in Requests \ {r} : request'[q] = request[q]
  <2>1. request' = [request EXCEPT ![r].todo = Groups(selection \ stale),
                                   ![r].blocked = Block(request[r].blocked, stale)]
    BY <1>2
  <2> QED
    BY <1>5, <1>7, <2>1, RequestMoves
<1> DEFINE after == [tx[r] EXCEPT !.pc = "running"]
<1>9. after \in DayTx /\ after.pc = "running" /\ tx' = [tx EXCEPT ![r] = after]
  BY <1>2, <1>3 DEF LockInv, TxsInDays, DayTx
<1> HIDE DEF after
<1>10. TxsInDays' /\ tx'[r] = after /\ \A u \in Txs \ {r} : tx'[u] = tx[u]
  BY <1>3, <1>9, TxMoves
<1>11. LocksOK' /\ Untouched(r) /\ HoldsNothing(r)'
  BY <1>3, LocksSame, RestsWithNothing DEF HoldsNothing
<1>12. Held(r)'
  BY <1>3, <1>9, <1>10, <1>11, NothingHeld
<1>13. RowsInDays'
  BY <1>3 DEF LockInv, RowsInDays
<1> QED
  BY <1>3, <1>8, <1>10, <1>11, <1>12, <1>13, OneMoves

LEMMA BeginLocks == ASSUME LockInv, NEW r \in Requests, Begin(r) PROVE LockInv'
<1>1. PICK g \in request[r].todo :
         tx' = [tx EXCEPT ![r] = [NoTx EXCEPT !.pc = "locking", !.ids = g.ids,
                                              !.lo = g.lo, !.hi = g.hi, !.day = today]]
  BY DEF Begin, FirstGroups
<1>2. r \in Txs /\ UNCHANGED <<today, booking, invoice, advisory, rows, request>>
      /\ tx[r].pc = "running" /\ r \notin Cancellers /\ r \notin Savers
  BY TxsAssumption DEF Begin, Txs
<1>3. g \in Group
  BY DEF LockInv, RequestsInDays
<1> DEFINE after == [NoTx EXCEPT !.pc = "locking", !.ids = g.ids, !.lo = g.lo, !.hi = g.hi,
                                 !.day = today]
<1>4. after \in DayTx /\ after.pc = "locking" /\ after.ids = g.ids /\ after.lo = g.lo
  BY <1>3, NoTxInDays DEF LockInv, RowsInDays, DayTx, Group
<1> HIDE DEF after
<1>5. TxsInDays' /\ tx'[r] = after /\ \A u \in Txs \ {r} : tx'[u] = tx[u]
  BY <1>1, <1>2, <1>4, TxMoves DEF after
<1>6. LocksOK' /\ Untouched(r) /\ HoldsNothing(r)'
  BY <1>2, LocksSame, RestsWithNothing DEF HoldsNothing
<1>7. RowsInDays' /\ RequestsInDays'
  BY <1>2, RequestsSame DEF LockInv, RowsInDays
<1>8. Held(r)'
  <2>1. g.ids \subseteq Bookings
    BY <1>3 DEF Group
  <2> QED
    BY <1>2, <1>4, <1>5, <1>6, <2>1 DEF Held, HoldsNothing
<1> QED
  BY <1>2, <1>5, <1>6, <1>7, <1>8, OneMoves

LEMMA FailLocks ==
    ASSUME LockInv, NEW r \in Requests, NEW g \in Group, Fail(r, g),
           Release(r) \/ (UNCHANGED <<advisory, rows>> /\ tx[r].pc = "running"),
           UNCHANGED <<today, booking, invoice>>
    PROVE  LockInv'
<1> DEFINE failed == {[booking |-> b, lo |-> g.lo] : b \in g.ids}
           blocked == Block(request[r].blocked, failed)
           todo == request[r].todo \ {g}
<1>1. request[r].todo \in SUBSET Group /\ request[r].blocked \in [Bookings -> 1..(LastDay + 1)]
  BY DEF LockInv, RequestsInDays
<1>2. \A p \in failed : p.lo \in Days
  BY DEF Group
<1> HIDE DEF failed
<1>3. blocked \in [Bookings -> 1..(LastDay + 1)] /\ todo \in SUBSET Group
  BY <1>1, <1>2, BlockInDays
<1>4. request' = [request EXCEPT ![r].todo = todo, ![r].blocked = blocked]
  BY DEF Fail, failed
<1> HIDE DEF blocked, todo
<1>5. RequestsInDays' /\ \A q \in Requests \ {r} : request'[q] = request[q]
  BY <1>3, <1>4, RequestMoves
<1>6. tx' = [tx EXCEPT ![r] = [NoTx EXCEPT !.pc = "running"]] /\ r \in Txs
  BY DEF Fail, Txs
<1>7. RowsInDays'
  BY DEF LockInv, RowsInDays
<1> QED
  BY <1>5, <1>6, <1>7, TxEnds

LEMMA PlannedGroup ==
    ASSUME LockInv, NEW r \in Requests, tx[r].pc \in {"locking", "commit"}
    PROVE  GroupOf(r) \in request[r].todo /\ GroupOf(r) \in Group
<1>1. r \in Txs /\ request[r].todo \subseteq Group
  BY DEF LockInv, RequestsInDays, Txs
<1>2. \E g \in request[r].todo : g.ids = tx[r].ids /\ g.lo = tx[r].lo
  BY <1>1 DEF LockInv, Held
<1> QED
  BY <1>1, <1>2 DEF GroupOf

LEMMA LocksNat == \A t \in Txs : tx[t].ids \subseteq Bookings => Missing(t) \subseteq Nat
BY BookingsAssumption DEF Missing

LEMMA TakeLocks ==
    ASSUME LockInv, NEW t \in Txs, TakeAdvisory(t)
    PROVE  LockInv'
<1> DEFINE b == Least(Missing(t))
<1>1. /\ advisory[b] = Free /\ advisory' = [advisory EXCEPT ![b] = t]
      /\ UNCHANGED <<today, booking, invoice, rows, tx, request>>
      /\ tx[t].pc = "locking" /\ t \notin Cancellers /\ Missing(t) # {} /\ t \in Billers
  BY DEF TakeAdvisory, Billers, Txs
<1>2. Held(t) /\ tx[t].ids \subseteq Bookings
  BY DEF LockInv, TxsInDays, DayTx
<1>3. b \in Missing(t) /\ b \in tx[t].ids /\ b \in Bookings /\ \A c \in Missing(t) : b <= c
  BY <1>1, <1>2, LocksNat, LeastIs DEF Missing
<1> HIDE DEF b
<1>4. LocksOK' /\ Untouched(t)
  BY <1>1, <1>3, TxsAssumption DEF LockInv, LocksOK, Untouched
<1>5. advisory'[b] = t /\ \A c \in Bookings : c # b => advisory'[c] = advisory[c]
  BY <1>1, <1>3 DEF LockInv, LocksOK
<1>6. Missing(t)' = Missing(t) \ {b}
  BY <1>1, <1>2, <1>5 DEF Missing
<1>7. ASSUME NEW a \in tx[t].ids, NEW c \in Missing(t) \ {b}, advisory'[a] = t PROVE a < c
  <2>1. CASE a = b
    <3>1. b <= c /\ b # c /\ b \in Nat /\ c \in Nat
      BY <1>2, <1>3, BookingsAssumption DEF Missing
    <3> QED
      BY <2>1, <3>1
  <2>2. CASE a # b
    BY <1>1, <1>2, <1>5, <1>7, <2>2 DEF Held
  <2> QED
    BY <2>1, <2>2
<1>8. Held(t)'
  BY <1>1, <1>2, <1>3, <1>5, <1>6, <1>7 DEF Held, MayHoldRows, MayHoldAdvisory
<1>9. RowsInDays' /\ TxsInDays' /\ RequestsInDays'
  BY <1>1, RequestsSame DEF LockInv, RowsInDays, TxsInDays
<1> QED
  BY <1>1, <1>4, <1>8, <1>9, OneMoves

\* A transaction goes on with more of its rows locked.
LEMMA RowsLocked ==
    ASSUME LockInv, NEW t \in Txs, NEW S \in SUBSET tx[t].ids, HoldRows(t, S),
           UNCHANGED <<today, booking, invoice, advisory, request>>,
           NEW after \in DayTx, tx' = [tx EXCEPT ![t] = after],
           after.ids = tx[t].ids, after.lo = tx[t].lo,
           t \in Billers, Missing(t) = {},
           \/ after.pc = "commit" /\ S = tx[t].ids
           \/ after.pc = "checked" /\ t \in Savers,
           tx[t].pc \in {"locking", "checked"}, t \in Requests => tx[t].pc = "locking"
    PROVE  LockInv'
<1>1. Held(t) /\ tx[t].ids \subseteq Bookings
  BY DEF LockInv, TxsInDays, DayTx
<1>2. /\ LocksOK' /\ Untouched(t)
      /\ \A b \in Bookings : t \in rows'[b] <=> b \in S \/ t \in rows[b]
  BY <1>1, HeldRows
<1>3. TxsInDays' /\ tx'[t] = after /\ \A u \in Txs \ {t} : tx'[u] = tx[u]
  BY TxMoves
<1>4. Missing(t)' = {} /\ t \notin Cancellers
  BY <1>3, TxsAssumption DEF Missing, Billers
<1>5. Held(t)'
  BY <1>1, <1>2, <1>3, <1>4 DEF Held, MayHoldRows, MayHoldAdvisory
<1>6. RowsInDays' /\ RequestsInDays'
  BY RequestsSame DEF LockInv, RowsInDays
<1> QED
  BY <1>2, <1>3, <1>5, <1>6, OneMoves

LEMMA DecideLocks == ASSUME LockInv, NEW r \in Requests, Decide(r) PROVE LockInv'
<1>1. r \in Txs /\ r \in Billers /\ UNCHANGED <<today, booking, invoice, advisory, request>>
      /\ tx[r].pc = "locking" /\ Missing(r) = {} /\ HoldRows(r, tx[r].ids)
  BY DEF Decide, Locks, Txs, Billers
<1>2. tx[r] \in DayTx
  BY <1>1 DEF LockInv, TxsInDays
<1>3. PICK after \in {[tx[r] EXCEPT !.pc = "commit"]}
                        \cup {[tx[r] EXCEPT !.pc = "commit", !.invoice = i] : i \in InvoiceIds} :
         tx' = [tx EXCEPT ![r] = after]
  BY DEF Decide
<1>4. after \in DayTx /\ after.pc = "commit" /\ after.ids = tx[r].ids /\ after.lo = tx[r].lo
  BY <1>2, <1>3 DEF DayTx
<1> QED
  BY <1>1, <1>3, <1>4, RowsLocked

LEMMA RefuseLocks == ASSUME LockInv, NEW r \in Requests, Refuse(r) PROVE LockInv'
BY PlannedGroup, FailLocks DEF Refuse, Locks

LEMMA InsertInDays ==
    ASSUME LockInv, NEW t \in Txs, NEW i \in InvoiceIds, Insert(t, i), UNCHANGED <<today, booking>>
    PROVE  RowsInDays'
BY DEF LockInv, TxsInDays, DayTx, Insert, RowsInDays, InvoiceRow

LEMMA CommitLocks == ASSUME LockInv, NEW r \in Requests, Commit(r) PROVE LockInv'
<1>1. PICK i \in InvoiceIds :
         /\ UNCHANGED invoice \/ Insert(r, i)
         /\ request' = [request EXCEPT ![r].todo = @ \ {GroupOf(r)},
               ![r].report = @ \cup {[invoice |-> i, ids |-> tx[r].ids, lo |-> tx[r].lo]}]
  BY DEF Commit
<1>2. r \in Txs /\ UNCHANGED <<today, booking>> /\ Release(r)
      /\ tx' = [tx EXCEPT ![r] = [NoTx EXCEPT !.pc = "running"]]
  BY DEF Commit, Txs
<1>3. RowsInDays'
  BY <1>1, <1>2, InsertInDays DEF LockInv, RowsInDays
<1>4. RequestsInDays' /\ \A q \in Requests \ {r} : request'[q] = request[q]
  <2> DEFINE report == request[r].report
                          \cup {[invoice |-> i, ids |-> tx[r].ids, lo |-> tx[r].lo]}
  <2>1. PICK R : request \in [Requests -> [todo : SUBSET Group,
                                           blocked : [Bookings -> 1..(LastDay + 1)], report : R]]
    BY DEF LockInv, RequestsInDays
  <2>2. request' \in [Requests -> [todo : SUBSET Group, blocked : [Bookings -> 1..(LastDay + 1)],
                                   report : R \cup {report}]]
    BY <1>1, <2>1
  <2> QED
    BY <1>1, <2>1, <2>2 DEF RequestsInDays
<1> QED
  BY <1>2, <1>3, <1>4, TxEnds

LEMMA EndLocks == ASSUME LockInv, NEW r \in Requests, EndRequest(r) PROVE LockInv'
<1>1. /\ r \in Txs /\ UNCHANGED <<today, booking, invoice, advisory, rows>>
      /\ tx[r].pc = "running" /\ tx' = [tx EXCEPT ![r] = [NoTx EXCEPT !.pc = "done"]]
      /\ request' = [request EXCEPT ![r].todo = {}, ![r].blocked = NothingBlocked]
  BY DEF EndRequest, Txs
<1>2. NothingBlocked \in [Bookings -> 1..(LastDay + 1)]
  BY CalendarAssumption DEF NothingBlocked
<1>3. RequestsInDays' /\ \A q \in Requests \ {r} : request'[q] = request[q]
  BY <1>1, <1>2, RequestMoves
<1>4. RowsInDays'
  BY <1>1 DEF LockInv, RowsInDays
<1> QED
  BY <1>1, <1>3, <1>4, TxEnds

LEMMA AbortLocks == ASSUME LockInv, NEW t \in Txs, Abort(t) PROVE LockInv'
BY TxEnds, RequestsSame DEF Abort, Ended, LockInv, RowsInDays

LEMMA BeginSaveLocks == ASSUME LockInv, NEW t \in Savers, BeginSave(t) PROVE LockInv'
<1>0. PICK S \in SUBSET Bookings, p \in ManualPeriods : \E b \in S :
         tx' = [tx EXCEPT ![t] = [NoTx EXCEPT !.pc = "locking", !.ids = S, !.primary = b,
                                              !.lo = p.lo, !.hi = p.hi, !.day = today]]
  BY DEF BeginSave
<1>1. PICK b \in S :
         tx' = [tx EXCEPT ![t] = [NoTx EXCEPT !.pc = "locking", !.ids = S, !.primary = b,
                                              !.lo = p.lo, !.hi = p.hi, !.day = today]]
  BY <1>0
<1>2. t \in Txs /\ UNCHANGED <<today, booking, invoice, advisory, rows, request>>
      /\ tx[t].pc = "new" /\ t \notin Cancellers /\ t \notin Requests
  BY TxsAssumption DEF BeginSave, Txs
<1>3. p.lo \in Days /\ p.hi \in Days
  BY CalendarAssumption
<1> DEFINE after == [NoTx EXCEPT !.pc = "locking", !.ids = S, !.primary = b,
                                 !.lo = p.lo, !.hi = p.hi, !.day = today]
<1>4. after \in DayTx /\ after.pc = "locking" /\ after.ids = S /\ after.primary = b
  BY <1>3, NoTxInDays DEF LockInv, RowsInDays, DayTx
<1> HIDE DEF after
<1>5. TxsInDays' /\ tx'[t] = after /\ \A u \in Txs \ {t} : tx'[u] = tx[u]
  BY <1>1, <1>2, <1>4, TxMoves DEF after
<1>6. LocksOK' /\ Untouched(t) /\ HoldsNothing(t)'
  BY <1>2, LocksSame, RestsWithNothing DEF HoldsNothing
<1>7. RowsInDays' /\ RequestsInDays'
  BY <1>2, RequestsSame DEF LockInv, RowsInDays
<1>8. Held(t)'
  BY <1>2, <1>4, <1>5, <1>6 DEF Held, HoldsNothing
<1> QED
  BY <1>2, <1>5, <1>6, <1>7, <1>8, OneMoves

LEMMA CheckSaveLocks == ASSUME LockInv, NEW t \in Savers, CheckSave(t) PROVE LockInv'
<1>1. t \in Txs /\ t \in Billers /\ tx[t].pc = "locking" /\ Missing(t) = {}
      /\ t \notin Requests
  BY TxsAssumption DEF CheckSave, Txs, Billers
<1>2. CASE Abort(t)
  BY <1>1, <1>2, AbortLocks
<1>3. CASE /\ HoldRows(t, {tx[t].primary})
           /\ tx' = [tx EXCEPT ![t].pc = "checked"]
           /\ UNCHANGED <<today, booking, invoice, advisory, request>>
  <2> DEFINE after == [tx[t] EXCEPT !.pc = "checked"]
  <2>1. tx[t] \in DayTx /\ Held(t)
    BY <1>1 DEF LockInv, TxsInDays
  <2>2. after \in DayTx /\ after.pc = "checked" /\ after.ids = tx[t].ids /\ after.lo = tx[t].lo
    BY <2>1 DEF DayTx
  <2>3. tx' = [tx EXCEPT ![t] = after]
    BY <1>3
  <2> HIDE DEF after
  <2>4. {tx[t].primary} \in SUBSET tx[t].ids
    BY <1>1, <2>1 DEF Held
  <2> QED
    BY <1>1, <1>3, <2>2, <2>3, <2>4, RowsLocked
<1> QED
  BY <1>2, <1>3 DEF CheckSave

LEMMA LinkBookingsLocks == ASSUME LockInv, NEW t \in Savers, LinkBookings(t) PROVE LockInv'
<1>1. t \in Txs /\ t \in Billers /\ tx[t].pc = "checked" /\ t \notin Requests
  BY TxsAssumption DEF LinkBookings, Txs, Billers
<1>2. tx[t] \in DayTx /\ Missing(t) = {}
  BY <1>1 DEF LockInv, TxsInDays, Held
<1>3. CASE Abort(t)
  BY <1>1, <1>3, AbortLocks
<1>4. CASE /\ HoldRows(t, tx[t].ids)
           /\ tx' = [tx EXCEPT ![t].pc = "commit"]
           /\ UNCHANGED <<today, booking, invoice, advisory, request>>
  <2> DEFINE after == [tx[t] EXCEPT !.pc = "commit"]
  <2>1. after \in DayTx /\ after.pc = "commit" /\ after.ids = tx[t].ids /\ after.lo = tx[t].lo
    BY <1>2 DEF DayTx
  <2>2. tx' = [tx EXCEPT ![t] = after]
    BY <1>4
  <2> HIDE DEF after
  <2> QED
    BY <1>1, <1>2, <1>4, <2>1, <2>2, RowsLocked
<1> QED
  BY <1>3, <1>4 DEF LinkBookings

LEMMA CommitSaveLocks == ASSUME LockInv, NEW t \in Savers, CommitSave(t) PROVE LockInv'
<1>1. t \in Txs /\ UNCHANGED <<today, booking, request>> /\ Release(t)
      /\ tx' = [tx EXCEPT ![t] = [NoTx EXCEPT !.pc = "done"]]
  BY DEF CommitSave, Ended, Txs
<1>2. RowsInDays'
  BY <1>1, InsertInDays DEF CommitSave
<1> QED
  BY <1>1, <1>2, RequestsSame, TxEnds

LEMMA BeginCancelLocks == ASSUME LockInv, NEW t \in Cancellers, BeginCancel(t) PROVE LockInv'
<1>1. PICK i \in InvoiceIds :
         /\ HoldRows(t, invoice[i].ids)
         /\ tx' = [tx EXCEPT ![t] = [NoTx EXCEPT !.pc = "locking", !.ids = invoice[i].ids,
                                                 !.invoice = i]]
  BY DEF BeginCancel
<1>2. t \in Txs /\ UNCHANGED <<today, booking, invoice, advisory, request>>
      /\ tx[t].pc = "new" /\ t \notin Billers /\ t \notin Requests /\ t \notin Savers
  BY TxsAssumption DEF BeginCancel, Txs, Billers
<1> DEFINE S == invoice[i].ids
           after == [NoTx EXCEPT !.pc = "locking", !.ids = S, !.invoice = i]
<1>3. S \in SUBSET Bookings
  BY DEF LockInv, RowsInDays, InvoiceRow
<1>4. after \in DayTx /\ after.pc = "locking" /\ after.ids = S
  BY <1>3, NoTxInDays DEF DayTx
<1>5. tx' = [tx EXCEPT ![t] = after] /\ HoldRows(t, S)
  BY <1>1
<1> HIDE DEF after, S
<1>6. TxsInDays' /\ tx'[t] = after /\ \A u \in Txs \ {t} : tx'[u] = tx[u]
  BY <1>2, <1>4, <1>5, TxMoves
<1>7. /\ LocksOK' /\ Untouched(t)
      /\ \A b \in Bookings : t \in rows'[b] <=> b \in S \/ t \in rows[b]
  BY <1>2, <1>3, <1>5, HeldRows
<1>8. HoldsNothing(t)
  BY <1>2, RestsWithNothing
<1>9. Held(t)'
  <2>1. \A b \in Bookings : (t \in rows'[b] <=> b \in S) /\ advisory'[b] # t
    BY <1>2, <1>7, <1>8 DEF HoldsNothing
  <2> QED
    BY <1>2, <1>3, <1>4, <1>6, <2>1 DEF Held, MayHoldRows
<1>10. RowsInDays' /\ RequestsInDays'
  BY <1>2, RequestsSame DEF LockInv, RowsInDays
<1> QED
  BY <1>2, <1>6, <1>7, <1>9, <1>10, OneMoves

LEMMA LockCoverageLocks == ASSUME LockInv, NEW t \in Cancellers, LockCoverage(t) PROVE LockInv'
<1>1. t \in Txs /\ tx[t].pc = "locking" /\ t \notin Billers /\ t \notin Requests /\ t \notin Savers
  BY TxsAssumption DEF LockCoverage, Txs, Billers
<1>2. CASE Abort(t)
  BY <1>1, <1>2, AbortLocks
<1>3. CASE /\ ~Contended(t)
           /\ advisory' = [b \in Bookings |-> IF b \in ToLock(t) THEN t ELSE advisory[b]]
           /\ tx' = [tx EXCEPT ![t].pc = "commit"]
           /\ UNCHANGED <<today, booking, invoice, rows, request>>
  <2> DEFINE after == [tx[t] EXCEPT !.pc = "commit"]
  <2>1. tx[t] \in DayTx /\ Held(t) /\ tx[t].ids \subseteq Bookings
    BY <1>1 DEF LockInv, TxsInDays, DayTx
  <2>2. after \in DayTx /\ after.pc = "commit" /\ after.ids = tx[t].ids
    BY <2>1 DEF DayTx
  <2>3. tx' = [tx EXCEPT ![t] = after]
    BY <1>3
  <2> HIDE DEF after
  <2>4. TxsInDays' /\ tx'[t] = after /\ \A u \in Txs \ {t} : tx'[u] = tx[u]
    BY <1>1, <2>2, <2>3, TxMoves
  <2>5. ToLock(t) \subseteq tx[t].ids /\ \A b \in ToLock(t) : advisory[b] = Free
    BY <1>3 DEF ToLock, Contended
  <2>6. LocksOK' /\ Untouched(t)
    BY <1>1, <1>3, <2>5, TxsAssumption DEF LockInv, LocksOK, Untouched
  <2>7. Held(t)'
    <3>1. \A b \in Bookings : advisory'[b] = t => b \in tx[t].ids
      BY <1>3, <2>1, <2>5 DEF Held
    <3>2. \A b \in Bookings : t \in rows'[b] => b \in tx[t].ids
      BY <1>3, <2>1 DEF Held
    <3>3. \A b \in tx[t].ids : t \in rows'[b]
      BY <1>1, <1>3, <2>1 DEF Held
    <3> QED
      BY <1>1, <2>2, <2>4, <3>1, <3>2, <3>3 DEF Held, MayHoldRows, MayHoldAdvisory
  <2>8. RowsInDays' /\ RequestsInDays'
    BY <1>3, RequestsSame DEF LockInv, RowsInDays
  <2> QED
    BY <1>1, <1>3, <2>4, <2>6, <2>7, <2>8, OneMoves
<1> QED
  BY <1>2, <1>3 DEF LockCoverage, TryLocks

LEMMA CommitCancelLocks == ASSUME LockInv, NEW t \in Cancellers, CommitCancel(t) PROVE LockInv'
<1>1. t \in Txs /\ UNCHANGED <<today, booking, request>> /\ Release(t)
      /\ tx' = [tx EXCEPT ![t] = [NoTx EXCEPT !.pc = "done"]]
      /\ invoice' = [invoice EXCEPT ![tx[t].invoice].state = "cancelled"]
  BY DEF CommitCancel, Ended, Txs
<1>2. RowsInDays'
  BY <1>1 DEF LockInv, RowsInDays, InvoiceRow
<1> QED
  BY <1>1, <1>2, RequestsSame, TxEnds

\* What leaves the locks and the transactions alone.
LEMMA ChangesNoLock ==
    ASSUME LockInv, RowsInDays', UNCHANGED <<advisory, rows, tx, request>>
    PROVE  LockInv'
<1>1. ASSUME NEW t \in Txs PROVE Held(t)'
  <2>1. Missing(t)' = Missing(t)
    BY DEF Missing
  <2> QED
    BY <2>1 DEF LockInv, Held, MayHoldRows, MayHoldAdvisory
<1> QED
  BY <1>1 DEF LockInv, LocksOK, TxsInDays, RequestsInDays

LEMMA BookingLocks == ASSUME LockInv, NEW b \in Bookings, BookingStep(b) PROVE LockInv'
<1>1. booking[b] \in BookingRow /\ Extension[b] \in Days
  BY CalendarAssumption DEF LockInv, RowsInDays
<1>2. PICK f \in {[booking[b] EXCEPT !.recurring = ~@], [booking[b] EXCEPT !.last = Extension[b]],
                  [booking[b] EXCEPT !.status = "cancelled", !.recurring = FALSE]} :
         Update(b, f)
  BY DEF BookingStep, ToggleRecurring, ExtendBooking, CancelBooking
<1>3. f \in BookingRow
  <2>1. (~booking[b].recurring) \in BOOLEAN
    OBVIOUS
  <2> QED
    BY <1>1, <1>2, <2>1 DEF BookingRow
<1>4. RowsInDays'
  BY <1>2, <1>3 DEF Update, LockInv, RowsInDays
<1> QED
  BY <1>2, <1>4, ChangesNoLock DEF Update

LEMMA NextDayLocks == ASSUME LockInv, NextDay PROVE LockInv'
<1>1. RowsInDays'
  BY CalendarAssumption DEF NextDay, LockInv, RowsInDays, Days
<1> QED
  BY <1>1, ChangesNoLock DEF NextDay

LEMMA InitLocks == Init => LockInv
<1> SUFFICES ASSUME Init PROVE LockInv
  OBVIOUS
<1>1. RowsInDays
  BY CalendarAssumption DEF Init, RowsInDays, BookingRow, InvoiceRow, Days
<1>2. LocksOK
  BY DEF Init, LocksOK
<1>3. TxsInDays
  BY NoTxInDays DEF Init, TxsInDays
<1>4. RequestsInDays
  <2>1. NothingBlocked \in [Bookings -> 1..(LastDay + 1)]
    BY CalendarAssumption DEF NothingBlocked
  <2>2. request \in [Requests -> [todo : SUBSET Group, blocked : [Bookings -> 1..(LastDay + 1)],
                                  report : {{}}]]
    BY <2>1 DEF Init
  <2> QED
    BY <2>2 DEF RequestsInDays
<1>5. ASSUME NEW t \in Txs PROVE Held(t)
  BY <1>5, NoTxInDays, TxsAssumption DEF Init, Held
<1> QED
  BY <1>1, <1>2, <1>3, <1>4, <1>5 DEF LockInv

LEMMA NextLocks == LockInv /\ [Next]_vars => LockInv'
<1> SUFFICES ASSUME LockInv, [Next]_vars PROVE LockInv'
  OBVIOUS
<1>1. ASSUME NEW r \in Requests, Ask(r) \/ EndRequest(r) \/ GroupStep(r) PROVE LockInv'
  <2>1. CASE Ask(r) \/ EndRequest(r)
    BY <2>1, AskLocks, EndLocks
  <2>2. CASE SkipGroup(r)
    <3>1. PICK g \in request[r].todo : Fail(r, g)
      BY <2>2 DEF SkipGroup, FirstGroups
    <3>2. g \in Group
      BY DEF LockInv, RequestsInDays
    <3> QED
      BY <2>2, <3>1, <3>2, FailLocks DEF SkipGroup
  <2>3. CASE TakeAdvisory(r)
    BY <2>3, TakeLocks DEF Txs
  <2>4. CASE Begin(r) \/ Decide(r) \/ Refuse(r) \/ Commit(r)
    BY <2>4, BeginLocks, DecideLocks, RefuseLocks, CommitLocks
  <2> QED
    BY <1>1, <2>1, <2>2, <2>3, <2>4 DEF GroupStep
<1>2. ASSUME NEW t \in Savers, BeginSave(t) \/ SaveStep(t) PROVE LockInv'
  BY <1>2, BeginSaveLocks, TakeLocks, CheckSaveLocks, LinkBookingsLocks, CommitSaveLocks
  DEF SaveStep, Txs
<1>3. ASSUME NEW t \in Cancellers, BeginCancel(t) \/ CancelTxStep(t) PROVE LockInv'
  BY <1>3, BeginCancelLocks, LockCoverageLocks, CommitCancelLocks DEF CancelTxStep
<1>4. ASSUME NEW b \in Changing, BookingStep(b) PROVE LockInv'
  BY <1>4, BookingLocks, ChangingAssumption
<1>5. CASE UNCHANGED vars
  <2>1. RowsInDays'
    BY <1>5 DEF vars, LockInv, RowsInDays
  <2> QED
    BY <1>5, <2>1, ChangesNoLock DEF vars
<1> QED
  BY <1>1, <1>2, <1>3, <1>4, <1>5, NextDayLocks DEF Next

LEMMA SpecLocks == Spec => []LockInv
BY InitLocks, NextLocks, PTL DEF Spec

\* The rows of bookings and invoices keep to the calendar, a plan is made of groups
\* that are not empty, whoever commits has its rows locked and a checked save its
\* advisory locks (RecurringInvoices.TypeOK): whatever may be switched by whom.
THEOREM RecurringIsTyped == Spec => []TypeOK
BY SpecLocks, LockInvIsTypeOK, PTL

-----------------------------------------------------------------------------
(* Nobody waits in a circle.                                               *)

\* A biller that still has advisory locks to take.
Collecting(t) == t \in Billers /\ tx[t].pc = "locking" /\ Missing(t) # {}

\* The row of b is what t needs next.
AwaitsRow(t, b) ==
    \/ t \in Requests /\ tx[t].pc = "locking" /\ Missing(t) = {} /\ b \in tx[t].ids
    \/ t \in Savers /\ tx[t].pc = "locking" /\ Missing(t) = {} /\ b = tx[t].primary
    \/ tx[t].pc = "checked" /\ b \in tx[t].ids

\* The next step of t needs a lock that u holds: an advisory lock, or a row of which
\* one of them wants the lock of a request.
WaitsFor(t, u) ==
    \/ Collecting(t) /\ advisory[Least(Missing(t))] = u
    \/ \E b \in Bookings : AwaitsRow(t, b) /\ u \in rows[b] /\ (t \in Requests \/ u \in Requests)

\* Among any transactions there is one that waits for none of them.
NoCircle == \A C \in (SUBSET Txs) \ {{}} : \E t \in C : \A u \in C : ~WaitsFor(t, u)

LEMMA CommitsAndCancelsWaitForNone ==
    ASSUME LockInv, NEW t \in Txs, tx[t].pc \notin {"locking", "checked"} \/ t \in Cancellers,
           NEW u
    PROVE  ~WaitsFor(t, u)
BY TxsAssumption DEF LockInv, Held, WaitsFor, Collecting, AwaitsRow, Billers

\* A checked save waits for nobody but a request about to commit.
LEMMA ChecksWaitForCommits ==
    ASSUME LockInv, NEW t \in Txs, NEW u \in Txs, tx[t].pc = "checked", WaitsFor(t, u)
    PROVE  tx[u].pc = "commit"
<1>1. t \in Savers /\ ~Collecting(t)
  BY DEF LockInv, Held, Collecting
<1>2. u \in Requests /\ \E b \in Bookings : u \in rows[b]
  BY <1>1, TxsAssumption DEF WaitsFor
<1> QED
  BY <1>2, TxsAssumption DEF LockInv, Held, MayHoldRows

\* Whoever needs rows waits for nobody that still collects locks or needs rows to
\* begin with.
LEMMA RowsAreHeldLater ==
    ASSUME LockInv, NEW t \in Txs, NEW u \in Txs, ~Collecting(t), WaitsFor(t, u)
    PROVE  tx[u].pc \in {"checked", "commit"} \/ u \in Cancellers
BY DEF LockInv, Held, WaitsFor, MayHoldRows

\* Whoever holds the lock that t is to take next, and is collecting itself, is to take
\* a greater one.
LEMMA CollectsInOrder ==
    ASSUME LockInv, NEW t \in Txs, NEW u \in Txs, Collecting(t), Collecting(u), WaitsFor(t, u)
    PROVE  /\ Least(Missing(t)) \in Bookings /\ Least(Missing(u)) \in Bookings
           /\ Least(Missing(t)) < Least(Missing(u))
<1>1. Held(u) /\ tx[t].ids \subseteq Bookings /\ tx[u].ids \subseteq Bookings
  BY DEF LockInv, TxsInDays, DayTx
<1>2. Least(Missing(t)) \in Missing(t) /\ Least(Missing(u)) \in Missing(u)
  BY <1>1, LocksNat, LeastIs DEF Collecting
<1>3. advisory[Least(Missing(t))] = u
  BY DEF WaitsFor, Collecting, AwaitsRow, LockInv, Held
<1>4. Least(Missing(t)) \in Bookings /\ Least(Missing(u)) \in Bookings
  BY <1>1, <1>2 DEF Missing
<1>5. Least(Missing(t)) \in tx[u].ids
  BY <1>1, <1>3, <1>4 DEF Held
<1> QED
  BY <1>1, <1>2, <1>3, <1>4, <1>5 DEF Held, Collecting

LEMMA LockInvHasNoCircle == LockInv => NoCircle
<1> SUFFICES ASSUME LockInv, NEW C \in (SUBSET Txs) \ {{}}
             PROVE  \E t \in C : \A u \in C : ~WaitsFor(t, u)
  BY DEF NoCircle
<1>1. C \subseteq Txs /\ C # {}
  OBVIOUS
<1>2. CASE \E t \in C : tx[t].pc \notin {"locking", "checked"} \/ t \in Cancellers
  BY <1>1, <1>2, CommitsAndCancelsWaitForNone
<1>3. CASE /\ \A t \in C : tx[t].pc \in {"locking", "checked"} /\ t \notin Cancellers
           /\ \E t \in C : tx[t].pc = "checked"
  BY <1>1, <1>3, ChecksWaitForCommits
<1>4. CASE /\ \A t \in C : tx[t].pc = "locking" /\ t \notin Cancellers
           /\ \E t \in C : ~Collecting(t)
  BY <1>1, <1>4, RowsAreHeldLater
<1>5. CASE \A t \in C : Collecting(t)
  <2> DEFINE next == {Least(Missing(t)) : t \in C}
  <2>1. next \subseteq Bookings
    <3>1. ASSUME NEW t \in C PROVE Least(Missing(t)) \in Bookings
      <4>1. t \in Txs /\ tx[t].ids \subseteq Bookings /\ Missing(t) # {}
        BY <1>1, <1>5 DEF LockInv, TxsInDays, DayTx, Collecting
      <4>2. Least(Missing(t)) \in Missing(t)
        BY <4>1, LocksNat, LeastIs
      <4> QED
        BY <4>1, <4>2 DEF Missing
    <3> QED
      BY <3>1
  <2>2. PICK m \in next : \A n \in next : n <= m
    <3>1. next # {}
      BY <1>1
    <3> HIDE DEF next
    <3>2. next \subseteq Nat /\ IsFiniteSet(next)
      BY <2>1, BookingsAssumption, FS_Subset
    <3> QED
      BY <3>1, <3>2, GreatestIs
  <2>3. PICK t \in C : m = Least(Missing(t))
    BY <2>2
  <2>4. ASSUME NEW u \in C, WaitsFor(t, u) PROVE FALSE
    <3>1. Least(Missing(t)) < Least(Missing(u)) /\ Least(Missing(t)) \in Nat
          /\ Least(Missing(u)) \in Nat
      BY <1>1, <1>5, <2>4, CollectsInOrder, BookingsAssumption
    <3>2. Least(Missing(u)) <= Least(Missing(t))
      BY <2>2, <2>3
    <3> QED
      BY <3>1, <3>2
  <2> QED
    BY <2>4
<1> QED
  BY <1>2, <1>3, <1>4, <1>5

\* The transactions of requests, saves and cancellations never wait for one another in
\* a circle, nor in a chain without end, however many there are: advisory locks are
\* taken in the order of the ids and before any row, and who holds a row only waits for
\* requests that have all they need (lock_bookings_for_billing, create_recurring_invoice,
\* lock_confirmed_recurring_coverage_change).
THEOREM NobodyWaitsInCircle == Spec => []NoCircle
BY SpecLocks, LockInvHasNoCircle, PTL

-----------------------------------------------------------------------------
(* What that means for a step.                                             *)

InTransaction(t) == tx[t].pc \in {"locking", "checked", "commit"}

\* Every lock that the next step of t asks for is free for it: the conditions on locks
\* of TakeAdvisory, Decide and Refuse, CheckSave, LinkBookings.
LocksFree(t) ==
    /\ Collecting(t) => advisory[Least(Missing(t))] = Free
    /\ t \in Requests /\ tx[t].pc = "locking" /\ Missing(t) = {} => Locks(t)
    /\ t \in Savers /\ tx[t].pc = "locking" /\ Missing(t) = {} => Shareable(tx[t].primary)
    /\ tx[t].pc = "checked" => \A b \in tx[t].ids : Shareable(b)

SomebodyGoesOn ==
    (\E t \in Txs : InTransaction(t)) => \E t \in Txs : InTransaction(t) /\ LocksFree(t)

LEMMA HoldersAreInTransaction ==
    ASSUME LockInv, NEW t \in Txs, NEW u \in Txs, WaitsFor(t, u), InTransaction(t)
    PROVE  InTransaction(u)
<1>1. tx[t].ids \subseteq Bookings
  BY DEF LockInv, TxsInDays, DayTx
<1>2. CASE Collecting(t) /\ advisory[Least(Missing(t))] = u
  <2>1. Least(Missing(t)) \in Bookings
    BY <1>1, <1>2, LocksNat, LeastIs DEF Collecting, Missing
  <2> QED
    BY <1>2, <2>1 DEF LockInv, Held, MayHoldAdvisory, InTransaction
<1>3. CASE \E b \in Bookings : u \in rows[b]
  BY <1>3 DEF LockInv, Held, MayHoldRows, InTransaction
<1> QED
  BY <1>2, <1>3 DEF WaitsFor

LEMMA WaitingForNoneIsFree ==
    ASSUME LockInv, NEW t \in Txs, InTransaction(t), \A u \in Txs : ~WaitsFor(t, u)
    PROVE  LocksFree(t)
<1>1. tx[t].ids \subseteq Bookings /\ Held(t)
  BY DEF LockInv, TxsInDays, DayTx
<1>2. ASSUME Collecting(t) PROVE advisory[Least(Missing(t))] = Free
  <2>1. Least(Missing(t)) \in Bookings
    BY <1>1, <1>2, LocksNat, LeastIs DEF Collecting, Missing
  <2>2. advisory[Least(Missing(t))] \in Txs \cup {Free}
    BY <2>1 DEF LockInv, LocksOK
  <2> QED
    BY <1>2, <2>2 DEF WaitsFor
<1>3. ASSUME NEW b \in Bookings, AwaitsRow(t, b)
      PROVE  Shareable(b) /\ (t \in Requests => rows[b] = {})
  <2>1. rows[b] \subseteq Txs
    BY DEF LockInv, LocksOK
  <2>2. \A u \in rows[b] : ~(t \in Requests \/ u \in Requests)
    BY <1>3, <2>1 DEF WaitsFor
  <2> QED
    BY <2>2 DEF Shareable
<1>4. ASSUME t \in Requests, tx[t].pc = "locking", Missing(t) = {} PROVE Locks(t)
  BY <1>1, <1>3, <1>4 DEF AwaitsRow, Locks
<1>5. ASSUME t \in Savers, tx[t].pc = "locking", Missing(t) = {} PROVE Shareable(tx[t].primary)
  BY <1>1, <1>3, <1>5 DEF AwaitsRow, Held
<1>6. ASSUME tx[t].pc = "checked" PROVE \A b \in tx[t].ids : Shareable(b)
  BY <1>1, <1>3, <1>6 DEF AwaitsRow
<1> QED
  BY <1>2, <1>4, <1>5, <1>6 DEF LocksFree

\* As long as a transaction is open, one of those that are finds every lock its next
\* step asks for: what NoDeadlock says of the actions, without ENABLED.
THEOREM SomebodyHasItsLocks == Spec => []SomebodyGoesOn
<1>1. LockInv => SomebodyGoesOn
  <2> SUFFICES ASSUME LockInv, NEW s \in Txs, InTransaction(s)
               PROVE  \E t \in Txs : InTransaction(t) /\ LocksFree(t)
    BY DEF SomebodyGoesOn
  <2> DEFINE C == {t \in Txs : InTransaction(t)}
  <2>1. PICK t \in C : \A u \in C : ~WaitsFor(t, u)
    <3>1. C \in (SUBSET Txs) \ {{}}
      OBVIOUS
    <3> QED
      BY <3>1, LockInvHasNoCircle DEF NoCircle
  <2>2. \A u \in Txs : ~WaitsFor(t, u)
    BY <2>1, HoldersAreInTransaction
  <2> QED
    BY <2>1, <2>2, WaitingForNoneIsFree
<1> QED
  BY <1>1, SpecLocks, PTL
=============================================================================
