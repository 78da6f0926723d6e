---------------------------- MODULE SettlementState ----------------------------
(***************************************************************************)
(* Settlement of one stamped PPD invoice: its payments, each of which gets *)
(* a payment complement (REP), and its credit notes.  The rows, what the   *)
(* triggers of the database let users do with them, the requests and runs  *)
(* in progress and the documents of the PAC.  Who stamps what is in        *)
(* StampComplement, StampCreditNote and ReconcileSettlement.               *)
(***************************************************************************)
EXTENDS Integers, FiniteSets, FiniteSetsExt

CONSTANTS Payments,      \* payments that may be registered
          Notes,         \* credit notes that may be drafted
          NoRow,
          Total,         \* the total of the invoice
          MaxRows,       \* bound: payments and credit notes that users may register
          Handlers,      \* requests that may be in progress
          Reconcilers,   \* runs of reconcile-stamping-invoices
          MaxDocs,       \* bound: documents the PAC may create
          MaxMisses,     \* MAX_LOOKUP_MISSES
          MaxXmlAttempts,  \* MAX_STAMPING_ATTEMPTS
          PacIsPrompt,   \* the PAC is done and indexed before a row is stale
          UserMoves,     \* what users do besides registering and stamping
          Faults         \* kinds of failure that may happen

VARIABLES pay,    \* pay[p]: the row of payment p
          note,   \* note[n]: the row of credit note n
          req,    \* req[h]: a request of stamp-payment-complement or stamp-credit-note
          rec,    \* rec[r]: a run of the reconciliation
          fresh,  \* runs whose token of the row they work on is still the current one
          pac,    \* pac[d]: a document of the PAC
          late    \* requests the PAC may still serve after the handler gave up

Rows == Payments \cup Notes

ASSUME SettlementAssumption ==
    /\ Payments \cap Notes = {} /\ NoRow \notin Rows
    /\ IsFiniteSet(Payments) /\ IsFiniteSet(Notes)
    /\ Total \in Nat \ {0} /\ MaxDocs \in Nat /\ MaxRows \in Nat
    /\ MaxMisses \in Nat \ {0} /\ MaxXmlAttempts \in Nat \ {0}
    /\ PacIsPrompt \in BOOLEAN
    /\ UserMoves \subseteq {"edit", "delete", "cancel"}
    /\ Faults \subseteq {"crash", "config", "db", "stub"}

vars == <<pay, note, req, rec, fresh, pac, late>>

Documents == 1..MaxDocs
NoDoc == 0
MockDoc == MaxDocs + 1   \* the uuid of a stub

PacState == {"pending", "valid", "failed", "cancelled"}

\* "absent": not inserted yet.  "pending" stands for 'none' as well.
Status == {"absent", "pending", "stamping", "error", "stamped", "cancelled", "deleted"}

\* The columns of both kinds of row.  number and prior (installment_number,
\* prior_balance) and folio (rep_number) belong to payments.
Row == [status: Status,
        amount: 0..Total,
        fid: Documents \cup {NoDoc}, uuid: Documents \cup {NoDoc, MockDoc},
        number: 0..Cardinality(Payments), prior: 0..Total,
        xml: BOOLEAN, xmlPending: BOOLEAN, folio: BOOLEAN,
        misses: 0..MaxMisses, attempts: 0..MaxXmlAttempts]

NoRecord == [status |-> "absent", amount |-> 0, fid |-> NoDoc, uuid |-> NoDoc, number |-> 0,
             prior |-> 0, xml |-> FALSE, xmlPending |-> FALSE, folio |-> FALSE,
             misses |-> 0, attempts |-> 0]

\* What a create call tells the PAC.
Content == [amount: 0..Total, number: 0..Cardinality(Payments), prior: 0..Total]

Nothing == [amount |-> 0, number |-> 0, prior |-> 0]

Slot == [pc: {"idle", "claim", "prepare", "check", "sent", "record", "finish", "folio"},
         of: Rows \cup {NoRow}, content: Content, doc: Documents \cup {NoDoc},
         kind: PacState \cup {"none"}]

FreeSlot == [pc |-> "idle", of |-> NoRow, content |-> Nothing, doc |-> NoDoc, kind |-> "none"]

Cycle == [pc: {"idle", "selected", "claimed", "fetch"}, of: Rows \cup {NoRow},
          fid: Documents \cup {NoDoc}, uuid: Documents \cup {NoDoc, MockDoc},
          misses: 0..MaxMisses, attempts: 0..MaxXmlAttempts]

Resting == [pc |-> "idle", of |-> NoRow, fid |-> NoDoc, uuid |-> NoDoc, misses |-> 0,
            attempts |-> 0]

PacDocument == [of: Rows \cup {NoRow}, content: Content, state: PacState, listed: BOOLEAN]

NoDocument == [of |-> NoRow, content |-> Nothing, state |-> "pending", listed |-> FALSE]

Aborted == [of: Rows, content: Content]

TypeOK ==
    /\ pay \in [Payments -> Row] /\ note \in [Notes -> Row]
    /\ req \in [Handlers -> Slot]
    /\ rec \in [Reconcilers -> Cycle] /\ fresh \subseteq Reconcilers
    /\ pac \in [Documents -> PacDocument] /\ late \subseteq Aborted

Init ==
    /\ pay = [p \in Payments |-> NoRecord]
    /\ note = [n \in Notes |-> NoRecord]
    /\ req = [h \in Handlers |-> FreeSlot]
    /\ rec = [r \in Reconcilers |-> Resting]
    /\ fresh = {}
    /\ pac = [d \in Documents |-> NoDocument]
    /\ late = {}

RowOf(x) == IF x \in Payments THEN pay[x] ELSE note[x]

-----------------------------------------------------------------------------
(* Writes of a row.  An UPDATE of a deleted row changes nothing.           *)

Readers(x) == {r \in Reconcilers : rec[r].of = x}

Live(row) == row.status \notin {"absent", "deleted"}

\* The token of a payment is rep_stamping_started_at, which few writes move.
WritePayment(p, row) ==
    /\ pay' = IF Live(pay[p]) THEN [pay EXCEPT ![p] = row] ELSE pay
    /\ UNCHANGED <<note, fresh>>

WriteClaim(p, row) ==
    /\ pay' = IF Live(pay[p]) THEN [pay EXCEPT ![p] = row] ELSE pay
    /\ fresh' = fresh \ Readers(p)
    /\ UNCHANGED note

\* The token of a credit note is updated_at, which every write moves.
WriteNote(n, row) ==
    /\ note' = IF Live(note[n]) THEN [note EXCEPT ![n] = row] ELSE note
    /\ fresh' = fresh \ Readers(n)
    /\ UNCHANGED pay

RowsUnchanged == UNCHANGED <<pay, note, fresh>>

-----------------------------------------------------------------------------
(* Sums over the invoice.                                                  *)

PaidBy(S) == MapThenSumSet(LAMBDA p : pay[p].amount, S)
CreditedBy(S) == MapThenSumSet(LAMBDA n : note[n].amount, S)

\* NCs that reduce what is left to pay.
Credited == CreditedBy({n \in Notes : note[n].status = "stamped"})

\* Payments behind a live REP.
RepBacked == PaidBy({p \in Payments : pay[p].status = "stamped"})

-----------------------------------------------------------------------------
(* Users, and the triggers that guard the rows.                            *)

\* enforce_payment_within_invoice_total, under a lock of the invoice.
WithinInvoice(p, amount) ==
    PaidBy({q \in Payments \ {p} : Live(pay[q])}) + amount <= Total - Credited

\* Bound of the instance.
RoomForOne == Cardinality({x \in Rows : RowOf(x).status # "absent"}) < MaxRows

RegisterPayment(p) ==
    /\ pay[p].status = "absent" /\ RoomForOne
    /\ \E amount \in 1..Total :
          /\ WithinInvoice(p, amount)
          /\ pay' = [pay EXCEPT ![p] = [NoRecord EXCEPT !.status = "pending", !.amount = amount]]
    /\ UNCHANGED <<note, req, rec, fresh, pac, late>>

\* prevent_payment_mutation_when_rep_stamped looks at 'stamped' alone.
EditPayment(p) ==
    /\ "edit" \in UserMoves
    /\ Live(pay[p]) /\ pay[p].status # "stamped"
    /\ \E amount \in 1..Total :
          /\ WithinInvoice(p, amount)
          /\ pay' = [pay EXCEPT ![p].amount = amount]
    /\ UNCHANGED <<note, req, rec, fresh, pac, late>>

\* prevent_payment_delete_when_rep_stamped likewise.
DeletePayment(p) ==
    /\ "delete" \in UserMoves
    /\ Live(pay[p]) /\ pay[p].status # "stamped"
    /\ pay' = [pay EXCEPT ![p] = [NoRecord EXCEPT !.status = "deleted"]]
    /\ fresh' = fresh \ Readers(p)
    /\ UNCHANGED <<note, req, rec, pac, late>>

\* Mutant of WithinCap: only the notes that are stamped count.
WithinCapOfStamped(n, amount) ==
    CreditedBy({m \in Notes \ {n} : note[m].status = "stamped"}) + amount <= Total - RepBacked

\* enforce_credit_note_max.
WithinCap(n, amount) ==
    LET others == CreditedBy({m \in Notes \ {n} : Live(note[m]) /\ note[m].status # "cancelled"})
    IN others + amount <= Total - RepBacked

DraftNote(n) ==
    /\ note[n].status = "absent" /\ RoomForOne
    /\ \E amount \in 1..Total :
          /\ WithinCap(n, amount)
          /\ note' = [note EXCEPT ![n] = [NoRecord EXCEPT !.status = "pending",
                                                          !.amount = amount]]
    /\ UNCHANGED <<pay, req, rec, fresh, pac, late>>

\* guard_credit_note_stamping_snapshot: the content is fixed while stamping.
EditNote(n) ==
    /\ "edit" \in UserMoves
    /\ note[n].status \in {"pending", "error"}
    /\ \E amount \in 1..Total :
          /\ WithinCap(n, amount)
          /\ WriteNote(n, [note[n] EXCEPT !.amount = amount])
    /\ UNCHANGED <<req, rec, pac, late>>

\* guard_credit_note_delete: only a uuid or a final status stands in the way.
DeleteNote(n) ==
    /\ "delete" \in UserMoves
    /\ note[n].status \in {"pending", "stamping", "error"} /\ note[n].uuid = NoDoc
    /\ WriteNote(n, [NoRecord EXCEPT !.status = "deleted"])
    /\ UNCHANGED <<req, rec, pac, late>>

UserStep ==
    \/ \E p \in Payments : RegisterPayment(p) \/ EditPayment(p) \/ DeletePayment(p)
    \/ \E n \in Notes : DraftNote(n) \/ EditNote(n) \/ DeleteNote(n)
=============================================================================
