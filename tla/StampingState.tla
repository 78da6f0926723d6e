---------------------------- MODULE StampingState ----------------------------
(***************************************************************************)
(* The state shared by the processes that stamp an invoice: the row of the *)
(* invoice, the retry queue, the requests and runs in progress and the     *)
(* documents of the PAC (Facturapi).  Who does what is in StampCfdi,       *)
(* RetryConsumer and ReconcileStamping; InvoiceStamping composes them.     *)
(***************************************************************************)
EXTENDS Integers, FiniteSets

CONSTANTS Jobs, Consumers, NoJob, OpOf, MaxAttempts, MaxDeferrals, MaxVersion,
          Invoices,
          Handlers,      \* requests of stamp-cfdi that may be in progress
          Reconcilers,   \* runs of reconcile-stamping-invoices
          DocOf,         \* the invoice each row of the queue is about
          User,          \* the caller of a request nobody waits for
          NoInvoice, NoHandler,
          MaxDocs,       \* bound: documents the PAC may create
          MaxEdits,      \* bound: edits of an invoice's total
          MaxStampingAttempts,  \* MAX_STAMPING_ATTEMPTS
          PacIsPrompt,   \* the PAC is done and indexed before a row is stale
          Faults         \* kinds of failure that may happen

VARIABLES queue, hold,  \* the retry queue
          inv,     \* inv[i]: the fiscal columns of the row of invoice i
          fresh,   \* runs that read a row whose updated_at has not moved since
          req,     \* req[h]: a request of stamp-cfdi
          work,    \* work[c]: how far run c of the queue is with its document
          rec,     \* rec[r]: a run of the reconciliation
          pac,     \* pac[d]: a document of the PAC
          late     \* aborted requests that the PAC may still serve

Queue == INSTANCE CfdiRetryQueue

ASSUME StampingAssumption ==
    /\ Queue!QueueAssumption
    /\ DocOf \in [Jobs -> Invoices]
    /\ User \notin Consumers /\ Consumers \cap Reconcilers = {}
    /\ NoInvoice \notin Invoices /\ NoHandler \notin Handlers
    /\ MaxDocs \in Nat /\ MaxEdits \in Nat /\ MaxStampingAttempts \in Nat \ {0}
    /\ PacIsPrompt \in BOOLEAN
    /\ Faults \subseteq {"crash", "config", "db", "enqueue", "slow", "stub"}

vars == <<queue, hold, inv, fresh, req, work, rec, pac, late>>

Documents == 1..MaxDocs
NoDoc == 0
MockDoc == MaxDocs + 1   \* the uuid of a stub, which no PAC document has

PacState == {"pending", "valid", "failed"}

Invoice == [status: {"pending", "stamping", "error", "stamped"},
            fid: Documents \cup {NoDoc},              \* facturapi_invoice_id
            uuid: Documents \cup {NoDoc, MockDoc},    \* cfdi_uuid
            xml: BOOLEAN, xmlPending: BOOLEAN,        \* cfdi_xml, cfdi_xml_pending
            attempts: 0..MaxStampingAttempts,   \* stamping_attempts
            total: 0..MaxEdits]

Draft == [status |-> "pending", fid |-> NoDoc, uuid |-> NoDoc, xml |-> FALSE,
          xmlPending |-> FALSE, attempts |-> 0, total |-> 0]

\* total is the total as the handler read it; job and token are the retry_queue
\* context of an internal call.
FreeSlot == [pc |-> "idle", inv |-> NoInvoice, caller |-> User, job |-> NoJob,
             token |-> 0, total |-> 0, doc |-> NoDoc, kind |-> "none"]

NoWork == [step |-> "none", kind |-> "none", doc |-> NoDoc, handler |-> NoHandler]

Resting == [pc |-> "idle", inv |-> NoInvoice, fid |-> NoDoc, uuid |-> NoDoc, attempts |-> 0]

NoDocument == [inv |-> NoInvoice, state |-> "pending", listed |-> FALSE, total |-> 0]

Slot == [pc: {"idle", "claim", "config", "sent", "refused", "enqueue", "record", "persist",
              "finish", "answered"},
         inv: Invoices \cup {NoInvoice}, caller: Consumers \cup {User},
         job: Jobs \cup {NoJob}, token: Nat, total: 0..MaxEdits,
         doc: Documents \cup {NoDoc},
         kind: PacState \cup {"none", "permanent", "transient", "ok", "error", "changed",
                             "unavailable"}]

Work == [step: {"none", "read", "lookup", "save", "close", "invoke", "await"},
         kind: PacState \cup {"none"}, doc: Documents \cup {NoDoc},
         handler: Handlers \cup {NoHandler}]

Cycle == [pc: {"idle", "selected", "claimed"}, inv: Invoices \cup {NoInvoice},
          fid: Documents \cup {NoDoc}, uuid: Documents \cup {NoDoc, MockDoc},
          attempts: 0..MaxStampingAttempts]

PacDocument == [inv: Invoices \cup {NoInvoice}, state: PacState, listed: BOOLEAN,
                total: 0..MaxEdits]

Aborted == [inv: Invoices, total: 0..MaxEdits]

TypeOK ==
    /\ Queue!TypeOK
    /\ inv \in [Invoices -> Invoice] /\ fresh \subseteq Consumers \cup Reconcilers
    /\ req \in [Handlers -> Slot]
    /\ work \in [Consumers -> Work]
    /\ rec \in [Reconcilers -> Cycle]
    /\ pac \in [Documents -> PacDocument] /\ late \subseteq Aborted

Init ==
    /\ Queue!Init
    /\ inv = [i \in Invoices |-> Draft]
    /\ fresh = {}
    /\ req = [h \in Handlers |-> FreeSlot]
    /\ work = [c \in Consumers |-> NoWork]
    /\ rec = [r \in Reconcilers |-> Resting]
    /\ pac = [d \in Documents |-> NoDocument]
    /\ late = {}

-----------------------------------------------------------------------------
\* Every UPDATE of an invoice moves its updated_at: what others read is stale.
Readers(i) ==
    {c \in Consumers : hold[c].job \in {j \in Jobs : DocOf[j] = i}}
        \cup {r \in Reconcilers : rec[r].inv = i}

Write(i, row) ==
    /\ inv' = [inv EXCEPT ![i] = row]
    /\ fresh' = fresh \ Readers(i)

UnchangedInvoices == UNCHANGED <<inv, fresh>>

\* An unconditional UPDATE whose result the code does not look at.
WriteOrLose(i, row) == Write(i, row) \/ ("db" \in Faults /\ UnchangedInvoices)

\* save_invoice_with_bookings: lock_stamped_invoice_edits refuses an edit only
\* once the invoice has a cfdi_uuid.
EditInvoice(i) ==
    /\ inv[i].uuid = NoDoc
    /\ inv[i].total < MaxEdits
    /\ Write(i, [inv[i] EXCEPT !.total = @ + 1])
    /\ UNCHANGED <<queue, hold, req, work, rec, pac, late>>
=============================================================================
