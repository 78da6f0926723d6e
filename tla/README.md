# Verification of the fiscal core of LiftGo

LiftGo is a business application for equipment rental: a React client, a Postgres database behind Supabase, and Deno edge functions. Most of it is screens and queries. What is hard to get right, and hard to test, is where processes meet over fiscal documents. An invoice, a payment complement or a credit note is sent to a PAC (Facturapi, the service that certifies a CFDI with the tax authority, SAT); the PAC may answer late, twice or never; and users, a retry queue, a reconciliation job and the SAT work on the same database row without a common lock. Recurring billing is the other such place: several transactions create and cancel the invoices that cover the days of a rental. A mistake there is a duplicated, lost or wrongly cancelled fiscal document, or a customer billed twice.

This directory holds TLA+ models of that part, TLC configurations that check them on small instances, and TLAPS proofs, for instances of any size, of the main safety properties. `PROJECT.json` lists components, runs, mutants, hazards, findings and theorems, and maps every definition to the lines it models.

Paths below are relative to the repository; `functions/` stands for `supabase/functions/`, `migrations/` for `drizzle/migrations/` and `supabase/migrations/`.

## 1. Inventory

### Components that are modelled

**Fiscal retry queue and its lease.** `functions/process-cfdi-retry-queue/queueLease.ts`, `index.ts`, `decisions.ts`, `functions/_shared/cfdiRetryQueue.ts`, table `cfdi_retry_queue`.
State: per row `status` (`pending`, `processing`, `succeeded`, `exhausted`), `attempts`, `deferrals`, `updated_at`. Operations: `enqueueCfdiRetry`, selection of due rows and of rows `processing` for fifteen minutes, `claimQueueLease`, `assertOwnedQueue`, `markOwnedQueueRow`. The lease is the value of `updated_at`, which a trigger increases on every update: every write is conditioned on it. Hard: overlapping cron runs, a run that is overtaken while it waits for the PAC, counters written from an old read. Correct when: at most one run can write a row, a closed row is never written again, the budget of attempts holds and no attempt is lost.

**Retry queue consumer.** `functions/process-cfdi-retry-queue/index.ts`, `recoveredInvoice.ts`. Reads the document, asks the PAC whether it exists, saves what it finds, or calls the edge function of the operation (`stamp`, `cancel`, `cancel_rep`, `cancel_nc`) and turns its answer into an outcome of the row. It waits fifteen seconds; the function it calls goes on for thirty. Correct when: it neither emits a document that exists, nor overwrites what another process wrote, nor closes a row whose work is not done.

**Invoice stamping handler.** `functions/stamp-cfdi/handler.ts`. State: `cfdi_status` (`pending`, `stamping`, `error`, `stamped`), `facturapi_invoice_id`, `cfdi_uuid`, the XML, the total. Steps: read and check, claim by a conditional UPDATE, configuration, call to the PAC, then unconditional writes of the ids, of a refusal or of the final status, and the insertion of a retry. Correct when: one request at a time is between claim and last write, an invoice has one CFDI, what is `stamped` is a valid document of that invoice, ids never change, and no issued document is forgotten.

**Stamping reconciliation.** `functions/reconcile-stamping-invoices/index.ts`, `decisions.ts`, RPC `reconcile_stamping_invoice`. Every five minutes it takes invoices, payments and credit notes that have been `stamping` for ten minutes, claims each by its `updated_at` (a payment by a column of its own), asks the PAC and recovers the document, waits, or opens the row again after a number of misses. It also assigns the folios that stamped complements lack. Correct when: it never works against a live handler, two runs never share a row, and no row stays `stamping`.

**PAC lookup and classification.** `functions/_shared/facturapi/invoiceRecovery.ts`. The PAC itself is external: documents created under an idempotency key, requests served after they were aborted, documents that settle later, searches that are eventually consistent.

**Invoice edits.** `save_invoice_with_bookings` may change the total of an invoice that has no `cfdi_uuid`.

**Payment complements (REP).** `functions/stamp-payment-complement/handler.ts`, `decisions.ts`, RPCs `claim_payment_rep_stamping` and `prepare_payment_complement`, the triggers that protect a payment with a stamped complement. State, per payment: `rep_cfdi_status`, ids, amount, `installment_number`, `prior_balance`, XML, `rep_number`. A request claims the payment, reserves a number and a prior balance in a transaction that locks the invoice, calls the PAC, writes what it answered and assigns a folio. A claim does not expire: only the reconciliation ends it. Hard: two payments of one invoice counted before either is stamped, a refusal mistaken for one, a payment edited or deleted under its request, a folio that could not be assigned. Correct when: a payment has one complement, two complements of an invoice have different numbers, the row says what the document says, and no issued complement is forgotten.

**Credit notes.** `functions/stamp-credit-note/handler.ts`, trigger `enforce_credit_note_max`, the guards on credit notes. State: as above without number, balance and folio. Notes are drafted, edited and deleted by users under a cap on what an invoice may return; a note can be claimed again after a while. Correct when: the notes of an invoice never return more than its total, and a note has one CFDI.

**Invoice cancellation.** `functions/cancel-cfdi/handler.ts`, `functions/refresh-cancellation-status/handler.ts`, `functions/_shared/facturapi/cancellationResult.ts`, triggers `guard_invoice_cancellation` and `enforce_payment_within_invoice_total`. State: `cancellation_status` (`none`, `pending`, `accepted`, `rejected`, `expired`), `cancellation_requested_at`, payments. A request claims the cancellation, calls the SAT through the PAC and records the outcome; a refresh asks again and writes what it learns. Correct when: the database calls an invoice cancelled only if the SAT does, a cancelled invoice has no payments, and a retry is not closed because somebody else's claim was in the way.

**Cancellation of complements and notes.** `functions/cancel-payment-complement/handler.ts`, `functions/cancel-credit-note/handler.ts`, the same refresh. The shape is that of an invoice, with differences that matter: the claims are conditioned in other ways, the cap on notes is asked again by every write to a note that lives on, and the refresh writes notes but cannot read payments (section 5). Correct when: one request at a time works on a complement and an acceptance is never taken back.

**Recurring billing.** `functions/generate-recurring-invoices/handler.ts`, `coverage.ts`, `periods.ts`, `futurePeriods.ts`, `grouping.ts`; `create_recurring_invoice`, `lock_bookings_for_billing`, the triggers on coverage (`migrations/0125`), `save_invoice_with_bookings` with `sync_invoice_bookings`, `guard_invoice_booking_cancellation`. State: bookings (status, recurring, contract dates), invoices and their links to bookings, advisory locks per booking and row locks. A request plans the pending months of the bookings, groups them and creates an invoice per group in a transaction of its own; users save invoices by hand for the same bookings, cancel invoices, switch recurring billing, extend and cancel bookings. Hard: the plan is old when its groups are created; two kinds of transaction look for each other's invoices; advisory locks and row locks are taken by all of them. Correct when: no day of a booking is billed twice, what is reported as billed is billed, a future period is billed only when everything before it is, and the transactions never wait in a circle.

**Platform fiscal recovery.** `migrations/0099`, `src/lib/server/platformFiscalActions.server.ts`, `platformFiscalLookup.server.ts`, table `platform_fiscal_actions`. An operator of the platform takes a row of the queue that nobody is processing, asks the PAC once about its document and closes the row, saves what was found, or schedules one more attempt. State, per request: its status, the token it reserved the row with, the state the row had, a snapshot of the document; they live two minutes. Reservation and completion are transactions of their own with the question to the PAC in between. Hard: the queue may take the row over, another operator may find the reservation expired, the invoice may change, the server may die in between. Correct when: only one of runs and reservations can write a row, the attempts of a row are those that somebody granted, and an invoice whose document is saved is left to somebody who finishes it.

### How they interact

    user ──────────────> stamp-cfdi ──────────> PAC <──────────── reconciliation
                          │      ▲               ▲                      │
              enqueue on  │      │ HTTP, 15 s    │ lookup               │ every 5 min
              transient   ▼      │               │                      ▼
              error      cfdi_retry_queue ──> consumer      invoice, payment, credit note
                          ▲      │ every 5 min                          ▲
                          │      │ HTTP                                 │
    operator ──> platform_begin/complete_fiscal_action ──> lookup ──────┤
    user ──────────────> cancel-* ───────> PAC/SAT <── refresh ─────────┤
                                                                        │
    user ──────────────> stamp-payment-complement ──> PAC ──────────────┤
                         stamp-credit-note                              │
    user ──────────────> payments, notes, edits: triggers and caps ─────┘

    operator ──────────> generate-recurring-invoices ──> create_recurring_invoice ─┐ advisory locks,
    user ──────────────> save_invoice_with_bookings, cancellation of an invoice ───┤ row locks,
    user ──────────────> switch, extend, cancel a booking ─────────────────────────┘ triggers

The fiscal row is shared by all the processes above and locked by none; each protocol is a chain of conditional and unconditional UPDATEs with network calls in between. Recurring billing, on the contrary, is transactions and locks. The two meet in the column that says whether an invoice is active, which recurring billing only reads.

### Components that are not modelled

| component | reason |
|---|---|
| recurring maintenance | a loop of inserts over due schedules; planned with the fleet |
| bookings, fleet and deliveries | planned: a life cycle kept by triggers. Recurring billing has the changes of a booking that matter to it |
| storage prefix migration | a one-off migration with a ledger; candidate |
| CFDI downloads, accounts and identity, validation and parsing | single requests to other services, no protocol of their own |
| user interface | rendering and cached reads; it is most of the repository's lines |

Left out of the components that are modelled, because no decision of the protocol reads it: the content of the documents (taxes, motives, substitutes), numbering, series and folio of invoices, PDF files, mail and other notices, the log. In recurring billing: rates, taxes, currencies and charges of a quote, legacy invoices without dates, `last_billed_date` (no decision about coverage reads it, but see section 6), completed bookings, edits of an invoice already saved. In platform recovery: the rows that cancel a document and documents found already cancelled (the reservation is the same; what they write belongs to the models of cancellation), permissions, sessions, the rate limit of a server.

## 2. Modules

| module | what it is | code |
|---|---|---|
| `JobLease` | abstract specification: who may finish a job | `docs/cfdi-queue-ownership.md` |
| `CfdiRetryQueue` | the lease protocol with all outcomes of a run | queue, `index.ts` |
| `StampingState` | the state that the stamping modules share, edits | fiscal columns, `save_invoice_with_bookings` |
| `Pac` | the PAC and its lookup, for invoices | external; `invoiceRecovery.ts` |
| `StampCfdi` | a request of `stamp-cfdi`, cut at its awaits | `stamp-cfdi/handler.ts` |
| `RetryConsumer` | a run of the queue on a `stamp` row | `process-cfdi-retry-queue` |
| `ReconcileStamping` | a run of the reconciliation on invoices | `reconcile-stamping-invoices` |
| `InvoiceStamping` | their composition, fairness, properties | |
| `CancelCfdi` | requests of `cancel-cfdi` and of the refresh, payments, triggers, the SAT | `cancel-cfdi`, `refresh-cancellation-status` |
| `InvoiceCancellation` | with a run of the queue on a `cancel` row; properties | `process-cfdi-retry-queue` |
| `SettlementState` | payments and credit notes of one invoice, the cap, what users and triggers do | `enforce_*`, `guard_*`, payment triggers |
| `SettlementPac` | the PAC, for complements and notes | external; recovery in the two handlers |
| `StampComplement` | a request of `stamp-payment-complement`: claim, reservation, call, folio | handler, `claim_payment_rep_stamping`, `prepare_payment_complement` |
| `StampCreditNote` | a request of `stamp-credit-note` | handler, `claim_credit_note_for_stamping` |
| `ReconcileSettlement` | a run of the reconciliation on payments and notes, and the folios | `reconcile-stamping-invoices` |
| `Settlement` | their composition, fairness, properties | |
| `CancelState` | stamped payments and notes, claims, the SAT, the cap | claims and guards of `cancel-payment-complement`, `cancel-credit-note` |
| `CancelSettlement` | the two handlers and the refresh | the same, `refresh-cancellation-status` |
| `SettlementCancellation` | with a run of the queue on `cancel_rep` and `cancel_nc` rows; properties | `process-cfdi-retry-queue` |
| `RecurringState` | bookings, invoices, coverage, locks, changes of a booking | `coverage.ts`, `periods.ts`, `0125`, screens of a booking |
| `RecurringInvoices` | the request, its transactions, manual invoices, cancellations; properties | `generate-recurring-invoices`, `create_recurring_invoice`, `sync_invoice_bookings` |
| `OperatedLease` | abstract specification: `JobLease` with reservations among the owners | `platform_begin_fiscal_action` in `migrations/0099` |
| `FiscalRecovery` | operators who reserve and complete rows of the queue, on top of everything in `InvoiceStamping`; properties | `migrations/0099`, `platformFiscalActions.server.ts` |
| `RecoveryHistory` | the same with a history variable: which invoices an operator wrote while a request was stamping them | |
| `..._proofs` | theorems about `CfdiRetryQueue`, `InvoiceStamping` (with `InvoiceIdentity_proofs`), `InvoiceCancellation`, `Settlement`, `SettlementCancellation`, `RecurringInvoices`, `FiscalRecovery` | |
| `MC...` | instances for TLC | |

`CfdiRetryQueue` is written once and used three times: `StampingState`, `CancelCfdi` and `CancelState` take it as `Queue == INSTANCE CfdiRetryQueue`, and each action of a consumer is an action of the queue (`Queue!Claim(c)`, `Queue!RetryAnswered(c)`, ...) conjoined with what it does to the document. So the theorems proved of the queue hold in the composed models; that they implement the queue is proved of all three (`StampingImplementsQueue`, `CancellationImplementsQueue`, `RetriesImplementQueue`).

`FiscalRecovery` is an exception: an operator writes rows of the queue without being one of its runs, and what the queue promises by itself is then no longer true (an exhausted row is opened again, more attempts are made than its budget). So its next-state relation is that of `InvoiceStamping` or a step of an operator, and its properties say what is left. What is left of the ownership contract is `OperatedLease`, which `RecoveryKeepsLease` shows it to implement. Operators act whenever the code lets them, also while a request is stamping the invoice, and that breaks one of the properties (`recovery_live`, section 5). `RecoveryHistory` adds the variable `crossed` to say precisely how far it holds; no action reads it. Whether an operator wants to reconcile or to retry is read by the code only at the end, so `Complete` has both outcomes and no field keeps the intent.

Settlement is split in two models, the stamping and the cancellation, because the handlers never overlap: a cancellation asks for `stamped`, and what it leaves the stamping cannot touch (section 6 says why not even on purpose). `Settlement` has a cancellation as one move of the users and the SAT, for what it gives back: a number, a balance and room under the cap.

### State and steps

* **One action per step between two awaits.** A handler is a record `req[h]` with a program counter. `"claim"` means: the row was read, the claim is next; `"sent"`: the PAC was called; `"record"`, `"persist"`, `"finish"`: writes still to come. Everything a handler keeps in local variables and uses later (the total it read, the row and token of the internal call) is a field of that record, so stale reads are in the model.
* **Conditional updates** compare with the state at the moment of the action (`Claimable`, `AsRead`, `StillAsRead`, `Holds`); **unconditional ones** do not (`PersistIds`, `FinishStamping`, `WriteRefresh`, `Record`, the writes of a complement).
* **`updated_at` of the queue** is a counter in the row. **`updated_at` of a document** is only ever compared for equality by a run that read it, so it is the set `fresh` of the runs whose reading is the row's last version.
* **A transaction** of recurring billing is a record `tx[t]`; it takes its locks one at a time and waits for each, and its reads and writes between two locks are one action: the locks it holds by then keep the others from changing what it read, or, where they do not, the reads are actions of their own (`CheckSave`, `LinkBookings`).
* **Timeouts.** A handler that gives up on the PAC leaves an entry in `late`; the PAC serves or drops it at any later time. A consumer that gives up on a handler disowns it, and the handler goes on.
* **Failures** are switched on by the constant `Faults`: `crash` (the isolate dies), `db` (an update or a read fails; most handlers do not look at the result), `config` (the fiscal configuration is refused), `enqueue` (the insertion of the retry fails and is only logged), `slow` (a handler needs more than fifteen seconds to reach the PAC), `stub` (test mode), `died` (a run of the queue ends after its claim). Timeouts, lost answers, PAC errors and late service are always on: they are the normal life of the protocol.
* **Death and budget** of a run of the queue are `Abandon`, never withheld before the row is claimed.

### Abstractions

* The payload, names and messages are left out, and so are amounts where only their equality matters. In `Settlement` an amount is a part of the total, since the caps add them.
* Documents are numbered; the id of a document at the PAC stands for its uuid as well. A stub's uuid is `MockDoc`.
* `rejected` stands for `expired` too: both are final and both allow a new request.
* A document that is `valid` without a uuid is left out: the classification takes it for a failed lookup, which the model has, and the handlers answer `PAC_INCOMPLETE`, which leaves the row `stamping` as a pending document does. A stamped payment always has an id of the PAC, so the branch of `cancel-payment-complement` for one without is left out; a stamped note may lack it (test mode).
* The mode and the key of an organization do not change while a document is under way.
* A claim that fails with a database error and one that answers 409 are one step where they leave the same state (`ClaimInvoice`, `ClaimCancellation`). A row lock that a statement takes and releases in one transaction is taken at once.
* The folio query of the reconciliation takes a limited number of payments at a time, in no order (`reconcile-stamping-invoices/index.ts:192`). Its fairness is stated per payment, which assumes that no more than that many wait for good.
* Back-off times are left out: a pending row may be selected at any time, which allows more than the code does.
* A cancelled document is never reopened by the SAT, and no handler, refresh or aborted request outlives the seventy-two hours after which a claim is old.
* In recurring billing a date is a number and a month has `MonthLength` days. All bookings have one organization, customer, currency and rate, so groups are formed by period alone. Which of the periods that have ended have a rate that is out of date is left open (`Ask` may drop any). The plan is one reading of the database, which the code assembles from several: each group is checked again by `create_recurring_invoice`, so the plan only proposes. The limit of twenty-four months to catch up is beyond the calendar of the instance.

### Timing assumptions

* `Quiet` (ReconcileStamping, ReconcileSettlement): ten minutes after the last write of an invoice or a note, or the claim of a payment, no handler and no other run is still between its claim and its last write. The edge platform ends an isolate after minutes and every call has a thirty-second limit. The mutants `QuietTooSoon` show what happens without it.
* `Stale` (RetryConsumer): a queue row is taken over fifteen minutes after its claim, when the run that claimed it and the request it made are over. The fault `slow` removes it; `stamping_faults` and `recovery` have that fault.
* `PacIsPrompt`: the PAC has served or dropped an aborted request, and indexed its documents, before the row is stale. `stamping`, `settlement` and `recovery` assume it; the other runs do not.
* `NotOvertaken` (FiscalRecovery): the same for a row that an operator has reserved. Nobody takes it over, or finds it expired, while the server that reserved it is alive: it waits eight seconds for the PAC, and a reservation lives two minutes. The fault `slow` removes it.
* `RaceWindow = FALSE` (RecurringState): nobody switches recurring billing, or cancels the booking, between the two reads of it by one save. It is an assumption about milliseconds, not about the code, and `recurring_switch` shows what happens without it. The types, and what section 4 says of deadlock, are proved without it.

## 3. Runs

Every passing run is exhaustive within its bounds. Symmetry is used in safety runs only, and only over processes that the model treats alike. `CHECK_DEADLOCK FALSE` wherever the system may come to rest: every row closed and every document settled is a normal end.

| run | instance | question | result |
|---|---|---|---|
| `queue` | a stamping and a cancellation row, two runs, 2 attempts, 1 deferral, 6 versions of a row | ownership, budget, closed rows, lost updates, refinement of `JobLease` | holds |
| `stamping` | one invoice, an edit, one request at a time, two rows, two runs of the queue, two of the reconciliation, 2 documents; reads and writes of the invoice may fail, no other platform fault | nothing is shared or lost when the network and the PAC misbehave | holds |
| `stamping_faults` | two requests, one row that is taken over while the request made for it is still at work, one run of the queue and one of the reconciliation; every fault, stubs, a PAC that indexes late, fairness | exclusion, one CFDI, identity; no invoice stays `stamping` | holds |
| `cancellation` | two runs of the queue, one request at a time, one refresh, payments, every fault | no wrong cancellation, no payment on a cancelled invoice, no row closed too early | holds |
| `settlement` | any two of two payments and two notes, two requests, one run of the reconciliation, 3 documents, cancellations, crashes, lost writes, refused configuration | numbers, caps, agreement of row and document, nothing forgotten | holds |
| `settlement_faults` | one payment or note, two requests, one run of the reconciliation, edits, deletion, cancellation, every fault, stubs, a PAC that indexes late, fairness | exclusion, one CFDI, identity; no row stays `stamping`, every folio arrives | holds |
| `settlement_cancellation` | a payment and a note, a queue row for each, two runs, two requests, one refresh, every fault but `died` | no wrong cancellation, no row closed too early, one request per complement | holds |
| `recurring` | two bookings, four days in two months, one request, one save by hand, one cancellation, a booking that changes, a day that passes | no day billed twice, true reports, no gap before a future period, no deadlock | holds |
| `recovery` | one invoice with its row, two requests of operators, a run of the queue and a request, servers that die, everything slower than its limits; no reconciliation | one holder of a row, no attempt that nobody granted, no saved document left alone unless an operator crossed a request | holds |
| `recovery_live` | one operator, one run, one request, no fault | is a saved document ever left alone | violated |
| `rep_refresh` | one request, one refresh, fairness | is the cancellation of a complement resolved by refreshing it | violated |
| `recurring_switch` | `recurring` with the window between two reads of a save | no day billed twice | violated |

### What the properties say

* `SingleOwner`, `ClosedRowsStay`, `AttemptBudget`, `AttemptsNeverLost`: the lease. `ImplementsLease` is the refinement: `CfdiRetryQueue` implements `JobLease` with `owner[j]` mapped to the run whose token is current.
* `SingleEmitter`: the claim, the lease of the queue and the age limit of the reconciliation together leave room for one request of a document between its claim and its last write. Everything unconditional in the handlers rests on this.
* `OneReconciler`: the claims of the reconciliation keep two runs off one row.
* `OneCfdi`: at most one document that is not failed, however often it is sent, timed out, served late, reverted and sent again. It rests on the idempotency key, which is the id of the row.
* `StampedIsFiscal`: what is `stamped`, and every saved uuid, is a valid document made for that row; `cancelled` means cancelled at the SAT.
* `FiscalIdentityStays`: a stamped row stays stamped (or is cancelled) and saved ids never change, although most writes are unconditional.
* `IssuedIsTracked`, of an invoice: while the row does not hold the id of a document that was issued, the row is `stamping`, a request is at work, or a retry is open. **It is checked with the fault `db` only**, and each of the others is a way to lose it, which TLC finds: with `crash` between the `error` a handler writes and the retry it inserts, or with a failed insertion (`enqueue`), a document behind a 5xx is known to nobody. With `config` the retry that would find it is closed because its organization is no longer set up; with `stub` the invoice is sent again in test mode and gets the id of the stub. With `slow` the last retry may find the invoice `stamping`, because of the very request a previous run made and stopped waiting for, closes as done, and the request then refuses to go on since its lease is gone. These limits are the code's.
* `IssuedIsTracked`, of a payment, is stronger, because that handler is: the row keeps the id or is `stamping`, and this holds with crashes and lost writes. Deletions are left out of the run (section 6).
* `InstalmentsDiffer`: the SAT never holds two live complements of an invoice with one number. `NotesWithinTotal`: the notes it holds never return more than the invoice. `ComplementMatchesRow`: amount and number of a stamped payment are those of its complement, when nobody edits it meanwhile (section 6).
* `StampingResolves`, `FolioArrives`: no row stays `stamping` for good; every stamped complement gets its folio.
* `CancelledAtSat`: the database says cancelled or accepted only if the SAT accepted, despite lost and unclear answers and refreshes that write what they learnt long before.
* `NoPaymentOnCancelled`: kept by the two triggers, not by the handler's check, which may be out of date by the time the SAT answers.
* `DoneReachedSat`: a row of the queue is `succeeded` only if a request reached the SAT; a 409 means a claim in the way, and the run confirms with a refresh.
* `OneRequest`: one request at a time works on a complement from its claim to its outcome, and the claim is in the row meanwhile. Notes are not promised it, because a refresh may write over a claim. That complements are owes something to the defect of section 5, since a refresh never gets as far as writing a payment: once its SELECT is repaired, its write needs a condition, or the property is lost. It is the one to run again after such a change.
* `BilledOnce`, `ReportedIsBilled`, `FutureExtendsPrefix`, `NoDeadlock`: recurring billing. `NoDeadlock` says more than TLC's deadlock check: some transaction can go on, even though users could still switch bookings and days could pass.

* `OneHolder`: of the runs of the queue and the reservations of operators that may believe a row is theirs, one at most can still write it. A takeover leaves the status and the revision of a job as they were, so it is the token in `updated_at` that keeps them apart.
* `AttemptsAreGranted`: the attempts of a row exceed its budget by no more than the retries operators scheduled and the reservations that ended without an answer. The last term is the code's: section 6.
* `IdentifiedIsFinished`: an invoice that has the id of a valid document is stamped, is `stamping` where its request or the reconciliation goes on with it, or, when its total was edited under its request, is set aside with its uuid for a person (`computeStampVariance`). It is what the documentation of the recovery says, and the code does not keep it: section 5.
* `UncrossedIsFinished`: the same of every invoice that no operator has *crossed*, that is, written while a request was stamping it, after a reservation made while it was being stamped. So the finding is the only hole, and the narrow one: operators who meet a takeover of their row, another operator, a server that dies or is late, lost writes, or a request that began after them do no harm. For that the completion rests on the snapshot: a row of the invoice that has changed since is not written.

Each property has a mutant: a change of one definition, of the kind a bug would make, under which the run finds a violation.

### Bounds

| bound | what it cuts | why it is enough |
|---|---|---|
| `Jobs`, `Consumers`, `Handlers`, `Reconcilers`, `Refreshers` | processes at a time | every conflict in the code is between two writers of a row; a third is a repetition of the second. `stamping` has one request at a time, with two rows and two runs; `stamping_faults`, which also checks liveness, has one row and one run, which may die and take its row again while the request it made goes on, and two requests. That two runs share no row is what `queue` checks. What section 4 proves holds for any number |
| `MaxVersion` | versions of a queue row: no claim once it is reached | 3 or 4 allow a claim, a takeover or a settled attempt, and another claim; 6 in `queue` and in `recovery`, where a reservation, its completion, a claim and its outcome take four. 2 in `settlement_cancellation`: a claim and a takeover, so the second attempt is that of the run that takes over |
| `MaxAttempts`, `MaxDeferrals` | budgets (5 and 10 in the code) | 1 and 2 reach both sides of each comparison |
| `Actions`, `MaxRetries`, `AttemptsLimit` | requests of operators, and the limits of what they may schedule (5 and 20 in the code) | two requests meet in every way two can; 1 retry is granted and the next refused |
| `MaxDocs` | documents at the PAC | one more than the rows of the instance may have |
| `MaxRows`, `Total` | payments and notes that are ever registered, and the parts of the total | 2 of any kind: each property relates two; with a total of 2 both fit, or one takes all |
| `MaxStamped` | documents stamped at the start of `settlement_cancellation` | 1: no step relates two documents except through the cap, whose answer is left open |
| `MaxStampingAttempts`, `MaxXmlAttempts`, `MaxMisses` | misses (10 in the code) | 2 has a miss that is not the last; 1 in `recovery`, which is not about them |
| `MaxEdits` | edits of the total of an invoice | 1 makes two totals differ |
| `UserMoves` | what users do besides registering and stamping | `settlement` leaves out edits and deletions, which its properties do not survive (section 6) |
| `LastDay`, `MonthLength`, `LastToday` | the calendar | two months of two days: a period that has ended, one that has begun, one of the future, and a partial one |
| `MaxInvoices`, `Requests`, `Savers`, `Cancellers`, `Changing` | invoices, transactions and bookings that change | the second creator of invoices is the save by hand, which may pick the very periods of the request; two requests exceed what TLC finishes, and the proofs hold for any number |

### Fairness

`FairSpec` (InvoiceStamping, Settlement) asks for what the platform gives. A handler that runs goes on, since every call it makes has a limit (weak fairness of `HandlerStep`). The PAC settles a document and serves or drops an aborted request. The reconciliation is started by `pg_cron` every five minutes: its skip is weakly fair, its selection, claim, lookup, write and download strongly fair where they may fail or be overtaken a number of times, but not for ever. Users, edits, crashes, lost writes and the queue have no fairness: `StampingResolves` and `FolioArrives` need none of them to help.

For cancellations no liveness property holds of the code alone: nothing asks again for a claim that a dead request left behind unless somebody opens the screen or a retry meets it. `LiveSpec` of `SettlementCancellation` therefore adds the most favourable users, who keep asking; that even they do not get an answer for a complement is the finding `rep_refresh`. For notes they do.

## 4. Proofs

`CfdiRetryQueue_proofs` proves, for any sets of rows and runs and any budgets, under `QueueAssumption` (the operations are those of the table, the budget is at least one, `NoJob` is neither a row nor a run):

| theorem | establishes |
|---|---|
| `TypeCorrect` | `Spec => []TypeOK` |
| `LeaseInvariant` | the inductive invariant |
| `QueueHasSingleOwner` | `[]SingleOwner` |
| `AttemptsStayInBudget` | `[]AttemptBudget` |
| `ClosedStayClosed` | `ClosedRowsStay`, an action property |
| `NoAttemptIsLost` | `AttemptsNeverLost`, an action property |
| `QueueImplementsLease` | `ImplementsLease`: every behaviour is one of `JobLease` |

The argument. None of the properties is inductive. A run may write from what it read before its claim; that this is safe is the meaning of the token. `LeaseInv` says so:

* `TypeOK`, `AttemptBudget`, and `AbsentUntouched` (a row not yet inserted is empty);
* `HoldsRealRow`: what a run holds was open when it read it, and is no newer than the row;
* `TokenNamesVersion`: if the run's token is the row's `updated_at`, the run knows the row exactly;
* `TokensUnique`: two runs that claimed the same row hold different tokens.

`updated_at` grows with every write, so a write makes all older tokens stale at once (`TokenNamesVersion`) and a claim returns a token nobody has (`TokensUnique`, with `HoldsRealRow` for "no newer"). `OwnerKnowsRow` then gives that the counters an owner writes are the row's own, from which the budget, the closed rows and the counted attempts follow; `OutcomeSettles` reduces the ten outcomes of a run to one guarded write with a good patch, so each theorem has one case for all of them. For the refinement a step maps to `Create`, `Take`, `Finish`, `Vanish` or a stutter.

`InvoiceStamping_proofs` proves, for any invoices, requests, rows, runs and documents, every combination of faults and a PAC that is prompt or not, under `StampingAssumption` (which contains `QueueAssumption`; the rest says that every row belongs to an invoice, that runs of the queue and of the reconciliation are different processes, and what the bounds and marks are):

| theorem | establishes |
|---|---|
| `StampingImplementsQueue` | every behaviour is, on `queue` and `hold`, one of `CfdiRetryQueue` |
| `StampingKeepsOwner` | `[]Queue!SingleOwner`, which follows |
| `StampingTypeCorrect` | `[]TypeOK` |
| `OneEmitterPerInvoice` | `[]SingleEmitter` |
| `OneReconcilerPerInvoice` | `[]OneReconciler` |

The argument. Nothing but the column `cfdi_status` keeps two requests apart, and requests, runs of the queue and runs of the reconciliation all write it, so the invariant `Exclusive` says what each of them may believe:

* `EmittersMark`: while a request is between its claim and its last write, the invoice is `stamping`. A claim asks for another status, so it finds no request at work.
* `CyclesAlone`: an invoice that a run of the reconciliation has claimed is `stamping` and has no request at work; one it has selected and whose reading is still current has, besides, no other run at work. So the run may write, and revert the invoice, without leaving a request behind.
* `ReadersUnmarked`: a run of the queue whose reading is current read `pending` or `error`. What it recovers, it saves on condition of that reading (`StillAsRead`), so it never writes under a request.

Each is needed to prove the others, and `SingleEmitter` with `OneReconciler` by themselves are not inductive. Two lemmas carry most steps: `CalmStep` (a step that starts nothing and leaves the status of invoices at work alone) and `LastWrite` (a process that writes a status and leaves). What remains are the four steps that start something: a claim, the reading of a consumer, the selection and the claim of the reconciliation. The timing assumption `Quiet` enters in exactly one place, the selection (`SelectExclusive`). `StampingTypeCorrect` needs a link between two processes: a run of the queue works on a document if and only if it owns a row (`WorkOK`).

`InvoiceIdentity_proofs` continues it with the documents, under the same assumption:

| theorem | establishes |
|---|---|
| `InvoiceHasOneCfdi` | `[]OneCfdi` |
| `StampedInvoicesAreFiscal` | `[]StampedIsFiscal` |
| `FiscalIdentityIsKept` | `FiscalIdentityStays`, an action property |
| `IssuedCfdiAreTracked` | `[]IssuedIsTracked`, when `PacIsPrompt` and no platform fault but `db` happens |

The first three hold with every fault. The argument has two layers above `Exclusive`:

* `OwnDocs`: the PAC has one document per invoice (`OneDocument`), failed ones included, since the idempotency key is the invoice; whatever document a request is about to record, or a run of the queue to save, is that of its invoice, and valid when it will be stamped (`RequestDocs`, `RunDocs`).
* `Identity`: the ids in a row are those of this document (`RowsIdentified`). Most writes do not look at the row, so that they do not replace an id is a fact about what their author has seen: a claim found no uuid, a current reading of the queue found no id, and a run of the reconciliation that may write has read the ids the row still has (`Observers`).

`IssuedIsTracked` is not inductive in any simple way: the document may hide behind a 5xx, and what leads to it is a row of the queue, whose only run may be about to send the invoice again. Its hypotheses are those of the run `stamping`; section 3 says how each of the other faults defeats it. Besides the invariants above it takes

* `Leases`: a request made by a run, and not yet sent, still has the lease of that run (`Leased`), because nobody takes a row over from a live run (`Untaken`, and `Versions`: no run knows a version its row has not reached). So it does not stop at its lease check after the run has counted on it.
* `DocFacts`: every document is indexed, an aborted create waits while the row is `stamping` (`LateWaits`), a request that was refused for good has no document behind it (`RefusedBlank`), a uuid comes with an id, and a run closes a row only after the id was saved (`CloseSaved`).
* `Carried`: if an unmarked row hides a document (`Hidden`), a request is about to enqueue a retry for it, or one of its rows is a `Carrier`: open, and not at the point of sending anything, so that its next lookup finds the document, which is indexed. `Wrote` lists the writes that can hide one at all; only a transient refusal does, and that one goes on to enqueue.

`InvoiceCancellation_proofs` proves, under `CancellationAssumption` and for any number of requests, refreshes, runs and rows:

| theorem | establishes |
|---|---|
| `CancellationImplementsQueue` | every behaviour is, on `queue` and `hold`, one of `CfdiRetryQueue` |
| `CancellationKeepsOwner` | `[]Queue!SingleOwner` |
| `CancellationTypeCorrect` | `[]TypeOK` |
| `CancelledHasNoPayment` | `[]NoPaymentOnCancelled` |
| `CancelledOnlyAtSat` | `[]CancelledAtSat` |
| `DoneCancellationsReachedSat` | `[]DoneReachedSat` |

The argument. `NoPaymentOnCancelled` is inductive together with the types: every write of the status passes through the trigger, and so does every payment (`RowsOK` in `DocInv`). `CancelledAtSat` is not: a request writes an acceptance some steps after it was told, and a refresh writes what it read before others changed the row. `Told` adds that whatever acceptance a request is about to record, and whatever acceptance a refresh holds, as what it read or as what it will write, is backed by the SAT. It stays true because the SAT does not take an acceptance back (`SatGrows`), which is the abstraction named in section 2, and because a write by anybody else cannot make what a process was told false.

`DoneReachedSat` closes a chain of three processes: the SAT, the request that asked it, and the run of the queue that waited for the request and closed the row. `Paired` links the last two: a request that answers to a run is the one this run waits for, about the document of its row. `Heard` says that an `ok` is given only after the SAT had the request. A 409 is no `ok`: `DoneCancellationsReachedSat` needs no word about claims.

`SettlementCancellation_proofs` proves the same, under `CancelAssumption`, of complements and notes, and all the safety properties of their run, with every fault:

| theorem | establishes |
|---|---|
| `RetriesImplementQueue` | every behaviour is, on `queue` and `hold`, one of `CfdiRetryQueue` |
| `RetryHasOneOwner` | `[]Queue!SingleOwner` |
| `SettlementCancellationTypeCorrect` | `[]TypeOK` |
| `ComplementHasOneRequest` | `[]OneRequest` |
| `CancelledDocumentsAtSat` | `[]CancelledAtSat` |
| `DoneRetriesReachedSat` | `[]DoneReachedSat` |

The argument. `OneRequest` carries its own reason: whoever works on a complement has the claim, `stamped` and `pending`, in the row, and every other step that writes the row asks for another value or is that of the worker who leaves (`AloneStays`, `AloneEnds`). The proof shows what the property owes to the defect of section 5: the case of a refresh is closed by the fact that it never reads a payment. `Told` joins the other two, since one fact answers both: what a request is about to record, or has reported, and every acceptance a refresh carries, came from the SAT (`ToldRequest`, `ToldRefresh`). `Paired` links run and request as above.

`Settlement_proofs` proves, under `SettlementAssumption`, for any payments and notes (finitely many of each), requests, runs and documents, all the safety properties of the runs `settlement` and `settlement_faults`; unless the table says otherwise, with every fault and every move of the users:

| theorem | establishes |
|---|---|
| `SettlementInvariant` | the inductive invariant |
| `SettlementIsTyped` | `[]TypeOK` |
| `RowHasOneEmitter` | `[]SingleEmitter` |
| `RowHasOneReconciler` | `[]OneReconciler` |
| `RowHasOneCfdi` | `[]OneCfdi` |
| `StampedRowsAreFiscal` | `[]StampedIsFiscal` |
| `IdentityStays` | `FiscalIdentityStays`, an action property |
| `PaymentsAreFollowed` | `[]Followed`, the second invariant, when `PacIsPrompt` |
| `ComplementsAreTracked` | `[]IssuedIsTracked`, when `PacIsPrompt` and payments are not deleted |
| `InstalmentNumbersDiffer` | `[]InstalmentsDiffer`, under the same hypotheses |
| `ComplementsMatchRows` | `[]ComplementMatchesRow`, when `PacIsPrompt` and payments are not edited |
| `CreditNotesWithinTotal` | `[]NotesWithinTotal`, when notes are neither edited nor deleted |

The argument. The writes of these handlers look at little or nothing, so everything rests on who may be writing. `SettlementInv` says:

* `SlotFacts`: from its claim to its last write a request finds its row `stamping` and without a uuid, or deleted; what it is about to record is a document of that row.
* `CycleFacts`: a run of the reconciliation whose token is good has read the ids the row still has.
* `TokenTaken`: a run that claimed a row has taken the token from every other run, which has then only selected it.
* `RowFacts`: the ids in a row are those of a document made for it, and a uuid that of one the SAT has had.
* `OneDocument`: the PAC keeps one document per idempotency key, failed ones included.

`SingleEmitter` is a conjunct, for it is what lets a write by one process leave alone what the others believe. Three lemmas carry the steps: `RowStep` (a step that writes one row), `ClaimStep` (one that gives a row to a request) and `RunStep` (one of a run). `Stays` is proved along with the invariant for every step, and `IdentityStays` follows. `Quiet` is used in the selection and nowhere else, and it is the only assumption about time.

The three properties of the run `settlement` that relate a payment to the PAC are proved from a second invariant, `Followed`, under the hypotheses of that run; section 6 says why edits and deletions would break them. Its heart is that a create call which was given up, and may still be served, keeps everybody from the payment until it is: the payment stays `stamping` and no request and no fresh reading is on it (`PaymentFacts`). So a payment that can be claimed has no document, and what the PAC knows or may still learn of a payment is what the row says (`ContentFacts`). For the numbers, `NumbersApart` speaks of every number in use, by a document, by a request that has told it or by one that may still arrive: the preparation looks for the next number among the rows alone, and the rows know all of them. `Listed` is what a prompt PAC gives the reconciliation.

`SettlementIsTyped` and `CreditNotesWithinTotal` speak of sums over all payments or notes, which are folds over a set. What a fold does when one member changes is an induction over data. The library's induction theorems cannot be used with the installed provers, but a smallest counterexample can: among the finite subsets for which a fact fails there is a minimal one, since strict inclusion is well founded on them. So a sum is compared with the number of its units, the pairs of a row and a unit of its amount (`SumIsUnits`, `UnitsSum`), and what is needed of sums (`SumsCompared`) is what cardinalities give. This is why the two sets are assumed finite.

`Ranged` says of every column and of what every process carries that it keeps its range: no balance becomes negative, no sum exceeds the total, no number or counter leaves its bound. `NotesHeld` is the reason why the SAT never holds notes for more than the invoice. `NotesCapped`: the notes that were drafted fit in the total, which is what the trigger checks. `NotesTold`: what a request is about to send, what an aborted call may still bring and what the PAC has of a note is the amount of its row. And `OneDocument` of the first invariant: at most one document per note counts. An edit of a note that may have a document, or its deletion, breaks `NotesTold` or `NotesStand`, and with either move TLC finds notes at the SAT for more than the invoice; the code allows both, which is why the hypothesis excludes them (section 6).

`RecurringInvoices_proofs` proves, for any bookings, calendar, contracts and number of requests, saves and cancellations, under the named assumptions of `RecurringState`, the first four of them when `~RaceWindow`:

| theorem | establishes |
|---|---|
| `BillingInvariant` | the inductive invariant |
| `DaysBilledOnce` | `[]BilledOnce` |
| `ReportsAreBilled` | `[]ReportedIsBilled` |
| `FutureFollowsCoverage` | `FutureExtendsPrefix`, an action property |
| `RecurringIsTyped` | `[]TypeOK` |
| `NobodyWaitsInCircle` | among any transactions there is one that waits for none of them |
| `SomebodyHasItsLocks` | while a transaction is open, one of those that are finds every lock its next step asks for |

The argument. What a transaction has checked holds at its commit because of the locks it keeps until then. In `BillingInv`, `BillerHolds` says that whoever is past its checks has the advisory locks of its bookings, and their rows when it is about to insert. `Decided` says that nothing then overlaps what it will insert and that a future period has no gap before it: nobody else inserts for those bookings, since he would need the same advisory lock, and nobody cancels what the future period rests on, since `CancellerHolds` gives a cancellation the advisory locks of the recurring bookings as well. `Checked` is about the save by hand, which looks for overlaps of a booking when it reads it as not recurring and leaves the rest to the trigger: both halves together cover every overlap only if the booking is the same in both readings, and this is the one use of `~RaceWindow`. `FoundStays` and `Reported` say that an invoice a request found and reported still covers the group.

The last three rest on a second invariant, `LockInv`, which needs no assumption about the race. It keeps rows, groups and days within the calendar, and says in `Held` which locks a transaction may have where it stands: advisory locks of its own bookings only, all those of lower ids than the one it waits for, and rows not before it has them all. Then whoever collects advisory locks waits for somebody who is to take a higher one, or who has all of his. Who has all of his waits for rows at most. Rows are held by saves that are past their checks, which wait only for the rows of a request about to commit, and by commits and cancellations, which wait for nobody: a cancellation takes its rows in one step and only tries the advisory locks. Hence no circle, and no chain without end. `SomebodyHasItsLocks` is what `NoDeadlock` says of the actions, without ENABLED.

`FiscalRecovery_proofs` proves, for any operators, rows, invoices and processes, every fault, and operators who act whenever they like, under `RecoveryAssumption` and `StampingAssumption`:

| theorem | establishes |
|---|---|
| `RecoveryInvariant` | the inductive invariant |
| `RecoveryTypeCorrect` | `[]RecoveryTypeOK`, the types of everything |
| `RowHasOneHolder` | `[]OneHolder` |
| `AttemptsStayGranted` | `[]AttemptsAreGranted` |
| `RecoveryKeepsEmitter` | `[]SingleEmitter`, with operators |
| `RecoveryKeepsOneCfdi` | `[]OneCfdi`, with operators |
| `IdentifiedIsTraced` | `[]Finishing`, the invariant of what follows |
| `UncrossedStaysFinished` | `[]UncrossedIsFinished` |
| `RecoveryKeepsFiscal` | `[]StampedIsFiscal`, with operators, when no request runs in test mode |
| `RecoveryKeepsIdentity` | `FiscalIdentityStays`, with operators, under the same condition |
| `RecoveryKeepsLease` | every behaviour is, with the holder of a row as its owner, one of `OperatedLease` |

The argument. The invariant of the queue cannot be used again: it holds because runs are the only writers, and it knows the counters of a row from what a run read, which an operator changes. What survives is weaker and enough. `TokensGiven`: whatever token a run or a reservation holds was given by its row, so it is no newer than the row. `TokensDiffer`: no two of them hold the same token of the same row. Every token is handed out by a write, which makes the row newer than all that were given before it (`ClaimKeeps`, `BeginKeeps`); every other step hands out none (`NoTokenGiven`). Whoever holds the current token is then alone. No step of the proof speaks of time: the takeover of a live operator, and the release of a reservation that is still under way, are among the steps, and `NotOvertaken` is not used.

`AttemptsStayGranted` cannot follow the queue's argument for its budget either. `RowsWithin` gives each row the budget `MaxAttempts` plus the reservations that granted an attempt or may have (`Granted`), and says that an open row is strictly below it; `CountersRead` says that a run whose reading is as new as the row knows its counter, so that a run that was overtaken, and writes an older one, is stopped by its token. A takeover of a stale reservation makes an open row of one that was exhausted; it is paid by the reservation, which stays granted.

`Exclusive` and `OwnDocs` survive operators (`RecoveryKeepsEmitter`, `RecoveryKeepsOneCfdi`): a save looks at the snapshot, and a scheduled retry only gives the queue a row to read again.

`UncrossedStaysFinished` has no hypothesis: edits, every fault and operators in the middle of a stamping are among its steps. What it rests on is that a row nobody crossed is made `error` only by somebody who knows it to have no living document, or who set it aside. `Traced` says so: such a row, when it is open, has no id, or that of a failed document, or was set aside; a request that may still refuse has claimed a row like that, as long as nobody crossed it; who holds a document as failed is right; and an id saved behind a run of the reconciliation is one its search finds. `Snapshots`: an operator whose snapshot is current knows the id of the row, and nobody emits for it unless somebody did when he began; that is where a write of his falls into the two kinds which `crossed` tells apart. `Untouched` is about `SetAside`: an invoice whose total was never edited has no request and no document with another total, so that a difference of totals is always the trace of an edit. Without the exception for what was crossed the statement is false, which is the run `recovery_live`.

`RecoveryKeepsFiscal` and `RecoveryKeepsIdentity` carry the invariant `Identity` of `InvoiceIdentity_proofs` through the steps of operators. `Known` is what this takes: the id an action read from the row and the document its lookup found are those of the invoice, and a document found valid is valid. So a save writes ids the row has already, or the only ones it can get; and a save over a request that is recording its answer writes the same document. The one writer this argument does not cover is a stub, which is written without a condition and names no document of the PAC (section 6): the hypothesis says that there is none.

`RecoveryKeepsLease` is the refinement that `QueueImplementsLease` proves of the queue alone. The holder of a row (`HolderOf`) is the run or the reservation whose token is current; `TokensDiffer` makes it unique, and `TokensGiven` makes every write of a row let go of all who held it before (`WrittenLetsGo`). A reservation maps to `Reserve`, a completion, and a release of a reservation that still counts, to `Finish` by the operator; a death of a server is no `Vanish`, since its reservation goes on. The steps of runs map as they did; that a claim takes an open row, which the queue's invariant says, is here `SelectedOpen`. This refinement is proved and has no run: evaluating the mapping at every step makes the exploration of `recovery` too slow to keep.

Only model-checked, and why:

* `NoDeadlock` of recurring billing speaks of ENABLED, which the prover does not reason about. What it says of locks is `SomebodyHasItsLocks`; that a step which finds its locks free has no other guard in the way is left to TLC.
* All liveness (`StampingResolves`, `FolioArrives`, and the finding `rep_refresh`), since fairness needs ENABLED.

## 5. Findings

Each is a run whose one property is what a comment or document says; `PROJECT.json` quotes it.

* **`rep_refresh`** (`refresh-cancellation-status/handler.ts:96`). The refresh reads a payment with a SELECT that names `updated_at`. The table `payments` has no such column, so the query fails and the request ends with 404 before it asks the SAT. A cancellation of a complement whose answer was lost stays `pending` for good: its claim does not expire, and the comment that leaves it for the refresh to resolve counts on a refresh that cannot read it.
* **`recurring_switch`** (`migrations/0121`, line 76). A save by hand reads twice whether a booking is recurring: once to look for the same period, and once, in the trigger of the link, to look for overlaps. When recurring billing is switched off (or the booking cancelled) in between, a booking that is not the main one of the invoice is checked by neither, and days that are billed are billed again.
* **`recovery_live`** (`migrations/0099`, line 264). A reservation asks whether the row of the queue is being processed, not whether the invoice is being stamped. In the run the row waits after a transient error, and a user sends the invoice again. The PAC creates the document and answers 5xx. Before the request writes that down an operator reserves the row, finds the document and saves it with its id and uuid, with the status `stamping` (line 339), which the invoice had anyway. The request then writes `error` with no condition but the id (`stamp-cfdi/handler.ts:383`). The invoice has the id and uuid of a valid CFDI and is `error`: users get a 409, the reconciliation does not select it, a retry of the queue closes as already done. `docs/platform-fiscal-recovery.md` (line 19) says that it stays `stamping` until its files are recovered, and `supabase/tests/rls/platform_fiscal_recovery.sql:113` counts on the reconciliation to do it. No fault, crash or delay is needed. A repair would refuse a reservation of an invoice that is `stamping` and not old enough for the reconciliation, or condition the write of the handler on the row it claimed.

## 6. Weaknesses

What follows was met while modelling. The code lets it happen, each in a way its comments did not intend; none has a run of its own, and the runs above state their properties so that they hold in spite of it, or leave out the move that leads to it.

Retry queue and invoices:

* `process-cfdi-retry-queue/index.ts:806`. The path of an invocation that threw leaves the deferral counter alone, so deferrals that are not consecutive exhaust a row.
* `stamp-cfdi/handler.ts:528`. The stamped total is compared with the total read before the claim; an edit in between leaves a stamped invoice with a CFDI of another amount.
* `stamp-cfdi/handler.ts:471`. A failed download leaves an invoice `stamped` without XML and without the mark that would bring it back.
* `stamp-cfdi/handler.ts:135`. The claim does not ask for a null `facturapi_invoice_id`, so that a request that read the row before can send a document again; the idempotency key makes it harmless.
* `stamp-cfdi/handler.ts:391`. The handler enqueues a new row also when the queue made the request: rows of one invoice multiply while the PAC answers 5xx.
* `reconcile-stamping-invoices/index.ts:468`. `stamping_attempts` survives the stamping it was about: an invoice stamped again is reverted at its first miss.
* `cancel-cfdi/handler.ts:143`. The handler asks for payments, then claims, then calls the SAT. A payment registered in between is not seen; the SAT cancels, and the trigger then refuses the final update, so the row stays open with its payment while the CFDI is cancelled.
* `refresh-cancellation-status/handler.ts:249`. A refresh writes the outcome of one request over the claim of the next. The claim no longer keeps a further request out, and two are at the SAT at once.

Complements and notes:

* `prepare_payment_complement` (line 55). The prior balance subtracts every other payment of the invoice, also those registered later or without a complement: stamped in another order, balances do not chain.
* `prepare_payment_complement` (line 95). The number is saved before the PAC is called and a refused request leaves it in the row, where a unique index keeps it from the next payment, which is given the same one and cannot be prepared.
* `claim_payment_rep_stamping` (line 35). It lists `cancelled` among the states it takes and asks for null ids, which a cancellation keeps: a payment whose complement was cancelled is never stamped again.
* Guards of payments with a stamped complement (lines 45 and 71 of their migration). They look at `stamped` alone: while the complement is being issued the payment can be edited, and then differs from its complement, or deleted, which leaves a valid complement without a payment. This is why `settlement` has neither move.
* Guards of a note (`guard_credit_note_stamping_snapshot`, line 246 of its migration, and `guard_credit_note_delete`, line 14). The first fixes the content while the note is `stamping`, the second lets go of a note that has no uuid, also while it is being issued. A note whose answer was a 5xx is in `error`: when its amount is lowered, the next note gets the room, and the document that was issued is found and recorded with the old amount. A note deleted while its request is at the PAC leaves its document behind and its room free. Either way the SAT may hold notes for more than the invoice.
* The caps of payments and of notes (`migrations/0103`, line 354). Each counts what the other side has stamped, not what it is stamping: a complement and a note under way together end stamped for more than the invoice.
* The same trigger (line 369) runs also on the write that records a document the SAT already has: a complement stamped meanwhile keeps the note `stamping` for good, and every run of the reconciliation fails on it. `settlement` reaches the refusal, in the request and in the reconciliation; `StampingResolves` is checked in `settlement_faults` with one payment or note at a time, where no complement takes the room, and says nothing about it.
* `reconcile-stamping-invoices/index.ts:1171`. A note that was given up, edited and sent again under its key is finalized without a comparison of totals.

Platform recovery:

* `stamp-cfdi/handler.ts:298`. In test mode without a key, an operator may save the id and the uuid of a document between the claim of a request and its stub, whose uuid is written over the real one without a condition; the row then has the id of one document and the uuid of none. It is the same crossing as in the finding `recovery_live`, and the reason for the hypothesis of `RecoveryKeepsFiscal` and `RecoveryKeepsIdentity`.
* `process-cfdi-retry-queue/index.ts:266`. A row that has been `processing` for fifteen minutes is taken over whatever it was before. When the server of an operator died, that may be a row that was `exhausted` or `succeeded`, and it is tried again, although line 318 of the migration says that a question without an answer gives nothing back to the queue. This is the last term of `AttemptsAreGranted`.
* `migrations/0099`, lines 246 and 257. The release of an expired reservation gives a row that was `pending` back as `pending`; its completion makes it `exhausted` (line 320). What becomes of a question without an answer depends on whether its server lived to say so.

Recurring billing:

* `create_recurring_invoice` updates `last_billed_date`, which advances `bookings.updated_at`; that is what the handler compares to tell whether a rate changed after a period began. Billing one period thus makes the earlier ones that remain look stale, and they are skipped. It fails on the safe side.
* Rates are those of the plan: one that changes before the transaction is billed as it was.
* A booking extended after its last, partial month was billed leaves the rest of that month in `period_overlap_review`, for a person to settle.

## 7. Plan

Done: the queue; stamping and cancellation of invoices; stamping and cancellation of payment complements and credit notes; recurring billing; platform recovery of stampings; proofs of everything but what section 4 lists as only model-checked.

Next, in this order:

1. **Platform recovery of cancellations** (migration 0099, lines 350-388 and 393): the same reservations on rows that cancel an invoice, a complement or a note, on top of `InvoiceCancellation` and `SettlementCancellation`.
2. **Bookings, deliveries and fleet**: states kept by triggers across tables; recurring maintenance with them.
3. **Storage prefix migration**: its ledger and its restarts.

Proofs: the hypotheses of the theorems that have some, and which of them can be weakened without stating something false. `IssuedCfdiAreTracked` under `slow`, with as many attempts as the row has requests, is a candidate.
