------------------------------ MODULE CancelCfdi ------------------------------
(***************************************************************************)
(* Cancellation of a stamped invoice: the edge functions cancel-cfdi and   *)
(* refresh-cancellation-status, cut at their awaits, the triggers that     *)
(* guard the row of the invoice, its payments, and the SAT behind the PAC  *)
(* (external).  Rows of the retry queue belong to CfdiRetryQueue.          *)
(***************************************************************************)
EXTENDS Integers, FiniteSets

CONSTANTS Jobs, Consumers, NoJob, OpOf, MaxAttempts, MaxDeferrals, MaxVersion,
          Invoices,
          Handlers,    \* requests of cancel-cfdi that may be in progress
          Refreshers,  \* requests of refresh-cancellation-status
          DocOf,       \* the invoice each row of the queue is about
          User,        \* the caller of a request nobody waits for
          NoInvoice, NoHandler,
          Faults       \* kinds of failure that may happen

VARIABLES queue, hold,
          inv,      \* inv[i]: the columns of invoice i that matter here, and its payments
          req,      \* req[h]: a request of cancel-cfdi
          refresh,  \* refresh[f]: a request of refresh-cancellation-status
          sat,      \* sat[i]: what the PAC reports of the cancellation of i
          late      \* invoices with an aborted request the PAC may still serve

Queue == INSTANCE CfdiRetryQueue

ASSUME CancellationAssumption ==
    /\ DocOf \in [Jobs -> Invoices]
    /\ Queue!QueueAssumption
    /\ OpOf \in [Jobs -> {"cancel"}]
    /\ User \notin Consumers /\ NoInvoice \notin Invoices /\ NoHandler \notin Handlers
    /\ Faults \subseteq {"crash", "config", "db", "enqueue"}

documentVars == <<inv, req, refresh, sat, late>>

\* 'rejected' stands for 'expired' as well: both end a request and allow another.
Cancellation == {"none", "pending", "accepted", "rejected"}

\* known: the PAC has a document in live mode; others are stubs of the test mode.
\* aged: cancellation_requested_at is more than seventy-two hours ago.
Invoice == [known: BOOLEAN, status: {"stamped", "cancelled"}, cancel: Cancellation,
            aged: BOOLEAN, paid: BOOLEAN]

FreeSlot == [pc |-> "idle", inv |-> NoInvoice, caller |-> User, job |-> NoJob,
             token |-> 0, kind |-> "none"]

Resting == [pc |-> "idle", inv |-> NoInvoice, job |-> NoJob, token |-> 0,
            prior |-> "none", aged |-> FALSE, next |-> "none"]

Slot == [pc: {"idle", "claim", "config", "sent", "enqueue", "release", "finish", "answered"},
         inv: Invoices \cup {NoInvoice}, caller: Consumers \cup {User},
         job: Jobs \cup {NoJob}, token: Nat,
         kind: Cancellation \cup {"ok", "progress", "refused", "error", "changed",
                                  "unavailable"}]

Query == [pc: {"idle", "asked", "write"}, inv: Invoices \cup {NoInvoice},
          job: Jobs \cup {NoJob}, token: Nat, prior: Cancellation, aged: BOOLEAN,
          next: Cancellation]

DocumentsOK ==
    /\ inv \in [Invoices -> Invoice]
    /\ req \in [Handlers -> Slot]
    /\ refresh \in [Refreshers -> Query]
    /\ sat \in [Invoices -> Cancellation]
    /\ late \subseteq Invoices

InitDocuments ==
    /\ inv \in [Invoices -> [known: BOOLEAN, status: {"stamped"}, cancel: {"none"},
                             aged: {FALSE}, paid: {FALSE}]]
    /\ req = [h \in Handlers |-> FreeSlot]
    /\ refresh = [f \in Refreshers |-> Resting]
    /\ sat = [i \in Invoices |-> "none"]
    /\ late = {}

-----------------------------------------------------------------------------
(* Payments, and the guards of the database.                               *)

\* enforce_payment_within_invoice_total, under a lock of the invoice.
RegisterPayment(i) ==
    /\ inv[i].status # "cancelled" /\ ~inv[i].paid
    /\ inv' = [inv EXCEPT ![i].paid = TRUE]
    /\ UNCHANGED <<queue, hold, req, refresh, sat, late>>

DeletePayment(i) ==
    /\ inv[i].paid
    /\ inv' = [inv EXCEPT ![i].paid = FALSE]
    /\ UNCHANGED <<queue, hold, req, refresh, sat, late>>

\* Mutant of Cancellable: the trigger trusts the check the handler made.
CancellableAnyway(i) == TRUE

\* assert_invoice_cancellable, also run by the trigger guard_invoice_cancellation.
Cancellable(i) == ~inv[i].paid

\* The UPDATE that records what the SAT said.  The trigger refuses to cancel an
\* invoice that has payments; otherwise the UPDATE has no condition.
Refused(i, status) ==
    status = "accepted" /\ inv[i].status # "cancelled" /\ ~Cancellable(i)

Record(i, status) ==
    inv' = IF Refused(i, status) THEN inv
           ELSE [inv EXCEPT ![i].cancel = status,
                            ![i].status = IF status = "accepted" THEN "cancelled" ELSE @]

-----------------------------------------------------------------------------
(* The SAT.                                                                *)

\* A request that arrives: a document under way or cancelled stays so.
Served(i) ==
    IF sat[i] = "accepted" THEN {"accepted"}
    ELSE IF sat[i] = "pending" THEN {"pending"}
    ELSE {"pending", "accepted", "rejected"}

Reaches(i) == \E s \in Served(i) : sat' = [sat EXCEPT ![i] = s]

SatDecides(i) ==
    /\ sat[i] = "pending"
    /\ \E s \in {"accepted", "rejected"} : sat' = [sat EXCEPT ![i] = s]
    /\ UNCHANGED <<queue, hold, inv, req, refresh, late>>

SatServesLate(i) ==
    /\ i \in late
    /\ late' = late \ {i}
    /\ UNCHANGED sat \/ Reaches(i)
    /\ UNCHANGED <<queue, hold, inv, req, refresh>>

\* Seventy-two hours pass; nothing in progress lasts that long.
Age(i) ==
    /\ inv[i].cancel = "pending" /\ ~inv[i].aged
    /\ \A h \in Handlers : req[h].inv # i
    /\ \A f \in Refreshers : refresh[f].inv # i
    /\ i \notin late
    /\ inv' = [inv EXCEPT ![i].aged = TRUE]
    /\ UNCHANGED <<queue, hold, req, refresh, sat, late>>

-----------------------------------------------------------------------------
(* cancel-cfdi                                                             *)

\* assertFiscalRetryContext: an internal call still holds the lease of its row.
LeaseCurrent(job, token) ==
    job # NoJob => queue[job].status = "processing" /\ queue[job].updatedAt = token

Serves(h, pc) == req[h].pc = pc

GoTo(h, pc) == req' = [req EXCEPT ![h].pc = pc]

\* The response: 2xx, the two kinds of 409, or another error.
Answer(h, kind) ==
    req' = [req EXCEPT ![h] = IF @.caller = User THEN FreeSlot
                              ELSE [@ EXCEPT !.pc = "answered", !.kind = kind]]

\* The handler reads the invoice and asks whether it has payments.  The content
\* of a request may be refused too (motive, substitution).
CancelRequest(h, i, caller, job, token) ==
    LET verdicts == IF inv[i].status # "stamped" THEN {"error"}
                    ELSE IF ~Cancellable(i) THEN {"refused"} ELSE {"none", "error"}
    IN /\ Serves(h, "idle")
       /\ \E v \in verdicts :
             /\ v # "none" => caller # User
             /\ req' = [req EXCEPT ![h] =
                   [pc |-> IF v = "none" THEN "claim" ELSE "answered", inv |-> i,
                    caller |-> caller, job |-> job, token |-> token, kind |-> v]]

UserCancels(h, i) ==
    /\ CancelRequest(h, i, User, NoJob, 0)
    /\ UNCHANGED <<queue, hold, inv, refresh, sat, late>>

\* The claim: one request at a time, also after one that was rejected or expired.
ClaimCancellation(h) ==
    LET i == req[h].inv
    IN /\ Serves(h, "claim")
       /\ IF inv[i].status = "stamped" /\ inv[i].cancel \in {"none", "rejected"}
          THEN /\ inv' = [inv EXCEPT ![i].cancel = "pending", ![i].aged = FALSE]
               /\ GoTo(h, "config")
          ELSE Answer(h, "progress") /\ UNCHANGED inv
       /\ UNCHANGED <<queue, hold, refresh, sat, late>>

\* releaseCancelClaim, conditioned on a claim that is still 'pending'; its result
\* is not looked at.
Release(i) ==
    \/ inv' = IF inv[i].cancel = "pending" THEN [inv EXCEPT ![i].cancel = "none"] ELSE inv
    \/ "db" \in Faults /\ UNCHANGED inv

\* The configuration is refused, the key or the PAC's id is missing in live mode,
\* or an internal call lost its lease.
RefuseConfig(h) ==
    /\ Serves(h, "config")
    /\ \E kind \in {"error", "changed", "unavailable"} :
          /\ kind # "error" => req[h].job # NoJob
          /\ \/ "config" \in Faults
             \/ kind = "changed" /\ ~LeaseCurrent(req[h].job, req[h].token)
          /\ Answer(h, kind)
    /\ Release(req[h].inv)
    /\ UNCHANGED <<queue, hold, refresh, sat, late>>

\* An invoice without a document of the PAC, in test mode, counts as accepted.
\* From here on, as below, the row of the queue and its token are not read again.
CancelStub(h) ==
    /\ Serves(h, "config")
    /\ LeaseCurrent(req[h].job, req[h].token)
    /\ ~inv[req[h].inv].known
    /\ req' = [req EXCEPT ![h].pc = "finish", ![h].kind = "accepted",
                          ![h].job = NoJob, ![h].token = 0]
    /\ UNCHANGED <<queue, hold, inv, refresh, sat, late>>

SendToSat(h) ==
    /\ Serves(h, "config")
    /\ LeaseCurrent(req[h].job, req[h].token)
    /\ inv[req[h].inv].known
    /\ req' = [req EXCEPT ![h].pc = "sent", ![h].job = NoJob, ![h].token = 0]
    /\ UNCHANGED <<queue, hold, inv, refresh, sat, late>>

\* Mutants of Understood: an answer that says nothing counts as an acceptance; the
\* PAC's own word, which the column does not admit, is recorded.
UnderstoodAnyhow(status) == IF status = "none" THEN "accepted" ELSE status
UnderstoodRaw(status) == IF status = "none" THEN "verifying" ELSE status

\* cancellationResult: what the answer says, "none" when it says nothing clear.
Understood(status) == status

\* The PAC answers, clearly or not.  An unclear answer leaves the claim in place.
SatAnswers(h) ==
    LET i == req[h].inv
    IN /\ Serves(h, "sent")
       /\ Reaches(i)
       /\ \E s \in {sat'[i], "none"} :
             LET status == Understood(s)
             IN IF status = "none" THEN Answer(h, "error")
                ELSE req' = [req EXCEPT ![h].pc = "finish", ![h].kind = status]
       /\ UNCHANGED <<queue, hold, inv, refresh, late>>

\* The PAC answers with an error: for good, before the SAT hears of it, or a
\* transient one, before or after.
SatRefuses(h) ==
    /\ Serves(h, "sent")
    /\ \/ GoTo(h, "release") /\ UNCHANGED sat
       \/ GoTo(h, "enqueue") /\ (UNCHANGED sat \/ Reaches(req[h].inv))
    /\ UNCHANGED <<queue, hold, inv, refresh, late>>

\* The thirty-second limit: the claim stays, and the PAC may have seen the request.
TimeOut(h) ==
    /\ Serves(h, "sent")
    /\ Answer(h, "error")
    /\ late' \in {late, late \cup {req[h].inv}}
    /\ UNCHANGED <<queue, hold, inv, refresh, sat>>

\* enqueueCfdiRetry, before the claim is released.
EnqueueRetry(h, j) ==
    /\ Serves(h, "enqueue")
    /\ DocOf[j] = req[h].inv
    /\ Queue!Enqueue(j)
    /\ GoTo(h, "release")
    /\ UNCHANGED <<inv, refresh, sat, late>>

EnqueueLost(h) ==
    /\ Serves(h, "enqueue")
    /\ "enqueue" \in Faults
    /\ GoTo(h, "release")
    /\ UNCHANGED <<queue, hold, inv, refresh, sat, late>>

ReleaseClaim(h) ==
    /\ Serves(h, "release")
    /\ Release(req[h].inv)
    /\ Answer(h, "error")
    /\ UNCHANGED <<queue, hold, refresh, sat, late>>

\* The result is recorded; a failed UPDATE is an error and keeps the claim.
FinishCancellation(h) ==
    LET i == req[h].inv
    IN /\ Serves(h, "finish")
       /\ \/ /\ Record(i, req[h].kind)
             /\ Answer(h, IF Refused(i, req[h].kind) THEN "error" ELSE "ok")
          \/ "db" \in Faults /\ UNCHANGED inv /\ Answer(h, "error")
       /\ UNCHANGED <<queue, hold, refresh, sat, late>>

CrashCancel(h) ==
    /\ "crash" \in Faults
    /\ req[h].pc # "idle"
    /\ req' = [req EXCEPT ![h] = FreeSlot]
    /\ late' \in {late, IF Serves(h, "sent") THEN late \cup {req[h].inv} ELSE late}
    /\ UNCHANGED <<queue, hold, inv, refresh, sat>>

CancelStep(h) ==
    \/ ClaimCancellation(h) \/ RefuseConfig(h) \/ CancelStub(h) \/ SendToSat(h)
    \/ SatAnswers(h) \/ SatRefuses(h) \/ TimeOut(h)
    \/ (\E j \in Jobs : EnqueueRetry(h, j)) \/ EnqueueLost(h)
    \/ ReleaseClaim(h) \/ FinishCancellation(h)

-----------------------------------------------------------------------------
(* refresh-cancellation-status                                             *)

Terminal == {"accepted", "rejected"}

\* The request reads the invoice: the status it will compare with.
RefreshRequest(f, i, job, token) ==
    /\ refresh[f].pc = "idle"
    /\ inv[i].known
    /\ refresh' = [refresh EXCEPT ![f] =
          [pc |-> "asked", inv |-> i, job |-> job, token |-> token,
           prior |-> inv[i].cancel, aged |-> inv[i].aged, next |-> "none"]]

UserRefreshes(f, i) ==
    /\ RefreshRequest(f, i, NoJob, 0)
    /\ UNCHANGED <<queue, hold, inv, req, sat, late>>

\* The configuration, the lease or the PAC fails, or the isolate dies.
RefreshFails(f) ==
    /\ refresh[f].pc # "idle"
    /\ refresh' = [refresh EXCEPT ![f] = Resting]
    /\ UNCHANGED <<queue, hold, inv, req, sat, late>>

\* Mutant of Refreshed: a request under way is taken for a cancellation.
RefreshedHasty(prior, aged, seen) == IF seen = "none" THEN prior ELSE "accepted"

\* The status to write: what the SAT reports, but never 'pending' over a status
\* that was final; without a report, an old claim is given back.
Refreshed(prior, aged, seen) ==
    IF seen = "none" THEN IF prior = "pending" /\ aged THEN "none" ELSE prior
    ELSE IF seen = "pending" /\ prior \in Terminal THEN prior
    ELSE seen

\* Nothing is written for a document that nobody ever cancelled.
AskSat(f) ==
    LET r == refresh[f]
        seen == sat[r.inv]
    IN /\ r.pc = "asked"
       /\ LeaseCurrent(r.job, r.token)
       /\ refresh' = [refresh EXCEPT ![f] =
             IF r.prior = "none" /\ seen = "none" THEN Resting
             ELSE [Resting EXCEPT !.pc = "write", !.inv = r.inv,
                                  !.next = Refreshed(r.prior, r.aged, seen)]]
       /\ UNCHANGED <<queue, hold, inv, req, sat, late>>

\* The UPDATE has no condition on what was read.
WriteRefresh(f) ==
    LET r == refresh[f]
    IN /\ r.pc = "write"
       /\ Record(r.inv, r.next) \/ ("db" \in Faults /\ UNCHANGED inv)
       /\ refresh' = [refresh EXCEPT ![f] = Resting]
       /\ UNCHANGED <<queue, hold, req, sat, late>>

RefreshStep(f) == AskSat(f) \/ RefreshFails(f) \/ WriteRefresh(f)
=============================================================================
