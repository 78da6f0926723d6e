-------------------------- MODULE InvoiceCancellation --------------------------
(***************************************************************************)
(* Requests of cancel-cfdi and refresh-cancellation-status with the        *)
(* retries of process-cfdi-retry-queue: the lease protocol of              *)
(* CfdiRetryQueue and what the consumer does with a row whose operation is *)
(* 'cancel'.                                                               *)
(***************************************************************************)
EXTENDS CancelCfdi

VARIABLE work  \* work[c]: how far run c of the queue is with its document

vars == <<queue, hold, inv, req, refresh, sat, late, work>>

NoWork == [step |-> "none", handler |-> NoHandler]

Work == [step: {"none", "read", "invoke", "await", "conflict", "check"},
         handler: Handlers \cup {NoHandler}]

WorkOK == work \in [Consumers -> Work]

TypeOK ==
    /\ Queue!TypeOK
    /\ DocumentsOK
    /\ WorkOK

Init ==
    /\ Queue!Init
    /\ InitDocuments
    /\ work = [c \in Consumers |-> NoWork]

-----------------------------------------------------------------------------
SubjectOf(c) == DocOf[hold[c].job]

Step(c, step) == work[c].step = step

StepTo(c, step) == work' = [work EXCEPT ![c].step = step]

Done(c) == work' = [work EXCEPT ![c] = NoWork]

\* The run no longer waits for the request it made.
Disown(c) ==
    req' = [h \in Handlers |->
              IF req[h].caller # c THEN req[h]
              ELSE IF Serves(h, "answered") THEN FreeSlot
              ELSE [req[h] EXCEPT !.caller = User]]

SelectRow(c, j) ==
    /\ Queue!SelectRow(c, j)
    /\ UNCHANGED <<documentVars, work>>

TakeRow(c) ==
    /\ Queue!Claim(c)
    /\ StepTo(c, "read")
    /\ UNCHANGED documentVars

SkipRow(c) ==
    /\ Queue!ClaimSkipped(c)
    /\ UNCHANGED <<documentVars, work>>

\* The organization of the document and its configuration are read.  A refused
\* configuration is an exception like any other, and counts as an attempt.
ReadDocument(c) ==
    /\ Step(c, "read")
    /\ \/ "db" \in Faults /\ Queue!Defer(c) /\ Done(c)
       \/ /\ "config" \in Faults
          /\ Queue!Defer(c) \/ Queue!GiveUpUncounted(c) \/ Queue!RetryThrown(c)
          /\ Done(c)
       \/ StepTo(c, "invoke") /\ UNCHANGED <<queue, hold>>
    /\ UNCHANGED documentVars

Invoke(c, h) ==
    /\ Step(c, "invoke")
    /\ Queue!Owns(c)
    /\ CancelRequest(h, SubjectOf(c), c, hold[c].job, hold[c].row.updatedAt)
    /\ work' = [work EXCEPT ![c].step = "await", ![c].handler = h]
    /\ UNCHANGED <<queue, hold, inv, refresh, sat, late>>

\* Mutant of Succeeded: a 409 counts as success, as it does for a stamping.
SucceededOnConflict(kind) == kind \in {"ok", "progress", "refused"}

\* invokeStampFn: what counts as success of a cancellation.
Succeeded(kind) == kind = "ok"

Collect(c) ==
    LET h == work[c].handler
        kind == req[h].kind
    IN /\ Step(c, "await")
       /\ req[h].caller = c /\ Serves(h, "answered")
       /\ \/ Succeeded(kind) /\ Queue!SucceedInvoked(c) /\ Done(c)
          \/ /\ ~Succeeded(kind)
             /\ \/ kind = "error" /\ Queue!RetryAnswered(c) /\ Done(c)
                \/ kind = "refused" /\ Queue!RefuseConflict(c) /\ Done(c)
                \/ kind = "changed" /\ Queue!GiveUpUncounted(c) /\ Done(c)
                \/ kind = "unavailable" /\ Queue!Defer(c) /\ Done(c)
                \/ kind = "progress" /\ StepTo(c, "conflict") /\ UNCHANGED <<queue, hold>>
       /\ req' = [req EXCEPT ![h] = FreeSlot]
       /\ UNCHANGED <<inv, refresh, sat, late>>

\* The fifteen-second limit; the request goes on without the run.
StopWaiting(c) ==
    /\ Step(c, "await")
    /\ Queue!RetryThrown(c)
    /\ Disown(c)
    /\ Done(c)
    /\ UNCHANGED <<inv, refresh, sat, late>>

\* A claim is in place: the run asks for a refresh, which may fail to start, and
\* does not wait for it longer than ten seconds.
AskRefresh(c) ==
    /\ Step(c, "conflict")
    /\ Queue!Owns(c)
    /\ StepTo(c, "check")
    /\ \/ \E f \in Refreshers :
             RefreshRequest(f, SubjectOf(c), hold[c].job, hold[c].row.updatedAt)
       \/ UNCHANGED refresh
    /\ UNCHANGED <<queue, hold, inv, req, sat, late>>

\* Mutant of Confirmed: a claim in place counts as a cancellation under way.
ConfirmedPending(i) == inv[i].cancel \in {"pending", "accepted"}

\* isDocCancelled
Confirmed(i) == inv[i].status = "cancelled" \/ inv[i].cancel = "accepted"

CheckCancelled(c) ==
    /\ Step(c, "check")
    /\ \/ Confirmed(SubjectOf(c)) /\ Queue!SucceedRefreshed(c)
       \/ /\ ~Confirmed(SubjectOf(c)) \/ "db" \in Faults
          /\ Queue!DeferConflict(c)
    /\ Done(c)
    /\ UNCHANGED documentVars

LoseRow(c) ==
    /\ Queue!LeaseLost(c)
          \/ (Queue!Abandon(c) /\ (hold[c].phase = "selected" \/ "crash" \in Faults))
    /\ Disown(c)
    /\ Done(c)
    /\ UNCHANGED <<inv, refresh, sat, late>>

ConsumerStep(c) ==
    \/ \E j \in Jobs : SelectRow(c, j)
    \/ TakeRow(c) \/ SkipRow(c) \/ ReadDocument(c)
    \/ (\E h \in Handlers : Invoke(c, h)) \/ Collect(c) \/ StopWaiting(c)
    \/ AskRefresh(c) \/ CheckCancelled(c) \/ LoseRow(c)

Documents(i) ==
    \/ RegisterPayment(i) \/ DeletePayment(i) \/ Age(i)
    \/ SatDecides(i) \/ SatServesLate(i)

Next ==
    \/ \E i \in Invoices : Documents(i) /\ UNCHANGED work
    \/ \E h \in Handlers, i \in Invoices : UserCancels(h, i) /\ UNCHANGED work
    \/ \E f \in Refreshers, i \in Invoices : UserRefreshes(f, i) /\ UNCHANGED work
    \/ \E h \in Handlers : (CancelStep(h) \/ CrashCancel(h)) /\ UNCHANGED work
    \/ \E f \in Refreshers : RefreshStep(f) /\ UNCHANGED work
    \/ \E c \in Consumers : ConsumerStep(c)

Spec == Init /\ [][Next]_vars
-----------------------------------------------------------------------------
(* Properties                                                              *)

\* The database calls an invoice cancelled, or its cancellation accepted, only
\* when the SAT has accepted it, in spite of lost and unclear answers, refreshes
\* that write what they read long before, and claims that change hands.
CancelledAtSat ==
    \A i \in Invoices :
        inv[i].known /\ (inv[i].status = "cancelled" \/ inv[i].cancel = "accepted")
            => sat[i] = "accepted"

\* A cancelled invoice has no payments, although one may be registered between
\* the check of cancel-cfdi and the answer of the SAT.
NoPaymentOnCancelled ==
    \A i \in Invoices : inv[i].status = "cancelled" => ~inv[i].paid

\* A row of the queue is closed as done only if its request has reached the SAT:
\* not because somebody else's claim was in the way.
DoneReachedSat ==
    \A j \in Jobs :
        queue[j].status = "succeeded" /\ inv[DocOf[j]].known
            => sat[DocOf[j]] # "none"
=============================================================================
