------------------------- MODULE SettlementCancellation -------------------------
(***************************************************************************)
(* The cancellation of complements and credit notes with the retries of    *)
(* process-cfdi-retry-queue: the lease protocol of CfdiRetryQueue and what *)
(* the consumer does with rows 'cancel_rep' and 'cancel_nc'.               *)
(***************************************************************************)
EXTENDS CancelSettlement

VARIABLE work  \* work[c]: how far run c of the queue is with its document

vars == <<queue, hold, row, room, req, refresh, sat, late, work>>

NoWork == [step |-> "none", handler |-> NoHandler]

Work == [step: {"none", "read", "invoke", "await", "conflict", "check"},
         handler: Handlers \cup {NoHandler}]

TypeOK ==
    /\ Queue!TypeOK
    /\ RowsOK
    /\ work \in [Consumers -> Work]

Init ==
    /\ Queue!Init
    /\ InitRows
    /\ work = [c \in Consumers |-> NoWork]

-----------------------------------------------------------------------------
SubjectOf(c) == DocOf[hold[c].job]

Step(c, step) == work[c].step = step

StepTo(c, step) == work' = [work EXCEPT ![c].step = step]

Done(c) == work' = [work EXCEPT ![c] = NoWork]

\* The run no longer waits for the request it made.
Disown(c) ==
    req' = [h \in Handlers |->
              IF req[h].caller # c THEN req[h]
              ELSE IF Serves(h, "answered") THEN FreeSlot
              ELSE [req[h] EXCEPT !.caller = User]]

SelectRow(c, j) ==
    /\ Queue!SelectRow(c, j)
    /\ UNCHANGED <<rowVars, work>>

TakeRow(c) ==
    /\ Queue!Claim(c)
    /\ StepTo(c, "read")
    /\ UNCHANGED rowVars

SkipRow(c) ==
    /\ Queue!ClaimSkipped(c)
    /\ UNCHANGED <<rowVars, work>>

\* The organization of the document and its configuration are read; a document
\* that is gone ends the row, any other failure puts it off.
ReadDocument(c) ==
    LET gone == row[SubjectOf(c)].status = "deleted"
    IN /\ Step(c, "read")
       /\ \/ "db" \in Faults /\ Queue!Defer(c) /\ Done(c)
          \/ gone /\ Queue!GiveUpUncounted(c) /\ Done(c)
          \/ /\ ~gone /\ "config" \in Faults
             /\ Queue!Defer(c) \/ Queue!GiveUpUncounted(c) \/ Queue!RetryThrown(c)
             /\ Done(c)
          \/ ~gone /\ StepTo(c, "invoke") /\ UNCHANGED <<queue, hold>>
       /\ UNCHANGED rowVars

Invoke(c, h) ==
    /\ Step(c, "invoke")
    /\ Queue!Owns(c)
    /\ Request(h, SubjectOf(c), c, hold[c].job, hold[c].row.updatedAt)
    /\ work' = [work EXCEPT ![c].step = "await", ![c].handler = h]
    /\ UNCHANGED <<queue, hold, row, room, refresh, sat, late>>

\* The payment was deleted after it was read: 404.
InvokeGone(c) ==
    /\ Step(c, "invoke")
    /\ row[SubjectOf(c)].status = "deleted"
    /\ Queue!RetryAnswered(c)
    /\ Done(c)
    /\ UNCHANGED rowVars

\* Mutant of Succeeded: a 409 counts as success, as it does for a stamping.
SucceededOnConflict(kind) == kind \in {"ok", "progress"}

\* invokeStampFn: what counts as success of a cancellation.
Succeeded(kind) == kind = "ok"

\* Every 409 of these operations is taken for a cancellation in progress.
Collect(c) ==
    LET h == work[c].handler
        kind == req[h].kind
    IN /\ Step(c, "await")
       /\ req[h].caller = c /\ Serves(h, "answered")
       /\ \/ Succeeded(kind) /\ Queue!SucceedInvoked(c) /\ Done(c)
          \/ /\ ~Succeeded(kind)
             /\ \/ kind = "error" /\ Queue!RetryAnswered(c) /\ Done(c)
                \/ kind = "changed" /\ Queue!GiveUpUncounted(c) /\ Done(c)
                \/ kind = "unavailable" /\ Queue!Defer(c) /\ Done(c)
                \/ kind = "progress" /\ StepTo(c, "conflict") /\ UNCHANGED <<queue, hold>>
       /\ req' = [req EXCEPT ![h] = FreeSlot]
       /\ UNCHANGED <<row, room, refresh, sat, late>>

\* The fifteen-second limit; the request goes on without the run.
StopWaiting(c) ==
    /\ Step(c, "await")
    /\ Queue!RetryThrown(c)
    /\ Disown(c)
    /\ Done(c)
    /\ UNCHANGED <<row, room, refresh, sat, late>>

\* A claim is in place: the run asks for a refresh, which may fail to start, and
\* does not wait for it longer than ten seconds.
AskRefresh(c) ==
    /\ Step(c, "conflict")
    /\ Queue!Owns(c)
    /\ StepTo(c, "check")
    /\ \/ \E f \in Refreshers :
             RefreshRequest(f, SubjectOf(c), hold[c].job, hold[c].row.updatedAt)
       \/ UNCHANGED refresh
    /\ UNCHANGED <<queue, hold, row, room, req, sat, late>>

\* Mutant of Confirmed: a claim in place counts as a cancellation under way.
ConfirmedPending(x) == row[x].cancel \in {"pending", "accepted"}

\* isDocCancelled
Confirmed(x) ==
    /\ row[x].status # "deleted"
    /\ row[x].status = "cancelled" \/ row[x].cancel = "accepted"

CheckCancelled(c) ==
    /\ Step(c, "check")
    /\ \/ Confirmed(SubjectOf(c)) /\ Queue!SucceedRefreshed(c)
       \/ /\ ~Confirmed(SubjectOf(c)) \/ "db" \in Faults
          /\ Queue!DeferConflict(c)
    /\ Done(c)
    /\ UNCHANGED rowVars

LoseRow(c) ==
    /\ Queue!LeaseLost(c)
          \/ (Queue!Abandon(c) /\ (hold[c].phase = "selected" \/ "died" \in Faults))
    /\ Disown(c)
    /\ Done(c)
    /\ UNCHANGED <<row, room, refresh, sat, late>>

ConsumerStep(c) ==
    \/ \E j \in Jobs : SelectRow(c, j)
    \/ TakeRow(c) \/ SkipRow(c) \/ ReadDocument(c)
    \/ (\E h \in Handlers : Invoke(c, h)) \/ InvokeGone(c) \/ Collect(c) \/ StopWaiting(c)
    \/ AskRefresh(c) \/ CheckCancelled(c) \/ LoseRow(c)

Next ==
    \/ \E x \in Rows : Documents(x) /\ UNCHANGED work
    \/ \E h \in Handlers, x \in Rows : UserCancels(h, x) /\ UNCHANGED work
    \/ \E f \in Refreshers, x \in Rows : UserRefreshes(f, x) /\ UNCHANGED work
    \/ \E h \in Handlers : (CancelStep(h) \/ CrashCancel(h)) /\ UNCHANGED work
    \/ \E f \in Refreshers : RefreshStep(f) /\ UNCHANGED work
    \/ \E c \in Consumers : ConsumerStep(c)

Spec == Init /\ [][Next]_vars

\* The platform runs what it accepted and the PAC answers; the users keep asking
\* for the state of a cancellation that is pending, and not every query fails.
Fairness ==
    /\ \A h \in Handlers : WF_vars(CancelStep(h) /\ UNCHANGED work)
    /\ \A f \in Refreshers :
          /\ \A x \in Rows :
                SF_vars(UserRefreshes(f, x) /\ row[x].cancel = "pending" /\ UNCHANGED work)
          /\ WF_vars(RefreshStep(f) /\ UNCHANGED work)
          /\ SF_vars(AskSat(f) /\ UNCHANGED work)
          /\ SF_vars(WriteRefresh(f) /\ UNCHANGED work)

LiveSpec == Spec /\ Fairness
-----------------------------------------------------------------------------
(* Properties                                                              *)

\* The database calls a complement or a note cancelled, or its cancellation
\* accepted, only when the SAT has accepted it, in spite of lost and unclear
\* answers, stale refreshes and claims that change hands.
CancelledAtSat ==
    \A x \in Rows :
        row[x].known /\ (row[x].status = "cancelled" \/ row[x].cancel = "accepted")
            => sat[x] = "accepted"

\* A row of the queue is closed as done only if its request has reached the SAT,
\* although every 409 of these operations is first taken for one in progress.
DoneReachedSat ==
    \A j \in Jobs :
        queue[j].status = "succeeded" /\ row[DocOf[j]].known => sat[DocOf[j]] # "none"

\* One request at a time works on a complement, from its claim to its outcome,
\* whoever made it and however often it was retried; while it does, the claim is
\* in the row.  (A note is not promised this: a refresh may write over a claim.)
Working(h, p) == req[h].row = p /\ req[h].pc \in {"config", "sent", "release", "reopen", "finish"}

OneRequest ==
    \A p \in Payments, h \in Handlers : Working(h, p) =>
        /\ row[p].status = "stamped" /\ row[p].cancel = "pending"
        /\ \A g \in Handlers : Working(g, p) => g = h
=============================================================================
