---------------------------- MODULE RetryConsumer ----------------------------
(***************************************************************************)
(* process-cfdi-retry-queue on the rows whose operation is 'stamp': the    *)
(* lease protocol of CfdiRetryQueue with the work on the invoice, from the *)
(* first read to the outcome of the call to stamp-cfdi.                    *)
(***************************************************************************)
EXTENDS StampCfdi

SubjectOf(c) == DocOf[hold[c].job]

Step(c, step) == work[c].step = step

Done(c) ==
    /\ work' = [work EXCEPT ![c] = NoWork]
    /\ fresh' = fresh \ {c}

\* The run no longer waits for the request it made.
Disown(c) ==
    req' = [h \in Handlers |->
              IF req[h].caller # c THEN req[h]
              ELSE IF req[h].pc = "answered" THEN FreeSlot
              ELSE [req[h] EXCEPT !.caller = User]]

\* Timing assumption: a row is stale fifteen minutes after its claim, when the run
\* that claimed it and the request it made are long over, unless they are slow.
Stale(j) ==
    \/ "slow" \in Faults
    \/ /\ \A c \in Consumers : hold[c].job = j => hold[c].phase # "owner"
       /\ \A h \in Handlers : req[h].job # j

SelectRow(c, j) ==
    /\ Queue!SelectRow(c, j)
    /\ queue[j].status = "processing" => Stale(j)
    /\ UNCHANGED <<inv, fresh, req, work, rec, pac, late>>

TakeRow(c) ==
    /\ Queue!Claim(c)
    /\ work' = [work EXCEPT ![c].step = "read"]
    /\ UNCHANGED <<inv, fresh, req, rec, pac, late>>

SkipRow(c) ==
    /\ Queue!ClaimSkipped(c)
    /\ UNCHANGED <<inv, fresh, req, work, rec, pac, late>>

\* decideStampRetry: the invoice is in a state that needs no stamping.
NoOp(row) == row.uuid # NoDoc \/ row.fid # NoDoc \/ row.status \notin {"pending", "error"}

\* The invoice is read, then the configuration of its organization.
ReadInvoice(c) ==
    /\ Step(c, "read")
    /\ \/ "db" \in Faults /\ Queue!Defer(c) /\ Done(c)
       \/ NoOp(inv[SubjectOf(c)]) /\ Queue!SucceedRecovered(c) /\ Done(c)
       \/ /\ ~NoOp(inv[SubjectOf(c)])
          /\ "config" \in Faults
          /\ Queue!Defer(c) \/ Queue!GiveUpUncounted(c)
          /\ Done(c)
       \/ /\ ~NoOp(inv[SubjectOf(c)])
          /\ work' = [work EXCEPT ![c].step = "lookup"]
          /\ fresh' = fresh \cup {c}
          /\ UNCHANGED <<queue, hold>>
    /\ UNCHANGED <<inv, req, rec, pac, late>>

\* The PAC is asked before a new stamping is attempted; the run checks its lease
\* before the call and again when it goes on.
LookUp(c) ==
    LET i == SubjectOf(c)
    IN /\ Step(c, "lookup")
       /\ \/ Queue!Defer(c) /\ Done(c)
          \/ /\ Queue!Owns(c) /\ Found(i, NoDoc) = {}
             /\ work' = [work EXCEPT ![c].step = "invoke"]
             /\ fresh' = fresh \ {c}
             /\ UNCHANGED <<queue, hold>>
          \/ /\ Queue!Owns(c) /\ ~Inconclusive(i, NoDoc)
             /\ \E d \in Found(i, NoDoc) :
                   work' = [work EXCEPT ![c].step = "save", ![c].doc = d,
                                        ![c].kind = pac[d].state]
             /\ UNCHANGED <<queue, hold, fresh>>
       /\ UNCHANGED <<inv, req, rec, pac, late>>

\* Mutant of StillAsRead: the recovered document is saved unconditionally.
StillAsReadAnyway(c) == TRUE

\* The predicate of saveRecoveredInvoice's UPDATE.
StillAsRead(c) == c \in fresh

\* saveRecoveredInvoice: the lease was checked before; the UPDATE is conditioned on
\* the row that was read.  It never marks the invoice as stamped.
SaveRecovered(c) ==
    LET i == SubjectOf(c)
        failed == work[c].kind = "failed"
        recovered == [inv[i] EXCEPT
                         !.fid = work[c].doc,
                         !.uuid = IF work[c].kind = "valid" THEN work[c].doc ELSE @,
                         !.status = IF failed THEN "error" ELSE "stamping"]
    IN /\ Step(c, "save")
       /\ \/ /\ StillAsRead(c)
             /\ Write(i, recovered)
             /\ work' = [work EXCEPT ![c].step = "close"]
             /\ UNCHANGED <<queue, hold>>
          \/ /\ ~StillAsRead(c) \/ "db" \in Faults
             /\ Queue!Defer(c) /\ Done(c) /\ UNCHANGED inv
       /\ UNCHANGED <<req, rec, pac, late>>

CloseRecovered(c) ==
    /\ Step(c, "close")
    /\ IF work[c].kind = "failed" THEN Queue!GiveUp(c) ELSE Queue!SucceedRecovered(c)
    /\ Done(c)
    /\ UNCHANGED <<inv, req, rec, pac, late>>

\* The run checks its lease again and calls stamp-cfdi with it.
Invoke(c, h) ==
    /\ Step(c, "invoke")
    /\ Queue!Owns(c)
    /\ \E verdict \in {"none", "ok", "error"} :
          StampRequest(h, SubjectOf(c), c, hold[c].job, hold[c].row.updatedAt, verdict)
    /\ work' = [work EXCEPT ![c].step = "await", ![c].handler = h]
    /\ UNCHANGED <<queue, hold, inv, fresh, rec, pac, late>>

Collect(c) ==
    LET h == work[c].handler
    IN /\ Step(c, "await")
       /\ req[h].caller = c /\ Serves(h, "answered")
       /\ \/ req[h].kind = "ok" /\ Queue!SucceedInvoked(c)
          \/ req[h].kind = "error" /\ Queue!RetryAnswered(c)
          \/ req[h].kind = "changed" /\ Queue!GiveUpUncounted(c)
          \/ req[h].kind = "unavailable" /\ Queue!Defer(c)
       /\ req' = [req EXCEPT ![h] = FreeSlot]
       /\ Done(c)
       /\ UNCHANGED <<inv, rec, pac, late>>

\* The fifteen-second limit of invokeStampFn.  The request goes on without it,
\* before its call to the PAC only if the database was slow.
StopWaiting(c) ==
    /\ Step(c, "await")
    /\ "slow" \in Faults \/ req[work[c].handler].pc \notin {"claim", "config"}
    /\ Queue!RetryThrown(c)
    /\ Disown(c)
    /\ Done(c)
    /\ UNCHANGED <<inv, rec, pac, late>>

\* The run finds that it lost the row, leaves it for lack of time, or dies.
LoseRow(c) ==
    /\ Queue!LeaseLost(c)
          \/ (Queue!Abandon(c) /\ (hold[c].phase = "selected" \/ "crash" \in Faults))
    /\ Disown(c)
    /\ Done(c)
    /\ UNCHANGED <<inv, rec, pac, late>>

ConsumerStep(c) ==
    \/ \E j \in Jobs : SelectRow(c, j)
    \/ TakeRow(c) \/ SkipRow(c) \/ ReadInvoice(c) \/ LookUp(c)
    \/ SaveRecovered(c) \/ CloseRecovered(c)
    \/ (\E h \in Handlers : Invoke(c, h)) \/ Collect(c)
    \/ StopWaiting(c) \/ LoseRow(c)
=============================================================================
