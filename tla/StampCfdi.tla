------------------------------ MODULE StampCfdi ------------------------------
(***************************************************************************)
(* The edge function stamp-cfdi, cut at its awaits: one action per write   *)
(* of the invoice, call to the PAC or write of the queue.                  *)
(***************************************************************************)
EXTENDS Pac

\* The handler's checks on the invoice it read: a document that was stamped, or
\* that the PAC knows, is refused with 409.
Admits(row) == ~(row.status = "stamped" /\ row.uuid # NoDoc) /\ row.fid = NoDoc

\* A request starts by reading the invoice.  It may also be refused for its
\* organization or its content.  A refused request changes nothing.
StampRequest(h, i, caller, job, token, verdict) ==
    /\ req[h].pc = "idle"
    /\ verdict \in IF ~Admits(inv[i]) THEN {"ok"}
                   ELSE {"none"} \cup (IF "config" \in Faults THEN {"error"} ELSE {})
    /\ req' = [req EXCEPT ![h] =
          [pc |-> IF verdict = "none" THEN "claim" ELSE "answered",
           inv |-> i, caller |-> caller, job |-> job, token |-> token,
           total |-> inv[i].total, doc |-> NoDoc, kind |-> verdict]]

UserRequest(h, i) ==
    /\ StampRequest(h, i, User, NoJob, 0, "none")
    /\ UNCHANGED <<queue, hold, inv, fresh, work, rec, pac, late>>

\* The response.  The queue counts 2xx, 202 and, for stamp, 409 as success.
Answer(h, kind) ==
    req' = [req EXCEPT ![h] = IF @.caller = User THEN FreeSlot
                              ELSE [@ EXCEPT !.pc = "answered", !.kind = kind]]

GoTo(h, pc) == req' = [req EXCEPT ![h].pc = pc]

Serves(h, pc) == req[h].pc = pc

RowOf(h) == inv[req[h].inv]

\* Mutant of Claimable: the claim does not look at the status.
ClaimableAnyStatus(row) == row.uuid = NoDoc

\* The claim: an UPDATE conditioned on the status and on a null cfdi_uuid.
Claimable(row) == row.status \in {"pending", "error"} /\ row.uuid = NoDoc

ClaimInvoice(h) ==
    /\ Serves(h, "claim")
    /\ IF Claimable(RowOf(h))
       THEN /\ Write(req[h].inv, [RowOf(h) EXCEPT !.status = "stamping"])
            /\ GoTo(h, "config")
       ELSE Answer(h, "ok") /\ UnchangedInvoices
    /\ UNCHANGED <<queue, hold, work, rec, pac, late>>

\* Where a refusal leaves the invoice: it may be stamped again.
RefusedRow(row) == [row EXCEPT !.status = "error"]

\* assertFiscalRetryContext: an internal call still holds the lease of its row.
LeaseCurrent(h) ==
    req[h].job # NoJob => /\ queue[req[h].job].status = "processing"
                          /\ queue[req[h].job].updatedAt = req[h].token

\* releaseClaim: company settings, configuration, key or payload are refused, or
\* an internal call lost its lease or its fiscal context.
RefuseConfig(h) ==
    /\ Serves(h, "config")
    /\ \E kind \in {"error", "changed", "unavailable"} :
          /\ kind # "error" => req[h].job # NoJob
          /\ "config" \in Faults \/ (kind = "changed" /\ ~LeaseCurrent(h))
          /\ Answer(h, kind)
    /\ WriteOrLose(req[h].inv, RefusedRow(RowOf(h)))
    /\ UNCHANGED <<queue, hold, work, rec, pac, late>>

\* Test mode without a key: a stub is stored and the PAC is not called.
StampStub(h) ==
    /\ Serves(h, "config")
    /\ "stub" \in Faults /\ req[h].job = NoJob
    /\ WriteOrLose(req[h].inv, [RowOf(h) EXCEPT !.status = "stamped", !.uuid = MockDoc,
                                                !.xml = TRUE])
    /\ Answer(h, "ok")
    /\ UNCHANGED <<queue, hold, work, rec, pac, late>>

SendToPac(h) ==
    /\ Serves(h, "config")
    /\ LeaseCurrent(h)
    /\ GoTo(h, "sent")
    /\ UNCHANGED <<queue, hold, inv, fresh, work, rec, pac, late>>

-----------------------------------------------------------------------------
(* The answer of the PAC to the create call, or its absence.               *)

\* Mutant of AfterAnswer: any document that did not fail counts as stamped.
AfterAnswerHasty(state) == IF state = "failed" THEN "record" ELSE "persist"

\* classifyPacInvoice of the answer decides where the handler goes.
AfterAnswer(state) == IF state = "valid" THEN "persist" ELSE "record"

PacAnswers(h) ==
    /\ Serves(h, "sent")
    /\ \E d \in Documents, state \in PacState :
          /\ Creates(req[h].inv, req[h].total, d, state)
          /\ req' = [req EXCEPT ![h].pc = AfterAnswer(state), ![h].doc = d,
                                ![h].kind = state]
    /\ UNCHANGED <<queue, hold, inv, fresh, work, rec, late>>

\* A refusal for good is an answer about the content, given before a document
\* exists; a 429, a 5xx or a broken connection may come at any time.
PacRefuses(h) ==
    /\ Serves(h, "sent")
    /\ \E kind \in {"permanent", "transient"} :
          /\ kind = "permanent" => DocsOf(req[h].inv) = {}
          /\ req' = [req EXCEPT ![h].pc = "refused", ![h].kind = kind]
    /\ UNCHANGED <<queue, hold, inv, fresh, work, rec, pac, late>>

\* The document is created and the answer is lost or is an error.
PacLosesAnswer(h) ==
    /\ Serves(h, "sent")
    /\ \E d \in Documents, state \in PacState : Creates(req[h].inv, req[h].total, d, state)
    /\ req' = [req EXCEPT ![h].pc = "refused", ![h].kind = "transient"]
    /\ UNCHANGED <<queue, hold, inv, fresh, work, rec, late>>

\* The thirty-second limit: the request is aborted, the row stays 'stamping',
\* and the PAC may have seen the request or not.
TimeOut(h) ==
    /\ Serves(h, "sent")
    /\ Answer(h, "error")
    /\ late' \in {late, late \cup {[inv |-> req[h].inv, total |-> req[h].total]}}
    /\ UNCHANGED <<queue, hold, inv, fresh, work, rec, pac>>

-----------------------------------------------------------------------------
\* Mutant of RecordRefusal: no retry is enqueued for a transient error.
RecordRefusalOnly(h) ==
    /\ Serves(h, "refused")
    /\ WriteOrLose(req[h].inv, RefusedRow(RowOf(h)))
    /\ Answer(h, "error")
    /\ UNCHANGED <<queue, hold, work, rec, pac, late>>

\* The PAC answered with an error.
RecordRefusal(h) ==
    /\ Serves(h, "refused")
    /\ WriteOrLose(req[h].inv, RefusedRow(RowOf(h)))
    /\ IF req[h].kind = "transient" THEN GoTo(h, "enqueue") ELSE Answer(h, "error")
    /\ UNCHANGED <<queue, hold, work, rec, pac, late>>

\* enqueueCfdiRetry, also when the queue itself made this request.
EnqueueRetry(h, j) ==
    /\ Serves(h, "enqueue")
    /\ DocOf[j] = req[h].inv
    /\ Queue!Enqueue(j)
    /\ Answer(h, "error")
    /\ UNCHANGED <<inv, fresh, work, rec, pac, late>>

\* The insert fails; its error is only logged.
EnqueueLost(h) ==
    /\ Serves(h, "enqueue")
    /\ "enqueue" \in Faults
    /\ Answer(h, "error")
    /\ UNCHANGED <<queue, hold, inv, fresh, work, rec, pac, late>>

\* A document without a uuid: its id is saved, and a pending one stays 'stamping'.
RecordIncomplete(h) ==
    LET failed == req[h].kind = "failed"
    IN /\ Serves(h, "record")
       /\ WriteOrLose(req[h].inv,
             [RowOf(h) EXCEPT !.fid = req[h].doc,
                              !.status = IF failed THEN "error" ELSE "stamping"])
       /\ Answer(h, IF failed THEN "error" ELSE "ok")
       /\ UNCHANGED <<queue, hold, work, rec, pac, late>>

\* The ids are saved at once, so that a crash from here on loses nothing.
PersistIds(h) ==
    /\ Serves(h, "persist")
    /\ WriteOrLose(req[h].inv, [RowOf(h) EXCEPT !.fid = req[h].doc, !.uuid = req[h].doc])
    /\ GoTo(h, "finish")
    /\ UNCHANGED <<queue, hold, work, rec, pac, late>>

\* computeStampVariance compares the PAC's total with the total read at first.
Variance(h) == req[h].total # pac[req[h].doc].total

\* The XML may have been downloaded or not; either way the invoice is stamped.
FinishStamping(h) ==
    /\ Serves(h, "finish")
    /\ \/ \E downloaded \in BOOLEAN :
             /\ Write(req[h].inv,
                   [RowOf(h) EXCEPT !.fid = req[h].doc, !.uuid = req[h].doc,
                                    !.xml = downloaded,
                                    !.status = IF Variance(h) THEN "error" ELSE "stamped"])
             /\ Answer(h, IF Variance(h) THEN "error" ELSE "ok")
       \/ "db" \in Faults /\ UnchangedInvoices /\ Answer(h, "error")
    /\ UNCHANGED <<queue, hold, work, rec, pac, late>>

\* The isolate dies.  A run that waits for it will time out.
CrashRequest(h) ==
    /\ "crash" \in Faults
    /\ req[h].pc # "idle"
    /\ req' = [req EXCEPT ![h] = FreeSlot]
    /\ late' \in {late} \cup
          (IF Serves(h, "sent")
           THEN {late \cup {[inv |-> req[h].inv, total |-> req[h].total]}} ELSE {})
    /\ UNCHANGED <<queue, hold, inv, fresh, work, rec, pac>>

HandlerStep(h) ==
    \/ ClaimInvoice(h) \/ RefuseConfig(h) \/ StampStub(h) \/ SendToPac(h)
    \/ PacAnswers(h) \/ PacRefuses(h) \/ PacLosesAnswer(h) \/ TimeOut(h)
    \/ RecordRefusal(h)
    \/ (\E j \in Jobs : EnqueueRetry(h, j)) \/ EnqueueLost(h)
    \/ RecordIncomplete(h) \/ PersistIds(h) \/ FinishStamping(h)
=============================================================================
