---------------------------- MODULE CancelSettlement ----------------------------
(***************************************************************************)
(* The edge functions cancel-payment-complement, cancel-credit-note and    *)
(* refresh-cancellation-status, cut at their awaits.  The two cancel       *)
(* functions differ in how they claim and in what they do without an id of *)
(* the PAC; from the call on they are the same code.                       *)
(***************************************************************************)
EXTENDS CancelState

-----------------------------------------------------------------------------
(* The claims.                                                             *)

\* cancel-payment-complement only looks whether the payment exists.
RequestRep(h, p, caller, job, token) ==
    /\ row[p].status # "deleted"
    /\ Start(h, p, caller, job, token)

ClaimRep(h) ==
    /\ Serves(h, "claim") /\ req[h].row \in Payments
    /\ IF Claimable(req[h].row)
       THEN /\ row' = [row EXCEPT ![req[h].row].cancel = "pending", ![req[h].row].aged = FALSE]
            /\ GoTo(h, "config")
       ELSE GoTo(h, "why") /\ UNCHANGED row
    /\ UNCHANGED <<queue, hold, room, refresh, sat, late>>

\* The payment is read again to tell why the claim took nothing.
ExplainRep(h) ==
    /\ Serves(h, "why")
    /\ Answer(h, IF row[req[h].row].status = "stamped" THEN "progress" ELSE "error")
    /\ UNCHANGED <<queue, hold, row, room, refresh, sat, late>>

\* cancel-credit-note reads the note, with the id it will send, before its claim.
RequestNote(h, n, caller, job, token) ==
    IF row[n].status = "stamped"
    THEN Start(h, n, caller, job, token)
    ELSE /\ Serves(h, "idle") /\ caller # User
         /\ req' = [req EXCEPT ![h] = [pc |-> "answered", row |-> n, caller |-> caller,
                                       job |-> job, token |-> token, kind |-> "error"]]

\* A claim the cap refuses looks like one that took nothing.
ClaimNote(h) ==
    /\ Serves(h, "claim") /\ req[h].row \in Notes
    /\ IF Claimable(req[h].row) /\ ~CapRefuses(req[h].row, "pending")
       THEN /\ row' = [row EXCEPT ![req[h].row].cancel = "pending", ![req[h].row].aged = FALSE]
            /\ GoTo(h, "config")
       ELSE Answer(h, "progress") /\ UNCHANGED row
    /\ UNCHANGED <<queue, hold, room, refresh, sat, late>>

Request(h, x, caller, job, token) ==
    IF x \in Payments THEN RequestRep(h, x, caller, job, token)
    ELSE RequestNote(h, x, caller, job, token)

UserCancels(h, x) ==
    /\ Request(h, x, User, NoJob, 0)
    /\ UNCHANGED <<queue, hold, row, room, refresh, sat, late>>

-----------------------------------------------------------------------------
(* From the configuration to the outcome.                                  *)

\* A note without an id of the PAC: in live mode the claim is given back, in test
\* mode the cancellation counts as accepted.  From here on, as below, the row of
\* the queue and its token are not read again.
CancelStub(h) ==
    /\ Serves(h, "config")
    /\ LeaseCurrent(req[h].job, req[h].token)
    /\ ~row[req[h].row].known
    /\ \/ Answer(h, "error") /\ Release(req[h].row)
       \/ /\ req' = [req EXCEPT ![h].pc = "finish", ![h].kind = "accepted",
                                ![h].job = NoJob, ![h].token = 0]
          /\ UNCHANGED row
    /\ UNCHANGED <<queue, hold, room, refresh, sat, late>>

SendToSat(h) ==
    /\ Serves(h, "config")
    /\ LeaseCurrent(req[h].job, req[h].token)
    /\ row[req[h].row].known
    /\ req' = [req EXCEPT ![h].pc = "sent", ![h].job = NoJob, ![h].token = 0]
    /\ UNCHANGED <<queue, hold, row, room, refresh, sat, late>>

\* Mutants of Understood: an answer that says nothing counts as an acceptance; the
\* PAC's own word, which the column does not admit, is recorded.
UnderstoodAnyhow(status) == IF status = "none" THEN "accepted" ELSE status
UnderstoodRaw(status) == IF status = "none" THEN "verifying" ELSE status

\* cancellationResult: what the answer says, "none" when it says nothing clear.
Understood(status) == status

\* The PAC answers, clearly or not.  An unclear answer leaves the claim in place.
SatAnswers(h) ==
    LET x == req[h].row
    IN /\ Serves(h, "sent")
       /\ Reaches(x)
       /\ \E s \in {sat'[x], "none"} :
             LET status == Understood(s)
             IN IF status = "none" THEN Answer(h, "error")
                ELSE req' = [req EXCEPT ![h].pc = "finish", ![h].kind = status]
       /\ UNCHANGED <<queue, hold, row, room, refresh, late>>

\* The PAC answers with an error: for good, before the SAT hears of it, or a
\* transient one, before or after.
SatRefuses(h) ==
    /\ Serves(h, "sent")
    /\ \/ GoTo(h, "release") /\ UNCHANGED sat
       \/ GoTo(h, "reopen") /\ (UNCHANGED sat \/ Reaches(req[h].row))
    /\ UNCHANGED <<queue, hold, row, room, refresh, late>>

\* The thirty-second limit: the claim stays, and the PAC may have seen the request.
TimeOut(h) ==
    /\ Serves(h, "sent")
    /\ Answer(h, "error")
    /\ late' \in {late, late \cup {req[h].row}}
    /\ UNCHANGED <<queue, hold, row, room, refresh, sat>>

\* After an error the claim is released; a transient one is then enqueued.
ReleaseClaim(h) ==
    /\ \/ Serves(h, "release") /\ Answer(h, "error")
       \/ Serves(h, "reopen") /\ GoTo(h, "enqueue")
    /\ Release(req[h].row)
    /\ UNCHANGED <<queue, hold, room, refresh, sat, late>>

EnqueueRetry(h, j) ==
    /\ Serves(h, "enqueue")
    /\ DocOf[j] = req[h].row
    /\ Queue!Enqueue(j)
    /\ Answer(h, "error")
    /\ UNCHANGED <<row, room, refresh, sat, late>>

\* The insert fails and is only logged, or the row of the instance is taken.
EnqueueLost(h) ==
    /\ Serves(h, "enqueue")
    /\ "enqueue" \in Faults \/ \A j \in Jobs : DocOf[j] = req[h].row => queue[j].status # "absent"
    /\ Answer(h, "error")
    /\ UNCHANGED <<queue, hold, row, room, refresh, sat, late>>

\* The result is recorded; a failed UPDATE is an error and keeps the claim.
FinishCancellation(h) ==
    LET x == req[h].row
    IN /\ Serves(h, "finish")
       /\ \/ /\ Record(x, req[h].kind)
             /\ Answer(h, IF CapRefuses(x, req[h].kind) THEN "error" ELSE "ok")
          \/ "db" \in Faults /\ UNCHANGED row /\ Answer(h, "error")
       /\ UNCHANGED <<queue, hold, room, refresh, sat, late>>

CrashCancel(h) ==
    /\ "crash" \in Faults
    /\ req[h].pc # "idle"
    /\ req' = [req EXCEPT ![h] = FreeSlot]
    /\ late' \in {late, IF Serves(h, "sent") THEN late \cup {req[h].row} ELSE late}
    /\ UNCHANGED <<queue, hold, row, room, refresh, sat>>

CancelStep(h) ==
    \/ ClaimRep(h) \/ ExplainRep(h) \/ ClaimNote(h)
    \/ ConfigFails(h) \/ CancelStub(h) \/ SendToSat(h)
    \/ SatAnswers(h) \/ SatRefuses(h) \/ TimeOut(h) \/ ReleaseClaim(h)
    \/ (\E j \in Jobs : EnqueueRetry(h, j)) \/ EnqueueLost(h) \/ FinishCancellation(h)

-----------------------------------------------------------------------------
(* refresh-cancellation-status                                             *)

\* The SELECT for a payment names updated_at, which payments does not have, so it
\* returns no row and the request ends there; a note needs an id of the PAC.
Refreshable(x) == x \in Notes /\ row[x].known

RefreshRequest(f, x, job, token) ==
    /\ refresh[f].pc = "idle"
    /\ Refreshable(x)
    /\ refresh' = [refresh EXCEPT ![f] =
          [pc |-> "asked", row |-> x, job |-> job, token |-> token,
           prior |-> row[x].cancel, aged |-> row[x].aged, next |-> "none"]]

UserRefreshes(f, x) ==
    /\ RefreshRequest(f, x, NoJob, 0)
    /\ UNCHANGED <<queue, hold, row, room, req, sat, late>>

\* The configuration, the lease or the PAC fails, or the isolate dies.
RefreshFails(f) ==
    /\ refresh[f].pc # "idle"
    /\ refresh' = [refresh EXCEPT ![f] = Resting]
    /\ UNCHANGED <<queue, hold, row, room, req, sat, late>>

\* The status to write: what the SAT reports, but never 'pending' over a status
\* that was final; without a report, an old claim is given back.
Refreshed(prior, aged, seen) ==
    IF seen = "none" THEN IF prior = "pending" /\ aged THEN "none" ELSE prior
    ELSE IF seen = "pending" /\ prior \in {"accepted", "rejected"} THEN prior
    ELSE seen

\* Nothing is written for a document that nobody ever cancelled.
AskSat(f) ==
    LET r == refresh[f]
        seen == sat[r.row]
    IN /\ r.pc = "asked"
       /\ LeaseCurrent(r.job, r.token)
       /\ refresh' = [refresh EXCEPT ![f] =
             IF r.prior = "none" /\ seen = "none" THEN Resting
             ELSE [Resting EXCEPT !.pc = "write", !.row = r.row,
                                  !.next = Refreshed(r.prior, r.aged, seen)]]
       /\ UNCHANGED <<queue, hold, row, room, req, sat, late>>

\* The UPDATE has no condition on what was read.
WriteRefresh(f) ==
    /\ refresh[f].pc = "write"
    /\ Record(refresh[f].row, refresh[f].next) \/ ("db" \in Faults /\ UNCHANGED row)
    /\ refresh' = [refresh EXCEPT ![f] = Resting]
    /\ UNCHANGED <<queue, hold, room, req, sat, late>>

RefreshStep(f) == AskSat(f) \/ RefreshFails(f) \/ WriteRefresh(f)
=============================================================================
