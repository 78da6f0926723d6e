---------------------------- MODULE StampComplement ----------------------------
(***************************************************************************)
(* The edge function stamp-payment-complement, cut at its awaits.  Its     *)
(* writes are unconditional; only the claim keeps requests apart.          *)
(***************************************************************************)
EXTENDS SettlementPac

Serves(h, pc) == req[h].pc = pc

ForPayment(h, pc) == Serves(h, pc) /\ req[h].of \in Payments

GoTo(h, pc) == req' = [req EXCEPT ![h].pc = pc]

Answer(h) == req' = [req EXCEPT ![h] = FreeSlot]

\* An UPDATE without conditions whose result nobody looks at.
UpdatePayment(p, row) == WritePayment(p, row) \/ ("db" \in Faults /\ RowsUnchanged)
ReleasePayment(p, row) == WriteClaim(p, row) \/ ("db" \in Faults /\ RowsUnchanged)

\* The checks on the payment as read: no REP, no request, no id of the PAC.
AskComplement(h, p) ==
    /\ Serves(h, "idle")
    /\ pay[p].status \in {"pending", "error", "cancelled"}
    /\ pay[p].fid = NoDoc /\ pay[p].uuid = NoDoc
    /\ req' = [req EXCEPT ![h] = [FreeSlot EXCEPT !.pc = "claim", !.of = p]]
    /\ UNCHANGED <<pay, note, rec, fresh, pac, late>>

\* Mutant of Claimable: the claim of before, which took over a stale 'stamping'.
ClaimableStale(row) == Live(row) /\ row.fid = NoDoc /\ row.uuid = NoDoc

\* claim_payment_rep_stamping.  However old, a 'stamping' payment is refused.
Claimable(row) ==
    /\ row.status \in {"pending", "error", "cancelled"}
    /\ row.fid = NoDoc /\ row.uuid = NoDoc

ClaimPayment(h) ==
    LET p == req[h].of
    IN /\ ForPayment(h, "claim")
       /\ IF Claimable(pay[p])
          THEN /\ WriteClaim(p, [pay[p] EXCEPT !.status = "stamping", !.misses = 0])
               /\ GoTo(h, "prepare")
          ELSE Answer(h) /\ RowsUnchanged
       /\ UNCHANGED <<rec, pac, late>>

-----------------------------------------------------------------------------
(* prepare_payment_complement, one transaction that locks the invoice.     *)

\* A payment whose REP was cancelled counts for nothing, any other in full,
\* whether it was stamped or not.
PriorPaid(p) == PaidBy({q \in Payments \ {p} : Live(pay[q]) /\ pay[q].status # "cancelled"})

PriorBalance(p) ==
    LET left == Total - PriorPaid(p) - Credited IN IF left < 0 THEN 0 ELSE left

LiveComplements(p) == {q \in Payments \ {p} : pay[q].status = "stamped"}

Instalment(p) ==
    IF pay[p].status = "cancelled" /\ pay[p].number # 0 THEN pay[p].number
    ELSE Cardinality(LiveComplements(p)) + 1

\* Mutant of NumberFree: there is no unique index.
NumberFreeAlways(p, number) == TRUE

\* payments_invoice_installment_uidx: also a number that a failed request left.
NumberFree(p, number) ==
    \A q \in Payments \ {p} : pay[q].status = "cancelled" \/ pay[q].number # number

Prepared(p) ==
    [amount |-> pay[p].amount, number |-> Instalment(p), prior |-> PriorBalance(p)]

\* Mutant of PrepareComplement: the number and the balance are saved at the end only.
PrepareUnsaved(h) ==
    LET p == req[h].of
        content == Prepared(p)
    IN /\ ForPayment(h, "prepare")
       /\ Live(pay[p])
       /\ content.amount <= content.prior /\ NumberFree(p, content.number)
       /\ req' = [req EXCEPT ![h].pc = "check", ![h].content = content]
       /\ UNCHANGED <<pay, note, fresh, rec, pac, late>>

PrepareComplement(h) ==
    LET p == req[h].of
        content == Prepared(p)
    IN /\ ForPayment(h, "prepare")
       /\ Live(pay[p])
       /\ content.amount <= content.prior /\ NumberFree(p, content.number)
       /\ WritePayment(p, [pay[p] EXCEPT !.number = content.number, !.prior = content.prior])
       /\ req' = [req EXCEPT ![h].pc = "check", ![h].content = content]
       /\ UNCHANGED <<rec, pac, late>>

\* It raises, or the call fails: failAfterClaim('error').
PrepareFails(h) ==
    LET p == req[h].of
        content == Prepared(p)
    IN /\ ForPayment(h, "prepare")
       /\ \/ "db" \in Faults
          \/ ~Live(pay[p])
          \/ content.amount > content.prior
          \/ ~NumberFree(p, content.number)
       /\ ReleasePayment(p, [pay[p] EXCEPT !.status = "error"])
       /\ Answer(h)
       /\ UNCHANGED <<rec, pac, late>>

\* Invoice, tax breakdown, configuration, key, currency or receptor are refused:
\* releaseClaim.
RefuseComplement(h) ==
    LET p == req[h].of
    IN /\ "config" \in Faults
       /\ ForPayment(h, "check")
       /\ ReleasePayment(p, [pay[p] EXCEPT !.status = "pending"])
       /\ Answer(h)
       /\ UNCHANGED <<rec, pac, late>>

-----------------------------------------------------------------------------
\* Any other request passes its checks and calls the PAC.
SendToPac(h) ==
    /\ Serves(h, "check")
    /\ GoTo(h, "sent")
    /\ UNCHANGED <<pay, note, rec, fresh, pac, late>>

\* Mutant of AfterAnswer: any document that did not fail counts as stamped.
AfterAnswerHasty(state) == IF state = "failed" THEN "record" ELSE "finish"

\* classifyPacInvoice: a hit goes on to the last write.
AfterAnswer(state) == IF state \in {"valid", "cancelled"} THEN "finish" ELSE "record"

PacAnswers(h) ==
    /\ Serves(h, "sent")
    /\ \E d \in Documents, state \in PacState :
          /\ Creates(req[h].of, req[h].content, d, state)
          /\ req' = [req EXCEPT ![h].pc = AfterAnswer(state), ![h].doc = d,
                                ![h].kind = state]
    /\ UNCHANGED <<pay, note, rec, fresh, late>>

\* What the PAC may do with a request nobody listens to any more.
MayArrive(h) ==
    late' \in {late, late \cup {[of |-> req[h].of, content |-> req[h].content]}}

\* A timeout, or an answer that does not tell whether the PAC issued: the row
\* stays 'stamping'.
ComplementUncertain(h) ==
    /\ ForPayment(h, "sent")
    /\ Answer(h) /\ MayArrive(h)
    /\ UNCHANGED <<pay, note, rec, fresh, pac>>

\* Mutant of ComplementRefused: any error of the PAC counts as a refusal.
ComplementRefusedOnAny(h) ==
    LET p == req[h].of
    IN /\ ForPayment(h, "sent")
       /\ ReleasePayment(p, [pay[p] EXCEPT !.status = "error"])
       /\ Answer(h) /\ MayArrive(h)
       /\ UNCHANGED <<rec, pac>>

\* definitiveRejection: a 4xx about the content, before a document exists.
ComplementRefused(h) ==
    LET p == req[h].of
    IN /\ ForPayment(h, "sent")
       /\ DocsOf(p) = {}
       /\ ReleasePayment(p, [pay[p] EXCEPT !.status = "error"])
       /\ Answer(h)
       /\ UNCHANGED <<rec, pac, late>>

\* A document without a uuid: its id is saved, and a pending one stays 'stamping'.
RecordComplement(h) ==
    LET p == req[h].of
    IN /\ ForPayment(h, "record")
       /\ UpdatePayment(p, [pay[p] EXCEPT
             !.fid = req[h].doc,
             !.status = IF req[h].kind = "failed" THEN "error" ELSE "stamping"])
       /\ Answer(h)
       /\ UNCHANGED <<rec, pac, late>>

\* The last write says 'stamped' whether the XML was archived or not.  If it
\* fails nothing is saved of what the PAC answered.
FinishComplement(h) ==
    LET p == req[h].of
    IN /\ ForPayment(h, "finish")
       /\ \/ /\ \E archived \in BOOLEAN :
                   WriteClaim(p, [pay[p] EXCEPT !.status = "stamped",
                         !.fid = req[h].doc, !.uuid = req[h].doc, !.xml = archived,
                         !.number = req[h].content.number, !.prior = req[h].content.prior])
             /\ GoTo(h, "folio")
          \/ "db" \in Faults /\ RowsUnchanged /\ Answer(h)
       /\ UNCHANGED <<rec, pac, late>>

\* assign_stamped_rep_number; if it fails the REP stays stamped without a folio.
AssignFolio(h) ==
    LET p == req[h].of
    IN /\ ForPayment(h, "folio")
       /\ UpdatePayment(p, [pay[p] EXCEPT !.folio = TRUE])
       /\ Answer(h)
       /\ UNCHANGED <<rec, pac, late>>

ComplementStep(h) ==
    \/ ClaimPayment(h) \/ PrepareComplement(h) \/ PrepareFails(h) \/ RefuseComplement(h)
    \/ ComplementUncertain(h) \/ ComplementRefused(h) \/ RecordComplement(h)
    \/ FinishComplement(h) \/ AssignFolio(h)

\* The isolate dies.
CrashRequest(h) ==
    /\ "crash" \in Faults
    /\ ~Serves(h, "idle")
    /\ Answer(h)
    /\ IF Serves(h, "sent") THEN MayArrive(h) ELSE UNCHANGED late
    /\ UNCHANGED <<pay, note, rec, fresh, pac>>
=============================================================================
