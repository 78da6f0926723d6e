--------------------------- MODULE InvoiceStamping ---------------------------
(***************************************************************************)
(* Stamping of an invoice: requests of stamp-cfdi made by users or by the  *)
(* retry queue, runs of the queue, runs of the reconciliation and the PAC. *)
(* They share the row of the invoice and the documents of the PAC, and     *)
(* nothing else keeps them apart.                                          *)
(***************************************************************************)
EXTENDS RetryConsumer, ReconcileStamping

-----------------------------------------------------------------------------
Next ==
    \/ \E i \in Invoices : EditInvoice(i)
    \/ \E h \in Handlers, i \in Invoices : UserRequest(h, i)
    \/ \E h \in Handlers : HandlerStep(h) \/ CrashRequest(h)
    \/ PacStep
    \/ \E c \in Consumers : ConsumerStep(c)
    \/ \E r \in Reconcilers : ReconcilerStep(r) \/ CrashReconciler(r)

Spec == Init /\ [][Next]_vars

\* A handler that runs goes on or times out; the PAC settles what it accepted
\* and drops or serves what was aborted; the reconciliation runs every five
\* minutes, is not cut off each time, and its lookups and writes succeed now
\* and then.
Fairness ==
    /\ \A h \in Handlers : WF_vars(HandlerStep(h))
    /\ \A l \in Aborted : WF_vars(PacServesLate(l))
    /\ \A d \in Documents : WF_vars(PacSettles(d))
    /\ \A r \in Reconcilers :
          /\ WF_vars(\E i \in Invoices : SelectStuck(r, i))
          /\ WF_vars(SkipStuck(r))
          /\ SF_vars(ClaimStuck(r))
          /\ SF_vars(ResolveStuck(r))
          /\ SF_vars(FetchStuck(r))

FairSpec == Spec /\ Fairness

-----------------------------------------------------------------------------
(* Properties                                                              *)

\* An invoice has at most one request between its claim and its last write: the
\* claim of stamp-cfdi, the CAS of the queue and the age limit of the
\* reconciliation together leave no room for two.
Emitting(h) == req[h].pc \in {"config", "sent", "refused", "record", "persist", "finish"}

SingleEmitter ==
    \A g, h \in Handlers :
        Emitting(g) /\ Emitting(h) /\ req[g].inv = req[h].inv => g = h

\* An invoice never has two CFDI, however often it is sent, timed out, served
\* late, reverted and sent again (external_id and idempotency_key).
OneCfdi ==
    \A i \in Invoices : Cardinality({d \in DocsOf(i) : pac[d].state # "failed"}) <= 1

\* What the database calls stamped is a valid document of the PAC made for that
\* invoice, or a stub of the test mode; and a saved uuid is never a guess.
StampedIsFiscal ==
    \A i \in Invoices :
        /\ inv[i].status = "stamped" => inv[i].uuid # NoDoc
        /\ inv[i].uuid \in Documents =>
              /\ inv[i].fid \in {inv[i].uuid, NoDoc}
              /\ inv[i].uuid \in DocsOf(i)
              /\ pac[inv[i].uuid].state = "valid"

\* No late write undoes a stamping or replaces an id: handlers write the row
\* without conditions, so this rests on who may be alive at the same time.
FiscalIdentityStays ==
    [][\A i \in Invoices :
          /\ inv[i].status = "stamped" => inv'[i].status = "stamped"
          /\ inv[i].uuid # NoDoc => inv'[i].uuid = inv[i].uuid
          /\ inv[i].fid # NoDoc => inv'[i].fid = inv[i].fid]_vars

\* Without crashes and lost rows of the queue no CFDI is forgotten, although writes
\* of the invoice may fail: while its row does not hold the id, the row is
\* 'stamping', a request is still at work or a retry is open.
IssuedIsTracked ==
    \A d \in Documents :
        LET i == pac[d].inv
        IN i # NoInvoice /\ pac[d].state # "failed" =>
              \/ inv[i].fid = d
              \/ inv[i].status = "stamping"
              \/ \E h \in Handlers : req[h].inv = i /\ (Emitting(h) \/ Serves(h, "enqueue"))
              \/ \E j \in Jobs : DocOf[j] = i /\ queue[j].status \in {"pending", "processing"}

\* Two runs of the reconciliation never work on the same row (claimRow).
OneReconciler ==
    \A q, r \in Reconcilers :
        rec[q].pc = "claimed" /\ rec[r].pc = "claimed" /\ rec[q].inv = rec[r].inv => q = r

\* No invoice stays 'stamping' for good, whatever crashes, times out or is lost:
\* the reconciliation finds its document or gives it up.
StampingResolves ==
    \A i \in Invoices : inv[i].status = "stamping" ~> inv[i].status # "stamping"
=============================================================================
