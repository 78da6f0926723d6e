------------------------------ MODULE Settlement ------------------------------
(***************************************************************************)
(* Settlement of an invoice by payments with complements and by credit     *)
(* notes: users, requests, the reconciliation and the PAC share the rows   *)
(* and the balance of one invoice.                                         *)
(***************************************************************************)
EXTENDS ReconcileSettlement

HandlerStep(h) == SendToPac(h) \/ PacAnswers(h) \/ ComplementStep(h) \/ NoteStep(h)

Next ==
    \/ UserStep
    \/ \E h \in Handlers, p \in Payments : AskComplement(h, p)
    \/ \E h \in Handlers, n \in Notes : AskNote(h, n)
    \/ \E h \in Handlers : HandlerStep(h) \/ CrashRequest(h)
    \/ \E r \in Reconcilers : ReconcilerStep(r)
    \/ \E p \in Payments : RecoverFolio(p)
    \/ PacStep

Spec == Init /\ [][Next]_vars

\* A handler that runs goes on or times out; the PAC settles what it accepted and
\* drops or serves what was given up; the reconciliation runs every five minutes,
\* is not cut off each time, and its lookups, downloads and writes succeed now and
\* then.
Fairness ==
    /\ \A h \in Handlers : WF_vars(HandlerStep(h))
    /\ \A l \in Aborted : WF_vars(PacServesLate(l))
    /\ \A d \in Documents : WF_vars(PacSettles(d))
    /\ \A r \in Reconcilers :
          /\ \A x \in Rows : SF_vars(SelectStuck(r, x))
          /\ WF_vars(LeaveStuck(r))
          /\ SF_vars(ClaimStuck(r))
          /\ SF_vars(RecoverIds(r))
          /\ SF_vars(NotYetStamped(r) \/ MissDocument(r))
          /\ SF_vars(ArchiveFiles(r) \/ XmlFails(r))
    /\ \A p \in Payments : WF_vars(RecoverFolio(p))

FairSpec == Spec /\ Fairness

-----------------------------------------------------------------------------
(* Properties                                                              *)

Emitting(h) == req[h].pc \in {"prepare", "check", "sent", "record", "finish"}

\* A payment or a note has at most one request between its claim and its last
\* write, and none while a run of the reconciliation may still write it: a claim
\* never expires, and the age limit and the token keep the reconciliation away.
SingleEmitter ==
    /\ \A g, h \in Handlers :
          Emitting(g) /\ Emitting(h) /\ req[g].of = req[h].of => g = h
    /\ \A h \in Handlers, r \in Reconcilers :
          Emitting(h) /\ r \in fresh => rec[r].of # req[h].of

\* Two runs of the reconciliation never work on the same row: the claim of one takes
\* the token from the other.
OneReconciler ==
    \A q, r \in Reconcilers :
        /\ rec[q].pc \in {"claimed", "fetch"} /\ rec[r].pc \in {"claimed", "fetch"}
        /\ rec[q].of = rec[r].of
        => q = r

\* No payment has two complements and no note two CFDI, however often it is sent,
\* given up, served late, reverted and sent again.
OneCfdi ==
    \A x \in Rows : Cardinality({d \in DocsOf(x) : pac[d].state # "failed"}) <= 1

\* What the database calls stamped or cancelled is a document of the PAC made for
\* that row, or the stub of a note; and cancelled means that the SAT cancelled it.
StampedIsFiscal ==
    \A x \in Rows :
        LET row == RowOf(x)
        IN /\ row.status \in {"stamped", "cancelled"} => row.uuid # NoDoc
           /\ row.uuid \in Documents =>
                 /\ row.fid = row.uuid
                 /\ pac[row.uuid].of = x
                 /\ pac[row.uuid].state \in {"valid", "cancelled"}
           /\ row.status = "cancelled" => pac[row.uuid].state = "cancelled"

\* No late write undoes a stamping or replaces an id, although the writes of the
\* complement handler have no conditions.  A payment may go once its complement is
\* cancelled, and not before.
FiscalIdentityStays ==
    [][\A x \in Rows :
          LET before == RowOf(x)
              after == RowOf(x)'
          IN /\ before.status = "stamped" => after.status \in {"stamped", "cancelled"}
             /\ before.status = "cancelled" => after.status \in {"cancelled", "deleted"}
             /\ before.uuid # NoDoc /\ Live(after) => after.uuid = before.uuid]_vars

\* The SAT never holds two live complements of the invoice with one instalment
\* number: the number is counted in a transaction, kept while the request is under
\* way and after it failed, and given back by a cancellation only.
InstalmentsDiffer ==
    \A d, e \in Documents :
        /\ pac[d].of \in Payments /\ pac[d].state \in {"pending", "valid"}
        /\ pac[e].of \in Payments /\ pac[e].state \in {"pending", "valid"}
        /\ pac[d].content.number = pac[e].content.number
        => d = e

Issued(S) == {d \in Documents : pac[d].of \in S /\ pac[d].state \in {"pending", "valid"}}

DeclaredBy(S) == MapThenSumSet(LAMBDA d : pac[d].content.amount, Issued(S))

\* The credit notes at the SAT never return more than the invoice.
NotesWithinTotal == DeclaredBy(Notes) <= Total

\* A complement says of a payment what the database says of it.
ComplementMatchesRow ==
    \A p \in Payments :
        pay[p].status = "stamped" =>
            LET content == pac[pay[p].uuid].content
            IN pay[p].amount = content.amount /\ pay[p].number = content.number

\* No complement is forgotten, whatever crashes or is lost: while a payment lacks
\* the id of a document issued for it, it is 'stamping', and the reconciliation
\* looks for it.
IssuedIsTracked ==
    \A d \in Documents :
        pac[d].of \in Payments /\ pac[d].state # "failed" =>
            pay[pac[d].of].fid = d \/ pay[pac[d].of].status = "stamping"

\* No payment and no note stays 'stamping' for good.
StampingResolves ==
    \A x \in Rows : RowOf(x).status = "stamping" ~> RowOf(x).status # "stamping"

\* Every complement that stays stamped gets its folio, whatever failed after the PAC
\* answered.
FolioArrives ==
    \A p \in Payments :
        pay[p].status = "stamped" ~> pay[p].folio \/ pay[p].status # "stamped"
=============================================================================
