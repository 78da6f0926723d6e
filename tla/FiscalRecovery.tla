--------------------------- MODULE FiscalRecovery ---------------------------
(***************************************************************************)
(* Recovery of a retry job by an operator of the platform, for the rows    *)
(* whose operation is 'stamp' (migration 0099 and                          *)
(* platformFiscalActions.server.ts).  A request reserves the row with the  *)
(* token the queue uses for its lease, asks the PAC once and completes in  *)
(* a transaction of its own.  Meanwhile everything of InvoiceStamping goes *)
(* on.                                                                     *)
(*                                                                         *)
(* The revision of a job moves with every change of its row, and the token *)
(* with every update, so a token that is current makes the revision so.    *)
(* max_attempts is raised only when the attempts have reached it, to one   *)
(* more than they are: comparing them with MaxAttempts comes to the same.  *)
(***************************************************************************)
EXTENDS InvoiceStamping

CONSTANTS Actions,         \* requests of operators, platform_fiscal_actions
          MaxRetries,      \* retries an operator may schedule for a row, 5
          AttemptsLimit,   \* attempts beyond which none is scheduled, 20
          ServerDies       \* whether a server may die between its transactions

ASSUME RecoveryAssumption ==
    /\ MaxRetries \in Nat /\ AttemptsLimit \in Nat
    /\ ServerDies \in BOOLEAN
    /\ \A j \in Jobs : OpOf[j] = "stamp"

VARIABLES act,    \* act[a]: an action and the server process that performs it
          asSeen  \* actions whose document has not been updated since their snapshot

recoveryVars == <<vars, act, asSeen>>

Settled == {"recovered", "pac_pending", "missing", "retry_scheduled", "provider_failed",
            "inconclusive", "config_changed", "document_changed", "expired",
            "budget_exhausted"}

Outcomes == PacState \cup {"missing", "inconclusive"}

Action == [status: {"unused", "pending"} \cup Settled, step: {"none", "lookup", "complete"},
           job: Jobs \cup {NoJob}, token: Nat,
           prev: {"none", "pending", "succeeded", "exhausted"},   \* previous_state
           doc: Invoice,                                          \* document_snapshot
           outcome: Outcomes, found: Documents \cup {NoDoc}]

NoAction == [status |-> "unused", step |-> "none", job |-> NoJob, token |-> 0,
             prev |-> "none", doc |-> Draft,
             outcome |-> "inconclusive", found |-> NoDoc]

RecoveryTypeOK ==
    /\ TypeOK
    /\ act \in [Actions -> Action]
    /\ asSeen \subseteq Actions

RecoveryInit ==
    /\ Init
    /\ act = [a \in Actions |-> NoAction]
    /\ asSeen = {}

-----------------------------------------------------------------------------
Pending(a) == act[a].status = "pending"
At(a, step) == act[a].step = step
DocumentOf(a) == DocOf[act[a].job]

\* Mutant of Reserves: the revision alone, which a takeover does not move.
ReservesByStatus(a) == Pending(a) /\ queue[act[a].job].status = "processing"

\* The row is still the one the reservation wrote.
Reserves(a) ==
    /\ Pending(a)
    /\ queue[act[a].job].status = "processing"
    /\ queue[act[a].job].updatedAt = act[a].token

SetRow(j, status) ==
    queue' = [queue EXCEPT ![j] = Queue!Touched(@, status, @.attempts, @.deferrals)]

\* platform_begin_fiscal_action.  It is refused, and changes nothing, while the row
\* is being processed or another action on it is pending, when the configuration is
\* no longer that of the attempt, or within a minute of the previous action.  The
\* intent, to reconcile or to retry, is read at the end only: Verdicts has both.
Begin(a, j) ==
    /\ act[a] = NoAction
    /\ queue[j].status \in {"pending", "succeeded", "exhausted"}
    /\ \A b \in Actions : Pending(b) => act[b].job # j
    /\ queue[j].updatedAt < MaxVersion
    /\ SetRow(j, "processing")
    /\ act' = [act EXCEPT ![a] =
          [NoAction EXCEPT !.status = "pending", !.step = "lookup", !.job = j,
                           !.token = queue[j].updatedAt + 1, !.prev = queue[j].status,
                           !.doc = inv[DocOf[j]]]]
    /\ asSeen' = asSeen \cup {a}
    /\ UNCHANGED <<hold, inv, fresh, req, work, rec, pac, late>>

\* lookupPlatformFiscalDocument: one GET, by the id in the snapshot or by
\* external_id.  Whatever is not one clear document is inconclusive.
AskPac(a) ==
    LET found == Found(DocumentOf(a), act[a].doc.fid)
        learns(outcome, d) == act' = [act EXCEPT ![a].step = "complete",
                                                 ![a].outcome = outcome, ![a].found = d]
    IN /\ At(a, "lookup")
       /\ \/ learns("inconclusive", NoDoc)
          \/ found = {} /\ learns("missing", NoDoc)
          \/ Cardinality(found) = 1 /\ \E d \in found : learns(pac[d].state, d)
       /\ UNCHANGED <<vars, asSeen>>

-----------------------------------------------------------------------------
(* platform_complete_fiscal_action, one transaction                        *)

\* A finished action is history: only its job and status are read again.
Finished(a, status) == [NoAction EXCEPT !.status = status, !.job = act[a].job]

\* Mutant of GivenBack: an unresolved question leaves the row to the queue.
GivenBackOpen(a) == "pending"

\* An unresolved question does not give a pending row back to the queue.
GivenBack(a) == IF act[a].prev = "pending" THEN "exhausted" ELSE act[a].prev

\* What was found is not the document the row had.
OtherDocument(a) ==
    /\ act[a].doc.uuid # NoDoc /\ act[a].found # act[a].doc.uuid
    /\ act[a].outcome \in {"valid", "missing"}

\* A retry is only for a document that the PAC does not have and the row does not
\* know of, and that is not being stamped.
MayRetry(a) ==
    /\ act[a].outcome = "missing"
    /\ act[a].doc.fid = NoDoc /\ act[a].doc.uuid = NoDoc
    /\ act[a].doc.status \in {"pending", "error"}

Scheduled(j) == {a \in Actions : act[a].job = j /\ act[a].status = "retry_scheduled"}

BudgetSpent(j) ==
    queue[j].attempts >= AttemptsLimit \/ Cardinality(Scheduled(j)) >= MaxRetries

\* What the answer of the PAC means for a row nobody has touched.
Verdict(a, retry) ==
    CASE OtherDocument(a)            -> "inconclusive"
      [] act[a].outcome = "valid"   -> "recovered"
      [] act[a].outcome = "pending" -> "pac_pending"
      [] act[a].outcome = "failed"  -> "provider_failed"
      [] retry /\ MayRetry(a) -> IF BudgetSpent(act[a].job) THEN "budget_exhausted"
                        ELSE "retry_scheduled"
      [] OTHER -> act[a].outcome

\* Mutant of Verdicts: the snapshot is not compared.
VerdictsUnseen(a) == {Verdict(a, retry) : retry \in BOOLEAN}

\* A change of a column that is not modelled is a change of the document, too.
Verdicts(a) ==
    {"document_changed"}
        \cup (IF "slow" \in Faults THEN {"expired"} ELSE {})
        \cup (IF "config" \in Faults THEN {"config_changed"} ELSE {})
        \cup (IF a \in asSeen THEN {Verdict(a, retry) : retry \in BOOLEAN} ELSE {})

RowAfter(a, status) ==
    CASE status \in {"recovered", "pac_pending"} -> "succeeded"
      [] status = "retry_scheduled" -> "pending"
      [] OTHER -> GivenBack(a)

\* Updates of an invoice by anybody, the claims of the reconciliation included.
Rewritten(i) ==
    \/ inv'[i] # inv[i]
    \/ \E r \in Reconcilers :
          rec[r].inv = i /\ rec[r].pc = "selected" /\ rec'[r].pc = "claimed"

StillSeen == {a \in asSeen : ~Rewritten(DocumentOf(a))}

\* A document that is found is saved and left to the reconciliation.
Recovered(a, row) ==
    [row EXCEPT !.fid = act[a].found, !.status = "stamping",
                !.uuid = IF act[a].outcome = "valid" THEN act[a].found ELSE NoDoc]

Complete(a) ==
    LET i == DocumentOf(a)
    IN /\ At(a, "complete")
       /\ Reserves(a)
       /\ \E status \in Verdicts(a) :
             /\ SetRow(act[a].job, RowAfter(a, status))
             /\ act' = [act EXCEPT ![a] = Finished(a, status)]
             /\ IF /\ status \in {"recovered", "pac_pending"}
                   /\ inv[i].status # "stamped" /\ inv[i].uuid = NoDoc
                THEN Write(i, Recovered(a, inv[i]))
                ELSE UnchangedInvoices
       /\ UNCHANGED <<hold, req, work, rec, pac, late>>
       /\ asSeen' = StillSeen \ {a}

\* The row is somebody else's, or the action was released: no row is written.
CompleteLost(a) ==
    /\ At(a, "complete")
    /\ ~Reserves(a)
    /\ act' = [act EXCEPT ![a] = Finished(a, IF Pending(a) THEN "document_changed"
                                                           ELSE @.status)]
    /\ asSeen' = asSeen \ {a}
    /\ UNCHANGED vars

\* A reservation that nobody will complete: what it learned is of no use any more.
Unserved(a) == [NoAction EXCEPT !.status = "pending", !.job = act[a].job,
                                !.token = act[a].token, !.prev = act[a].prev]

\* The server dies between the two transactions, or the second one fails, as when
\* the folio is taken.
Vanish(a) ==
    /\ ServerDies
    /\ ~At(a, "none")
    /\ act' = [act EXCEPT ![a] = IF Pending(a) THEN Unserved(a) ELSE Finished(a, @.status)]
    /\ asSeen' = asSeen \ {a}
    /\ UNCHANGED vars

\* Two minutes are over, much more than a server takes that is not slow.
Expired(a) == At(a, "none") \/ "slow" \in Faults

\* platform_begin_fiscal_action finds an expired reservation, of the same request or
\* another: it is released, and nothing is begun.
Release(a) ==
    /\ Pending(a) /\ Expired(a)
    /\ IF Reserves(a) THEN SetRow(act[a].job, act[a].prev) ELSE UNCHANGED queue
    /\ act' = [act EXCEPT ![a] = IF At(a, "none") THEN Finished(a, "expired")
                                 ELSE [@ EXCEPT !.status = "expired"]]
    /\ asSeen' = asSeen \ {a}
    /\ UNCHANGED <<hold, inv, fresh, req, work, rec, pac, late>>

OperatorStep(a) ==
    \/ \E j \in Jobs : Begin(a, j)
    \/ AskPac(a) \/ Complete(a) \/ CompleteLost(a) \/ Vanish(a) \/ Release(a)

-----------------------------------------------------------------------------
\* Timing assumption, as in Stale: nobody takes a row from a live server, whose
\* call to the PAC has a limit of eight seconds, unless it is slow.
NotOvertaken(c) ==
    LET j == hold'[c].job
    IN hold[c].phase = "idle" /\ hold'[c].phase = "selected"
          /\ queue[j].status = "processing" /\ "slow" \notin Faults
       => \A a \in Actions : Pending(a) /\ act[a].job = j => At(a, "none")

AutomaticStep ==
    /\ Next
    /\ \A c \in Consumers : NotOvertaken(c)
    /\ asSeen' = StillSeen
    /\ UNCHANGED act

RecoveryNext == AutomaticStep \/ \E a \in Actions : OperatorStep(a)

RecoverySpec == RecoveryInit /\ [][RecoveryNext]_recoveryVars
-----------------------------------------------------------------------------
(* Properties                                                              *)

\* Of the runs and the reservations that believe they have a row, one at most can
\* still write it: both prove it with the same token, also after a takeover that
\* leaves the row 'processing' and its revision as they were.
OneHolder ==
    /\ Queue!SingleOwner
    /\ \A a \in Actions : Reserves(a) =>
          /\ \A b \in Actions : Reserves(b) /\ act[b].job = act[a].job => b = a
          /\ \A c \in Consumers : hold[c].job = act[a].job => ~Queue!Owns(c)

\* Real attempts stay within the budget of the row, plus one for each retry that was
\* scheduled, plus one for each reservation that ended without an answer: the queue
\* takes a row over from a dead server without asking what it was before.
Unanswered(j) ==
    {a \in Actions : /\ act[a].job = j
                     /\ act[a].status \in {"pending", "expired", "document_changed"}}

AttemptsAreGranted ==
    \A j \in Jobs :
        queue[j].attempts <= MaxAttempts + Cardinality(Scheduled(j) \cup Unanswered(j))

\* The PAC's total is not the invoice's, which was edited while it was being stamped:
\* the CFDI is saved and a person compares the two (computeStampVariance).
SetAside(row) == row.status = "error" /\ row.uuid # NoDoc /\ row.total > 0

\* Somebody goes on with a valid CFDI whose id is saved: the invoice is stamped, or
\* 'stamping' for its request or the reconciliation to finish.
Followed(i) ==
    inv[i].fid # NoDoc /\ pac[inv[i].fid].state = "valid" =>
        inv[i].status \in {"stamping", "stamped"} \/ SetAside(inv[i])

\* "Un CFDI valido conserva UUID, folio y serie de Facturapi; permanece en
\* `stamping` hasta recuperar sus archivos": an operator recovers the document of an
\* invoice in order that it be finished (docs/platform-fiscal-recovery.md).
IdentifiedIsFinished == \A i \in Invoices : Followed(i)
=============================================================================
