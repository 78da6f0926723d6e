-------------------------- MODULE RecoveryHistory ---------------------------
(***************************************************************************)
(* FiscalRecovery with a history variable.  platform_begin_fiscal_action   *)
(* asks whether the row of the queue is being processed, and not whether   *)
(* the invoice is being stamped, so an operator may save a document behind *)
(* the back of the request that stamps it.  crossed remembers the invoices *)
(* to which this has happened.  No action reads it.                        *)
(***************************************************************************)
EXTENDS FiscalRecovery

VARIABLE crossed

historyVars == <<recoveryVars, crossed>>

HistoryInit == RecoveryInit /\ crossed = {}

\* Action a completes and writes invoice i, which was being stamped when the action
\* was begun and is being stamped still.
Crosses(a, i) ==
    /\ At(a, "complete") /\ act'[a] # act[a]
    /\ i = DocumentOf(a) /\ act[a].doc.status = "stamping"
    /\ inv'[i] # inv[i]
    /\ \E h \in Handlers : req[h].inv = i /\ Emitting(h)

HistoryNext ==
    /\ RecoveryNext
    /\ crossed' = crossed \cup {i \in Invoices : \E a \in Actions : Crosses(a, i)}

HistorySpec == HistoryInit /\ [][HistoryNext]_historyVars
-----------------------------------------------------------------------------
\* The one way in which a valid CFDI with a saved id is left to nobody is an operator
\* who acts while the invoice is being stamped: neither a takeover of the row or a
\* late server, nor an operator who began before the request did, leaves one.
UncrossedIsFinished == \A i \in Invoices \ crossed : Followed(i)
=============================================================================
