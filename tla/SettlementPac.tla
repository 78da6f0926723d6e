----------------------------- MODULE SettlementPac -----------------------------
(***************************************************************************)
(* The PAC and the SAT behind it (external): complements and credit notes  *)
(* are created for an external_id and an idempotency key, both the id of   *)
(* the payment or of the credit note, and may be cancelled later.          *)
(***************************************************************************)
EXTENDS SettlementState

\* Mutant of SharesKey: each create call carries a key of its own.
SharesKeyNever(x, d) == FALSE

\* external_id and idempotency_key are the id of the row.
SharesKey(x, d) == pac[d].of = x

DocsOf(x) == {d \in Documents : pac[d].of = x}
Unused == {d \in Documents : pac[d].of = NoRow}

\* The document a create call yields: the one already made for this key, with
\* the content it had, or a new one.
Creates(x, content, d, state) ==
    \/ /\ SharesKey(x, d)
       /\ state = pac[d].state
       /\ UNCHANGED pac
    \/ /\ \A e \in Documents : ~SharesKey(x, e)
       /\ d \in Unused /\ \A e \in Unused : d <= e
       /\ state # "cancelled"
       /\ pac' = [pac EXCEPT ![d] = [of |-> x, content |-> content, state |-> state,
                                     listed |-> PacIsPrompt]]

\* A request the handler gave up on was processed all the same, or never arrived.
PacServesLate(l) ==
    /\ l \in late
    /\ late' = late \ {l}
    /\ \/ UNCHANGED pac
       \/ \E d \in Documents, state \in PacState : Creates(l.of, l.content, d, state)
    /\ UNCHANGED <<pay, note, req, rec, fresh>>

PacSettles(d) ==
    /\ pac[d].of # NoRow /\ pac[d].state = "pending"
    /\ \E state \in {"valid", "failed"} : pac' = [pac EXCEPT ![d].state = state]
    /\ UNCHANGED <<pay, note, req, rec, fresh, late>>

\* Searches of the PAC are eventually consistent.
PacLists(d) ==
    /\ pac[d].of # NoRow /\ ~pac[d].listed
    /\ pac' = [pac EXCEPT ![d].listed = TRUE]
    /\ UNCHANGED <<pay, note, req, rec, fresh, late>>

\* cancel-payment-complement asks the SAT to cancel a stamped complement, and
\* the SAT accepts ...
SatCancels(p) ==
    /\ "cancel" \in UserMoves
    /\ pay[p].status = "stamped"
    /\ pac[pay[p].uuid].state = "valid"
    /\ pac' = [pac EXCEPT ![pay[p].uuid].state = "cancelled"]
    /\ UNCHANGED <<pay, note, req, rec, fresh, late>>

\* ... which is recorded when the answer or a refresh arrives.
RecordCancelled(p) ==
    /\ pay[p].status = "stamped"
    /\ pac[pay[p].uuid].state = "cancelled"
    /\ WritePayment(p, [pay[p] EXCEPT !.status = "cancelled"])
    /\ UNCHANGED <<req, rec, pac, late>>

PacStep ==
    \/ \E l \in late : PacServesLate(l)
    \/ \E d \in Documents : PacSettles(d) \/ PacLists(d)
    \/ \E p \in Payments : SatCancels(p) \/ RecordCancelled(p)

\* lookupPacInvoice: by id when one is saved, else by external_id.
Found(x, fid) ==
    IF fid # NoDoc THEN {fid} ELSE {d \in DocsOf(x) : pac[d].listed}
=============================================================================
