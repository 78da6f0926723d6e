--------------------------------- MODULE Pac ---------------------------------
(***************************************************************************)
(* The PAC (external): what the handlers rely on of Facturapi.  A document *)
(* is created for an external_id and an idempotency key, both the id of    *)
(* the invoice; it is valid at once or after a while, or fails.            *)
(***************************************************************************)
EXTENDS StampingState

\* Mutant of SharesKey: each create call carries a key of its own.
SharesKeyNever(i, d) == FALSE

\* external_id and idempotency_key: the id of the invoice, whoever sends it and
\* however often.
SharesKey(i, d) == pac[d].inv = i

DocsOf(i) == {d \in Documents : pac[d].inv = i}
Unused == {d \in Documents : pac[d].inv = NoInvoice}

\* The document a create call yields: the one it already made for this key, or
\* a new one.
Creates(i, total, d, state) ==
    \/ /\ SharesKey(i, d)
       /\ state = pac[d].state
       /\ UNCHANGED pac
    \/ /\ \A e \in Documents : ~SharesKey(i, e)
       /\ d \in Unused /\ \A e \in Unused : d <= e
       /\ pac' = [pac EXCEPT ![d] = [inv |-> i, state |-> state, listed |-> PacIsPrompt,
                                     total |-> total]]

\* An aborted request was processed all the same, or never arrived.
PacServesLate(l) ==
    /\ l \in late
    /\ late' = late \ {l}
    /\ \/ UNCHANGED pac
       \/ \E d \in Documents, state \in PacState : Creates(l.inv, l.total, d, state)
    /\ UNCHANGED <<queue, hold, inv, fresh, req, work, rec>>

PacSettles(d) ==
    /\ pac[d].inv # NoInvoice /\ pac[d].state = "pending"
    /\ \E state \in {"valid", "failed"} : pac' = [pac EXCEPT ![d].state = state]
    /\ UNCHANGED <<queue, hold, inv, fresh, req, work, rec, late>>

\* Searches of the PAC are eventually consistent.
PacLists(d) ==
    /\ pac[d].inv # NoInvoice /\ ~pac[d].listed
    /\ pac' = [pac EXCEPT ![d].listed = TRUE]
    /\ UNCHANGED <<queue, hold, inv, fresh, req, work, rec, late>>

PacStep ==
    \/ \E l \in late : PacServesLate(l)
    \/ \E d \in Documents : PacSettles(d) \/ PacLists(d)

\* lookupPacInvoice: by id when one is saved, else by external_id.  More than one
\* match is as inconclusive as an error.
Found(i, fid) ==
    IF fid # NoDoc THEN {fid} ELSE {d \in DocsOf(i) : pac[d].listed}

Inconclusive(i, fid) == Cardinality(Found(i, fid)) > 1
=============================================================================
