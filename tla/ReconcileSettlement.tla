-------------------------- MODULE ReconcileSettlement --------------------------
(***************************************************************************)
(* reconcile-stamping-invoices, on the complements and credit notes that   *)
(* stay 'stamping' and on the complements without a folio.                 *)
(***************************************************************************)
EXTENDS StampCreditNote

\* Mutant of Quiet: the age limit is shorter than the life of a handler.
QuietTooSoon(x) == \A r \in Reconcilers : rec[r].of = x => rec[r].pc = "selected"

\* Timing assumption: ten minutes after the claim of a payment, or the last write
\* of a note, no handler or other run still works on it (they live at most a few
\* minutes), and a prompt PAC has served or dropped what was given up.
Quiet(x) ==
    /\ \A h \in Handlers : req[h].of = x => Serves(h, "claim")
    /\ \A r \in Reconcilers : rec[r].of = x => rec[r].pc = "selected"
    /\ PacIsPrompt => \A l \in late : l.of # x

SelectStuck(r, x) ==
    /\ rec[r].pc = "idle"
    /\ RowOf(x).status = "stamping"
    /\ Quiet(x)
    /\ rec' = [rec EXCEPT ![r] =
          [pc |-> "selected", of |-> x, fid |-> RowOf(x).fid, uuid |-> RowOf(x).uuid,
           misses |-> RowOf(x).misses, attempts |-> RowOf(x).attempts]]
    /\ fresh' = fresh \cup {r}
    /\ UNCHANGED <<pay, note, req, pac, late>>

\* Every update of a run is conditioned on 'stamping' and on its token: the
\* rep_stamping_started_at or updated_at that it read or wrote last.
Holds(r) == r \in fresh /\ RowOf(rec[r].of).status = "stamping"

Set(r, row) ==
    LET x == rec[r].of
    IN IF x \in Payments THEN pay' = [pay EXCEPT ![x] = row] /\ UNCHANGED note
       ELSE note' = [note EXCEPT ![x] = row] /\ UNCHANGED pay

\* The update of a credit note that sets status to 'stamped' runs the trigger.
Allowed(r, row) ==
    rec[r].of \in Notes /\ row.status = "stamped" => WithinCap(rec[r].of, row.amount)

Rest(r) == rec' = [rec EXCEPT ![r] = Resting]

\* An update, after which the run goes on with this row or leaves it.
PersistAndGoOn(r, row, cycle) ==
    /\ Holds(r)
    /\ Set(r, row)
    /\ fresh' = (fresh \ Readers(rec[r].of)) \cup {r}
    /\ rec' = [rec EXCEPT ![r] = cycle]

PersistAndRest(r, row) ==
    /\ Holds(r) /\ Allowed(r, row)
    /\ Set(r, row)
    /\ fresh' = fresh \ Readers(rec[r].of)
    /\ Rest(r)

ClaimStuck(r) ==
    /\ rec[r].pc = "selected"
    /\ PersistAndGoOn(r, RowOf(rec[r].of), [rec[r] EXCEPT !.pc = "claimed"])
    /\ UNCHANGED <<req, pac, late>>

\* The row is not the one that was read, or an update fails, or the lookup does:
\* the run leaves the row as it is.
LeaveStuck(r) ==
    /\ rec[r].pc # "idle"
    /\ Rest(r)
    /\ fresh' = fresh \ {r}
    /\ UNCHANGED <<pay, note, req, pac, late>>

LacksId(r) == rec[r].fid = NoDoc \/ rec[r].uuid = NoDoc

\* Mutant of Missed: the limit is compared for equality with the count before it.
MissedLate(row, misses) ==
    [row EXCEPT !.misses = misses + 1,
                !.status = IF misses > MaxMisses THEN "error" ELSE @]

\* Mutant of Missed: a miss is not counted.
MissedUncounted(row, misses) == row

\* decideLookupOutcome, a miss: it counts, and the last one gives the document up.
Missed(row, misses) ==
    [row EXCEPT !.misses = misses + 1,
                !.status = IF misses + 1 >= MaxMisses THEN "error" ELSE @]

\* decideLookupOutcome, for a row that lacks an id.  A hit goes on to the files;
\* a cancelled document still has its uuid.
RecoverIds(r) ==
    LET x == rec[r].of
    IN /\ rec[r].pc = "claimed" /\ LacksId(r)
       /\ \E d \in Found(x, rec[r].fid) :
             /\ pac[d].state \in {"valid", "cancelled"}
             /\ PersistAndGoOn(r, [RowOf(x) EXCEPT !.fid = d, !.uuid = d, !.misses = 0],
                               [rec[r] EXCEPT !.pc = "fetch", !.fid = d, !.uuid = d])
       /\ UNCHANGED <<req, pac, late>>

NotYetStamped(r) ==
    LET x == rec[r].of
    IN /\ rec[r].pc = "claimed" /\ LacksId(r)
       /\ \E d \in Found(x, rec[r].fid) :
             /\ pac[d].state \in {"pending", "failed"}
             /\ PersistAndRest(r, [RowOf(x) EXCEPT !.fid = d,
                                   !.status = IF pac[d].state = "failed" THEN "error" ELSE @])
       /\ UNCHANGED <<req, pac, late>>

MissDocument(r) ==
    LET x == rec[r].of
    IN /\ rec[r].pc = "claimed" /\ LacksId(r)
       /\ Found(x, rec[r].fid) = {}
       /\ PersistAndRest(r, Missed(RowOf(x), rec[r].misses))
       /\ UNCHANGED <<req, pac, late>>

WithIds(r) == rec[r].pc = "fetch" \/ (rec[r].pc = "claimed" /\ ~LacksId(r))

\* The files are archived and the row becomes 'stamped', whatever the document says.
ArchiveFiles(r) ==
    LET x == rec[r].of
    IN /\ WithIds(r)
       /\ PersistAndRest(r, [RowOf(x) EXCEPT !.status = "stamped", !.xml = TRUE,
                             !.xmlPending = FALSE, !.misses = 0, !.attempts = 0])
       /\ UNCHANGED <<req, pac, late>>

\* decideXmlFailure: without the XML the row waits; after enough cycles it is given
\* as stamped and the XML as pending.
XmlFails(r) ==
    LET x == rec[r].of
        spent == rec[r].attempts + 1 >= MaxXmlAttempts
    IN /\ WithIds(r)
       /\ PersistAndRest(r, [RowOf(x) EXCEPT !.attempts = rec[r].attempts + 1,
                             !.status = IF spent THEN "stamped" ELSE @,
                             !.xmlPending = @ \/ spent])
       /\ UNCHANGED <<req, pac, late>>

\* Mutant of RecoverFolio: the folio is looked for as long as the row is 'stamping'.
RecoverFolioWhileStamping(p) ==
    /\ pay[p].status = "stamping" /\ ~pay[p].folio /\ pay[p].fid # NoDoc
    /\ WritePayment(p, [pay[p] EXCEPT !.folio = TRUE])
    /\ UNCHANGED <<req, rec, pac, late>>

\* recoverRepFolio, after a recovery and for every stamped payment without a folio.
RecoverFolio(p) ==
    /\ pay[p].status = "stamped" /\ ~pay[p].folio /\ pay[p].fid # NoDoc
    /\ WritePayment(p, [pay[p] EXCEPT !.folio = TRUE])
    /\ UNCHANGED <<req, rec, pac, late>>

ReconcilerStep(r) ==
    \/ \E x \in Rows : SelectStuck(r, x)
    \/ ClaimStuck(r) \/ LeaveStuck(r) \/ RecoverIds(r) \/ NotYetStamped(r) \/ MissDocument(r)
    \/ ArchiveFiles(r) \/ XmlFails(r)
=============================================================================
