-------------------------- MODULE ReconcileStamping --------------------------
(***************************************************************************)
(* reconcile-stamping-invoices: runs every five minutes and settles the    *)
(* invoices that stay 'stamping'.                                          *)
(***************************************************************************)
EXTENDS StampCfdi

\* Mutant of Quiet: the age limit is shorter than the life of a handler.
QuietTooSoon(i) == \A r \in Reconcilers : rec[r].inv = i => rec[r].pc # "claimed"

\* Timing assumption: ten minutes after the last write of a row no handler or
\* other run still works on it (they live at most a few minutes), and a prompt
\* PAC has served or dropped every aborted request.
Quiet(i) ==
    /\ \A h \in Handlers : req[h].inv = i => Serves(h, "claim") \/ Serves(h, "answered")
    /\ \A r \in Reconcilers : rec[r].inv = i => rec[r].pc # "claimed"
    /\ PacIsPrompt => \A l \in late : l.inv # i

SelectStuck(r, i) ==
    /\ rec[r].pc = "idle"
    /\ inv[i].status = "stamping"
    /\ Quiet(i)
    /\ rec' = [rec EXCEPT ![r] = [pc |-> "selected", inv |-> i, fid |-> inv[i].fid,
                                  uuid |-> inv[i].uuid, attempts |-> inv[i].attempts]]
    /\ fresh' = fresh \cup {r}
    /\ UNCHANGED <<queue, hold, inv, req, work, pac, late>>

\* Mutant of ClaimStuck: the claim does not compare updated_at.
ClaimStuckBlindly(r) ==
    /\ rec[r].pc = "selected"
    /\ Write(rec[r].inv, inv[rec[r].inv])
    /\ rec' = [rec EXCEPT ![r].pc = "claimed"]
    /\ UNCHANGED <<queue, hold, req, work, pac, late>>

\* claimRow: touches the row if it is the one that was read.
ClaimStuck(r) ==
    /\ rec[r].pc = "selected"
    /\ r \in fresh
    /\ Write(rec[r].inv, inv[rec[r].inv])
    /\ rec' = [rec EXCEPT ![r].pc = "claimed"]
    /\ UNCHANGED <<queue, hold, req, work, pac, late>>

Rest(r) == rec' = [rec EXCEPT ![r] = Resting]

SkipStuck(r) ==
    /\ rec[r].pc = "selected"
    /\ r \notin fresh
    /\ Rest(r)
    /\ UNCHANGED <<queue, hold, inv, fresh, req, work, pac, late>>

\* Mutant of Bumped: a miss is not written back.
BumpedNever(attempts) == attempts

\* The counter only matters up to its limit.
Bumped(attempts) == IF attempts < MaxStampingAttempts THEN attempts + 1 ELSE attempts

MissesExhausted(attempts) == attempts + 1 >= MaxStampingAttempts

\* What a document found at the PAC makes of a row that lacks an id.
Resolved(row, d) ==
    [row EXCEPT !.fid = d,
                !.uuid = IF pac[d].state = "valid" THEN d ELSE @,
                !.status = IF pac[d].state = "failed" THEN "error" ELSE @]

\* A miss counts; the last one gives the document up.
Missed(row, attempts) ==
    [row EXCEPT !.attempts = Bumped(attempts),
                !.status = IF MissesExhausted(attempts) THEN "error" ELSE @]

LacksId(r) == rec[r].fid = NoDoc \/ rec[r].uuid = NoDoc

\* decideRowAction, for a row that lacks an id, and the write of each action.
ResolveStuck(r) ==
    LET i == rec[r].inv
        found == Found(i, rec[r].fid)
    IN /\ rec[r].pc = "claimed"
       /\ LacksId(r)
       /\ \/ /\ ~Inconclusive(i, rec[r].fid)
             /\ \E d \in found : Write(i, Resolved(inv[i], d))
          \/ found = {} /\ Write(i, Missed(inv[i], rec[r].attempts))
       /\ Rest(r)
       /\ UNCHANGED <<queue, hold, req, work, pac, late>>

\* The lookup fails, which says nothing about the PAC and spends no attempt, or
\* the write of its result is lost.
LookupFails(r) ==
    /\ rec[r].pc = "claimed"
    /\ LacksId(r)
    /\ Rest(r)
    /\ UNCHANGED <<queue, hold, inv, fresh, req, work, pac, late>>

\* What the RPC makes of the row: an id that is saved stays.
Reconciled(row, seen) ==
    [row EXCEPT !.status = "stamped", !.uuid = seen.uuid, !.xml = TRUE,
                !.fid = IF @ = NoDoc THEN seen.fid ELSE @, !.attempts = 0]

\* The RPC reconcile_stamping_invoice, which checks the row under a lock.
ReconcileRow(i, seen) ==
    IF inv[i].status = "stamped" THEN UnchangedInvoices ELSE Write(i, Reconciled(inv[i], seen))

\* The XML cannot be downloaded or archived: after enough cycles the invoice is
\* given as stamped and the XML as pending.
GiveUpXml(i, seen) ==
    LET spent == MissesExhausted(seen.attempts)
    IN Write(i, [inv[i] EXCEPT !.status = IF spent THEN "stamped" ELSE @,
                               !.xmlPending = @ \/ spent,
                               !.attempts = Bumped(seen.attempts)])

FetchStuck(r) ==
    /\ rec[r].pc = "claimed"
    /\ ~LacksId(r)
    /\ \/ ReconcileRow(rec[r].inv, rec[r])
       \/ GiveUpXml(rec[r].inv, rec[r])
    /\ Rest(r)
    /\ UNCHANGED <<queue, hold, req, work, pac, late>>

\* The RPC, or the write of a failed download, is an error: nothing is counted.
FetchLost(r) ==
    /\ "db" \in Faults
    /\ rec[r].pc = "claimed"
    /\ ~LacksId(r)
    /\ Rest(r)
    /\ UNCHANGED <<queue, hold, inv, fresh, req, work, pac, late>>

CrashReconciler(r) ==
    /\ "crash" \in Faults
    /\ rec[r].pc # "idle"
    /\ Rest(r)
    /\ fresh' = fresh \ {r}
    /\ UNCHANGED <<queue, hold, inv, req, work, pac, late>>

ReconcilerStep(r) ==
    \/ \E i \in Invoices : SelectStuck(r, i)
    \/ ClaimStuck(r) \/ SkipStuck(r) \/ ResolveStuck(r) \/ LookupFails(r)
    \/ FetchStuck(r) \/ FetchLost(r)
=============================================================================
