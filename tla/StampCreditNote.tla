---------------------------- MODULE StampCreditNote ----------------------------
(***************************************************************************)
(* The edge function stamp-credit-note, cut at its awaits.  Its writes are *)
(* conditioned on the row being 'stamping'.                                *)
(***************************************************************************)
EXTENDS StampComplement

ForNote(h, pc) == Serves(h, pc) /\ req[h].of \in Notes

\* The checks on the note as read.
AskNote(h, n) ==
    /\ Serves(h, "idle")
    /\ Live(note[n]) /\ note[n].status # "stamped" /\ note[n].fid = NoDoc
    /\ req' = [req EXCEPT ![h] = [FreeSlot EXCEPT !.pc = "claim", !.of = n]]
    /\ UNCHANGED <<pay, note, rec, fresh, pac, late>>

\* Mutant of ClaimableNote: the claim does not look at the status.
ClaimableNoteAnyStatus(row) == Live(row) /\ row.uuid = NoDoc

ClaimableNote(row) == row.status \in {"pending", "error"} /\ row.uuid = NoDoc

\* claim_credit_note_for_stamping: what is sent is what the claim returns.
ClaimNote(h) ==
    LET n == req[h].of
    IN /\ ForNote(h, "claim")
       /\ IF ClaimableNote(note[n])
          THEN /\ WriteNote(n, [note[n] EXCEPT !.status = "stamping", !.misses = 0])
               /\ req' = [req EXCEPT ![h].pc = "check",
                                     ![h].content = [Nothing EXCEPT !.amount = note[n].amount]]
          ELSE Answer(h) /\ RowsUnchanged
       /\ UNCHANGED <<rec, pac, late>>

\* An UPDATE conditioned on 'stamping' whose result nobody looks at.
IfStamping(n, row) ==
    \/ IF note[n].status = "stamping" THEN WriteNote(n, row) ELSE RowsUnchanged
    \/ "db" \in Faults /\ RowsUnchanged

\* The source invoice, its lines, the sum of its notes or the configuration are
\* refused, or something throws before the PAC was called.
RefuseNote(h) ==
    LET n == req[h].of
    IN /\ "config" \in Faults
       /\ ForNote(h, "check")
       /\ IfStamping(n, [note[n] EXCEPT !.status = "error"])
       /\ Answer(h)
       /\ UNCHANGED <<rec, pac, late>>

\* Test mode without a key: a stub, written without conditions.  The trigger
\* may refuse it, since status becomes 'stamped'; nobody looks.
StubNote(h) ==
    LET n == req[h].of
    IN /\ "stub" \in Faults
       /\ ForNote(h, "check")
       /\ \/ /\ WithinCap(n, note[n].amount)
             /\ WriteNote(n, [note[n] EXCEPT !.status = "stamped", !.uuid = MockDoc])
          \/ (~WithinCap(n, note[n].amount) \/ "db" \in Faults) /\ RowsUnchanged
       /\ Answer(h)
       /\ UNCHANGED <<rec, pac, late>>

\* A timeout leaves the note 'stamping'.
NoteTimesOut(h) ==
    /\ ForNote(h, "sent")
    /\ Answer(h) /\ MayArrive(h)
    /\ UNCHANGED <<pay, note, rec, fresh, pac>>

\* Any other failure of the call opens it again, whatever the PAC made of it.
NoteRefused(h) ==
    LET n == req[h].of
    IN /\ ForNote(h, "sent")
       /\ IfStamping(n, [note[n] EXCEPT !.status = "error"])
       /\ Answer(h) /\ MayArrive(h)
       /\ UNCHANGED <<rec, pac>>

RecordNote(h) ==
    LET n == req[h].of
    IN /\ ForNote(h, "record")
       /\ IfStamping(n, [note[n] EXCEPT
             !.fid = req[h].doc,
             !.status = IF req[h].kind = "failed" THEN "error" ELSE "stamping"])
       /\ Answer(h)
       /\ UNCHANGED <<rec, pac, late>>

\* computeStampVariance: the PAC's total and the total the claim returned.
NoteVariance(h) == pac[req[h].doc].content.amount # req[h].content.amount

\* The last write.  Unless the totals differ it sets status to 'stamped', so
\* enforce_credit_note_max may raise, and then the note stays 'stamping'.
FinishNote(h) ==
    LET n == req[h].of
        stamped(status, archived) ==
            [note[n] EXCEPT !.status = status, !.fid = req[h].doc, !.uuid = req[h].doc,
                            !.xml = archived]
    IN /\ ForNote(h, "finish")
       /\ \/ /\ NoteVariance(h)
             /\ \E archived \in BOOLEAN : IfStamping(n, stamped("error", archived))
          \/ /\ ~NoteVariance(h) /\ WithinCap(n, note[n].amount)
             /\ \E archived \in BOOLEAN : IfStamping(n, stamped("stamped", archived))
          \/ ~NoteVariance(h) /\ ~WithinCap(n, note[n].amount) /\ RowsUnchanged
       /\ Answer(h)
       /\ UNCHANGED <<rec, pac, late>>

\* Something throws after the PAC accepted: the ids it gave are saved.
NoteThrows(h) ==
    LET n == req[h].of
    IN /\ "crash" \in Faults
       /\ ForNote(h, "finish")
       /\ IfStamping(n, [note[n] EXCEPT !.fid = req[h].doc, !.uuid = req[h].doc])
       /\ Answer(h)
       /\ UNCHANGED <<rec, pac, late>>

NoteStep(h) ==
    \/ ClaimNote(h) \/ RefuseNote(h) \/ StubNote(h) \/ NoteTimesOut(h) \/ NoteRefused(h)
    \/ RecordNote(h) \/ FinishNote(h) \/ NoteThrows(h)
=============================================================================
