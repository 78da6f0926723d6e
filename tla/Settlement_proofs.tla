--------------------------- MODULE Settlement_proofs ---------------------------
(***************************************************************************)
(* Proofs about the settlement of an invoice, for any payments, credit     *)
(* notes, requests, runs of the reconciliation and documents, with every   *)
(* failure and every move of the users.                                    *)
(*                                                                         *)
(* The argument: between its claim and its last write a request finds the  *)
(* row 'stamping' without a uuid, or deleted, and no other request and no  *)
(* run of the reconciliation with a good token works on that row.  So the  *)
(* writes, which look at little or nothing, never meet one another, and    *)
(* the ids they save are those of the one document the PAC keeps for the   *)
(* row.                                                                    *)
(*                                                                         *)
(* A second invariant follows the payments, when the PAC has served or     *)
(* dropped what a handler gave up before the reconciliation looks at the   *)
(* row: a payment that may be claimed has no document, one with a request  *)
(* that may still arrive is left alone, and what was told to the PAC is    *)
(* what the row says.                                                      *)
(*                                                                         *)
(* Two more are about amounts, and rest on lemmas about the sums: every    *)
(* column and every content stays within its range, and the notes at the   *)
(* SAT, one document for each note and with its amount, add up to no more  *)
(* than the notes that the trigger has let users draft.                    *)
(***************************************************************************)
EXTENDS Settlement, FiniteSetTheorems, TLAPS

(* Types.  V stands for values of which no more needs to be known.         *)

AnyRow(V) ==
    [status: Status, amount: V,
     fid: Documents \cup {NoDoc}, uuid: Documents \cup {NoDoc, MockDoc},
     number: V, prior: V, xml: V, xmlPending: V, folio: V, misses: V, attempts: V]

AnySlot(V) ==
    [pc: {"idle", "claim", "prepare", "check", "sent", "record", "finish", "folio"},
     of: Rows \cup {NoRow}, content: V, doc: Documents \cup {NoDoc},
     kind: PacState \cup {"none"}]

AnyCycle(V) ==
    [pc: {"idle", "selected", "claimed", "fetch"}, of: Rows \cup {NoRow},
     fid: Documents \cup {NoDoc}, uuid: Documents \cup {NoDoc, MockDoc},
     misses: V, attempts: V]

AnyDocument(V) == [of: Rows \cup {NoRow}, content: V, state: PacState, listed: V]

IsRow(row) == \E V : row \in AnyRow(V)
IsSlot(slot) == \E V : slot \in AnySlot(V)
IsCycle(cycle) == \E V : cycle \in AnyCycle(V)
IsDocument(document) == \E V : document \in AnyDocument(V)

RowsTyped ==
    /\ pay = [p \in Payments |-> pay[p]] /\ note = [n \in Notes |-> note[n]]
    /\ \A x \in Rows : IsRow(RowOf(x))

ReqTyped == req = [h \in Handlers |-> req[h]] /\ \A h \in Handlers : IsSlot(req[h])

RecTyped ==
    /\ rec = [r \in Reconcilers |-> rec[r]] /\ \A r \in Reconcilers : IsCycle(rec[r])
    /\ fresh \subseteq Reconcilers

PacTyped ==
    /\ pac = [d \in Documents |-> pac[d]] /\ \A d \in Documents : IsDocument(pac[d])
    /\ \A l \in late : l.of \in Rows

Typed == RowsTyped /\ ReqTyped /\ RecTyped /\ PacTyped

-----------------------------------------------------------------------------
(* The invariant.                                                          *)

HasUuid(state) == state \in {"valid", "cancelled"}

\* The ids of a row are those of a document made for it.
RowFacts(x, row) ==
    /\ row.fid # NoDoc => pac[row.fid].of = x
    /\ row.uuid \in Documents => row.fid = row.uuid /\ HasUuid(pac[row.uuid].state)
    /\ row.uuid = MockDoc => x \in Notes /\ row.status = "stamped"
    /\ row.status \in {"stamped", "cancelled"} => row.uuid # NoDoc
    /\ row.status = "cancelled" => x \in Payments /\ pac[row.uuid].state = "cancelled"
    /\ row.status \in {"absent", "deleted"} => row.fid = NoDoc /\ row.uuid = NoDoc

\* What a request finds from its claim to its last write.
Owned(row) == row.status = "deleted" \/ (row.status = "stamping" /\ row.uuid = NoDoc)

SlotFacts(h) ==
    /\ Emitting(h) => req[h].of \in Rows /\ Owned(RowOf(req[h].of))
    /\ req[h].pc \in {"record", "finish"} => /\ req[h].doc \in Documents
                                             /\ pac[req[h].doc].of = req[h].of
    /\ req[h].pc = "finish" => HasUuid(pac[req[h].doc].state)

\* A run whose token is good has read the ids that the row still has.
CycleFacts(r) ==
    /\ rec[r].pc # "idle" => rec[r].of \in Rows
    /\ rec[r].pc = "idle" => rec[r].of = NoRow /\ r \notin fresh
    /\ rec[r].pc = "fetch" => rec[r].uuid # NoDoc
    /\ Holds(r) => rec[r].fid = RowOf(rec[r].of).fid /\ rec[r].uuid = RowOf(rec[r].of).uuid

\* A run that has claimed a row has taken the token from all others.
TokenTaken ==
    \A q, r \in Reconcilers :
        rec[q].pc \in {"claimed", "fetch"} /\ rec[r].of = rec[q].of /\ q # r
            => rec[r].pc = "selected" /\ r \notin fresh

OneDocument ==
    \A d, e \in Documents : pac[d].of = pac[e].of /\ pac[d].of # NoRow => d = e

SettlementInv ==
    /\ Typed
    /\ \A x \in Rows : RowFacts(x, RowOf(x))
    /\ \A h \in Handlers : SlotFacts(h)
    /\ \A r \in Reconcilers : CycleFacts(r)
    /\ SingleEmitter /\ TokenTaken /\ OneDocument

\* What a step may do to a row (FiscalIdentityStays).
Stays(before, after) ==
    /\ before.status = "stamped" => after.status \in {"stamped", "cancelled"}
    /\ before.status = "cancelled" => after.status \in {"cancelled", "deleted"}
    /\ before.uuid # NoDoc /\ Live(after) => after.uuid = before.uuid

RowsStay == \A x \in Rows : Stays(RowOf(x), RowOf(x)')

-----------------------------------------------------------------------------
(* Writes of a row.                                                        *)

\* Only the row of x changes, and becomes row.
Becomes(x, row) ==
    /\ RowOf(x)' = row
    /\ \A y \in Rows \ {x} : RowOf(y)' = RowOf(y)
    /\ pay' = [p \in Payments |-> pay'[p]] /\ note' = [n \in Notes |-> note'[n]]

LEMMA RowKinds ==
    /\ \A p \in Payments : p \in Rows /\ p \notin Notes /\ RowOf(p) = pay[p] /\ RowOf(p)' = pay'[p]
    /\ \A n \in Notes : n \in Rows /\ n \notin Payments /\ RowOf(n) = note[n] /\ RowOf(n)' = note'[n]
    /\ Rows = Payments \cup Notes /\ NoRow \notin Rows
BY SettlementAssumption DEF Rows, RowOf

LEMMA DocumentIds == NoDoc \notin Documents /\ MockDoc \notin Documents /\ NoDoc # MockDoc
BY SettlementAssumption DEF NoDoc, MockDoc, Documents

LEMMA PaymentSet ==
    ASSUME RowsTyped, NEW p \in Payments, NEW row,
           pay' = [pay EXCEPT ![p] = row], UNCHANGED note
    PROVE  Becomes(p, row)
BY RowKinds DEF Becomes, RowsTyped, RowOf

LEMMA NoteSet ==
    ASSUME RowsTyped, NEW n \in Notes, NEW row,
           note' = [note EXCEPT ![n] = row], UNCHANGED pay
    PROVE  Becomes(n, row)
BY RowKinds DEF Becomes, RowsTyped, RowOf

LEMMA SameRows ==
    ASSUME RowsTyped, UNCHANGED <<pay, note>>, NEW x \in Rows
    PROVE  Becomes(x, RowOf(x))
BY DEF Becomes, RowsTyped, RowOf

LEMMA PaymentWritten ==
    ASSUME RowsTyped, NEW p \in Payments, NEW row, WritePayment(p, row)
    PROVE  /\ Becomes(p, IF Live(pay[p]) THEN row ELSE pay[p])
           /\ fresh' = fresh
<1>1. CASE Live(pay[p])
  BY <1>1, PaymentSet DEF WritePayment
<1>2. CASE ~Live(pay[p])
  BY <1>2, SameRows, RowKinds DEF WritePayment
<1> QED
  BY <1>1, <1>2

LEMMA ClaimWritten ==
    ASSUME RowsTyped, NEW p \in Payments, NEW row, WriteClaim(p, row)
    PROVE  /\ Becomes(p, IF Live(pay[p]) THEN row ELSE pay[p])
           /\ fresh' = fresh \ Readers(p)
<1>1. CASE Live(pay[p])
  BY <1>1, PaymentSet DEF WriteClaim
<1>2. CASE ~Live(pay[p])
  BY <1>2, SameRows, RowKinds DEF WriteClaim
<1> QED
  BY <1>1, <1>2 DEF WriteClaim

LEMMA NoteWritten ==
    ASSUME RowsTyped, NEW n \in Notes, NEW row, WriteNote(n, row)
    PROVE  /\ Becomes(n, IF Live(note[n]) THEN row ELSE note[n])
           /\ fresh' = fresh \ Readers(n)
<1>1. CASE Live(note[n])
  BY <1>1, NoteSet DEF WriteNote
<1>2. CASE ~Live(note[n])
  BY <1>2, SameRows, RowKinds DEF WriteNote
<1> QED
  BY <1>1, <1>2 DEF WriteNote

\* A row some of whose columns are written is still a row.
LEMMA StatusSet ==
    ASSUME NEW row, IsRow(row), NEW status \in Status
    PROVE  LET after == [row EXCEPT !.status = status]
           IN /\ IsRow(after)
              /\ after.status = status /\ after.fid = row.fid /\ after.uuid = row.uuid
BY DEF IsRow, AnyRow

-----------------------------------------------------------------------------
(* Frames.                                                                 *)

\* A request that goes on as it was, or rests.
Goes(h) ==
    /\ Emitting(h)' => Emitting(h) /\ req'[h].of = req[h].of
    /\ req'[h].pc \in {"record", "finish"} => req'[h].pc = req[h].pc /\ req'[h].doc = req[h].doc

LEMMA SlotKeeps ==
    ASSUME NEW h \in Handlers, SlotFacts(h), Goes(h), UNCHANGED pac,
           \A y \in Rows : Emitting(h)' /\ req[h].of = y =>
               Owned(RowOf(y)') \/ RowOf(y)' = RowOf(y)
    PROVE  SlotFacts(h)'
<1>1. ASSUME Emitting(h)' PROVE req'[h].of \in Rows /\ Owned(RowOf(req[h].of))'
  <2>1. PICK y \in Rows : req[h].of = y /\ req'[h].of = y /\ Owned(RowOf(y))
    BY <1>1 DEF SlotFacts, Goes
  <2>2. Owned(RowOf(y)')
    BY <1>1, <2>1
  <2> QED
    BY <2>1, <2>2
<1>2. ASSUME req'[h].pc \in {"record", "finish"}
      PROVE  /\ req'[h].doc \in Documents
             /\ pac'[req'[h].doc].of = req'[h].of
             /\ req'[h].pc = "finish" => HasUuid(pac'[req'[h].doc].state)
  <2>1. req'[h].pc = req[h].pc /\ req'[h].doc = req[h].doc /\ req'[h].of = req[h].of
    BY <1>2 DEF Goes, Emitting
  <2> QED
    BY <1>2, <2>1 DEF SlotFacts
<1> QED
  BY <1>1, <1>2 DEF SlotFacts

\* The row of x changes; requests go on or rest; runs may only lose their tokens.
LEMMA RowStep ==
    ASSUME SettlementInv, NEW x \in Rows, NEW row,
           Becomes(x, row), IsRow(row), RowFacts(x, row), Stays(RowOf(x), row),
           UNCHANGED <<rec, pac>>, fresh' \subseteq fresh,
           ReqTyped', \A l \in late' : l.of \in Rows,
           \A h \in Handlers : Goes(h),
           \A h \in Handlers : Emitting(h)' /\ req[h].of = x => Owned(row),
           \A r \in fresh' : rec[r].of = x /\ row.status = "stamping" =>
               row.fid = RowOf(x).fid /\ row.uuid = RowOf(x).uuid /\ RowOf(x).status = "stamping"
    PROVE  SettlementInv' /\ RowsStay
<1>1. Typed'
  <2>1. RowsTyped'
    BY DEF SettlementInv, Typed, RowsTyped, Becomes
  <2>2. RecTyped' /\ PacTyped'
    BY DEF SettlementInv, Typed, RecTyped, PacTyped
  <2> QED
    BY <2>1, <2>2 DEF Typed
<1>2. ASSUME NEW y \in Rows PROVE RowFacts(y, RowOf(y))'
  <2>1. RowFacts(y, RowOf(y)')
    BY DEF SettlementInv, Becomes
  <2> QED
    BY <2>1 DEF RowFacts
<1>3. ASSUME NEW h \in Handlers PROVE SlotFacts(h)'
  <2>1. \A y \in Rows : Emitting(h)' /\ req[h].of = y =>
           Owned(RowOf(y)') \/ RowOf(y)' = RowOf(y)
    BY DEF Becomes
  <2> QED
    BY <2>1, SlotKeeps DEF SettlementInv
<1>4. ASSUME NEW r \in Reconcilers PROVE CycleFacts(r)'
  <2>1. ASSUME Holds(r)'
        PROVE  rec[r].fid = RowOf(rec[r].of)'.fid /\ rec[r].uuid = RowOf(rec[r].of)'.uuid
    <3>1. PICK y \in Rows : rec[r].of = y /\ rec'[r].of = y /\ r \in fresh' /\ r \in fresh
                            /\ RowOf(y)'.status = "stamping"
      BY <2>1 DEF Holds, SettlementInv, CycleFacts
    <3>2. RowOf(y).status = "stamping" /\ RowOf(y)'.fid = RowOf(y).fid
                                       /\ RowOf(y)'.uuid = RowOf(y).uuid
      BY <3>1 DEF Becomes
    <3> QED
      BY <3>1, <3>2 DEF SettlementInv, CycleFacts, Holds
  <2> QED
    BY <2>1 DEF SettlementInv, CycleFacts
<1>5. SingleEmitter'
  BY DEF SettlementInv, SingleEmitter, Goes
<1>6. TokenTaken' /\ OneDocument'
  BY DEF SettlementInv, TokenTaken, OneDocument
<1>7. RowsStay
  BY DEF RowsStay, Becomes, Stays
<1> QED
  BY <1>1, <1>2, <1>3, <1>4, <1>5, <1>6, <1>7 DEF SettlementInv

\* A request claims the row of x and takes the token from every run.
LEMMA ClaimStep ==
    ASSUME SettlementInv, NEW x \in Rows, NEW row, NEW h \in Handlers,
           Becomes(x, row), IsRow(row),
           RowOf(x).status \in {"pending", "error", "cancelled"}, RowOf(x).uuid = NoDoc,
           row.status = "stamping", row.uuid = NoDoc, row.fid = RowOf(x).fid,
           UNCHANGED <<rec, pac, late>>, fresh' = fresh \ Readers(x), ReqTyped',
           \A g \in Handlers \ {h} : req'[g] = req[g],
           req'[h].pc \in {"prepare", "check"}, req'[h].of = x
    PROVE  SettlementInv' /\ RowsStay
<1>1. Typed'
  BY DEF SettlementInv, Typed, RowsTyped, Becomes, RecTyped, PacTyped
<1>2. ASSUME NEW y \in Rows PROVE RowFacts(y, RowOf(y))'
  <2>1. RowFacts(y, RowOf(y)')
    BY DocumentIds DEF SettlementInv, Becomes, RowFacts
  <2> QED
    BY <2>1 DEF RowFacts
<1>3. \A g \in Handlers : Emitting(g) => req[g].of # x
  BY DEF SettlementInv, SlotFacts, Owned
<1>4. ASSUME NEW g \in Handlers PROVE SlotFacts(g)'
  <2>1. CASE g = h
    BY <2>1 DEF SlotFacts, Emitting, Owned, Becomes
  <2>2. CASE g # h
    <3>1. Goes(g)
      BY <2>2 DEF Goes, Emitting
    <3>2. \A y \in Rows : Emitting(g)' /\ req[g].of = y =>
             Owned(RowOf(y)') \/ RowOf(y)' = RowOf(y)
      BY <1>3, <3>1 DEF Becomes, Goes
    <3> QED
      BY <3>1, <3>2, SlotKeeps DEF SettlementInv
  <2> QED
    BY <2>1, <2>2
<1>5. ASSUME NEW r \in Reconcilers PROVE CycleFacts(r)'
  <2>1. ASSUME Holds(r)'
        PROVE  rec[r].fid = RowOf(rec[r].of)'.fid /\ rec[r].uuid = RowOf(rec[r].of)'.uuid
    <3>1. PICK y \in Rows : rec[r].of = y /\ rec'[r].of = y /\ r \in fresh /\ y # x
                            /\ RowOf(y)'.status = "stamping"
      BY <2>1 DEF Holds, SettlementInv, CycleFacts, Readers
    <3> QED
      BY <3>1 DEF SettlementInv, CycleFacts, Holds, Becomes
  <2> QED
    BY <2>1 DEF SettlementInv, CycleFacts
<1>6. SingleEmitter'
  <2>1. \A g \in Handlers \ {h} : Emitting(g)' => Emitting(g) /\ req'[g].of = req[g].of
                                                  /\ req[g].of # x
    BY <1>3 DEF Emitting
  <2>2. \A r \in fresh' : r \in fresh /\ (r \in Reconcilers => rec'[r].of # x)
    BY DEF Readers
  <2> QED
    BY <2>1, <2>2 DEF SettlementInv, SingleEmitter
<1>7. TokenTaken' /\ OneDocument'
  BY DEF SettlementInv, TokenTaken, OneDocument
<1>8. RowsStay
  BY DEF RowsStay, Becomes, Stays, SettlementInv, RowFacts
<1> QED
  BY <1>1, <1>2, <1>4, <1>5, <1>6, <1>7, <1>8 DEF SettlementInv

\* A run with a good token writes its row, and goes on with it or leaves it.
LEMMA RunStep ==
    ASSUME SettlementInv, NEW r \in Reconcilers, Holds(r), NEW y \in Rows, y = rec[r].of,
           NEW row, NEW cycle,
           Becomes(y, row), IsRow(row), RowFacts(y, row),
           row.uuid = RowOf(y).uuid \/ RowOf(y).uuid = NoDoc,
           rec' = [rec EXCEPT ![r] = cycle], IsCycle(cycle),
           \/ /\ cycle.of = y /\ cycle.pc \in {"claimed", "fetch"}
              /\ cycle.pc = "fetch" => cycle.uuid # NoDoc
              /\ cycle.fid = row.fid /\ cycle.uuid = row.uuid
              /\ fresh' = (fresh \ Readers(y)) \cup {r}
           \/ cycle = Resting /\ fresh' = fresh \ Readers(y),
           UNCHANGED <<req, pac, late>>
    PROVE  SettlementInv' /\ RowsStay
<1>2. RowOf(y).status = "stamping" /\ r \in fresh /\ rec[r].pc # "idle"
  BY DEF Holds, SettlementInv, CycleFacts
<1>3. \A h \in Handlers : Emitting(h) => req[h].of # y
  BY <1>2 DEF SettlementInv, SingleEmitter
<1>4. rec'[r] = cycle /\ (\A q \in Reconcilers \ {r} : rec'[q] = rec[q])
  BY DEF SettlementInv, Typed, RecTyped
<1>5. \A q \in fresh' : q = r \/ (q \in fresh /\ (q \in Reconcilers => rec[q].of # y))
  BY DEF Readers
<1>6. Typed'
  <2>1. RowsTyped'
    BY DEF SettlementInv, Typed, RowsTyped, Becomes
  <2>2. RecTyped'
    BY <1>4 DEF SettlementInv, Typed, RecTyped
  <2> QED
    BY <2>1, <2>2 DEF SettlementInv, Typed, ReqTyped, PacTyped
<1>7. ASSUME NEW z \in Rows PROVE RowFacts(z, RowOf(z))'
  <2>1. RowFacts(z, RowOf(z)')
    BY DEF SettlementInv, Becomes
  <2> QED
    BY <2>1 DEF RowFacts
<1>8. ASSUME NEW h \in Handlers PROVE SlotFacts(h)'
  <2>1. Goes(h)
    BY DEF Goes, Emitting
  <2>2. \A z \in Rows : Emitting(h)' /\ req[h].of = z =>
           Owned(RowOf(z)') \/ RowOf(z)' = RowOf(z)
    BY <1>3, <2>1 DEF Becomes, Goes
  <2> QED
    BY <2>1, <2>2, SlotKeeps DEF SettlementInv
<1>9. ASSUME NEW q \in Reconcilers PROVE CycleFacts(q)'
  <2>1. CASE q # r
    <3>1. ASSUME Holds(q)'
          PROVE  rec[q].fid = RowOf(rec[q].of)'.fid /\ rec[q].uuid = RowOf(rec[q].of)'.uuid
      <4>1. PICK z \in Rows : rec[q].of = z /\ rec'[q].of = z /\ q \in fresh /\ z # y
                              /\ RowOf(z)'.status = "stamping"
        BY <2>1, <3>1, <1>4, <1>5 DEF Holds, SettlementInv, CycleFacts
      <4> QED
        BY <4>1 DEF SettlementInv, CycleFacts, Holds, Becomes
    <3>2. q \in fresh' => q \in fresh
      BY <2>1, <1>5
    <3> QED
      BY <2>1, <1>4, <3>1, <3>2 DEF SettlementInv, CycleFacts
  <2>2. CASE q = r /\ cycle # Resting
    <3>1. cycle.of = y /\ rec'[q].of = y /\ RowOf(y)' = row /\ cycle.pc \in {"claimed", "fetch"}
      BY <2>2, <1>4 DEF Becomes
    <3> QED
      BY <2>2, <1>4, <3>1 DEF CycleFacts
  <2>3. CASE q = r /\ cycle = Resting
    <3>1. r \notin fresh'
      BY <2>3, RowKinds DEF Resting, Readers
    <3>2. rec'[q].pc = "idle" /\ rec'[q].of = NoRow
      BY <2>3, <1>4 DEF Resting
    <3> QED
      BY <2>3, <3>1, <3>2 DEF CycleFacts, Holds
  <2> QED
    BY <2>1, <2>2, <2>3
<1>10. SingleEmitter'
  <2>1. \A q \in fresh' : q \in Reconcilers => q \in fresh /\ (rec'[q].of = rec[q].of \/ rec'[q].of = NoRow)
    BY <1>2, <1>4, <1>5 DEF Resting
  <2>2. \A h \in Handlers : Emitting(h) => req[h].of # NoRow
    BY RowKinds DEF SettlementInv, SlotFacts
  <2> QED
    BY <2>1, <2>2 DEF SettlementInv, SingleEmitter, Emitting
<1>11. TokenTaken'
  <2> SUFFICES ASSUME NEW p \in Reconcilers, NEW q \in Reconcilers, p # q,
                      rec'[p].pc \in {"claimed", "fetch"}, rec'[q].of = rec'[p].of
               PROVE  rec'[q].pc = "selected" /\ q \notin fresh'
    BY DEF TokenTaken
  <2>1. CASE p = r
    <3>1. rec'[p].of = y /\ rec'[q] = rec[q] /\ rec[q].of = y
      BY <2>1, <1>4 DEF Resting
    <3>2. rec[q].pc \notin {"claimed", "fetch"}
      BY <2>1, <3>1, <1>2 DEF SettlementInv, TokenTaken
    <3>3. rec[q].pc = "selected"
      BY <3>1, <3>2, RowKinds DEF SettlementInv, CycleFacts, Typed, RecTyped, IsCycle, AnyCycle
    <3> QED
      BY <2>1, <3>1, <3>3, <1>5
  <2>2. CASE q = r
    <3>1. rec'[p] = rec[p] /\ rec[p].of \in Rows
      BY <2>2, <1>4 DEF SettlementInv, CycleFacts
    <3>2. rec'[q].of = y
      BY <2>2, <3>1, <1>4, RowKinds DEF Resting
    <3> QED
      BY <2>2, <3>1, <3>2, <1>2 DEF SettlementInv, TokenTaken
  <2>3. CASE p # r /\ q # r
    BY <2>3, <1>4, <1>5 DEF SettlementInv, TokenTaken
  <2> QED
    BY <2>1, <2>2, <2>3
<1>12. OneDocument'
  BY DEF SettlementInv, OneDocument
<1>13. RowsStay
  BY <1>2 DEF RowsStay, Becomes, Stays
<1> QED
  BY <1>6, <1>7, <1>8, <1>9, <1>10, <1>11, <1>12, <1>13 DEF SettlementInv

\* A step after which rows, requests and documents are as they were.
LEMMA OnlyRuns ==
    ASSUME SettlementInv, UNCHANGED <<pay, note, req, pac, late>>,
           RecTyped', \A r \in Reconcilers : CycleFacts(r)', SingleEmitter', TokenTaken'
    PROVE  SettlementInv' /\ RowsStay
<1>1. \A x \in Rows : RowOf(x)' = RowOf(x)
  BY DEF RowOf
<1>2. \A x \in Rows : RowFacts(x, RowOf(x))'
  BY <1>1 DEF SettlementInv, RowFacts
<1>3. ASSUME NEW h \in Handlers PROVE SlotFacts(h)'
  <2>1. Goes(h)
    BY DEF Goes, Emitting
  <2> QED
    BY <1>1, <2>1, SlotKeeps DEF SettlementInv
<1>4. Typed' /\ OneDocument'
  BY <1>1 DEF SettlementInv, Typed, RowsTyped, ReqTyped, PacTyped, OneDocument
<1>5. RowsStay
  BY <1>1 DEF RowsStay, Stays
<1> QED
  BY <1>2, <1>3, <1>4, <1>5 DEF SettlementInv

\* The PAC makes or settles documents; a request may learn of it.
Grows ==
    \A d \in Documents : pac[d].of # NoRow =>
        /\ pac'[d].of = pac[d].of
        /\ HasUuid(pac[d].state) => HasUuid(pac'[d].state)
        /\ pac[d].state = "cancelled" => pac'[d].state = "cancelled"

LEMMA PacKeeps ==
    ASSUME SettlementInv, UNCHANGED <<pay, note, rec, fresh>>, Grows, PacTyped', ReqTyped',
           OneDocument',
           \A h \in Handlers :
               Goes(h) \/ (SlotFacts(h)' /\ Emitting(h) /\ req'[h].of = req[h].of)
    PROVE  SettlementInv' /\ RowsStay
<1>1. \A x \in Rows : RowOf(x)' = RowOf(x)
  BY DEF RowOf
<1>2. ASSUME NEW x \in Rows PROVE RowFacts(x, RowOf(x))'
  <2>1. RowFacts(x, RowOf(x)) /\ IsRow(RowOf(x))
    BY DEF SettlementInv, Typed, RowsTyped
  <2>2. RowOf(x).fid \in Documents \cup {NoDoc} /\ RowOf(x).uuid \in Documents \cup {NoDoc, MockDoc}
    BY <2>1 DEF IsRow, AnyRow
  <2>3. RowOf(x).status = "cancelled" => RowOf(x).uuid \in Documents
    BY <2>1, <2>2 DEF RowFacts
  <2> QED
    BY <1>1, <2>1, <2>2, <2>3, RowKinds, DocumentIds DEF RowFacts, Grows
<1>3. ASSUME NEW h \in Handlers PROVE SlotFacts(h)'
  <2> SUFFICES ASSUME Goes(h) PROVE SlotFacts(h)'
    OBVIOUS
  <2>1. ASSUME Emitting(h)' PROVE req'[h].of \in Rows /\ Owned(RowOf(req[h].of))'
    <3>1. PICK y \in Rows : req[h].of = y /\ req'[h].of = y /\ Owned(RowOf(y))
      BY <2>1 DEF SettlementInv, SlotFacts, Goes
    <3>2. Owned(RowOf(y)')
      BY <1>1, <3>1
    <3> QED
      BY <3>1, <3>2
  <2>4. req'[h].pc \in {"record", "finish"} =>
           /\ req'[h].doc \in Documents /\ req'[h].doc = req[h].doc
           /\ pac[req[h].doc].of = req[h].of /\ req'[h].of = req[h].of /\ req[h].of \in Rows
           /\ req'[h].pc = "finish" => HasUuid(pac[req[h].doc].state)
    BY DEF SettlementInv, SlotFacts, Goes, Emitting
  <2>5. req'[h].pc \in {"record", "finish"} =>
           /\ req'[h].doc \in Documents
           /\ pac'[req'[h].doc].of = req'[h].of
           /\ req'[h].pc = "finish" => HasUuid(pac'[req'[h].doc].state)
    BY <2>4, RowKinds DEF Grows
  <2> QED
    BY <2>1, <2>5 DEF SlotFacts
<1>4. ASSUME NEW r \in Reconcilers PROVE CycleFacts(r)'
  <2>1. Holds(r)' <=> Holds(r)
    BY DEF Holds, RowOf
  <2> QED
    BY <2>1 DEF SettlementInv, CycleFacts, RowOf
<1>5. SingleEmitter'
  <2>1. \A h \in Handlers : Emitting(h)' => Emitting(h) /\ req'[h].of = req[h].of
    BY DEF Goes
  <2> QED
    BY <2>1 DEF SettlementInv, SingleEmitter
<1>6. Typed' /\ TokenTaken'
  BY <1>1 DEF SettlementInv, Typed, RowsTyped, RecTyped, TokenTaken
<1>7. RowsStay
  BY <1>1 DEF RowsStay, Stays
<1> QED
  BY <1>2, <1>3, <1>4, <1>5, <1>6, <1>7 DEF SettlementInv

-----------------------------------------------------------------------------
(* The PAC.                                                                *)

LEMMA CreatesGrows ==
    ASSUME SettlementInv, NEW x \in Rows, NEW content, NEW d \in Documents, NEW state \in PacState,
           Creates(x, content, d, state)
    PROVE  /\ Grows /\ OneDocument'
           /\ pac' = [e \in Documents |-> pac'[e]] /\ \A e \in Documents : IsDocument(pac'[e])
           /\ pac'[d].of = x /\ pac'[d].state = state
<1>1. CASE UNCHANGED pac /\ pac[d].of = x /\ state = pac[d].state
  BY <1>1 DEF SettlementInv, Typed, PacTyped, OneDocument, Grows
<1>2. CASE /\ \A e \in Documents : pac[e].of # x
           /\ pac[d].of = NoRow
           /\ pac' = [pac EXCEPT ![d] = [of |-> x, content |-> content, state |-> state,
                                         listed |-> PacIsPrompt]]
  <2>1. IsDocument([of |-> x, content |-> content, state |-> state, listed |-> PacIsPrompt])
    <3> DEFINE V == {content, PacIsPrompt}
    <3>1. [of |-> x, content |-> content, state |-> state, listed |-> PacIsPrompt]
             \in AnyDocument(V)
      BY DEF AnyDocument
    <3> QED
      BY <3>1 DEF IsDocument, AnyDocument
  <2>2. PacTyped /\ OneDocument
    BY DEF SettlementInv, Typed
  <2>3. pac' = [e \in Documents |-> pac'[e]] /\ (\A e \in Documents : IsDocument(pac'[e]))
           /\ pac'[d].of = x /\ pac'[d].state = state /\ \A e \in Documents \ {d} : pac'[e] = pac[e]
    BY <1>2, <2>1, <2>2 DEF PacTyped
  <2>4. OneDocument'
    BY <1>2, <2>2, <2>3 DEF OneDocument
  <2> QED
    BY <1>2, <2>3, <2>4 DEF Grows
<1> QED
  BY <1>1, <1>2 DEF Creates, SharesKey, Unused

LEMMA LateKeeps == ASSUME SettlementInv, NEW l \in late, PacServesLate(l)
                   PROVE  SettlementInv' /\ RowsStay
<1>1. UNCHANGED <<pay, note, rec, fresh, req>> /\ late' = late \ {l} /\ l.of \in Rows
  BY DEF PacServesLate, SettlementInv, Typed, PacTyped
<1>2. \A h \in Handlers : Goes(h)
  BY <1>1 DEF Goes, Emitting
<1>3. ReqTyped' /\ \A m \in late' : m.of \in Rows
  BY <1>1 DEF SettlementInv, Typed, ReqTyped, PacTyped
<1>4. Grows /\ OneDocument' /\ PacTyped'
  <2>1. CASE UNCHANGED pac
    BY <2>1, <1>3 DEF Grows, SettlementInv, OneDocument, Typed, PacTyped
  <2>2. CASE \E d \in Documents, state \in PacState : Creates(l.of, l.content, d, state)
    <3>1. PICK d \in Documents, state \in PacState : Creates(l.of, l.content, d, state)
      BY <2>2
    <3> QED
      BY <1>1, <1>3, <3>1, CreatesGrows DEF PacTyped
  <2> QED
    BY <2>1, <2>2 DEF PacServesLate
<1> QED
  BY <1>1, <1>2, <1>3, <1>4, PacKeeps

\* A document in place moves on.
LEMMA DocumentMoves ==
    ASSUME SettlementInv, NEW d \in Documents, NEW document, IsDocument(document),
           pac' = [pac EXCEPT ![d] = document], document.of = pac[d].of,
           HasUuid(pac[d].state) => HasUuid(document.state),
           pac[d].state = "cancelled" => document.state = "cancelled",
           UNCHANGED <<pay, note, req, rec, fresh, late>>
    PROVE  SettlementInv' /\ RowsStay
<1>1. PacTyped' /\ Grows /\ OneDocument'
  BY DEF SettlementInv, Typed, PacTyped, Grows, OneDocument
<1>2. ReqTyped' /\ \A h \in Handlers : Goes(h)
  BY DEF SettlementInv, Typed, ReqTyped, Goes, Emitting
<1> QED
  BY <1>1, <1>2, PacKeeps

LEMMA StateSet ==
    ASSUME NEW document, IsDocument(document), NEW state \in PacState
    PROVE  LET after == [document EXCEPT !.state = state]
           IN IsDocument(after) /\ after.of = document.of /\ after.state = state
BY DEF IsDocument, AnyDocument

LEMMA SettlesKeeps == ASSUME SettlementInv, NEW d \in Documents, PacSettles(d)
                      PROVE  SettlementInv' /\ RowsStay
<1>1. PICK state \in {"valid", "failed"} : pac' = [pac EXCEPT ![d].state = state]
  BY DEF PacSettles
<1> DEFINE after == [pac[d] EXCEPT !.state = state]
<1>2. IsDocument(after) /\ after.of = pac[d].of /\ pac[d].state = "pending"
  <2>1. IsDocument(pac[d]) /\ state \in PacState
    BY DEF PacState, SettlementInv, Typed, PacTyped
  <2> QED
    BY <2>1, StateSet DEF PacSettles
<1>3. pac' = [pac EXCEPT ![d] = after]
  BY <1>1
<1> HIDE DEF after
<1> QED
  BY <1>2, <1>3, DocumentMoves DEF PacSettles, HasUuid

LEMMA ListsKeeps == ASSUME SettlementInv, NEW d \in Documents, PacLists(d)
                    PROVE  SettlementInv' /\ RowsStay
<1> DEFINE after == [pac[d] EXCEPT !.listed = TRUE]
<1>1. PICK V : pac[d] \in AnyDocument(V)
  BY DEF SettlementInv, Typed, PacTyped, IsDocument, AnyDocument
<1>2. after \in AnyDocument(V \cup {TRUE})
  BY <1>1 DEF AnyDocument
<1>3. IsDocument(after)
  BY <1>2 DEF IsDocument, AnyDocument
<1>4. after.of = pac[d].of /\ after.state = pac[d].state /\ pac' = [pac EXCEPT ![d] = after]
  BY <1>1 DEF PacLists
<1> HIDE DEF after
<1> QED
  BY <1>3, <1>4, DocumentMoves DEF PacLists

LEMMA SatKeeps == ASSUME SettlementInv, NEW p \in Payments, SatCancels(p)
                  PROVE  SettlementInv' /\ RowsStay
<1> DEFINE d == pay[p].uuid
           after == [pac[d] EXCEPT !.state = "cancelled"]
<1>1. IsRow(pay[p]) /\ RowFacts(p, pay[p]) /\ pay[p].status = "stamped" /\ p \notin Notes
  BY RowKinds DEF SettlementInv, Typed, RowsTyped, SatCancels
<1>2. d \in Documents
  BY <1>1 DEF IsRow, AnyRow, RowFacts
<1>3. IsDocument(after) /\ after.of = pac[d].of /\ after.state = "cancelled"
  BY <1>2, StateSet DEF PacState, SettlementInv, Typed, PacTyped
<1>4. pac' = [pac EXCEPT ![d] = after]
  BY DEF SatCancels
<1> HIDE DEF d, after
<1> QED
  BY <1>2, <1>3, <1>4, DocumentMoves DEF SatCancels, HasUuid

LEMMA RecordCancelledKeeps == ASSUME SettlementInv, NEW p \in Payments, RecordCancelled(p)
                              PROVE  SettlementInv' /\ RowsStay
<1> DEFINE after == [pay[p] EXCEPT !.status = "cancelled"]
<1>1. IsRow(pay[p]) /\ RowFacts(p, pay[p]) /\ pay[p].status = "stamped" /\ p \notin Notes
         /\ p \in Rows /\ RowOf(p) = pay[p] /\ pac[pay[p].uuid].state = "cancelled"
  BY RowKinds DEF SettlementInv, Typed, RowsTyped, RecordCancelled
<1>2. IsRow(after) /\ after.status = "cancelled" /\ after.fid = pay[p].fid
                   /\ after.uuid = pay[p].uuid
  BY <1>1, StatusSet DEF Status
<1>3. Becomes(p, after) /\ fresh' = fresh
  <2>1. WritePayment(p, after) /\ Live(pay[p])
    BY <1>1 DEF RecordCancelled, Live
  <2> HIDE DEF after
  <2> QED
    BY <2>1, PaymentWritten DEF SettlementInv, Typed
<1>4. RowFacts(p, after) /\ Stays(RowOf(p), after)
  BY <1>1, <1>2 DEF RowFacts, Stays
<1> HIDE DEF after
<1>5. ReqTyped' /\ (\A l \in late' : l.of \in Rows) /\ (\A h \in Handlers : Goes(h))
  BY DEF RecordCancelled, SettlementInv, Typed, ReqTyped, PacTyped, Goes, Emitting
<1>6. \A h \in Handlers : ~(Emitting(h)' /\ req[h].of = p)
  BY <1>1 DEF RecordCancelled, SettlementInv, SlotFacts, Owned, Emitting
<1> QED
  BY <1>1, <1>2, <1>3, <1>4, <1>5, <1>6, RowStep DEF RecordCancelled

LEMMA PacStepKeeps == ASSUME SettlementInv, PacStep PROVE SettlementInv' /\ RowsStay
BY LateKeeps, SettlesKeeps, ListsKeeps, SatKeeps, RecordCancelledKeeps DEF PacStep

-----------------------------------------------------------------------------
(* The last write of a request.                                            *)

LEMMA FreeSlotTyped == IsSlot(FreeSlot) /\ FreeSlot.pc = "idle" /\ FreeSlot.of = NoRow
<1>1. FreeSlot \in AnySlot({Nothing})
  BY DEF FreeSlot, AnySlot
<1> QED
  BY <1>1 DEF IsSlot, AnySlot, FreeSlot

LEMMA SlotGoesTo ==
    ASSUME NEW slot, IsSlot(slot),
           NEW pc \in {"idle", "claim", "prepare", "check", "sent", "record", "finish", "folio"}
    PROVE  LET after == [slot EXCEPT !.pc = pc]
           IN IsSlot(after) /\ after.pc = pc /\ after.of = slot.of /\ after.doc = slot.doc
BY DEF IsSlot, AnySlot

LEMMA Released ==
    ASSUME RowsTyped, NEW p \in Payments, NEW row,
           ReleasePayment(p, row) \/ UpdatePayment(p, row)
    PROVE  /\ (Becomes(p, row) /\ Live(RowOf(p))) \/ Becomes(p, RowOf(p))
           /\ fresh' \subseteq fresh
<1>1. CASE WriteClaim(p, row)
  BY <1>1, ClaimWritten, RowKinds
<1>2. CASE WritePayment(p, row)
  BY <1>2, PaymentWritten, RowKinds
<1>3. CASE RowsUnchanged
  BY <1>3, SameRows, RowKinds DEF RowsUnchanged
<1> QED
  BY <1>1, <1>2, <1>3 DEF ReleasePayment, UpdatePayment

LEMMA IfStampingWritten ==
    ASSUME RowsTyped, NEW n \in Notes, NEW row, IfStamping(n, row)
    PROVE  /\ (Becomes(n, row) /\ Live(RowOf(n))) \/ Becomes(n, RowOf(n))
           /\ fresh' \subseteq fresh
<1>1. CASE WriteNote(n, row) /\ note[n].status = "stamping"
  BY <1>1, NoteWritten, RowKinds DEF Live
<1>2. CASE RowsUnchanged
  BY <1>2, SameRows, RowKinds DEF RowsUnchanged
<1> QED
  BY <1>1, <1>2 DEF IfStamping

\* Whoever has claimed a row may write it whatever the others do.
LEMMA OwnerWrites ==
    ASSUME SettlementInv, NEW h \in Handlers, NEW x \in Rows, x = req[h].of, Emitting(h),
           NEW row, (Becomes(x, row) /\ Live(RowOf(x))) \/ Becomes(x, RowOf(x)),
           fresh' \subseteq fresh, IsRow(row),
           RowOf(x).status = "stamping" /\ RowOf(x).uuid = NoDoc => RowFacts(x, row),
           UNCHANGED <<rec, pac>>, \A l \in late' : l.of \in Rows,
           NEW slot, IsSlot(slot), slot.pc \in {"idle", "folio"}, req' = [req EXCEPT ![h] = slot]
    PROVE  SettlementInv' /\ RowsStay
<1>1. Owned(RowOf(x)) /\ RowFacts(x, RowOf(x)) /\ IsRow(RowOf(x))
  BY DEF SettlementInv, SlotFacts, Typed, RowsTyped
<1>2. PICK after : Becomes(x, after) /\ ((after = row /\ Live(RowOf(x))) \/ after = RowOf(x))
  OBVIOUS
<1>3. IsRow(after) /\ RowFacts(x, after)
  BY <1>1, <1>2 DEF Owned, Live
<1>4. Stays(RowOf(x), after)
  BY <1>1, <1>2 DEF Owned, Stays, RowFacts
<1>5. req'[h] = slot /\ (\A g \in Handlers \ {h} : req'[g] = req[g]) /\ ReqTyped'
  BY DEF SettlementInv, Typed, ReqTyped
<1>6. \A g \in Handlers : Goes(g) /\ ~(Emitting(g)' /\ req[g].of = x)
  BY <1>5 DEF Goes, Emitting, SettlementInv, SingleEmitter
<1>7. \A r \in fresh' : rec[r].of # x
  BY DEF SettlementInv, SingleEmitter, Typed, RecTyped
<1> QED
  BY <1>2, <1>3, <1>4, <1>5, <1>6, <1>7, RowStep

\* A request, whatever it was doing, ends without a write.
LEMMA OnlyAnswers ==
    ASSUME SettlementInv, NEW h \in Handlers, UNCHANGED <<pay, note, rec, fresh, pac>>,
           \A l \in late' : l.of \in Rows, NEW slot, IsSlot(slot),
           req' = [req EXCEPT ![h] = slot],
           \/ slot.pc \in {"idle", "claim"}
           \/ Emitting(h) /\ slot.of = req[h].of /\ slot.pc \in {"check", "sent"}
    PROVE  SettlementInv' /\ RowsStay
<1>1. req'[h] = slot /\ (\A g \in Handlers \ {h} : req'[g] = req[g]) /\ ReqTyped'
  BY DEF SettlementInv, Typed, ReqTyped
<1>2. \A g \in Handlers : Goes(g)
  BY <1>1 DEF Goes, Emitting
<1>3. Grows /\ PacTyped' /\ OneDocument'
  BY DEF Grows, SettlementInv, Typed, PacTyped, OneDocument
<1> QED
  BY <1>1, <1>2, <1>3, PacKeeps

LEMMA MayArriveTyped ==
    ASSUME SettlementInv, NEW h \in Handlers, Serves(h, "sent"), MayArrive(h)
    PROVE  \A l \in late' : l.of \in Rows
<1>1. req[h].of \in Rows
  BY DEF SettlementInv, SlotFacts, Emitting, Serves
<1> QED
  BY <1>1 DEF MayArrive, SettlementInv, Typed, PacTyped

LEMMA AskComplementKeeps ==
    ASSUME SettlementInv, NEW h \in Handlers, NEW p \in Payments, AskComplement(h, p)
    PROVE  SettlementInv' /\ RowsStay
<1> DEFINE slot == [FreeSlot EXCEPT !.pc = "claim", !.of = p]
<1>1. slot \in AnySlot({Nothing})
  BY RowKinds DEF FreeSlot, AnySlot
<1>2. IsSlot(slot) /\ slot.pc = "claim"
  BY <1>1 DEF IsSlot, AnySlot, FreeSlot
<1>3. req' = [req EXCEPT ![h] = slot]
  BY DEF AskComplement
<1> HIDE DEF slot
<1>4. UNCHANGED <<pay, note, rec, fresh, pac>> /\ \A l \in late' : l.of \in Rows
  BY DEF AskComplement, SettlementInv, Typed, PacTyped
<1> QED
  BY <1>2, <1>3, <1>4, OnlyAnswers

LEMMA ClaimPaymentKeeps ==
    ASSUME SettlementInv, NEW h \in Handlers, ClaimPayment(h)
    PROVE  SettlementInv' /\ RowsStay
<1>1. PICK p \in Payments : p = req[h].of
  BY DEF ClaimPayment, ForPayment
<1>2. p \in Rows /\ RowOf(p) = pay[p] /\ IsRow(pay[p]) /\ IsSlot(req[h])
  BY RowKinds DEF SettlementInv, Typed, RowsTyped, ReqTyped
<1>3. UNCHANGED <<rec, pac, late>>
  BY DEF ClaimPayment
<1>4. CASE Claimable(pay[p])
  <2> DEFINE row == [pay[p] EXCEPT !.status = "stamping", !.misses = 0]
             slot == [req[h] EXCEPT !.pc = "prepare"]
  <2>1. WriteClaim(p, row) /\ req' = [req EXCEPT ![h] = slot]
    BY <1>1, <1>4 DEF ClaimPayment, GoTo
  <2>2. IsRow(row) /\ row.status = "stamping" /\ row.uuid = pay[p].uuid /\ row.fid = pay[p].fid
    <3>1. PICK V : pay[p] \in AnyRow(V)
      BY <1>2 DEF IsRow, AnyRow
    <3>2. row \in AnyRow(V \cup {0})
      BY <3>1 DEF AnyRow, Status
    <3>3. IsRow(row)
      BY <3>2 DEF IsRow
    <3> QED
      BY <3>1, <3>2, <3>3 DEF AnyRow
  <2>3. IsSlot(slot) /\ slot.pc = "prepare" /\ slot.of = p
    BY <1>1, <1>2, SlotGoesTo
  <2> HIDE DEF row, slot
  <2>4. Becomes(p, row) /\ fresh' = fresh \ Readers(p)
    BY <1>4, <2>1, ClaimWritten DEF Claimable, Live, SettlementInv, Typed
  <2>5. ReqTyped' /\ req'[h] = slot /\ \A g \in Handlers \ {h} : req'[g] = req[g]
    BY <2>1, <2>3 DEF SettlementInv, Typed, ReqTyped
  <2> QED
    BY <1>2, <1>3, <1>4, <2>2, <2>3, <2>4, <2>5, ClaimStep DEF Claimable
<1>5. CASE ~Claimable(pay[p])
  <2>1. req' = [req EXCEPT ![h] = FreeSlot] /\ UNCHANGED <<pay, note, fresh>>
    BY <1>1, <1>5 DEF ClaimPayment, Answer, RowsUnchanged
  <2>2. \A l \in late' : l.of \in Rows
    BY <1>3 DEF SettlementInv, Typed, PacTyped
  <2> QED
    BY <1>3, <2>1, <2>2, FreeSlotTyped, OnlyAnswers
<1> QED
  BY <1>4, <1>5

-----------------------------------------------------------------------------
(* The stamping of a complement.                                           *)

\* What a request that works on a payment has before it.
LEMMA PaymentAtHand ==
    ASSUME SettlementInv, NEW h \in Handlers, req[h].of \in Payments
    PROVE  \E p \in Payments : p = req[h].of /\ p \in Rows /\ p \notin Notes /\ RowOf(p) = pay[p]
                               /\ IsRow(pay[p]) /\ RowFacts(p, pay[p]) /\ IsSlot(req[h])
BY RowKinds DEF SettlementInv, Typed, RowsTyped, ReqTyped

LEMMA LateSame == ASSUME SettlementInv, UNCHANGED late PROVE \A l \in late' : l.of \in Rows
BY DEF SettlementInv, Typed, PacTyped

\* A status other than those that need a uuid.
LEMMA ReopenedFacts ==
    ASSUME NEW x \in Rows, NEW row, NEW after, RowFacts(x, row), row.uuid = NoDoc,
           after.status \in {"pending", "error", "stamping"},
           after.fid = row.fid, after.uuid = row.uuid
    PROVE  RowFacts(x, after)
BY DocumentIds DEF RowFacts

\* The payment goes back to 'pending' or 'error'.
LEMMA ReopensKeeps ==
    ASSUME SettlementInv, NEW h \in Handlers, Emitting(h), req[h].of \in Payments,
           NEW status \in {"pending", "error"},
           ReleasePayment(req[h].of, [pay[req[h].of] EXCEPT !.status = status]),
           Answer(h), UNCHANGED <<rec, pac>>, \A l \in late' : l.of \in Rows
    PROVE  SettlementInv' /\ RowsStay
<1>1. PICK p \in Payments : p = req[h].of /\ p \in Rows /\ p \notin Notes /\ RowOf(p) = pay[p]
                            /\ IsRow(pay[p]) /\ RowFacts(p, pay[p])
  BY PaymentAtHand
<1> DEFINE row == [pay[p] EXCEPT !.status = status]
<1>2. IsRow(row) /\ row.status = status /\ row.fid = pay[p].fid /\ row.uuid = pay[p].uuid
  <2>1. status \in Status /\ IsRow(pay[p])
    BY <1>1 DEF Status
  <2> QED
    BY <2>1, StatusSet
<1>3. ReleasePayment(p, row)
  BY <1>1
<1> HIDE DEF row
<1>4. ((Becomes(p, row) /\ Live(RowOf(p))) \/ Becomes(p, RowOf(p))) /\ fresh' \subseteq fresh
  BY <1>3, Released DEF SettlementInv, Typed
<1>5. RowOf(p).uuid = NoDoc => RowFacts(p, row)
  BY <1>1, <1>2, ReopenedFacts
<1>6. req' = [req EXCEPT ![h] = FreeSlot]
  BY DEF Answer
<1> QED
  BY <1>1, <1>2, <1>4, <1>5, <1>6, FreeSlotTyped, OwnerWrites

LEMMA PrepareKeeps ==
    ASSUME SettlementInv, NEW h \in Handlers, PrepareComplement(h)
    PROVE  SettlementInv' /\ RowsStay
<1>1. PICK p \in Payments : p = req[h].of /\ p \in Rows /\ p \notin Notes /\ RowOf(p) = pay[p]
                            /\ IsRow(pay[p]) /\ RowFacts(p, pay[p]) /\ IsSlot(req[h])
  BY PaymentAtHand DEF PrepareComplement, ForPayment
<1> DEFINE content == Prepared(p)
           row == [pay[p] EXCEPT !.number = content.number, !.prior = content.prior]
           slot == [req[h] EXCEPT !.pc = "check", !.content = content]
<1>2. /\ WritePayment(p, row) /\ Live(pay[p]) /\ req' = [req EXCEPT ![h] = slot]
      /\ req[h].pc = "prepare" /\ UNCHANGED <<rec, pac, late>>
  BY <1>1 DEF PrepareComplement, ForPayment, Serves
<1>3. IsRow(row) /\ row.status = pay[p].status /\ row.fid = pay[p].fid /\ row.uuid = pay[p].uuid
  <2>1. PICK V : pay[p] \in AnyRow(V)
    BY <1>1 DEF IsRow
  <2> HIDE DEF content
  <2>2. row \in AnyRow(V \cup {content.number, content.prior})
    BY <2>1 DEF AnyRow
  <2>3. IsRow(row)
    BY <2>2 DEF IsRow
  <2> QED
    BY <2>1, <2>2, <2>3 DEF AnyRow
<1>4. IsSlot(slot) /\ slot.pc = "check" /\ slot.of = p
  <2>1. PICK V : req[h] \in AnySlot(V)
    BY <1>1 DEF IsSlot
  <2> HIDE DEF content
  <2>2. slot \in AnySlot(V \cup {content})
    BY <2>1 DEF AnySlot
  <2> QED
    BY <1>1, <2>1, <2>2 DEF IsSlot, AnySlot
<1> HIDE DEF row, slot
<1>5. Becomes(p, row) /\ fresh' = fresh
  BY <1>2, PaymentWritten DEF SettlementInv, Typed
<1>6. RowFacts(p, row) /\ Stays(RowOf(p), row) /\ (Owned(RowOf(p)) => Owned(row))
  BY <1>1, <1>3 DEF RowFacts, Stays, Owned
<1>7. req'[h] = slot /\ (\A g \in Handlers \ {h} : req'[g] = req[g]) /\ ReqTyped'
  BY <1>2, <1>4 DEF SettlementInv, Typed, ReqTyped
<1>8. \A g \in Handlers : Goes(g)
  BY <1>1, <1>2, <1>4, <1>7 DEF Goes, Emitting
<1>9. \A g \in Handlers : Emitting(g)' /\ req[g].of = p => Owned(row)
  BY <1>6, <1>8 DEF Goes, SettlementInv, SlotFacts
<1>10. \A r \in fresh' : rec[r].of # p
  BY <1>1, <1>2, <1>5 DEF SettlementInv, SingleEmitter, Emitting, Typed, RecTyped
<1> QED
  BY <1>1, <1>2, <1>3, <1>5, <1>6, <1>7, <1>8, <1>9, <1>10, LateSame, RowStep

LEMMA SendKeeps == ASSUME SettlementInv, NEW h \in Handlers, SendToPac(h)
                   PROVE  SettlementInv' /\ RowsStay
<1> DEFINE slot == [req[h] EXCEPT !.pc = "sent"]
<1>1. IsSlot(slot) /\ slot.pc = "sent" /\ slot.of = req[h].of
  BY SlotGoesTo DEF SettlementInv, Typed, ReqTyped
<1>2. req' = [req EXCEPT ![h] = slot] /\ Emitting(h) /\ UNCHANGED <<pay, note, rec, fresh, pac, late>>
  BY DEF SendToPac, GoTo, Serves, Emitting
<1> HIDE DEF slot
<1> QED
  BY <1>1, <1>2, LateSame, OnlyAnswers

LEMMA PacAnswersKeeps == ASSUME SettlementInv, NEW h \in Handlers, PacAnswers(h)
                         PROVE  SettlementInv' /\ RowsStay
<1>1. PICK d \in Documents, state \in PacState :
         /\ Creates(req[h].of, req[h].content, d, state)
         /\ req' = [req EXCEPT ![h].pc = AfterAnswer(state), ![h].doc = d, ![h].kind = state]
  BY DEF PacAnswers
<1>2. PICK x \in Rows : x = req[h].of /\ Emitting(h) /\ Owned(RowOf(x))
  BY DEF PacAnswers, Serves, Emitting, SettlementInv, SlotFacts
<1>3. Creates(x, req[h].content, d, state)
  BY <1>1, <1>2
<1>4. Grows /\ OneDocument' /\ pac' = [e \in Documents |-> pac'[e]]
         /\ (\A e \in Documents : IsDocument(pac'[e])) /\ pac'[d].of = x /\ pac'[d].state = state
  BY <1>3, CreatesGrows
<1> DEFINE slot == [req[h] EXCEPT !.pc = AfterAnswer(state), !.doc = d, !.kind = state]
<1>5. IsSlot(slot) /\ slot.pc = AfterAnswer(state) /\ slot.of = x /\ slot.doc = d
  <2>1. PICK V : req[h] \in AnySlot(V)
    BY DEF SettlementInv, Typed, ReqTyped, IsSlot
  <2>2. slot \in AnySlot(V)
    BY <2>1 DEF AnySlot, AfterAnswer
  <2> QED
    BY <1>2, <2>1, <2>2 DEF IsSlot, AnySlot
<1>6. req' = [req EXCEPT ![h] = slot]
  BY <1>1
<1> HIDE DEF slot
<1>7. req'[h] = slot /\ (\A g \in Handlers \ {h} : req'[g] = req[g]) /\ ReqTyped'
  BY <1>5, <1>6 DEF SettlementInv, Typed, ReqTyped
<1>8. UNCHANGED <<pay, note, rec, fresh, late>>
  BY DEF PacAnswers
<1>9. SlotFacts(h)'
  <2>1. Owned(RowOf(req[h].of))'
    BY <1>2, <1>5, <1>7, <1>8 DEF RowOf
  <2>2. slot.pc = "finish" => HasUuid(state)
    BY <1>5 DEF AfterAnswer, HasUuid
  <2> QED
    BY <1>2, <1>4, <1>5, <1>7, <2>1, <2>2 DEF SlotFacts
<1>10. \A g \in Handlers \ {h} : Goes(g)
  BY <1>7 DEF Goes, Emitting
<1>11. PacTyped'
  BY <1>4, <1>8, LateSame DEF PacTyped
<1> QED
  BY <1>2, <1>4, <1>5, <1>7, <1>8, <1>9, <1>10, <1>11, PacKeeps

LEMMA RecordComplementKeeps ==
    ASSUME SettlementInv, NEW h \in Handlers, RecordComplement(h)
    PROVE  SettlementInv' /\ RowsStay
<1>1. PICK p \in Payments : p = req[h].of /\ p \in Rows /\ p \notin Notes /\ RowOf(p) = pay[p]
                            /\ IsRow(pay[p]) /\ RowFacts(p, pay[p]) /\ IsSlot(req[h])
  BY PaymentAtHand DEF RecordComplement, ForPayment
<1> DEFINE status == IF req[h].kind = "failed" THEN "error" ELSE "stamping"
           row == [pay[p] EXCEPT !.fid = req[h].doc, !.status = status]
<1>2. UpdatePayment(p, row) /\ req' = [req EXCEPT ![h] = FreeSlot] /\ req[h].pc = "record"
         /\ UNCHANGED <<rec, pac, late>>
  BY <1>1 DEF RecordComplement, ForPayment, Serves, Answer
<1>3. req[h].doc \in Documents /\ pac[req[h].doc].of = p
  BY <1>1, <1>2 DEF SettlementInv, SlotFacts
<1>4. IsRow(row) /\ row.status \in {"error", "stamping"} /\ row.fid = req[h].doc
                 /\ row.uuid = pay[p].uuid
  <2>1. PICK V : pay[p] \in AnyRow(V)
    BY <1>1 DEF IsRow
  <2>2. row \in AnyRow(V)
    BY <1>3, <2>1 DEF AnyRow, Status
  <2>3. IsRow(row)
    BY <2>2 DEF IsRow
  <2> QED
    BY <2>1, <2>2, <2>3 DEF AnyRow
<1> HIDE DEF row
<1>5. ((Becomes(p, row) /\ Live(RowOf(p))) \/ Becomes(p, RowOf(p))) /\ fresh' \subseteq fresh
  BY <1>2, Released DEF SettlementInv, Typed
<1>6. RowOf(p).uuid = NoDoc => RowFacts(p, row)
  BY <1>1, <1>3, <1>4, DocumentIds DEF RowFacts
<1>7. Emitting(h)
  BY <1>2 DEF Emitting
<1> QED
  BY <1>1, <1>2, <1>4, <1>5, <1>6, <1>7, FreeSlotTyped, LateSame, OwnerWrites

LEMMA FinishComplementKeeps ==
    ASSUME SettlementInv, NEW h \in Handlers, FinishComplement(h)
    PROVE  SettlementInv' /\ RowsStay
<1>1. PICK p \in Payments : p = req[h].of /\ p \in Rows /\ p \notin Notes /\ RowOf(p) = pay[p]
                            /\ IsRow(pay[p]) /\ RowFacts(p, pay[p]) /\ IsSlot(req[h])
  BY PaymentAtHand DEF FinishComplement, ForPayment
<1>2. req[h].pc = "finish" /\ Emitting(h) /\ UNCHANGED <<rec, pac, late>>
  BY DEF FinishComplement, ForPayment, Serves, Emitting
<1>3. req[h].doc \in Documents /\ pac[req[h].doc].of = p /\ HasUuid(pac[req[h].doc].state)
  BY <1>1, <1>2 DEF SlotFacts, SettlementInv
<1>4. ASSUME NEW archived \in BOOLEAN,
             WriteClaim(p, [pay[p] EXCEPT !.status = "stamped",
                   !.fid = req[h].doc, !.uuid = req[h].doc, !.xml = archived,
                   !.number = req[h].content.number, !.prior = req[h].content.prior]),
             GoTo(h, "folio")
      PROVE  SettlementInv' /\ RowsStay
  <2> DEFINE number == req[h].content.number
             prior == req[h].content.prior
             row == [pay[p] EXCEPT !.status = "stamped", !.fid = req[h].doc, !.uuid = req[h].doc,
                                   !.xml = archived, !.number = number, !.prior = prior]
             slot == [req[h] EXCEPT !.pc = "folio"]
  <2>1. WriteClaim(p, row) /\ req' = [req EXCEPT ![h] = slot]
    BY <1>4 DEF GoTo
  <2>2. IsRow(row) /\ row.status = "stamped" /\ row.fid = req[h].doc /\ row.uuid = req[h].doc
    <3> HIDE DEF number, prior
    <3>1. PICK V : pay[p] \in AnyRow(V)
      BY <1>1 DEF IsRow
    <3>2. row \in AnyRow(V \cup {archived, number, prior})
      BY <1>3, <3>1 DEF AnyRow, Status
    <3>3. IsRow(row)
      BY <3>2 DEF IsRow
    <3> QED
      BY <3>1, <3>2, <3>3 DEF AnyRow
  <2>3. IsSlot(slot) /\ slot.pc = "folio"
    BY <1>1, SlotGoesTo
  <2> HIDE DEF row, slot
  <2>4. (Becomes(p, row) /\ Live(RowOf(p))) \/ Becomes(p, RowOf(p))
    BY <1>1, <2>1, ClaimWritten DEF SettlementInv, Typed
  <2>5. fresh' \subseteq fresh
    BY <2>1, ClaimWritten DEF SettlementInv, Typed
  <2>6. RowFacts(p, row)
    BY <1>1, <1>3, <2>2, DocumentIds DEF RowFacts
  <2> QED
    BY <1>1, <1>2, <2>1, <2>2, <2>3, <2>4, <2>5, <2>6, LateSame, OwnerWrites
<1>5. CASE RowsUnchanged /\ Answer(h)
  BY <1>2, <1>5, FreeSlotTyped, LateSame, OnlyAnswers DEF RowsUnchanged, Answer
<1> QED
  BY <1>1, <1>4, <1>5 DEF FinishComplement

\* A row whose folio is written keeps its status and its ids.
LEMMA FolioSet ==
    ASSUME NEW row, IsRow(row)
    PROVE  LET after == [row EXCEPT !.folio = TRUE]
           IN /\ IsRow(after)
              /\ after.status = row.status /\ after.fid = row.fid /\ after.uuid = row.uuid
<1>1. PICK V : row \in AnyRow(V)
  BY DEF IsRow
<1>2. [row EXCEPT !.folio = TRUE] \in AnyRow(V \cup {TRUE})
  BY <1>1 DEF AnyRow
<1> QED
  BY <1>1, <1>2 DEF IsRow, AnyRow

\* A step that writes neither the status nor an id of a row.
LEMMA SameIdentity ==
    ASSUME SettlementInv, NEW x \in Rows, NEW row, Becomes(x, row) \/ Becomes(x, RowOf(x)),
           IsRow(row), row.status = RowOf(x).status, row.fid = RowOf(x).fid,
           row.uuid = RowOf(x).uuid,
           UNCHANGED <<rec, pac, late>>, fresh' \subseteq fresh, ReqTyped',
           \A h \in Handlers : Goes(h)
    PROVE  SettlementInv' /\ RowsStay
<1>1. PICK after : Becomes(x, after) /\ (after = row \/ after = RowOf(x))
  OBVIOUS
<1>2. IsRow(after) /\ after.status = RowOf(x).status /\ after.fid = RowOf(x).fid
                   /\ after.uuid = RowOf(x).uuid /\ RowFacts(x, RowOf(x))
  BY <1>1 DEF SettlementInv, Typed, RowsTyped
<1>3. RowFacts(x, after) /\ Stays(RowOf(x), after) /\ (Owned(RowOf(x)) => Owned(after))
  BY <1>2 DEF RowFacts, Stays, Owned
<1>4. \A h \in Handlers : Emitting(h)' /\ req[h].of = x => Owned(after)
  BY <1>3 DEF Goes, SettlementInv, SlotFacts
<1> QED
  BY <1>1, <1>2, <1>3, <1>4, LateSame, RowStep

LEMMA AssignFolioKeeps ==
    ASSUME SettlementInv, NEW h \in Handlers, AssignFolio(h)
    PROVE  SettlementInv' /\ RowsStay
<1>1. PICK p \in Payments : p = req[h].of /\ p \in Rows /\ p \notin Notes /\ RowOf(p) = pay[p]
                            /\ IsRow(pay[p]) /\ RowFacts(p, pay[p])
  BY PaymentAtHand DEF AssignFolio, ForPayment
<1> DEFINE row == [pay[p] EXCEPT !.folio = TRUE]
<1>2. UpdatePayment(p, row) /\ req' = [req EXCEPT ![h] = FreeSlot] /\ UNCHANGED <<rec, pac, late>>
  BY <1>1 DEF AssignFolio, Answer
<1>3. IsRow(row) /\ row.status = pay[p].status /\ row.fid = pay[p].fid /\ row.uuid = pay[p].uuid
  BY <1>1, FolioSet
<1> HIDE DEF row
<1>4. (Becomes(p, row) \/ Becomes(p, RowOf(p))) /\ fresh' \subseteq fresh
  BY <1>2, Released DEF SettlementInv, Typed
<1>5. req'[h] = FreeSlot /\ (\A g \in Handlers \ {h} : req'[g] = req[g]) /\ ReqTyped'
  BY <1>2, FreeSlotTyped DEF SettlementInv, Typed, ReqTyped
<1>6. \A g \in Handlers : Goes(g)
  BY <1>5, FreeSlotTyped DEF Goes, Emitting
<1> QED
  BY <1>1, <1>2, <1>3, <1>4, <1>5, <1>6, SameIdentity

LEMMA CrashKeeps ==
    ASSUME SettlementInv, NEW h \in Handlers, CrashRequest(h)
    PROVE  SettlementInv' /\ RowsStay
<1>1. \A l \in late' : l.of \in Rows
  BY MayArriveTyped, LateSame DEF CrashRequest
<1> QED
  BY <1>1, FreeSlotTyped, OnlyAnswers DEF CrashRequest, Answer

LEMMA ComplementKeeps ==
    ASSUME SettlementInv, NEW h \in Handlers, ComplementStep(h)
    PROVE  SettlementInv' /\ RowsStay
<1>1. CASE PrepareFails(h)
  <2>1. /\ ReleasePayment(req[h].of, [pay[req[h].of] EXCEPT !.status = "error"])
        /\ Emitting(h) /\ req[h].of \in Payments /\ Answer(h) /\ UNCHANGED <<rec, pac, late>>
    BY <1>1 DEF PrepareFails, ForPayment, Serves, Emitting
  <2> QED
    BY <2>1, LateSame, ReopensKeeps
<1>2. CASE RefuseComplement(h)
  <2>1. /\ ReleasePayment(req[h].of, [pay[req[h].of] EXCEPT !.status = "pending"])
        /\ Emitting(h) /\ req[h].of \in Payments /\ Answer(h) /\ UNCHANGED <<rec, pac, late>>
    BY <1>2 DEF RefuseComplement, ForPayment, Serves, Emitting
  <2> QED
    BY <2>1, LateSame, ReopensKeeps
<1>3. CASE ComplementRefused(h)
  <2>1. /\ ReleasePayment(req[h].of, [pay[req[h].of] EXCEPT !.status = "error"])
        /\ Emitting(h) /\ req[h].of \in Payments /\ Answer(h) /\ UNCHANGED <<rec, pac, late>>
    BY <1>3 DEF ComplementRefused, ForPayment, Serves, Emitting
  <2> QED
    BY <2>1, LateSame, ReopensKeeps
<1>4. CASE ComplementUncertain(h)
  <2>1. \A l \in late' : l.of \in Rows
    BY <1>4, MayArriveTyped DEF ComplementUncertain, ForPayment
  <2> QED
    BY <1>4, <2>1, FreeSlotTyped, OnlyAnswers DEF ComplementUncertain, Answer
<1> QED
  BY <1>1, <1>2, <1>3, <1>4, ClaimPaymentKeeps, PrepareKeeps, RecordComplementKeeps,
     FinishComplementKeeps, AssignFolioKeeps DEF ComplementStep

-----------------------------------------------------------------------------
(* The stamping of a credit note.                                          *)

LEMMA NoteAtHand ==
    ASSUME SettlementInv, NEW h \in Handlers, req[h].of \in Notes
    PROVE  \E n \in Notes : n = req[h].of /\ n \in Rows /\ n \notin Payments /\ RowOf(n) = note[n]
                            /\ IsRow(note[n]) /\ RowFacts(n, note[n]) /\ IsSlot(req[h])
BY RowKinds DEF SettlementInv, Typed, RowsTyped, ReqTyped

\* The request ends with a write of its note, or without any.
LEMMA NoteEnds ==
    ASSUME SettlementInv, NEW h \in Handlers, Emitting(h), NEW n \in Notes, n = req[h].of,
           NEW row, IfStamping(n, row) \/ WriteNote(n, row) \/ RowsUnchanged, IsRow(row),
           note[n].status = "stamping" /\ note[n].uuid = NoDoc => RowFacts(n, row),
           Answer(h), UNCHANGED <<rec, pac>>, \A l \in late' : l.of \in Rows
    PROVE  SettlementInv' /\ RowsStay
<1>1. (Becomes(n, row) /\ Live(RowOf(n))) \/ Becomes(n, RowOf(n))
  BY IfStampingWritten, NoteWritten, SameRows, RowKinds DEF SettlementInv, Typed, RowsUnchanged
<1>2. fresh' \subseteq fresh
  BY IfStampingWritten, NoteWritten DEF SettlementInv, Typed, RowsUnchanged
<1>3. req' = [req EXCEPT ![h] = FreeSlot] /\ n \in Rows /\ RowOf(n) = note[n]
  BY RowKinds DEF Answer
<1> QED
  BY <1>1, <1>2, <1>3, FreeSlotTyped, OwnerWrites

LEMMA AskNoteKeeps ==
    ASSUME SettlementInv, NEW h \in Handlers, NEW n \in Notes, AskNote(h, n)
    PROVE  SettlementInv' /\ RowsStay
<1> DEFINE slot == [FreeSlot EXCEPT !.pc = "claim", !.of = n]
<1>1. slot \in AnySlot({Nothing})
  BY RowKinds DEF FreeSlot, AnySlot
<1>2. IsSlot(slot) /\ slot.pc = "claim"
  BY <1>1 DEF IsSlot, AnySlot, FreeSlot
<1>3. req' = [req EXCEPT ![h] = slot]
  BY DEF AskNote
<1> HIDE DEF slot
<1>4. UNCHANGED <<pay, note, rec, fresh, pac, late>>
  BY DEF AskNote
<1> QED
  BY <1>2, <1>3, <1>4, LateSame, OnlyAnswers

LEMMA ClaimNoteKeeps ==
    ASSUME SettlementInv, NEW h \in Handlers, ClaimNote(h)
    PROVE  SettlementInv' /\ RowsStay
<1>1. PICK n \in Notes : n = req[h].of /\ n \in Rows /\ n \notin Payments /\ RowOf(n) = note[n]
                         /\ IsRow(note[n]) /\ RowFacts(n, note[n]) /\ IsSlot(req[h])
  BY NoteAtHand DEF ClaimNote, ForNote
<1>2. UNCHANGED <<rec, pac, late>>
  BY DEF ClaimNote
<1>3. CASE ClaimableNote(note[n])
  <2> DEFINE row == [note[n] EXCEPT !.status = "stamping", !.misses = 0]
             content == [Nothing EXCEPT !.amount = note[n].amount]
             slot == [req[h] EXCEPT !.pc = "check", !.content = content]
  <2>1. WriteNote(n, row) /\ req' = [req EXCEPT ![h] = slot]
    BY <1>1, <1>3 DEF ClaimNote
  <2>2. IsRow(row) /\ row.status = "stamping" /\ row.uuid = note[n].uuid /\ row.fid = note[n].fid
    <3>1. PICK V : note[n] \in AnyRow(V)
      BY <1>1 DEF IsRow
    <3>2. row \in AnyRow(V \cup {0})
      BY <3>1 DEF AnyRow, Status
    <3>3. IsRow(row)
      BY <3>2 DEF IsRow
    <3> QED
      BY <3>1, <3>2, <3>3 DEF AnyRow
  <2>3. IsSlot(slot) /\ slot.pc = "check" /\ slot.of = n
    <3>1. PICK V : req[h] \in AnySlot(V)
      BY <1>1 DEF IsSlot
    <3> HIDE DEF content
    <3>2. slot \in AnySlot(V \cup {content})
      BY <3>1 DEF AnySlot
    <3> QED
      BY <1>1, <3>1, <3>2 DEF IsSlot, AnySlot
  <2> HIDE DEF row, slot
  <2>4. Becomes(n, row) /\ fresh' = fresh \ Readers(n)
    BY <1>3, <2>1, NoteWritten DEF ClaimableNote, Live, SettlementInv, Typed
  <2>5. ReqTyped' /\ req'[h] = slot /\ \A g \in Handlers \ {h} : req'[g] = req[g]
    BY <2>1, <2>3 DEF SettlementInv, Typed, ReqTyped
  <2> QED
    BY <1>1, <1>2, <1>3, <2>2, <2>3, <2>4, <2>5, ClaimStep DEF ClaimableNote
<1>4. CASE ~ClaimableNote(note[n])
  <2>1. req' = [req EXCEPT ![h] = FreeSlot] /\ UNCHANGED <<pay, note, fresh>>
    BY <1>1, <1>4 DEF ClaimNote, Answer, RowsUnchanged
  <2> QED
    BY <1>2, <2>1, LateSame, FreeSlotTyped, OnlyAnswers
<1> QED
  BY <1>3, <1>4

\* The note is opened again as 'error'.
LEMMA NoteReopensKeeps ==
    ASSUME SettlementInv, NEW h \in Handlers, Emitting(h), req[h].of \in Notes,
           IfStamping(req[h].of, [note[req[h].of] EXCEPT !.status = "error"]),
           Answer(h), UNCHANGED <<rec, pac>>, \A l \in late' : l.of \in Rows
    PROVE  SettlementInv' /\ RowsStay
<1>1. PICK n \in Notes : n = req[h].of /\ n \in Rows /\ IsRow(note[n]) /\ RowFacts(n, note[n])
  BY NoteAtHand
<1> DEFINE row == [note[n] EXCEPT !.status = "error"]
<1>2. IsRow(row) /\ row.status = "error" /\ row.fid = note[n].fid /\ row.uuid = note[n].uuid
  BY <1>1, StatusSet DEF Status
<1>3. IfStamping(n, row)
  BY <1>1
<1> HIDE DEF row
<1>4. note[n].uuid = NoDoc => RowFacts(n, row)
  BY <1>1, <1>2, ReopenedFacts
<1> QED
  BY <1>1, <1>2, <1>3, <1>4, NoteEnds

LEMMA StubKeeps == ASSUME SettlementInv, NEW h \in Handlers, StubNote(h)
                   PROVE  SettlementInv' /\ RowsStay
<1>1. PICK n \in Notes : n = req[h].of /\ n \in Rows /\ n \notin Payments
                         /\ IsRow(note[n]) /\ RowFacts(n, note[n])
  BY NoteAtHand DEF StubNote, ForNote
<1> DEFINE row == [note[n] EXCEPT !.status = "stamped", !.uuid = MockDoc]
<1>2. IsRow(row) /\ row.status = "stamped" /\ row.fid = note[n].fid /\ row.uuid = MockDoc
  <2>1. PICK V : note[n] \in AnyRow(V)
    BY <1>1 DEF IsRow
  <2>2. row \in AnyRow(V)
    BY <2>1 DEF AnyRow, Status
  <2>3. IsRow(row)
    BY <2>2 DEF IsRow
  <2> QED
    BY <2>1, <2>2, <2>3 DEF AnyRow
<1>3. (WriteNote(n, row) \/ RowsUnchanged) /\ Emitting(h) /\ Answer(h)
         /\ UNCHANGED <<rec, pac, late>>
  BY <1>1 DEF StubNote, ForNote, Serves, Emitting
<1> HIDE DEF row
<1>4. RowFacts(n, row)
  BY <1>1, <1>2, DocumentIds DEF RowFacts
<1> QED
  BY <1>1, <1>2, <1>3, <1>4, LateSame, NoteEnds

LEMMA RecordNoteKeeps == ASSUME SettlementInv, NEW h \in Handlers, RecordNote(h)
                         PROVE  SettlementInv' /\ RowsStay
<1>1. PICK n \in Notes : n = req[h].of /\ n \in Rows /\ n \notin Payments
                         /\ IsRow(note[n]) /\ RowFacts(n, note[n])
  BY NoteAtHand DEF RecordNote, ForNote
<1> DEFINE status == IF req[h].kind = "failed" THEN "error" ELSE "stamping"
           row == [note[n] EXCEPT !.fid = req[h].doc, !.status = status]
<1>2. IfStamping(n, row) /\ Answer(h) /\ req[h].pc = "record" /\ Emitting(h)
         /\ UNCHANGED <<rec, pac, late>>
  BY <1>1 DEF RecordNote, ForNote, Serves, Emitting
<1>3. req[h].doc \in Documents /\ pac[req[h].doc].of = n
  BY <1>1, <1>2 DEF SettlementInv, SlotFacts
<1>4. IsRow(row) /\ row.status \in {"error", "stamping"} /\ row.fid = req[h].doc
                 /\ row.uuid = note[n].uuid
  <2>1. PICK V : note[n] \in AnyRow(V)
    BY <1>1 DEF IsRow
  <2>2. row \in AnyRow(V)
    BY <1>3, <2>1 DEF AnyRow, Status
  <2>3. IsRow(row)
    BY <2>2 DEF IsRow
  <2> QED
    BY <2>1, <2>2, <2>3 DEF AnyRow
<1> HIDE DEF row
<1>5. note[n].uuid = NoDoc => RowFacts(n, row)
  BY <1>1, <1>3, <1>4, DocumentIds DEF RowFacts
<1> QED
  BY <1>1, <1>2, <1>4, <1>5, LateSame, NoteEnds

LEMMA NoteThrowsKeeps == ASSUME SettlementInv, NEW h \in Handlers, NoteThrows(h)
                         PROVE  SettlementInv' /\ RowsStay
<1>1. PICK n \in Notes : n = req[h].of /\ n \in Rows /\ n \notin Payments
                         /\ IsRow(note[n]) /\ RowFacts(n, note[n])
  BY NoteAtHand DEF NoteThrows, ForNote
<1> DEFINE row == [note[n] EXCEPT !.fid = req[h].doc, !.uuid = req[h].doc]
<1>2. IfStamping(n, row) /\ Answer(h) /\ req[h].pc = "finish" /\ Emitting(h)
         /\ UNCHANGED <<rec, pac, late>>
  BY <1>1 DEF NoteThrows, ForNote, Serves, Emitting
<1>3. req[h].doc \in Documents /\ pac[req[h].doc].of = n /\ HasUuid(pac[req[h].doc].state)
  BY <1>1, <1>2 DEF SettlementInv, SlotFacts
<1>4. IsRow(row) /\ row.status = note[n].status /\ row.fid = req[h].doc /\ row.uuid = req[h].doc
  <2>1. PICK V : note[n] \in AnyRow(V)
    BY <1>1 DEF IsRow
  <2>2. row \in AnyRow(V)
    BY <1>3, <2>1 DEF AnyRow
  <2>3. IsRow(row)
    BY <2>2 DEF IsRow
  <2> QED
    BY <2>1, <2>2, <2>3 DEF AnyRow
<1> HIDE DEF row
<1>5. note[n].status = "stamping" => RowFacts(n, row)
  BY <1>1, <1>3, <1>4, DocumentIds DEF RowFacts
<1> QED
  BY <1>1, <1>2, <1>4, <1>5, LateSame, NoteEnds

LEMMA FinishNoteKeeps == ASSUME SettlementInv, NEW h \in Handlers, FinishNote(h)
                         PROVE  SettlementInv' /\ RowsStay
<1>1. PICK n \in Notes : n = req[h].of /\ n \in Rows /\ n \notin Payments
                         /\ IsRow(note[n]) /\ RowFacts(n, note[n])
  BY NoteAtHand DEF FinishNote, ForNote
<1>2. Answer(h) /\ req[h].pc = "finish" /\ Emitting(h) /\ UNCHANGED <<rec, pac, late>>
  BY DEF FinishNote, ForNote, Serves, Emitting
<1>3. req[h].doc \in Documents /\ pac[req[h].doc].of = n /\ HasUuid(pac[req[h].doc].state)
  BY <1>1, <1>2 DEF SettlementInv, SlotFacts
<1>4. ASSUME NEW status \in {"stamped", "error"}, NEW archived \in BOOLEAN,
             IfStamping(n, [note[n] EXCEPT !.status = status, !.fid = req[h].doc,
                                           !.uuid = req[h].doc, !.xml = archived])
      PROVE  SettlementInv' /\ RowsStay
  <2> DEFINE row == [note[n] EXCEPT !.status = status, !.fid = req[h].doc,
                                    !.uuid = req[h].doc, !.xml = archived]
  <2>1. IsRow(row) /\ row.status = status /\ row.fid = req[h].doc /\ row.uuid = req[h].doc
    <3>1. PICK V : note[n] \in AnyRow(V)
      BY <1>1 DEF IsRow
    <3>2. row \in AnyRow(V \cup {archived})
      BY <1>3, <3>1 DEF AnyRow, Status
    <3>3. IsRow(row)
      BY <3>2 DEF IsRow
    <3> QED
      BY <3>1, <3>2, <3>3 DEF AnyRow
  <2>2. IfStamping(n, row)
    BY <1>4
  <2> HIDE DEF row
  <2>3. RowFacts(n, row)
    BY <1>1, <1>3, <2>1, DocumentIds DEF RowFacts
  <2> QED
    BY <1>1, <1>2, <2>1, <2>2, <2>3, LateSame, NoteEnds
<1>5. CASE RowsUnchanged
  BY <1>1, <1>2, <1>5, LateSame, FreeSlotTyped, OnlyAnswers DEF RowsUnchanged, Answer
<1> QED
  BY <1>1, <1>4, <1>5 DEF FinishNote

LEMMA NoteKeeps == ASSUME SettlementInv, NEW h \in Handlers, NoteStep(h)
                   PROVE  SettlementInv' /\ RowsStay
<1>1. CASE RefuseNote(h)
  <2>1. /\ IfStamping(req[h].of, [note[req[h].of] EXCEPT !.status = "error"])
        /\ Emitting(h) /\ req[h].of \in Notes /\ Answer(h) /\ UNCHANGED <<rec, pac, late>>
    BY <1>1 DEF RefuseNote, ForNote, Serves, Emitting
  <2> QED
    BY <2>1, LateSame, NoteReopensKeeps
<1>2. CASE NoteRefused(h)
  <2>1. /\ IfStamping(req[h].of, [note[req[h].of] EXCEPT !.status = "error"])
        /\ Emitting(h) /\ req[h].of \in Notes /\ Answer(h) /\ UNCHANGED <<rec, pac>>
    BY <1>2 DEF NoteRefused, ForNote, Serves, Emitting
  <2>2. \A l \in late' : l.of \in Rows
    BY <1>2, MayArriveTyped DEF NoteRefused, ForNote
  <2> QED
    BY <2>1, <2>2, NoteReopensKeeps
<1>3. CASE NoteTimesOut(h)
  <2>1. \A l \in late' : l.of \in Rows
    BY <1>3, MayArriveTyped DEF NoteTimesOut, ForNote
  <2> QED
    BY <1>3, <2>1, FreeSlotTyped, OnlyAnswers DEF NoteTimesOut, Answer
<1> QED
  BY <1>1, <1>2, <1>3, ClaimNoteKeeps, StubKeeps, RecordNoteKeeps, FinishNoteKeeps,
     NoteThrowsKeeps DEF NoteStep

-----------------------------------------------------------------------------
(* Users.                                                                  *)

\* A new or a deleted row.
LEMMA BlankRow ==
    ASSUME NEW status \in {"pending", "deleted"}, NEW amount
    PROVE  LET row == [NoRecord EXCEPT !.status = status, !.amount = amount]
           IN IsRow(row) /\ row.status = status /\ row.fid = NoDoc /\ row.uuid = NoDoc
<1>1. [NoRecord EXCEPT !.status = status, !.amount = amount] \in AnyRow({amount, 0, FALSE})
  BY DEF NoRecord, AnyRow, Status
<1> QED
  BY <1>1 DEF IsRow, AnyRow, NoRecord

LEMMA DeletedRow ==
    LET row == [NoRecord EXCEPT !.status = "deleted"]
    IN IsRow(row) /\ row.status = "deleted" /\ row.fid = NoDoc /\ row.uuid = NoDoc
<1>1. [NoRecord EXCEPT !.status = "deleted"] \in AnyRow({0, FALSE})
  BY DEF NoRecord, AnyRow, Status
<1> QED
  BY <1>1 DEF IsRow, AnyRow, NoRecord

LEMMA AmountSet ==
    ASSUME NEW row, IsRow(row), NEW amount
    PROVE  LET after == [row EXCEPT !.amount = amount]
           IN /\ IsRow(after)
              /\ after.status = row.status /\ after.fid = row.fid /\ after.uuid = row.uuid
<1>1. PICK V : row \in AnyRow(V)
  BY DEF IsRow
<1>2. [row EXCEPT !.amount = amount] \in AnyRow(V \cup {amount})
  BY <1>1 DEF AnyRow
<1> QED
  BY <1>1, <1>2 DEF IsRow, AnyRow

\* A row is inserted: nobody knew of it.
LEMMA InsertKeeps ==
    ASSUME SettlementInv, NEW x \in Rows, RowOf(x).status = "absent", NEW row, Becomes(x, row),
           IsRow(row), row.status = "pending", row.fid = NoDoc, row.uuid = NoDoc,
           UNCHANGED <<req, rec, fresh, pac, late>>
    PROVE  SettlementInv' /\ RowsStay
<1>1. RowFacts(x, row) /\ Stays(RowOf(x), row)
  BY DocumentIds DEF RowFacts, Stays, SettlementInv
<1>2. ReqTyped' /\ \A h \in Handlers : Goes(h)
  BY DEF SettlementInv, Typed, ReqTyped, Goes, Emitting
<1>3. \A h \in Handlers : ~(Emitting(h)' /\ req[h].of = x)
  BY DEF SettlementInv, SlotFacts, Owned, Emitting
<1> QED
  BY <1>1, <1>2, <1>3, LateSame, RowStep

\* A row is deleted, which no run of the reconciliation survives with its token.
LEMMA DeleteKeeps ==
    ASSUME SettlementInv, NEW x \in Rows, RowOf(x).status # "stamped", NEW row, Becomes(x, row),
           IsRow(row), row.status = "deleted", row.fid = NoDoc, row.uuid = NoDoc,
           fresh' = fresh \ Readers(x), UNCHANGED <<req, rec, pac, late>>
    PROVE  SettlementInv' /\ RowsStay
<1>1. RowFacts(x, row) /\ Stays(RowOf(x), row) /\ Owned(row)
  BY DocumentIds DEF RowFacts, Stays, Owned, Live
<1>2. ReqTyped' /\ \A h \in Handlers : Goes(h)
  BY DEF SettlementInv, Typed, ReqTyped, Goes, Emitting
<1> QED
  BY <1>1, <1>2, LateSame, RowStep

LEMMA EditKeeps ==
    ASSUME SettlementInv, NEW x \in Rows, NEW row, Becomes(x, row) \/ Becomes(x, RowOf(x)),
           IsRow(row), row.status = RowOf(x).status, row.fid = RowOf(x).fid,
           row.uuid = RowOf(x).uuid, fresh' \subseteq fresh, UNCHANGED <<req, rec, pac, late>>
    PROVE  SettlementInv' /\ RowsStay
<1>1. ReqTyped' /\ \A h \in Handlers : Goes(h)
  BY DEF SettlementInv, Typed, ReqTyped, Goes, Emitting
<1> QED
  BY <1>1, SameIdentity

LEMMA UserKeeps == ASSUME SettlementInv, UserStep PROVE SettlementInv' /\ RowsStay
<1>1. \A x \in Rows : IsRow(RowOf(x))
  BY DEF SettlementInv, Typed, RowsTyped
<1>2. ASSUME NEW p \in Payments, RegisterPayment(p) PROVE SettlementInv' /\ RowsStay
  <2>1. PICK amount :
           pay' = [pay EXCEPT ![p] = [NoRecord EXCEPT !.status = "pending", !.amount = amount]]
    BY <1>2 DEF RegisterPayment
  <2> DEFINE row == [NoRecord EXCEPT !.status = "pending", !.amount = amount]
  <2>2. IsRow(row) /\ row.status = "pending" /\ row.fid = NoDoc /\ row.uuid = NoDoc
    BY BlankRow
  <2>3. pay' = [pay EXCEPT ![p] = row]
    BY <2>1
  <2> HIDE DEF row
  <2>4. Becomes(p, row)
    BY <1>2, <2>3, PaymentSet DEF RegisterPayment, SettlementInv, Typed
  <2> QED
    BY <1>2, <2>2, <2>4, RowKinds, InsertKeeps DEF RegisterPayment
<1>3. ASSUME NEW n \in Notes, DraftNote(n) PROVE SettlementInv' /\ RowsStay
  <2>1. PICK amount :
           note' = [note EXCEPT ![n] = [NoRecord EXCEPT !.status = "pending", !.amount = amount]]
    BY <1>3 DEF DraftNote
  <2> DEFINE row == [NoRecord EXCEPT !.status = "pending", !.amount = amount]
  <2>2. IsRow(row) /\ row.status = "pending" /\ row.fid = NoDoc /\ row.uuid = NoDoc
    BY BlankRow
  <2>3. note' = [note EXCEPT ![n] = row]
    BY <2>1
  <2> HIDE DEF row
  <2>4. Becomes(n, row)
    BY <1>3, <2>3, NoteSet DEF DraftNote, SettlementInv, Typed
  <2> QED
    BY <1>3, <2>2, <2>4, RowKinds, InsertKeeps DEF DraftNote
<1>4. ASSUME NEW p \in Payments, EditPayment(p) PROVE SettlementInv' /\ RowsStay
  <2>1. PICK amount : pay' = [pay EXCEPT ![p].amount = amount]
    BY <1>4 DEF EditPayment
  <2> DEFINE row == [pay[p] EXCEPT !.amount = amount]
  <2>2. IsRow(row) /\ row.status = pay[p].status /\ row.fid = pay[p].fid
                   /\ row.uuid = pay[p].uuid
    BY <1>1, RowKinds, AmountSet
  <2>3. pay' = [pay EXCEPT ![p] = row]
    BY <2>1
  <2> HIDE DEF row
  <2>4. Becomes(p, row)
    BY <1>4, <2>3, PaymentSet DEF EditPayment, SettlementInv, Typed
  <2> QED
    BY <1>4, <2>2, <2>4, RowKinds, EditKeeps DEF EditPayment
<1>5. ASSUME NEW n \in Notes, EditNote(n) PROVE SettlementInv' /\ RowsStay
  <2>1. PICK amount : WriteNote(n, [note[n] EXCEPT !.amount = amount])
    BY <1>5 DEF EditNote
  <2> DEFINE row == [note[n] EXCEPT !.amount = amount]
  <2>2. IsRow(row) /\ row.status = note[n].status /\ row.fid = note[n].fid
                   /\ row.uuid = note[n].uuid
    BY <1>1, RowKinds, AmountSet
  <2>3. WriteNote(n, row)
    BY <2>1
  <2> HIDE DEF row
  <2>4. (Becomes(n, row) \/ Becomes(n, RowOf(n))) /\ fresh' \subseteq fresh
    BY <2>3, NoteWritten, RowKinds DEF SettlementInv, Typed
  <2> QED
    BY <1>5, <2>2, <2>4, RowKinds, EditKeeps DEF EditNote
<1>6. ASSUME NEW p \in Payments, DeletePayment(p) PROVE SettlementInv' /\ RowsStay
  <2> DEFINE row == [NoRecord EXCEPT !.status = "deleted"]
  <2>1. IsRow(row) /\ row.status = "deleted" /\ row.fid = NoDoc /\ row.uuid = NoDoc
    BY DeletedRow
  <2>2. pay' = [pay EXCEPT ![p] = row]
    BY <1>6 DEF DeletePayment
  <2> HIDE DEF row
  <2>3. Becomes(p, row)
    BY <1>6, <2>2, PaymentSet DEF DeletePayment, SettlementInv, Typed
  <2> QED
    BY <1>6, <2>1, <2>3, RowKinds, DeleteKeeps DEF DeletePayment
<1>7. ASSUME NEW n \in Notes, DeleteNote(n) PROVE SettlementInv' /\ RowsStay
  <2> DEFINE row == [NoRecord EXCEPT !.status = "deleted"]
  <2>1. IsRow(row) /\ row.status = "deleted" /\ row.fid = NoDoc /\ row.uuid = NoDoc
    BY DeletedRow
  <2>2. WriteNote(n, row) /\ Live(note[n])
    BY <1>7 DEF DeleteNote, Live
  <2> HIDE DEF row
  <2>3. Becomes(n, row) /\ fresh' = fresh \ Readers(n)
    BY <2>2, NoteWritten DEF SettlementInv, Typed
  <2> QED
    BY <1>7, <2>1, <2>3, RowKinds, DeleteKeeps DEF DeleteNote
<1> QED
  BY <1>2, <1>3, <1>4, <1>5, <1>6, <1>7 DEF UserStep

-----------------------------------------------------------------------------
(* The reconciliation.                                                     *)

LEMMA SelectKeeps ==
    ASSUME SettlementInv, NEW r \in Reconcilers, NEW x \in Rows, SelectStuck(r, x)
    PROVE  SettlementInv' /\ RowsStay
<1> DEFINE cycle == [pc |-> "selected", of |-> x, fid |-> RowOf(x).fid, uuid |-> RowOf(x).uuid,
                     misses |-> RowOf(x).misses, attempts |-> RowOf(x).attempts]
<1>1. rec' = [rec EXCEPT ![r] = cycle] /\ fresh' = fresh \cup {r}
         /\ UNCHANGED <<pay, note, req, pac, late>> /\ Quiet(x)
  BY DEF SelectStuck
<1>2. PICK V : RowOf(x) \in AnyRow(V)
  BY DEF SettlementInv, Typed, RowsTyped, IsRow
<1>3. cycle \in AnyCycle(V)
  BY <1>2 DEF AnyCycle, AnyRow
<1>4. IsCycle(cycle) /\ cycle.pc = "selected" /\ cycle.of = x /\ cycle.fid = RowOf(x).fid
                     /\ cycle.uuid = RowOf(x).uuid
  BY <1>3 DEF IsCycle
<1> HIDE DEF cycle
<1>5. rec'[r] = cycle /\ (\A q \in Reconcilers \ {r} : rec'[q] = rec[q]) /\ RecTyped'
  BY <1>1, <1>4 DEF SettlementInv, Typed, RecTyped
<1>6. ASSUME NEW q \in Reconcilers PROVE CycleFacts(q)'
  <2>1. CASE q = r
    <3>1. rec'[r].of = x /\ RowOf(rec[r].of)'.fid = RowOf(x).fid
                         /\ RowOf(rec[r].of)'.uuid = RowOf(x).uuid
      BY <1>1, <1>4, <1>5 DEF RowOf
    <3> QED
      BY <1>4, <1>5, <2>1, <3>1 DEF CycleFacts
  <2>2. CASE q # r
    <3>1. RowOf(rec[q].of)' = RowOf(rec[q].of) /\ rec'[q] = rec[q] /\ (q \in fresh' <=> q \in fresh)
      BY <1>1, <1>5, <2>2 DEF RowOf
    <3> QED
      BY <3>1 DEF SettlementInv, CycleFacts, Holds
  <2> QED
    BY <2>1, <2>2
<1>7. \A h \in Handlers : req[h].of = x => ~Emitting(h)
  BY <1>1 DEF Quiet, Serves, Emitting
<1>8. SingleEmitter'
  BY <1>1, <1>4, <1>5, <1>7 DEF SettlementInv, SingleEmitter, Emitting
<1>9. TokenTaken'
  <2>1. \A q \in Reconcilers : rec[q].of = x => rec[q].pc = "selected"
    BY <1>1 DEF Quiet
  <2> QED
    BY <1>1, <1>4, <1>5, <2>1 DEF SettlementInv, TokenTaken
<1> QED
  BY <1>1, <1>5, <1>6, <1>8, <1>9, OnlyRuns

LEMMA RestingTyped == IsCycle(Resting) /\ Resting.pc = "idle" /\ Resting.of = NoRow
<1>1. Resting \in AnyCycle({0})
  BY DEF Resting, AnyCycle
<1> QED
  BY <1>1 DEF IsCycle, Resting

LEMMA LeaveKeeps == ASSUME SettlementInv, NEW r \in Reconcilers, LeaveStuck(r)
                    PROVE  SettlementInv' /\ RowsStay
<1>1. rec' = [rec EXCEPT ![r] = Resting] /\ fresh' = fresh \ {r}
         /\ UNCHANGED <<pay, note, req, pac, late>>
  BY DEF LeaveStuck, Rest
<1>2. rec'[r] = Resting /\ (\A q \in Reconcilers \ {r} : rec'[q] = rec[q]) /\ RecTyped'
  BY <1>1, RestingTyped DEF SettlementInv, Typed, RecTyped
<1>3. ASSUME NEW q \in Reconcilers PROVE CycleFacts(q)'
  <2>1. CASE q = r
    BY <1>1, <1>2, <2>1, RestingTyped DEF CycleFacts, Holds
  <2>2. CASE q # r
    <3>1. RowOf(rec[q].of)' = RowOf(rec[q].of) /\ rec'[q] = rec[q] /\ (q \in fresh' <=> q \in fresh)
      BY <1>1, <1>2, <2>2 DEF RowOf
    <3> QED
      BY <3>1 DEF SettlementInv, CycleFacts, Holds
  <2> QED
    BY <2>1, <2>2
<1>4. SingleEmitter'
  BY <1>1, <1>2 DEF SettlementInv, SingleEmitter, Emitting
<1>5. TokenTaken'
  BY <1>1, <1>2, RestingTyped, RowKinds DEF SettlementInv, TokenTaken, CycleFacts
<1> QED
  BY <1>1, <1>2, <1>3, <1>4, <1>5, OnlyRuns

\* What a run with a good token knows of its row.
LEMMA RunAtHand ==
    ASSUME SettlementInv, NEW r \in Reconcilers, Holds(r)
    PROVE  \E x \in Rows : /\ x = rec[r].of
                           /\ IsRow(RowOf(x)) /\ RowFacts(x, RowOf(x)) /\ IsCycle(rec[r])
                           /\ RowOf(x).status = "stamping"
                           /\ rec[r].fid = RowOf(x).fid /\ rec[r].uuid = RowOf(x).uuid
<1>1. rec[r].of \in Rows
  BY DEF Holds, SettlementInv, CycleFacts
<1> QED
  BY <1>1 DEF Holds, SettlementInv, CycleFacts, Typed, RowsTyped, RecTyped

\* A row that lacks an id lacks the uuid, and what is found is its document.
LEMMA FoundIsOwn ==
    ASSUME SettlementInv, NEW r \in Reconcilers, Holds(r), LacksId(r), NEW x \in Rows, x = rec[r].of
    PROVE  /\ RowOf(x).uuid = NoDoc
           /\ \A d \in Found(x, rec[r].fid) : d \in Documents /\ pac[d].of = x
<1>1. /\ IsRow(RowOf(x)) /\ RowFacts(x, RowOf(x)) /\ RowOf(x).status = "stamping"
      /\ rec[r].fid = RowOf(x).fid /\ rec[r].uuid = RowOf(x).uuid
  BY RunAtHand
<1>2. RowOf(x).fid \in Documents \cup {NoDoc} /\ RowOf(x).uuid \in Documents \cup {NoDoc, MockDoc}
  BY <1>1 DEF IsRow, AnyRow
<1>3. RowOf(x).uuid = NoDoc
  BY <1>1, <1>2, DocumentIds DEF LacksId, RowFacts
<1> QED
  BY <1>1, <1>2, <1>3 DEF Found, DocsOf, RowFacts

LEMMA SetWrites ==
    ASSUME RowsTyped, NEW r \in Reconcilers, NEW x \in Rows, x = rec[r].of, NEW row, Set(r, row)
    PROVE  Becomes(x, row)
<1>1. CASE x \in Payments
  BY <1>1, PaymentSet DEF Set
<1>2. CASE x \notin Payments
  <2>1. x \in Notes
    BY <1>2, RowKinds
  <2> QED
    BY <1>2, <2>1, NoteSet DEF Set
<1> QED
  BY <1>1, <1>2

LEMMA RunRests ==
    ASSUME SettlementInv, NEW r \in Reconcilers, NEW x \in Rows, x = rec[r].of, NEW row,
           PersistAndRest(r, row), IsRow(row), RowFacts(x, row),
           row.uuid = RowOf(x).uuid \/ RowOf(x).uuid = NoDoc, UNCHANGED <<req, pac, late>>
    PROVE  SettlementInv' /\ RowsStay
<1>1. Holds(r) /\ Becomes(x, row) /\ fresh' = fresh \ Readers(x)
         /\ rec' = [rec EXCEPT ![r] = Resting]
  BY SetWrites DEF PersistAndRest, Rest, SettlementInv, Typed
<1> QED
  BY <1>1, RestingTyped, RunStep

LEMMA ClaimStuckKeeps == ASSUME SettlementInv, NEW r \in Reconcilers, ClaimStuck(r)
                         PROVE  SettlementInv' /\ RowsStay
<1>1. PICK x \in Rows : /\ x = rec[r].of
                        /\ IsRow(RowOf(x)) /\ RowFacts(x, RowOf(x)) /\ IsCycle(rec[r])
                        /\ rec[r].fid = RowOf(x).fid /\ rec[r].uuid = RowOf(x).uuid
  BY RunAtHand DEF ClaimStuck, PersistAndGoOn
<1> DEFINE cycle == [rec[r] EXCEPT !.pc = "claimed"]
<1>2. IsCycle(cycle) /\ cycle.pc = "claimed" /\ cycle.of = x /\ cycle.fid = RowOf(x).fid
                     /\ cycle.uuid = RowOf(x).uuid
  <2>1. PICK V : rec[r] \in AnyCycle(V)
    BY <1>1 DEF IsCycle
  <2>2. cycle \in AnyCycle(V)
    BY <2>1 DEF AnyCycle
  <2> QED
    BY <1>1, <2>1, <2>2 DEF IsCycle, AnyCycle
<1>3. Holds(r) /\ Set(r, RowOf(x)) /\ fresh' = (fresh \ Readers(x)) \cup {r}
         /\ rec' = [rec EXCEPT ![r] = cycle] /\ UNCHANGED <<req, pac, late>>
  BY <1>1 DEF ClaimStuck, PersistAndGoOn
<1> HIDE DEF cycle
<1>4. Becomes(x, RowOf(x))
  BY <1>1, <1>3, SetWrites DEF SettlementInv, Typed
<1> QED
  BY <1>1, <1>2, <1>3, <1>4, RunStep

LEMMA RecoverIdsKeeps == ASSUME SettlementInv, NEW r \in Reconcilers, RecoverIds(r)
                         PROVE  SettlementInv' /\ RowsStay
<1>1. Holds(r) /\ LacksId(r) /\ UNCHANGED <<req, pac, late>>
  BY DEF RecoverIds, PersistAndGoOn
<1>2. PICK x \in Rows : /\ x = rec[r].of
                        /\ IsRow(RowOf(x)) /\ RowFacts(x, RowOf(x)) /\ IsCycle(rec[r])
                        /\ RowOf(x).status = "stamping"
  BY <1>1, RunAtHand
<1>3. PICK d \in Found(x, rec[r].fid) :
         /\ pac[d].state \in {"valid", "cancelled"}
         /\ PersistAndGoOn(r, [RowOf(x) EXCEPT !.fid = d, !.uuid = d, !.misses = 0],
                           [rec[r] EXCEPT !.pc = "fetch", !.fid = d, !.uuid = d])
  BY <1>2 DEF RecoverIds
<1>4. d \in Documents /\ pac[d].of = x /\ RowOf(x).uuid = NoDoc
  BY <1>1, <1>2, FoundIsOwn
<1> DEFINE row == [RowOf(x) EXCEPT !.fid = d, !.uuid = d, !.misses = 0]
           cycle == [rec[r] EXCEPT !.pc = "fetch", !.fid = d, !.uuid = d]
<1>5. Set(r, row) /\ fresh' = (fresh \ Readers(x)) \cup {r} /\ rec' = [rec EXCEPT ![r] = cycle]
  BY <1>2, <1>3 DEF PersistAndGoOn
<1>6. IsRow(row) /\ row.status = "stamping" /\ row.fid = d /\ row.uuid = d
  <2>1. PICK V : RowOf(x) \in AnyRow(V)
    BY <1>2 DEF IsRow
  <2>2. row \in AnyRow(V \cup {0})
    BY <1>4, <2>1 DEF AnyRow
  <2>3. row.status = "stamping" /\ row.fid = d /\ row.uuid = d
    BY <1>2, <2>1 DEF AnyRow
  <2> QED
    BY <2>2, <2>3 DEF IsRow
<1>7. IsCycle(cycle) /\ cycle.pc = "fetch" /\ cycle.of = x /\ cycle.fid = d /\ cycle.uuid = d
  <2>1. PICK V : rec[r] \in AnyCycle(V)
    BY <1>2 DEF IsCycle
  <2>2. cycle \in AnyCycle(V)
    BY <1>4, <2>1 DEF AnyCycle
  <2> QED
    BY <1>2, <2>1, <2>2 DEF IsCycle, AnyCycle
<1> HIDE DEF row, cycle
<1>8. RowFacts(x, row)
  BY <1>3, <1>4, <1>6, DocumentIds DEF RowFacts, HasUuid
<1>9. Becomes(x, row)
  BY <1>2, <1>5, SetWrites DEF SettlementInv, Typed
<1> QED
  BY <1>1, <1>2, <1>4, <1>5, <1>6, <1>7, <1>8, <1>9, DocumentIds, RunStep

LEMMA NotYetStampedKeeps == ASSUME SettlementInv, NEW r \in Reconcilers, NotYetStamped(r)
                            PROVE  SettlementInv' /\ RowsStay
<1>1. Holds(r) /\ LacksId(r) /\ UNCHANGED <<req, pac, late>>
  BY DEF NotYetStamped, PersistAndRest
<1>2. PICK x \in Rows : /\ x = rec[r].of
                        /\ IsRow(RowOf(x)) /\ RowFacts(x, RowOf(x))
                        /\ RowOf(x).status = "stamping"
  BY <1>1, RunAtHand
<1>3. PICK d \in Found(x, rec[r].fid) :
         PersistAndRest(r, [RowOf(x) EXCEPT !.fid = d,
                            !.status = IF pac[d].state = "failed" THEN "error" ELSE @])
  BY <1>2 DEF NotYetStamped
<1>4. d \in Documents /\ pac[d].of = x /\ RowOf(x).uuid = NoDoc
  BY <1>1, <1>2, FoundIsOwn
<1> DEFINE row == [RowOf(x) EXCEPT !.fid = d,
                                   !.status = IF pac[d].state = "failed" THEN "error" ELSE @]
<1>5. PersistAndRest(r, row)
  BY <1>3
<1>6. IsRow(row) /\ row.status \in {"stamping", "error"} /\ row.fid = d /\ row.uuid = NoDoc
  <2>1. PICK V : RowOf(x) \in AnyRow(V)
    BY <1>2 DEF IsRow
  <2>2. row \in AnyRow(V)
    BY <1>4, <2>1 DEF AnyRow, Status
  <2>3. IsRow(row)
    BY <2>2 DEF IsRow
  <2> QED
    BY <1>2, <1>4, <2>1, <2>2, <2>3 DEF AnyRow
<1> HIDE DEF row
<1>7. RowFacts(x, row)
  BY <1>4, <1>6, DocumentIds DEF RowFacts
<1> QED
  BY <1>1, <1>2, <1>4, <1>5, <1>6, <1>7, RunRests

LEMMA MissKeeps == ASSUME SettlementInv, NEW r \in Reconcilers, MissDocument(r)
                   PROVE  SettlementInv' /\ RowsStay
<1>1. Holds(r) /\ LacksId(r) /\ UNCHANGED <<req, pac, late>>
  BY DEF MissDocument, PersistAndRest
<1>2. PICK x \in Rows : /\ x = rec[r].of
                        /\ IsRow(RowOf(x)) /\ RowFacts(x, RowOf(x))
                        /\ RowOf(x).status = "stamping"
  BY <1>1, RunAtHand
<1>3. RowOf(x).uuid = NoDoc
  BY <1>1, <1>2, FoundIsOwn
<1> DEFINE misses == rec[r].misses + 1
           row == [RowOf(x) EXCEPT !.misses = misses,
                                   !.status = IF misses >= MaxMisses THEN "error" ELSE @]
<1>4. PersistAndRest(r, row)
  BY <1>2 DEF MissDocument, Missed
<1>5. IsRow(row) /\ row.status \in {"stamping", "error"} /\ row.fid = RowOf(x).fid
                 /\ row.uuid = NoDoc
  <2> HIDE DEF misses
  <2>1. PICK V : RowOf(x) \in AnyRow(V)
    BY <1>2 DEF IsRow
  <2>2. row \in AnyRow(V \cup {misses})
    BY <2>1 DEF AnyRow, Status
  <2>3. row.status \in {"stamping", "error"} /\ row.fid = RowOf(x).fid /\ row.uuid = NoDoc
    BY <1>2, <1>3, <2>1 DEF AnyRow
  <2> QED
    BY <2>2, <2>3 DEF IsRow
<1> HIDE DEF row
<1>6. RowFacts(x, row)
  BY <1>2, <1>3, <1>5, DocumentIds DEF RowFacts
<1> QED
  BY <1>1, <1>2, <1>3, <1>4, <1>5, <1>6, RunRests

\* With both ids at hand the row may become 'stamped'.
LEMMA StampsKeeps ==
    ASSUME SettlementInv, NEW r \in Reconcilers, Holds(r), WithIds(r), NEW x \in Rows,
           x = rec[r].of, NEW row, PersistAndRest(r, row), IsRow(row),
           row.status \in {"stamping", "stamped"},
           row.fid = RowOf(x).fid, row.uuid = RowOf(x).uuid, UNCHANGED <<req, pac, late>>
    PROVE  SettlementInv' /\ RowsStay
<1>1. /\ RowFacts(x, RowOf(x)) /\ RowOf(x).status = "stamping"
      /\ rec[r].uuid = RowOf(x).uuid
  BY RunAtHand
<1>2. RowOf(x).uuid # NoDoc
  BY <1>1 DEF WithIds, LacksId, SettlementInv, CycleFacts
<1>3. RowFacts(x, row)
  BY <1>1, <1>2, DocumentIds DEF RowFacts
<1> QED
  BY <1>3, RunRests

LEMMA ArchiveKeeps == ASSUME SettlementInv, NEW r \in Reconcilers, ArchiveFiles(r)
                      PROVE  SettlementInv' /\ RowsStay
<1>1. Holds(r) /\ WithIds(r) /\ UNCHANGED <<req, pac, late>>
  BY DEF ArchiveFiles, PersistAndRest
<1>2. PICK x \in Rows : x = rec[r].of /\ IsRow(RowOf(x))
  BY <1>1, RunAtHand
<1> DEFINE row == [RowOf(x) EXCEPT !.status = "stamped", !.xml = TRUE, !.xmlPending = FALSE,
                                   !.misses = 0, !.attempts = 0]
<1>3. PersistAndRest(r, row)
  BY <1>2 DEF ArchiveFiles
<1>4. IsRow(row) /\ row.status = "stamped" /\ row.fid = RowOf(x).fid /\ row.uuid = RowOf(x).uuid
  <2>1. PICK V : RowOf(x) \in AnyRow(V)
    BY <1>2 DEF IsRow
  <2>2. row \in AnyRow(V \cup {TRUE, FALSE, 0})
    BY <2>1 DEF AnyRow, Status
  <2>3. IsRow(row)
    BY <2>2 DEF IsRow
  <2> QED
    BY <2>1, <2>2, <2>3 DEF AnyRow
<1> HIDE DEF row
<1> QED
  BY <1>1, <1>2, <1>3, <1>4, StampsKeeps

LEMMA XmlFailsKeeps == ASSUME SettlementInv, NEW r \in Reconcilers, XmlFails(r)
                       PROVE  SettlementInv' /\ RowsStay
<1>1. Holds(r) /\ WithIds(r) /\ UNCHANGED <<req, pac, late>>
  BY DEF XmlFails, PersistAndRest
<1>2. PICK x \in Rows : x = rec[r].of /\ IsRow(RowOf(x)) /\ RowOf(x).status = "stamping"
  BY <1>1, RunAtHand
<1> DEFINE attempts == rec[r].attempts + 1
           spent == attempts >= MaxXmlAttempts
           pending == RowOf(x).xmlPending \/ spent
           row == [RowOf(x) EXCEPT !.attempts = attempts,
                                   !.status = IF spent THEN "stamped" ELSE @,
                                   !.xmlPending = pending]
<1>3. PersistAndRest(r, row)
  BY <1>2 DEF XmlFails
<1>4. IsRow(row) /\ row.status \in {"stamping", "stamped"} /\ row.fid = RowOf(x).fid
                 /\ row.uuid = RowOf(x).uuid
  <2> HIDE DEF attempts, spent, pending
  <2>1. PICK V : RowOf(x) \in AnyRow(V)
    BY <1>2 DEF IsRow
  <2>2. row \in AnyRow(V \cup {attempts, pending})
    BY <2>1 DEF AnyRow, Status
  <2>3. /\ row.status \in {"stamping", "stamped"} /\ row.fid = RowOf(x).fid
        /\ row.uuid = RowOf(x).uuid
    BY <1>2, <2>1 DEF AnyRow
  <2> QED
    BY <2>2, <2>3 DEF IsRow
<1> HIDE DEF row
<1> QED
  BY <1>1, <1>2, <1>3, <1>4, StampsKeeps

LEMMA ReconcilerKeeps == ASSUME SettlementInv, NEW r \in Reconcilers, ReconcilerStep(r)
                         PROVE  SettlementInv' /\ RowsStay
BY SelectKeeps, ClaimStuckKeeps, LeaveKeeps, RecoverIdsKeeps, NotYetStampedKeeps, MissKeeps,
   ArchiveKeeps, XmlFailsKeeps DEF ReconcilerStep

LEMMA FolioKeeps == ASSUME SettlementInv, NEW p \in Payments, RecoverFolio(p)
                    PROVE  SettlementInv' /\ RowsStay
<1> DEFINE row == [pay[p] EXCEPT !.folio = TRUE]
<1>1. p \in Rows /\ RowOf(p) = pay[p] /\ IsRow(pay[p])
  BY RowKinds DEF SettlementInv, Typed, RowsTyped
<1>2. IsRow(row) /\ row.status = pay[p].status /\ row.fid = pay[p].fid /\ row.uuid = pay[p].uuid
  BY <1>1, FolioSet
<1>3. WritePayment(p, row) /\ UNCHANGED <<req, rec, pac, late>>
  BY DEF RecoverFolio
<1> HIDE DEF row
<1>4. (Becomes(p, row) \/ Becomes(p, RowOf(p))) /\ fresh' = fresh
  BY <1>1, <1>3, PaymentWritten DEF SettlementInv, Typed
<1> QED
  BY <1>1, <1>2, <1>3, <1>4, EditKeeps

-----------------------------------------------------------------------------
(* Theorems.                                                               *)

LEMMA InitHolds == Init => SettlementInv
<1> SUFFICES ASSUME Init PROVE SettlementInv
  OBVIOUS
<1>1. \A x \in Rows : RowOf(x) = NoRecord
  BY RowKinds DEF Init, RowOf
<1>2. IsRow(NoRecord) /\ NoRecord.status = "absent" /\ NoRecord.fid = NoDoc
                      /\ NoRecord.uuid = NoDoc
  <2>1. NoRecord \in AnyRow({0, FALSE})
    BY DEF NoRecord, AnyRow, Status
  <2> QED
    BY <2>1 DEF IsRow, NoRecord
<1>3. IsDocument(NoDocument) /\ NoDocument.of = NoRow
  <2>1. NoDocument \in AnyDocument({Nothing, FALSE})
    BY DEF NoDocument, AnyDocument, PacState
  <2> QED
    BY <2>1 DEF IsDocument, NoDocument
<1>4. Typed
  BY <1>1, <1>2, <1>3, FreeSlotTyped, RestingTyped
     DEF Init, Typed, RowsTyped, ReqTyped, RecTyped, PacTyped
<1>5. \A x \in Rows : RowFacts(x, RowOf(x))
  BY <1>1, <1>2, DocumentIds DEF RowFacts
<1>6. (\A h \in Handlers : SlotFacts(h)) /\ SingleEmitter
  BY FreeSlotTyped DEF Init, SlotFacts, SingleEmitter, Emitting
<1>7. (\A r \in Reconcilers : CycleFacts(r)) /\ TokenTaken /\ OneDocument
  BY <1>3, RestingTyped DEF Init, CycleFacts, Holds, TokenTaken, OneDocument
<1> QED
  BY <1>4, <1>5, <1>6, <1>7 DEF SettlementInv

LEMMA NextKeeps == SettlementInv /\ [Next]_vars => SettlementInv' /\ RowsStay
<1> SUFFICES ASSUME SettlementInv, [Next]_vars PROVE SettlementInv' /\ RowsStay
  OBVIOUS
<1>1. CASE Next
  BY <1>1, UserKeeps, AskComplementKeeps, AskNoteKeeps, SendKeeps, PacAnswersKeeps,
     ComplementKeeps, NoteKeeps, CrashKeeps, ReconcilerKeeps, FolioKeeps, PacStepKeeps
     DEF Next, HandlerStep
<1>2. CASE UNCHANGED vars
  <2>1. RecTyped' /\ \A h \in Handlers : Emitting(h)' = Emitting(h)
    BY <1>2 DEF vars, SettlementInv, Typed, RecTyped, Emitting
  <2>2. ASSUME NEW r \in Reconcilers PROVE CycleFacts(r)'
    BY <1>2 DEF vars, SettlementInv, CycleFacts, Holds, RowOf
  <2>3. SingleEmitter' /\ TokenTaken'
    BY <1>2, <2>1 DEF vars, SettlementInv, SingleEmitter, TokenTaken
  <2> QED
    BY <1>2, <2>1, <2>2, <2>3, OnlyRuns DEF vars
<1> QED
  BY <1>1, <1>2

\* The inductive invariant: who owns a row between its claim and its last write,
\* and whose document its ids name.
THEOREM SettlementInvariant == Spec => []SettlementInv
<1>1. SettlementInv /\ [Next]_vars => SettlementInv'
  BY NextKeeps
<1> QED
  BY InitHolds, <1>1, PTL DEF Spec

\* A payment or a note is in the hands of one request at a time, and of none while
\* a run of the reconciliation may still write it, although a claim never expires.
THEOREM RowHasOneEmitter == Spec => []SingleEmitter
<1>1. SettlementInv => SingleEmitter
  BY DEF SettlementInv
<1> QED
  BY <1>1, SettlementInvariant, PTL

\* Two runs of the reconciliation never work on one row.
THEOREM RowHasOneReconciler == Spec => []OneReconciler
<1>1. SettlementInv => OneReconciler
  BY DEF SettlementInv, TokenTaken, OneReconciler
<1> QED
  BY <1>1, SettlementInvariant, PTL

\* No payment has two complements and no note two CFDI, however often it is sent,
\* given up, served late and sent again.
THEOREM RowHasOneCfdi == Spec => []OneCfdi
<1>1. ASSUME SettlementInv, NEW x \in Rows
      PROVE  Cardinality({d \in DocsOf(x) : pac[d].state # "failed"}) <= 1
  <2> DEFINE S == {d \in DocsOf(x) : pac[d].state # "failed"}
  <2>1. \A d, e \in S : d = e
    BY <1>1, RowKinds DEF SettlementInv, OneDocument, DocsOf
  <2> HIDE DEF S
  <2>2. CASE S = {}
    BY <2>2, FS_EmptySet DEF S
  <2>3. CASE S # {}
    <3>1. PICK d : S = {d}
      BY <2>1, <2>3
    <3> QED
      BY <3>1, FS_Singleton DEF S
  <2> QED
    BY <2>2, <2>3
<1>2. SettlementInv => OneCfdi
  BY <1>1 DEF OneCfdi
<1> QED
  BY <1>2, SettlementInvariant, PTL

\* What the database calls stamped or cancelled is a document of the PAC made for
\* that row, or the stub of a note, whatever was lost or came late.
THEOREM StampedRowsAreFiscal == Spec => []StampedIsFiscal
<1>1. ASSUME SettlementInv, NEW x \in Rows
      PROVE  /\ RowOf(x).status \in {"stamped", "cancelled"} => RowOf(x).uuid # NoDoc
             /\ RowOf(x).uuid \in Documents =>
                   /\ RowOf(x).fid = RowOf(x).uuid
                   /\ pac[RowOf(x).uuid].of = x
                   /\ pac[RowOf(x).uuid].state \in {"valid", "cancelled"}
             /\ RowOf(x).status = "cancelled" => pac[RowOf(x).uuid].state = "cancelled"
  <2>1. RowFacts(x, RowOf(x))
    BY <1>1 DEF SettlementInv
  <2> QED
    BY <2>1, DocumentIds DEF RowFacts, HasUuid
<1>2. SettlementInv => StampedIsFiscal
  BY <1>1 DEF StampedIsFiscal
<1> QED
  BY <1>2, SettlementInvariant, PTL

\* No late write undoes a stamping or replaces an id.
THEOREM IdentityStays == Spec => FiscalIdentityStays
<1>1. SettlementInv /\ [Next]_vars => RowsStay
  BY NextKeeps
<1>2. RowsStay => \A x \in Rows :
          LET before == RowOf(x)
              after == RowOf(x)'
          IN /\ before.status = "stamped" => after.status \in {"stamped", "cancelled"}
             /\ before.status = "cancelled" => after.status \in {"cancelled", "deleted"}
             /\ before.uuid # NoDoc /\ Live(after) => after.uuid = before.uuid
  BY DEF RowsStay, Stays
<1> QED
  BY <1>1, <1>2, SettlementInvariant, PTL DEF FiscalIdentityStays, Spec

-----------------------------------------------------------------------------
(* Payments and their documents, when the PAC serves or drops what a       *)
(* handler gave up before the reconciliation looks at the payment.         *)

Open(row) == row.status \in {"stamping", "deleted"}

\* What was told to the PAC is what the payment says; an edit may have moved the amount.
Agrees(content, row) ==
    /\ content.number = row.number
    /\ "edit" \notin UserMoves => content.amount = row.amount

Told(h) == req[h].pc \in {"check", "sent", "record", "finish"}
Early(h) == req[h].pc \in {"prepare", "check", "sent"}

\* A payment whose number the PAC knows or may still learn.
InUse(p) ==
    \/ \E d \in Documents : pac[d].of = p
    \/ \E h \in Handlers : Told(h) /\ req[h].of = p
    \/ \E l \in late : l.of = p

HasNone(p) == \A d \in Documents : pac[d].of # p

\* A payment that may be claimed has no document, and one with a request that may
\* still arrive is left alone until it has.
PaymentFacts(p) ==
    /\ pay[p].status = "deleted" => "delete" \in UserMoves
    /\ pay[p].status = "absent" => pay[p].number = 0
    /\ ~Open(pay[p]) /\ pay[p].fid = NoDoc => HasNone(p)
    /\ \A h \in Handlers : Early(h) /\ req[h].of = p => HasNone(p)
    /\ \A l \in late : l.of = p =>
          /\ Open(pay[p])
          /\ \A h \in Handlers : Emitting(h) => req[h].of # p
          /\ \A r \in fresh : rec[r].of # p

ContentFacts(p) ==
    pay[p].status # "deleted" =>
        /\ \A d \in Documents : pac[d].of = p => Agrees(pac[d].content, pay[p])
        /\ \A h \in Handlers : Told(h) /\ req[h].of = p => Agrees(req[h].content, pay[p])
        /\ \A l \in late : l.of = p => Agrees(l.content, pay[p])

Counts(row) == row.status \notin {"cancelled", "deleted"}

\* A number in use belongs to one payment.
NumbersApart ==
    \A p, q \in Payments :
        p # q /\ InUse(p) /\ Counts(pay[p]) /\ Counts(pay[q]) => pay[p].number # pay[q].number

Listed == \A d \in Documents : pac[d].of # NoRow => pac[d].listed = TRUE

Followed ==
    /\ \A p \in Payments : PaymentFacts(p) /\ ContentFacts(p)
    /\ NumbersApart /\ Listed

\* A request that goes on as it was or further, rests, has just claimed a payment
\* without documents, or works on a note.
Follows(h) ==
    /\ Emitting(h)' => \/ Emitting(h) /\ req'[h].of = req[h].of
                       \/ req'[h].pc = "prepare" /\ HasNone(req'[h].of)
                                                 /\ \A l \in late' : l.of # req'[h].of
                       \/ req'[h].of \notin Payments
    /\ Early(h)' => \/ Early(h) /\ req'[h].of = req[h].of
                    \/ HasNone(req'[h].of)
                    \/ req'[h].of \notin Payments
    /\ Told(h)' => \/ Told(h) /\ req'[h].of = req[h].of /\ req'[h].content = req[h].content
                   \/ req'[h].of \notin Payments

\* A request that may still arrive was there before, or is one that was given up.
Arrives(l) ==
    \/ l \in late
    \/ \E h \in Handlers : /\ req[h].pc = "sent" /\ ~Emitting(h)'
                           /\ l.of = req[h].of /\ l.content = req[h].content

\* A payment whose number stays, and which keeps its documents in sight.
Follow(p) ==
    /\ pay'[p].status # "deleted" =>
          /\ pay'[p].number = pay[p].number
          /\ InUse(p) => pay'[p].amount = pay[p].amount \/ "edit" \in UserMoves
    /\ pay'[p].status = "absent" => pay[p].status = "absent"
    /\ pay[p].status = "deleted" => pay'[p].status = "deleted"
    /\ pay'[p].status = "deleted" => pay[p].status = "deleted" \/ "delete" \in UserMoves
    /\ pay[p].status = "cancelled" => pay'[p].status \in {"cancelled", "deleted"}
    /\ ~Open(pay'[p]) /\ pay'[p].fid = NoDoc => HasNone(p)
    /\ (\E l \in late' : l.of = p) => Open(pay'[p])

\* Steps that create no document and count no number.
LEMMA FollowedStep ==
    ASSUME SettlementInv, Followed,
           \A d \in Documents : /\ pac'[d].of = pac[d].of /\ pac'[d].content = pac[d].content
                                /\ pac[d].listed = TRUE => pac'[d].listed = TRUE,
           \A h \in Handlers : Follows(h),
           \A r \in fresh' : \/ r \in fresh /\ rec'[r].of = rec[r].of
                             \/ \A l \in late' : l.of # rec'[r].of,
           \A l \in late' : Arrives(l),
           \A p \in Payments : Follow(p)
    PROVE  Followed'
<1>1. Listed'
  BY DEF Followed, Listed
<1>2. ASSUME NEW p \in Payments PROVE InUse(p)' => InUse(p)
  <2>1. \A l \in late' : l.of = p => InUse(p)
    BY DEF Arrives, InUse, Told
  <2>2. \A h \in Handlers : Told(h)' /\ req'[h].of = p => InUse(p)
    BY DEF Follows, InUse
  <2>3. \A d \in Documents : pac'[d].of = p => InUse(p)
    BY DEF InUse
  <2> QED
    BY <2>1, <2>2, <2>3 DEF InUse
<1>3. NumbersApart'
  BY <1>2 DEF Followed, NumbersApart, Follow, Counts
<1>4. ASSUME NEW p \in Payments PROVE PaymentFacts(p)'
  <2>1. /\ pay'[p].status = "absent" => pay'[p].number = 0
        /\ pay'[p].status = "deleted" => "delete" \in UserMoves
    BY DEF Followed, PaymentFacts, Follow
  <2>2. HasNone(p)' <=> HasNone(p)
    BY DEF HasNone
  <2>3. \A h \in Handlers : Early(h)' /\ req'[h].of = p => HasNone(p)
    BY DEF Follows, Followed, PaymentFacts
  <2>4. ASSUME NEW l \in late', l.of = p
        PROVE  /\ \A h \in Handlers : Emitting(h)' => req'[h].of # p
               /\ \A r \in fresh' : rec'[r].of # p
    <3>1. CASE l \in late
      BY <2>4, <3>1 DEF Followed, PaymentFacts, Follows
    <3>2. CASE l \notin late
      <4>1. PICK h \in Handlers : req[h].pc = "sent" /\ ~Emitting(h)' /\ req[h].of = p
        BY <2>4, <3>2 DEF Arrives
      <4>2. Emitting(h)
        BY <4>1 DEF Emitting
      <4>3. \A g \in Handlers : Emitting(g) /\ req[g].of = p => g = h
        BY <4>1, <4>2 DEF SettlementInv, SingleEmitter
      <4>4. \A r \in fresh : rec[r].of # p
        BY <4>1, <4>2 DEF SettlementInv, SingleEmitter, Typed, RecTyped
      <4> QED
        BY <2>4, <4>1, <4>3, <4>4 DEF Follows
    <3> QED
      BY <3>1, <3>2
  <2> QED
    BY <2>1, <2>2, <2>3, <2>4 DEF PaymentFacts, Follow
<1>5. ASSUME NEW p \in Payments PROVE ContentFacts(p)'
  <2> SUFFICES ASSUME pay'[p].status # "deleted" PROVE ContentFacts(p)'
    BY DEF ContentFacts
  <2>1. ASSUME NEW content, Agrees(content, pay[p]), InUse(p) PROVE Agrees(content, pay'[p])
    BY <2>1 DEF Agrees, Follow
  <2>2. pay[p].status # "deleted"
    BY DEF Follow
  <2>3. \A d \in Documents : pac'[d].of = p => Agrees(pac'[d].content, pay'[p])
    <3>1. ASSUME NEW d \in Documents, pac'[d].of = p PROVE Agrees(pac'[d].content, pay'[p])
      <4>1. InUse(p) /\ Agrees(pac[d].content, pay[p])
        BY <2>2, <3>1 DEF InUse, Followed, ContentFacts
      <4>2. Agrees(pac[d].content, pay'[p])
        BY <2>1, <4>1
      <4> QED
        BY <4>2
    <3> QED
      BY <3>1
  <2>4. ASSUME NEW h \in Handlers, Told(h)', req'[h].of = p PROVE Agrees(req'[h].content, pay'[p])
    <3>1. Told(h) /\ req[h].of = p /\ req'[h].content = req[h].content
      BY <2>4 DEF Follows
    <3>2. InUse(p) /\ Agrees(req[h].content, pay[p])
      BY <2>2, <3>1 DEF InUse, Followed, ContentFacts
    <3>3. Agrees(req[h].content, pay'[p])
      BY <2>1, <3>2
    <3> QED
      BY <3>1, <3>3
  <2>5. ASSUME NEW l \in late', l.of = p PROVE Agrees(l.content, pay'[p])
    <3>1. InUse(p) /\ Agrees(l.content, pay[p])
      <4>1. CASE l \in late
        BY <2>2, <2>5, <4>1 DEF InUse, Followed, ContentFacts
      <4>2. CASE l \notin late
        <5>1. PICK h \in Handlers : req[h].pc = "sent" /\ l.of = req[h].of
                                    /\ l.content = req[h].content
          BY <4>2, <2>5 DEF Arrives
        <5> QED
          BY <2>2, <2>5, <5>1 DEF InUse, Followed, ContentFacts, Told
      <4> QED
        BY <4>1, <4>2
    <3> QED
      BY <2>1, <3>1
  <2> QED
    BY <2>3, <2>4, <2>5 DEF ContentFacts, Agrees
<1> QED
  BY <1>1, <1>3, <1>4, <1>5 DEF Followed

\* The PAC makes a document of what it was told by the one who may tell.
LEMMA CreatesFollowed ==
    ASSUME SettlementInv, Followed, PacIsPrompt, NEW x, NEW content, NEW d \in Documents,
           NEW state, Creates(x, content, d, state), UNCHANGED <<pay, note, rec, fresh>>,
           \A h \in Handlers : Follows(h), \A l \in late' : l \in late,
           x \in Payments =>
               /\ Open(pay[x]) /\ InUse(x)
               /\ pay[x].status # "deleted" => Agrees(content, pay[x])
               /\ \A h \in Handlers : Early(h)' => req'[h].of # x
    PROVE  Followed'
<1>1. ASSUME NEW p \in Payments PROVE Follow(p)
  BY DEF Follow, Followed, PaymentFacts
<1>2. CASE UNCHANGED pac
  <2>1. \A l \in late' : Arrives(l)
    BY DEF Arrives
  <2>2. \A r \in fresh' : r \in fresh /\ rec'[r].of = rec[r].of
    OBVIOUS
  <2> QED
    BY <1>1, <1>2, <2>1, <2>2, FollowedStep
<1>3. CASE /\ d \in Unused
           /\ pac' = [pac EXCEPT ![d] = [of |-> x, content |-> content, state |-> state,
                                         listed |-> PacIsPrompt]]
  <2>1. /\ \A e \in Documents \ {d} : pac'[e] = pac[e]
        /\ pac'[d].of = x /\ pac'[d].content = content /\ pac'[d].listed = TRUE
    BY <1>3 DEF SettlementInv, Typed, PacTyped
  <2>2. Listed'
    BY <2>1 DEF Followed, Listed
  <2>3. ASSUME NEW p \in Payments PROVE InUse(p)' => InUse(p)
    BY <2>1 DEF InUse, Follows
  <2>4. NumbersApart'
    BY <2>3 DEF Followed, NumbersApart, Counts
  <2>5. ASSUME NEW p \in Payments PROVE PaymentFacts(p)'
    <3>1. p # x /\ HasNone(p) => HasNone(p)'
      BY <2>1 DEF HasNone
    <3>2. ~Open(pay[p]) /\ pay[p].fid = NoDoc => HasNone(p)'
      BY <3>1 DEF Followed, PaymentFacts
    <3>3. \A h \in Handlers : Early(h)' /\ req'[h].of = p => HasNone(p)'
      BY <3>1 DEF Followed, PaymentFacts, Follows
    <3>4. \A l \in late' : l.of = p =>
             /\ Open(pay[p])
             /\ \A h \in Handlers : Emitting(h)' => req'[h].of # p
             /\ \A r \in fresh : rec[r].of # p
      BY DEF Followed, PaymentFacts, Follows
    <3> QED
      BY <3>2, <3>3, <3>4 DEF Followed, PaymentFacts, Open
  <2>6. ASSUME NEW p \in Payments PROVE ContentFacts(p)'
    <3> SUFFICES ASSUME pay[p].status # "deleted" PROVE ContentFacts(p)'
      BY DEF ContentFacts
    <3>1. \A e \in Documents : pac'[e].of = p => Agrees(pac'[e].content, pay[p])
      <4>1. ASSUME NEW e \in Documents, pac'[e].of = p PROVE Agrees(pac'[e].content, pay[p])
        <5>1. CASE e = d
          BY <2>1, <4>1, <5>1
        <5>2. CASE e # d
          BY <2>1, <4>1, <5>2 DEF Followed, ContentFacts
        <5> QED
          BY <5>1, <5>2
      <4> QED
        BY <4>1
    <3>2. \A h \in Handlers : Told(h)' /\ req'[h].of = p => Agrees(req'[h].content, pay[p])
      BY DEF Followed, ContentFacts, Follows
    <3>3. \A l \in late' : l.of = p => Agrees(l.content, pay[p])
      BY DEF Followed, ContentFacts
    <3> QED
      BY <3>1, <3>2, <3>3 DEF ContentFacts, Agrees
  <2> QED
    BY <2>2, <2>4, <2>5, <2>6 DEF Followed
<1> QED
  BY <1>2, <1>3 DEF Creates

LEMMA LateFollowed ==
    ASSUME SettlementInv, Followed, PacIsPrompt, NEW l \in late, PacServesLate(l)
    PROVE  Followed'
<1>1. \A h \in Handlers : Follows(h)
  BY DEF PacServesLate, Follows, Emitting, Early, Told
<1>2. \A k \in late' : k \in late
  BY DEF PacServesLate
<1>3. CASE UNCHANGED pac
  <2>1. \A p \in Payments : Follow(p)
    BY <1>2 DEF PacServesLate, Follow, Followed, PaymentFacts
  <2>2. \A k \in late' : Arrives(k)
    BY <1>2 DEF Arrives
  <2>3. \A r \in fresh' : r \in fresh /\ rec'[r].of = rec[r].of
    BY DEF PacServesLate
  <2> QED
    BY <1>1, <1>3, <2>1, <2>2, <2>3, FollowedStep
<1>4. ASSUME NEW d \in Documents, NEW state \in PacState, Creates(l.of, l.content, d, state)
      PROVE  Followed'
  <2>1. ASSUME l.of \in Payments
        PROVE  /\ Open(pay[l.of]) /\ InUse(l.of)
               /\ pay[l.of].status # "deleted" => Agrees(l.content, pay[l.of])
               /\ \A h \in Handlers : Early(h)' => req'[h].of # l.of
    <3>1. \A h \in Handlers : Early(h)' => Emitting(h) /\ req'[h].of = req[h].of
      BY DEF PacServesLate, Early, Emitting
    <3> QED
      BY <2>1, <3>1 DEF Followed, PaymentFacts, ContentFacts, InUse
  <2>2. UNCHANGED <<pay, note, rec, fresh>>
    BY DEF PacServesLate
  <2> QED
    BY <1>1, <1>2, <1>4, <2>1, <2>2, CreatesFollowed
<1> QED
  BY <1>3, <1>4 DEF PacServesLate

LEMMA PacAnswersFollowed ==
    ASSUME SettlementInv, Followed, PacIsPrompt, NEW h \in Handlers, PacAnswers(h)
    PROVE  Followed'
<1>1. PICK d \in Documents, state \in PacState :
         /\ Creates(req[h].of, req[h].content, d, state)
         /\ req' = [req EXCEPT ![h].pc = AfterAnswer(state), ![h].doc = d, ![h].kind = state]
  BY DEF PacAnswers
<1>2. req[h].pc = "sent" /\ UNCHANGED <<pay, note, rec, fresh, late>>
  BY DEF PacAnswers, Serves
<1>3. /\ req'[h].pc \in {"record", "finish"} /\ req'[h].of = req[h].of
      /\ req'[h].content = req[h].content
      /\ \A g \in Handlers \ {h} : req'[g] = req[g]
  <2>1. PICK V : req[h] \in AnySlot(V)
    BY DEF SettlementInv, Typed, ReqTyped, IsSlot
  <2>2. AfterAnswer(state) \in {"record", "finish"}
    BY DEF AfterAnswer
  <2> QED
    BY <1>1, <2>1, <2>2 DEF SettlementInv, Typed, ReqTyped, AnySlot
<1>4. \A g \in Handlers : Follows(g)
  BY <1>2, <1>3 DEF Follows, Emitting, Early, Told
<1>5. ASSUME req[h].of \in Payments
      PROVE  /\ Open(pay[req[h].of]) /\ InUse(req[h].of)
             /\ pay[req[h].of].status # "deleted" => Agrees(req[h].content, pay[req[h].of])
             /\ \A g \in Handlers : Early(g)' => req'[g].of # req[h].of
  <2>1. Owned(pay[req[h].of]) /\ Emitting(h) /\ Told(h)
    BY <1>2, <1>5, RowKinds DEF SettlementInv, SlotFacts, Emitting, Told
  <2>2. \A g \in Handlers : Early(g)' => req'[g].of # req[h].of
    BY <1>3, <2>1 DEF SettlementInv, SingleEmitter, Early, Emitting
  <2> QED
    BY <1>5, <2>1, <2>2 DEF Owned, Open, InUse, Followed, ContentFacts
<1> QED
  BY <1>1, <1>2, <1>4, <1>5, CreatesFollowed

-----------------------------------------------------------------------------
(* Requests, and payments.                                                 *)

LEMMA SameFollow ==
    ASSUME SettlementInv, Followed, \A l \in late' : Arrives(l), NEW p \in Payments,
           pay'[p] = pay[p]
    PROVE  Follow(p)
<1>1. ASSUME NEW l \in late', l.of = p PROVE Open(pay[p])
  <2>1. CASE l \in late
    BY <1>1, <2>1 DEF Followed, PaymentFacts
  <2>2. CASE l \notin late
    <3>1. PICK h \in Handlers : req[h].pc = "sent" /\ req[h].of = p
      BY <1>1, <2>2 DEF Arrives
    <3> QED
      BY <3>1, RowKinds DEF SettlementInv, SlotFacts, Emitting, Owned, Open
  <2> QED
    BY <2>1, <2>2
<1> QED
  BY <1>1 DEF Follow, Followed, PaymentFacts

\* A request, or nobody, goes on; payments follow.
LEMMA RequestFollowed ==
    ASSUME SettlementInv, Followed, NEW h \in Handlers, NEW slot,
           req' = [req EXCEPT ![h] = slot],
           \/ slot.pc \in {"idle", "claim", "folio"} \/ slot.of \notin Payments
           \/ /\ slot.pc = "sent" /\ req[h].pc = "check"
              /\ slot.of = req[h].of /\ slot.content = req[h].content,
           UNCHANGED <<rec, pac>>, fresh' \subseteq fresh,
           \/ UNCHANGED late
           \/ slot.pc = "idle" /\ req[h].pc = "sent" /\ MayArrive(h),
           \A p \in Payments : pay'[p] = pay[p] \/ Follow(p)
    PROVE  Followed'
<1>1. req'[h] = slot /\ \A g \in Handlers \ {h} : req'[g] = req[g]
  BY DEF SettlementInv, Typed, ReqTyped
<1>2. \A g \in Handlers : Follows(g)
  BY <1>1 DEF Follows, Emitting, Early, Told
<1>3. \A l \in late' : Arrives(l)
  BY <1>1 DEF Arrives, MayArrive, Emitting
<1>4. \A p \in Payments : Follow(p)
  BY <1>3, SameFollow
<1>5. \A r \in fresh' : r \in fresh /\ rec'[r].of = rec[r].of
  OBVIOUS
<1> QED
  BY <1>2, <1>3, <1>4, <1>5, FollowedStep

LEMMA SendFollowed ==
    ASSUME SettlementInv, Followed, NEW h \in Handlers, SendToPac(h) PROVE Followed'
<1>1. PICK V : req[h] \in AnySlot(V)
  BY DEF SettlementInv, Typed, ReqTyped, IsSlot
<1>2. PICK slot : slot = [req[h] EXCEPT !.pc = "sent"]
  OBVIOUS
<1>3. slot.pc = "sent" /\ slot.of = req[h].of /\ slot.content = req[h].content
  BY <1>1, <1>2 DEF AnySlot
<1>4. req' = [req EXCEPT ![h] = slot] /\ req[h].pc = "check"
  BY <1>2 DEF SendToPac, GoTo, Serves
<1> QED
  BY <1>3, <1>4, RequestFollowed DEF SendToPac

LEMMA AsksFollowed ==
    ASSUME SettlementInv, Followed, NEW h \in Handlers,
           \/ \E x \in Rows : req' = [req EXCEPT ![h] = [FreeSlot EXCEPT !.pc = "claim", !.of = x]]
           \/ Answer(h),
           UNCHANGED <<pay, rec, pac>>, fresh' \subseteq fresh,
           UNCHANGED late \/ (Serves(h, "sent") /\ MayArrive(h) /\ Answer(h))
    PROVE  Followed'
<1>1. CASE Answer(h)
  <2>1. req' = [req EXCEPT ![h] = FreeSlot] /\ FreeSlot.pc = "idle"
    BY <1>1, FreeSlotTyped DEF Answer
  <2> QED
    BY <2>1, RequestFollowed DEF Serves
<1>2. CASE UNCHANGED late /\ ~Answer(h)
  <2>1. PICK x \in Rows : req' = [req EXCEPT ![h] = [FreeSlot EXCEPT !.pc = "claim", !.of = x]]
    BY <1>2
  <2>2. PICK slot : slot = [FreeSlot EXCEPT !.pc = "claim", !.of = x]
    OBVIOUS
  <2>3. slot.pc = "claim"
    BY <2>2 DEF FreeSlot
  <2> QED
    BY <1>2, <2>1, <2>2, <2>3, RequestFollowed
<1> QED
  BY <1>1, <1>2

\* A request for a note never touches a payment.
LEMMA NoteStepFollowed ==
    ASSUME SettlementInv, Followed, NEW h \in Handlers, NoteStep(h) PROVE Followed'
<1>1. req[h].of \in Notes
  BY DEF NoteStep, ClaimNote, RefuseNote, StubNote, NoteTimesOut, NoteRefused, RecordNote,
         FinishNote, NoteThrows, ForNote
<1>2. \A row : WriteNote(req[h].of, row) \/ IfStamping(req[h].of, row) \/ RowsUnchanged
               => pay' = pay /\ fresh' \subseteq fresh
  BY DEF WriteNote, IfStamping, RowsUnchanged
<1>3. CASE ClaimNote(h) /\ ~Answer(h)
  <2>1. /\ pay' = pay /\ fresh' \subseteq fresh /\ UNCHANGED <<rec, pac, late>>
        /\ req' = [req EXCEPT ![h].pc = "check",
                       ![h].content = [Nothing EXCEPT !.amount = note[req[h].of].amount]]
    BY <1>2, <1>3 DEF ClaimNote
  <2>2. PICK slot : slot = [req[h] EXCEPT !.pc = "check",
                                !.content = [Nothing EXCEPT !.amount = note[req[h].of].amount]]
    OBVIOUS
  <2>3. slot.of \notin Payments
    BY <1>1, <2>2, RowKinds DEF SettlementInv, Typed, ReqTyped, IsSlot, AnySlot
  <2>4. req' = [req EXCEPT ![h] = slot]
    BY <2>1, <2>2
  <2> QED
    BY <2>1, <2>3, <2>4, RequestFollowed
<1>4. CASE Answer(h)
  <2>1. pay' = pay /\ fresh' \subseteq fresh
    BY <1>2, <1>4 DEF NoteStep, ClaimNote, RefuseNote, StubNote, NoteTimesOut, NoteRefused,
                      RecordNote, FinishNote, NoteThrows, RowsUnchanged
  <2>2. UNCHANGED <<rec, pac>>
    BY DEF NoteStep, ClaimNote, RefuseNote, StubNote, NoteTimesOut, NoteRefused, RecordNote,
           FinishNote, NoteThrows
  <2>3. UNCHANGED late \/ (Serves(h, "sent") /\ MayArrive(h))
    BY DEF NoteStep, ClaimNote, RefuseNote, StubNote, NoteTimesOut, NoteRefused, RecordNote,
           FinishNote, NoteThrows, ForNote
  <2> QED
    BY <1>4, <2>1, <2>2, <2>3, AsksFollowed
<1> QED
  BY <1>3, <1>4 DEF NoteStep, ClaimNote, RefuseNote, StubNote, NoteTimesOut, NoteRefused,
                    RecordNote, FinishNote, NoteThrows

\* The row of p is written, or not, and keeps its number and amount.
LEMMA WrittenFollow ==
    ASSUME SettlementInv, Followed, NEW p \in Payments, NEW row,
           (Becomes(p, row) /\ Live(pay[p])) \/ Becomes(p, pay[p]),
           UNCHANGED late,
           Live(pay[p]) => /\ row.number = pay[p].number /\ row.amount = pay[p].amount
                           /\ row.status \notin {"absent", "deleted"}
                           /\ pay[p].status = "cancelled" => row.status = "cancelled"
                           /\ ~Open(row) /\ row.fid = NoDoc => HasNone(p)
                           /\ (\E l \in late : l.of = p) => Open(row)
    PROVE  \A q \in Payments : pay'[q] = pay[q] \/ Follow(q)
<1>1. \A q \in Payments \ {p} : pay'[q] = pay[q]
  BY RowKinds DEF Becomes
<1>2. pay'[p] = pay[p] \/ (pay'[p] = row /\ Live(pay[p]))
  BY RowKinds DEF Becomes
<1>3. ASSUME pay'[p] = row, Live(pay[p]) PROVE Follow(p)
  BY <1>3 DEF Follow, Live
<1> QED
  BY <1>1, <1>2, <1>3

\* A request between its claim and its last write finds nothing that may still arrive.
LEMMA EmitterFollowed ==
    ASSUME SettlementInv, Followed, NEW h \in Handlers, Emitting(h),
           NEW p \in Payments, p = req[h].of, NEW row,
           (Becomes(p, row) /\ Live(pay[p])) \/ Becomes(p, pay[p]),
           Live(pay[p]) => /\ row.number = pay[p].number /\ row.amount = pay[p].amount
                           /\ row.status \in {"pending", "error", "stamping", "stamped"}
                           /\ row.fid # NoDoc \/ HasNone(p),
           Answer(h) \/ GoTo(h, "folio"),
           UNCHANGED <<rec, pac, late>>, fresh' \subseteq fresh
    PROVE  Followed'
<1>1. \A l \in late : l.of # p
  BY DEF Followed, PaymentFacts
<1>2. pay[p].status # "cancelled"
  BY RowKinds DEF SettlementInv, SlotFacts, Owned
<1>3. \A q \in Payments : pay'[q] = pay[q] \/ Follow(q)
  BY <1>1, <1>2, WrittenFollow
<1>4. CASE Answer(h)
  <2>1. req' = [req EXCEPT ![h] = FreeSlot] /\ FreeSlot.pc = "idle"
    BY <1>4, FreeSlotTyped DEF Answer
  <2> QED
    BY <1>3, <2>1, RequestFollowed
<1>5. CASE GoTo(h, "folio")
  <2>1. PICK slot : slot = [req[h] EXCEPT !.pc = "folio"]
    OBVIOUS
  <2>2. slot.pc = "folio"
    BY <2>1 DEF SettlementInv, Typed, ReqTyped, IsSlot, AnySlot
  <2>3. req' = [req EXCEPT ![h] = slot]
    BY <1>5, <2>1 DEF GoTo
  <2> QED
    BY <1>3, <2>2, <2>3, RequestFollowed
<1> QED
  BY <1>4, <1>5

LEMMA ReopenFollowed ==
    ASSUME SettlementInv, Followed, NEW h \in Handlers, Early(h), req[h].of \in Payments,
           NEW status \in {"pending", "error"},
           ReleasePayment(req[h].of, [pay[req[h].of] EXCEPT !.status = status]),
           Answer(h), UNCHANGED <<rec, pac, late>>
    PROVE  Followed'
<1>1. PICK p \in Payments : p = req[h].of /\ RowOf(p) = pay[p] /\ IsRow(pay[p])
  BY PaymentAtHand
<1>2. PICK row : row = [pay[p] EXCEPT !.status = status]
  OBVIOUS
<1>3. row.number = pay[p].number /\ row.amount = pay[p].amount /\ row.status = status
  BY <1>1, <1>2 DEF IsRow, AnyRow
<1>4. (Becomes(p, row) /\ Live(pay[p])) \/ Becomes(p, pay[p])
  <2>1. ReleasePayment(p, row)
    BY <1>1, <1>2
  <2> QED
    BY <1>1, <2>1, Released DEF SettlementInv, Typed
<1>5. fresh' \subseteq fresh
  BY <1>1, Released DEF SettlementInv, Typed
<1>6. HasNone(p) /\ Emitting(h)
  BY <1>1 DEF Followed, PaymentFacts, Early, Emitting
<1>7. Live(pay[p]) => /\ row.number = pay[p].number /\ row.amount = pay[p].amount
                      /\ row.status \in {"pending", "error", "stamping", "stamped"}
                      /\ row.fid # NoDoc \/ HasNone(p)
  BY <1>3, <1>6
<1> QED
  BY <1>1, <1>4, <1>5, <1>6, <1>7, EmitterFollowed

LEMMA ClaimPaymentFollowed ==
    ASSUME SettlementInv, Followed, NEW h \in Handlers, ClaimPayment(h) PROVE Followed'
<1>1. PICK p \in Payments : p = req[h].of /\ RowOf(p) = pay[p] /\ IsRow(pay[p])
                            /\ RowFacts(p, pay[p]) /\ IsSlot(req[h])
  BY PaymentAtHand DEF ClaimPayment, ForPayment
<1>2. CASE ~Claimable(pay[p])
  BY <1>1, <1>2, AsksFollowed DEF ClaimPayment, RowsUnchanged
<1>3. CASE Claimable(pay[p])
  <2>1. PICK row : row = [pay[p] EXCEPT !.status = "stamping", !.misses = 0]
    OBVIOUS
  <2>2. row.number = pay[p].number /\ row.amount = pay[p].amount /\ row.status = "stamping"
    BY <1>1, <2>1 DEF IsRow, AnyRow
  <2>3. WriteClaim(p, row) /\ GoTo(h, "prepare") /\ UNCHANGED <<rec, pac, late>>
    BY <1>1, <1>3, <2>1 DEF ClaimPayment
  <2>4. (Becomes(p, row) /\ Live(pay[p])) \/ Becomes(p, pay[p])
    BY <2>3, ClaimWritten DEF SettlementInv, Typed
  <2>5. fresh' \subseteq fresh
    BY <2>3 DEF WriteClaim
  <2>6. HasNone(p) /\ ~Open(pay[p]) /\ \A l \in late : l.of # p
    BY <1>3 DEF Claimable, Open, Followed, PaymentFacts
  <2>7. pay[p].status # "cancelled"
    BY <1>1, <1>3 DEF Claimable, RowFacts
  <2>8. \A q \in Payments : pay'[q] = pay[q] \/ Follow(q)
    BY <2>2, <2>3, <2>4, <2>6, <2>7, WrittenFollow DEF Open
  <2>9. \A l \in late' : Arrives(l)
    BY <2>3 DEF Arrives
  <2>10. \A q \in Payments : Follow(q)
    BY <2>8, <2>9, SameFollow
  <2>11. /\ req'[h].pc = "prepare" /\ req'[h].of = p
         /\ \A g \in Handlers \ {h} : req'[g] = req[g]
    BY <1>1, <2>3 DEF GoTo, SettlementInv, Typed, ReqTyped, IsSlot, AnySlot
  <2>12. \A g \in Handlers : Follows(g)
    BY <2>3, <2>6, <2>11 DEF Follows, Emitting, Early, Told
  <2>13. \A r \in fresh' : r \in fresh /\ rec'[r].of = rec[r].of
    BY <2>3, <2>5
  <2> QED
    BY <2>3, <2>9, <2>10, <2>12, <2>13, FollowedStep
<1> QED
  BY <1>2, <1>3

\* The number that is counted differs from the number of every payment that holds one.
LEMMA PrepareFollowed ==
    ASSUME SettlementInv, Followed, NEW h \in Handlers, PrepareComplement(h) PROVE Followed'
<1>1. PICK p \in Payments : p = req[h].of /\ RowOf(p) = pay[p] /\ IsRow(pay[p])
                            /\ IsSlot(req[h])
  BY PaymentAtHand DEF PrepareComplement, ForPayment
<1>2. PICK content : content = Prepared(p)
  OBVIOUS
<1>3. PICK row : row = [pay[p] EXCEPT !.number = content.number, !.prior = content.prior]
  OBVIOUS
<1>4. /\ req[h].pc = "prepare" /\ Live(pay[p]) /\ NumberFree(p, content.number)
      /\ WritePayment(p, row) /\ UNCHANGED <<rec, pac, late>>
      /\ req' = [req EXCEPT ![h].pc = "check", ![h].content = content]
  BY <1>1, <1>2, <1>3 DEF PrepareComplement, ForPayment, Serves
<1>5. /\ row.number = content.number /\ row.amount = pay[p].amount
      /\ row.status = pay[p].status /\ row.fid = pay[p].fid
  BY <1>1, <1>3 DEF IsRow, AnyRow
<1>6. content.amount = pay[p].amount
  BY <1>2 DEF Prepared
<1>7. Emitting(h) /\ pay[p].status = "stamping"
  BY <1>1, <1>4 DEF SettlementInv, SlotFacts, Emitting, Owned, Live
<1>8. HasNone(p) /\ \A l \in late : l.of # p
  BY <1>1, <1>4, <1>7 DEF Followed, PaymentFacts, Early
<1>9. \A g \in Handlers \ {h} : Emitting(g) => req[g].of # p
  BY <1>1, <1>7 DEF SettlementInv, SingleEmitter
<1>10. /\ pay'[p] = row /\ \A q \in Payments \ {p} : pay'[q] = pay[q]
       /\ fresh' = fresh
  BY <1>4, PaymentWritten, RowKinds DEF SettlementInv, Typed, Becomes
<1>11. /\ req'[h].pc = "check" /\ req'[h].of = p /\ req'[h].content = content
       /\ \A g \in Handlers \ {h} : req'[g] = req[g]
  BY <1>1, <1>4 DEF SettlementInv, Typed, ReqTyped, IsSlot, AnySlot
<1>12. Listed'
  BY <1>4 DEF Followed, Listed
<1>13. ASSUME NEW q \in Payments \ {p} PROVE InUse(q)' => InUse(q)
  BY <1>4, <1>11 DEF InUse, Told
<1>14. NumbersApart'
  <2> SUFFICES ASSUME NEW q \in Payments, NEW o \in Payments, q # o, InUse(q)',
                      Counts(pay'[q]), Counts(pay'[o])
               PROVE  pay'[q].number # pay'[o].number
    BY DEF NumbersApart
  <2>1. CASE q = p
    BY <1>4, <1>5, <1>10, <2>1 DEF NumberFree, Counts
  <2>2. CASE o = p
    BY <1>4, <1>5, <1>10, <2>2 DEF NumberFree, Counts
  <2>3. CASE q # p /\ o # p
    BY <1>10, <1>13, <2>3 DEF Followed, NumbersApart
  <2> QED
    BY <2>1, <2>2, <2>3
<1>15. ASSUME NEW q \in Payments, q # p PROVE PaymentFacts(q)' /\ ContentFacts(q)'
  <2>1. pay'[q] = pay[q] /\ (HasNone(q)' <=> HasNone(q))
    BY <1>4, <1>10, <1>15 DEF HasNone
  <2>2. \A g \in Handlers : req'[g].of = q => /\ req[g].of = q /\ req'[g] = req[g]
                                             /\ Early(g)' = Early(g) /\ Told(g)' = Told(g)
                                             /\ Emitting(g)' = Emitting(g)
    BY <1>11, <1>15 DEF Early, Told, Emitting
  <2>3. PaymentFacts(q)'
    <3>1. PaymentFacts(q)
      BY DEF Followed
    <3> QED
      BY <1>4, <1>10, <2>1, <2>2, <3>1 DEF PaymentFacts, Open
  <2>4. ContentFacts(q)'
    <3> SUFFICES ASSUME pay[q].status # "deleted" PROVE ContentFacts(q)'
      BY <2>1 DEF ContentFacts
    <3>1. ContentFacts(q) /\ UNCHANGED <<pac, late>>
      BY <1>4 DEF Followed
    <3>2. \A d \in Documents : pac'[d].of = q => Agrees(pac'[d].content, pay'[q])
      BY <2>1, <3>1 DEF ContentFacts
    <3>3. \A g \in Handlers : Told(g)' /\ req'[g].of = q => Agrees(req'[g].content, pay'[q])
      BY <2>1, <2>2, <3>1 DEF ContentFacts
    <3>4. \A l \in late' : l.of = q => Agrees(l.content, pay'[q])
      BY <2>1, <3>1 DEF ContentFacts
    <3> QED
      BY <3>2, <3>3, <3>4 DEF ContentFacts, Agrees
  <2> QED
    BY <2>3, <2>4
<1>16. PaymentFacts(p)'
  <2>1. HasNone(p)' <=> HasNone(p)
    BY <1>4 DEF HasNone
  <2> QED
    BY <1>4, <1>5, <1>7, <1>8, <1>10, <2>1 DEF PaymentFacts, Open
<1>17. ContentFacts(p)'
  <2>1. \A d \in Documents : pac'[d].of # p
    BY <1>4, <1>8 DEF HasNone
  <2>2. \A g \in Handlers : Told(g)' /\ req'[g].of = p => g = h
    BY <1>9, <1>11 DEF Told, Emitting
  <2>3. Agrees(req'[h].content, pay'[p])
    BY <1>5, <1>6, <1>10, <1>11 DEF Agrees
  <2> QED
    BY <1>4, <1>8, <2>1, <2>2, <2>3 DEF ContentFacts, Agrees
<1> QED
  BY <1>12, <1>14, <1>15, <1>16, <1>17 DEF Followed

LEMMA RecordComplementFollowed ==
    ASSUME SettlementInv, Followed, NEW h \in Handlers, RecordComplement(h) PROVE Followed'
<1>1. PICK p \in Payments : p = req[h].of /\ RowOf(p) = pay[p] /\ IsRow(pay[p])
  BY PaymentAtHand DEF RecordComplement, ForPayment
<1>2. PICK status \in {"error", "stamping"} :
         status = IF req[h].kind = "failed" THEN "error" ELSE "stamping"
  OBVIOUS
<1>3. PICK row : row = [pay[p] EXCEPT !.fid = req[h].doc, !.status = status]
  OBVIOUS
<1>4. UpdatePayment(p, row) /\ Answer(h) /\ UNCHANGED <<rec, pac, late>> /\ req[h].pc = "record"
  BY <1>1, <1>2, <1>3 DEF RecordComplement, ForPayment, Serves
<1>5. Emitting(h) /\ req[h].doc # NoDoc
  BY <1>4, DocumentIds DEF SettlementInv, SlotFacts, Emitting
<1>6. /\ row.number = pay[p].number /\ row.amount = pay[p].amount
      /\ row.status = status /\ row.fid # NoDoc
  BY <1>1, <1>3, <1>5 DEF IsRow, AnyRow
<1>7. ((Becomes(p, row) /\ Live(pay[p])) \/ Becomes(p, pay[p])) /\ fresh' \subseteq fresh
  BY <1>1, <1>4, Released DEF SettlementInv, Typed
<1> QED
  BY <1>1, <1>4, <1>5, <1>6, <1>7, EmitterFollowed

LEMMA FinishComplementFollowed ==
    ASSUME SettlementInv, Followed, NEW h \in Handlers, FinishComplement(h) PROVE Followed'
<1>1. PICK p \in Payments : p = req[h].of /\ RowOf(p) = pay[p] /\ IsRow(pay[p])
  BY PaymentAtHand DEF FinishComplement, ForPayment
<1>2. req[h].pc = "finish" /\ UNCHANGED <<rec, pac, late>>
  BY DEF FinishComplement, ForPayment, Serves
<1>3. Emitting(h) /\ req[h].doc # NoDoc
  BY <1>2, DocumentIds DEF SettlementInv, SlotFacts, Emitting
<1>4. CASE RowsUnchanged /\ Answer(h)
  BY <1>2, <1>4, AsksFollowed DEF RowsUnchanged
<1>5. ASSUME NEW archived \in BOOLEAN,
             WriteClaim(p, [pay[p] EXCEPT !.status = "stamped",
                  !.fid = req[h].doc, !.uuid = req[h].doc, !.xml = archived,
                  !.number = req[h].content.number, !.prior = req[h].content.prior]),
             GoTo(h, "folio")
      PROVE  Followed'
  <2>1. PICK row : row = [pay[p] EXCEPT !.status = "stamped",
                  !.fid = req[h].doc, !.uuid = req[h].doc, !.xml = archived,
                  !.number = req[h].content.number, !.prior = req[h].content.prior]
    OBVIOUS
  <2>2. /\ row.number = req[h].content.number /\ row.amount = pay[p].amount
        /\ row.status = "stamped" /\ row.fid # NoDoc
    BY <1>1, <1>3, <2>1 DEF IsRow, AnyRow
  <2>3. Live(pay[p]) => req[h].content.number = pay[p].number
    BY <1>1, <1>2 DEF Followed, ContentFacts, Told, Agrees, Live
  <2>4. ((Becomes(p, row) /\ Live(pay[p])) \/ Becomes(p, pay[p])) /\ fresh' \subseteq fresh
    <3>1. WriteClaim(p, row)
      BY <1>5, <2>1
    <3> QED
      BY <3>1, ClaimWritten DEF SettlementInv, Typed
  <2> QED
    BY <1>1, <1>2, <1>3, <1>5, <2>2, <2>3, <2>4, EmitterFollowed
<1> QED
  BY <1>1, <1>4, <1>5 DEF FinishComplement

LEMMA AssignFolioFollowed ==
    ASSUME SettlementInv, Followed, NEW h \in Handlers, AssignFolio(h) PROVE Followed'
<1>1. PICK p \in Payments : p = req[h].of /\ RowOf(p) = pay[p] /\ IsRow(pay[p])
  BY PaymentAtHand DEF AssignFolio, ForPayment
<1>2. PICK row : row = [pay[p] EXCEPT !.folio = TRUE]
  OBVIOUS
<1>3. UpdatePayment(p, row) /\ Answer(h) /\ UNCHANGED <<rec, pac, late>>
  BY <1>1, <1>2 DEF AssignFolio
<1>4. /\ row.number = pay[p].number /\ row.amount = pay[p].amount
      /\ row.status = pay[p].status /\ row.fid = pay[p].fid
  BY <1>1, <1>2 DEF IsRow, AnyRow
<1>5. ((Becomes(p, row) /\ Live(pay[p])) \/ Becomes(p, pay[p])) /\ fresh' \subseteq fresh
  BY <1>1, <1>3, Released DEF SettlementInv, Typed
<1>6. \A q \in Payments : pay'[q] = pay[q] \/ Follow(q)
  BY <1>3, <1>4, <1>5, WrittenFollow DEF Followed, PaymentFacts, Open, Live
<1>7. req' = [req EXCEPT ![h] = FreeSlot] /\ FreeSlot.pc = "idle"
  BY <1>3, FreeSlotTyped DEF Answer
<1> QED
  BY <1>3, <1>5, <1>6, <1>7, RequestFollowed

LEMMA ComplementFollowed ==
    ASSUME SettlementInv, Followed, NEW h \in Handlers, ComplementStep(h) PROVE Followed'
<1>1. CASE PrepareFails(h)
  BY <1>1, ReopenFollowed DEF PrepareFails, ForPayment, Serves, Early
<1>2. CASE RefuseComplement(h)
  BY <1>2, ReopenFollowed DEF RefuseComplement, ForPayment, Serves, Early
<1>3. CASE ComplementRefused(h)
  BY <1>3, ReopenFollowed DEF ComplementRefused, ForPayment, Serves, Early
<1>4. CASE ComplementUncertain(h)
  BY <1>4, AsksFollowed DEF ComplementUncertain, ForPayment
<1> QED
  BY <1>1, <1>2, <1>3, <1>4, ClaimPaymentFollowed, PrepareFollowed, RecordComplementFollowed,
     FinishComplementFollowed, AssignFolioFollowed DEF ComplementStep

-----------------------------------------------------------------------------
(* Users, the PAC and the reconciliation, and payments.                    *)

LEMMA RowsFollowed ==
    ASSUME SettlementInv, Followed, UNCHANGED <<req, rec, pac, late>>, fresh' \subseteq fresh,
           \A p \in Payments : pay'[p] = pay[p] \/ Follow(p)
    PROVE  Followed'
<1>1. \A h \in Handlers : Follows(h)
  BY DEF Follows, Emitting, Early, Told
<1>2. \A l \in late' : Arrives(l)
  BY DEF Arrives
<1>3. \A p \in Payments : Follow(p)
  BY <1>2, SameFollow
<1>4. \A r \in fresh' : r \in fresh /\ rec'[r].of = rec[r].of
  OBVIOUS
<1> QED
  BY <1>1, <1>2, <1>3, <1>4, FollowedStep

LEMMA RegisterFollowed ==
    ASSUME SettlementInv, Followed, NEW p \in Payments, RegisterPayment(p) PROVE Followed'
<1>1. IsRow(pay[p]) /\ RowFacts(p, pay[p]) /\ pay[p].status = "absent"
  BY RowKinds DEF RegisterPayment, SettlementInv, Typed, RowsTyped
<1>2. PICK amount : pay' = [pay EXCEPT ![p] = [NoRecord EXCEPT !.status = "pending",
                                                             !.amount = amount]]
  BY DEF RegisterPayment
<1>3. \A q \in Payments \ {p} : pay'[q] = pay[q]
  BY <1>2 DEF SettlementInv, Typed, RowsTyped
<1>4. pay'[p].status = "pending" /\ pay'[p].number = 0
  BY <1>2 DEF SettlementInv, Typed, RowsTyped, NoRecord
<1>5. HasNone(p) /\ pay[p].number = 0 /\ \A l \in late : l.of # p
  BY <1>1 DEF Followed, PaymentFacts, Open, RowFacts
<1>6. \A h \in Handlers : Told(h) => req[h].of # p
  BY <1>1, RowKinds DEF SettlementInv, SlotFacts, Emitting, Told, Owned
<1>7. ~InUse(p)
  BY <1>5, <1>6 DEF InUse, HasNone
<1>8. UNCHANGED <<req, rec, pac, late, fresh>>
  BY DEF RegisterPayment
<1>9. Follow(p)
  BY <1>1, <1>4, <1>5, <1>7, <1>8 DEF Follow, Open
<1> QED
  BY <1>3, <1>8, <1>9, RowsFollowed

LEMMA EditFollowed ==
    ASSUME SettlementInv, Followed, NEW p \in Payments, EditPayment(p) PROVE Followed'
<1>1. IsRow(pay[p])
  BY RowKinds DEF SettlementInv, Typed, RowsTyped
<1>2. PICK amount : pay' = [pay EXCEPT ![p].amount = amount]
  BY DEF EditPayment
<1>3. \A q \in Payments \ {p} : pay'[q] = pay[q]
  BY <1>2 DEF SettlementInv, Typed, RowsTyped
<1>4. pay'[p].status = pay[p].status /\ pay'[p].number = pay[p].number
                                     /\ pay'[p].fid = pay[p].fid
  BY <1>1, <1>2 DEF SettlementInv, Typed, RowsTyped, IsRow, AnyRow
<1>5. UNCHANGED <<req, rec, pac, late, fresh>> /\ "edit" \in UserMoves
  BY DEF EditPayment
<1>6. Follow(p)
  BY <1>4, <1>5 DEF Follow, Followed, PaymentFacts, Open
<1> QED
  BY <1>3, <1>5, <1>6, RowsFollowed

LEMMA DeleteFollowed ==
    ASSUME SettlementInv, Followed, NEW p \in Payments, DeletePayment(p) PROVE Followed'
<1>1. /\ pay'[p].status = "deleted"
      /\ \A q \in Payments \ {p} : pay'[q] = pay[q]
  BY DEF DeletePayment, SettlementInv, Typed, RowsTyped, NoRecord
<1>2. UNCHANGED <<req, rec, pac, late>> /\ fresh' \subseteq fresh /\ "delete" \in UserMoves
  BY DEF DeletePayment
<1>3. Follow(p)
  BY <1>1, <1>2 DEF Follow, Open
<1> QED
  BY <1>1, <1>2, <1>3, RowsFollowed

LEMMA UserFollowed == ASSUME SettlementInv, Followed, UserStep PROVE Followed'
<1>1. ASSUME NEW n \in Notes, DraftNote(n) \/ EditNote(n) \/ DeleteNote(n) PROVE Followed'
  <2>1. UNCHANGED <<pay, req, rec, pac, late>> /\ fresh' \subseteq fresh
    BY <1>1 DEF DraftNote, EditNote, DeleteNote, WriteNote
  <2> QED
    BY <2>1, RowsFollowed
<1> QED
  BY <1>1, RegisterFollowed, EditFollowed, DeleteFollowed DEF UserStep

LEMMA RecordCancelledFollowed ==
    ASSUME SettlementInv, Followed, NEW p \in Payments, RecordCancelled(p) \/ RecoverFolio(p)
    PROVE  Followed'
<1>1. IsRow(pay[p]) /\ RowFacts(p, pay[p]) /\ pay[p].status = "stamped"
  BY RowKinds DEF RecordCancelled, RecoverFolio, SettlementInv, Typed, RowsTyped
<1>2. pay[p].fid # NoDoc
  BY <1>1, DocumentIds, RowKinds DEF IsRow, AnyRow, RowFacts
<1>3. PICK row : /\ WritePayment(p, row)
                 /\ \/ row = [pay[p] EXCEPT !.status = "cancelled"]
                    \/ row = [pay[p] EXCEPT !.folio = TRUE]
  BY DEF RecordCancelled, RecoverFolio
<1>4. /\ row.status \in {"stamped", "cancelled"} /\ row.fid = pay[p].fid
      /\ row.number = pay[p].number /\ row.amount = pay[p].amount
  BY <1>1, <1>3 DEF IsRow, AnyRow
<1>5. ((Becomes(p, row) /\ Live(pay[p])) \/ Becomes(p, pay[p])) /\ fresh' = fresh
  BY <1>3, PaymentWritten DEF SettlementInv, Typed
<1>6. UNCHANGED <<req, rec, pac, late>>
  BY DEF RecordCancelled, RecoverFolio
<1>7. \A l \in late : l.of # p
  BY <1>1 DEF Followed, PaymentFacts, Open
<1>8. \A q \in Payments : pay'[q] = pay[q] \/ Follow(q)
  BY <1>1, <1>2, <1>4, <1>5, <1>6, <1>7, WrittenFollow
<1> QED
  BY <1>5, <1>6, <1>8, RowsFollowed

LEMMA PacStepFollowed == ASSUME SettlementInv, Followed, PacIsPrompt, PacStep PROVE Followed'
<1>1. ASSUME NEW d \in Documents, PacSettles(d) \/ PacLists(d)
             \/ \E p \in Payments : SatCancels(p) /\ d = pay[p].uuid
      PROVE  Followed'
  <2>1. \A e \in Documents : /\ pac'[e].of = pac[e].of /\ pac'[e].content = pac[e].content
                             /\ pac[e].listed = TRUE => pac'[e].listed = TRUE
    <3>1. \/ \E state : pac' = [pac EXCEPT ![d].state = state]
          \/ pac' = [pac EXCEPT ![d].listed = TRUE]
      BY <1>1 DEF PacSettles, PacLists, SatCancels
    <3>2. \A e \in Documents \ {d} : pac'[e] = pac[e]
      BY <3>1 DEF SettlementInv, Typed, PacTyped
    <3>3. PICK V : pac[d] \in AnyDocument(V)
      BY <1>1 DEF SettlementInv, Typed, PacTyped, IsDocument
    <3>4. /\ pac'[d].of = pac[d].of /\ pac'[d].content = pac[d].content
          /\ pac[d].listed = TRUE => pac'[d].listed = TRUE
      BY <1>1, <3>1, <3>3 DEF SettlementInv, Typed, PacTyped, AnyDocument
    <3> QED
      BY <3>2, <3>4
  <2>2. UNCHANGED <<pay, req, rec, fresh, late>>
    BY <1>1 DEF PacSettles, PacLists, SatCancels
  <2>3. \A h \in Handlers : Follows(h)
    BY <2>2 DEF Follows, Emitting, Early, Told
  <2>4. \A l \in late' : Arrives(l)
    BY <2>2 DEF Arrives
  <2>5. \A p \in Payments : Follow(p)
    BY <2>2, <2>4, SameFollow
  <2>6. \A r \in fresh' : r \in fresh /\ rec'[r].of = rec[r].of
    BY <2>2
  <2> QED
    BY <2>1, <2>3, <2>4, <2>5, <2>6, FollowedStep
<1>2. ASSUME NEW p \in Payments, SatCancels(p) PROVE pay[p].uuid \in Documents
  BY <1>2, RowKinds DEF SatCancels, SettlementInv, Typed, RowsTyped, IsRow, AnyRow, RowFacts
<1> QED
  BY <1>1, <1>2, LateFollowed, RecordCancelledFollowed DEF PacStep

\* A run with a good token finds nothing that may still arrive.
LEMMA RunFollowed ==
    ASSUME SettlementInv, Followed, NEW r \in Reconcilers, Holds(r), NEW x \in Rows, x = rec[r].of,
           NEW row, Becomes(x, row),
           NEW cycle, rec' = [rec EXCEPT ![r] = cycle], cycle.of = x \/ r \notin fresh',
           fresh' \subseteq fresh, UNCHANGED <<req, pac, late>>,
           x \in Payments => /\ row.number = pay[x].number /\ row.amount = pay[x].amount
                             /\ row.status \in {"stamping", "error", "stamped"}
                             /\ \/ row.fid # NoDoc \/ row.status = "stamping" \/ HasNone(x)
    PROVE  Followed'
<1>1. r \in fresh /\ RowOf(x).status = "stamping"
  BY DEF Holds
<1>2. \A h \in Handlers : Follows(h)
  BY DEF Follows, Emitting, Early, Told
<1>3. \A l \in late' : Arrives(l)
  BY DEF Arrives
<1>4. ASSUME NEW p \in Payments PROVE Follow(p)
  <2>1. CASE p = x
    <3>1. \A l \in late' : l.of # p
      BY <1>1, <2>1 DEF Followed, PaymentFacts
    <3>2. pay'[p] = row /\ pay[p].status = "stamping"
      BY <1>1, <2>1, RowKinds DEF Becomes
    <3> QED
      BY <2>1, <3>1, <3>2 DEF Follow, Open
  <2>2. CASE p # x
    <3>1. pay'[p] = pay[p]
      BY <2>2, RowKinds DEF Becomes
    <3> QED
      BY <1>3, <3>1, SameFollow
  <2> QED
    BY <2>1, <2>2
<1>5. \A q \in fresh' : q \in fresh /\ rec'[q].of = rec[q].of
  BY DEF SettlementInv, Typed, RecTyped
<1> QED
  BY <1>2, <1>3, <1>4, <1>5, FollowedStep

LEMMA RestFollowed ==
    ASSUME SettlementInv, Followed, NEW r \in Reconcilers, NEW x \in Rows, x = rec[r].of,
           NEW row, PersistAndRest(r, row), UNCHANGED <<req, pac, late>>,
           x \in Payments => /\ row.number = pay[x].number /\ row.amount = pay[x].amount
                             /\ row.status \in {"stamping", "error", "stamped"}
                             /\ \/ row.fid # NoDoc \/ row.status = "stamping" \/ HasNone(x)
    PROVE  Followed'
<1>1. Holds(r) /\ Becomes(x, row) /\ fresh' = fresh \ Readers(x)
         /\ rec' = [rec EXCEPT ![r] = Resting]
  BY SetWrites DEF PersistAndRest, Rest, SettlementInv, Typed
<1>2. r \notin fresh' /\ fresh' \subseteq fresh
  BY <1>1 DEF Readers
<1> QED
  BY <1>1, <1>2, RunFollowed

LEMMA SelectFollowed ==
    ASSUME SettlementInv, Followed, PacIsPrompt, NEW r \in Reconcilers, NEW x \in Rows,
           SelectStuck(r, x)
    PROVE  Followed'
<1>1. UNCHANGED <<pay, req, pac, late>> /\ fresh' = fresh \cup {r}
  BY DEF SelectStuck
<1>2. rec'[r].of = x /\ \A q \in Reconcilers \ {r} : rec'[q] = rec[q]
  BY DEF SelectStuck, SettlementInv, Typed, RecTyped
<1>3. \A l \in late' : l.of # x
  BY <1>1 DEF SelectStuck, Quiet
<1>4. \A h \in Handlers : Follows(h)
  BY <1>1 DEF Follows, Emitting, Early, Told
<1>5. \A l \in late' : Arrives(l)
  BY <1>1 DEF Arrives
<1>6. \A p \in Payments : Follow(p)
  BY <1>1, <1>5, SameFollow
<1>7. \A q \in fresh' : \/ q \in fresh /\ rec'[q].of = rec[q].of
                        \/ \A l \in late' : l.of # rec'[q].of
  BY <1>1, <1>2, <1>3 DEF SettlementInv, Typed, RecTyped
<1> QED
  BY <1>1, <1>4, <1>5, <1>6, <1>7, FollowedStep

LEMMA LeaveFollowed ==
    ASSUME SettlementInv, Followed, NEW r \in Reconcilers, LeaveStuck(r) PROVE Followed'
<1>1. UNCHANGED <<pay, req, pac, late>> /\ fresh' = fresh \ {r}
  BY DEF LeaveStuck
<1>2. \A q \in Reconcilers \ {r} : rec'[q] = rec[q]
  BY DEF LeaveStuck, Rest, SettlementInv, Typed, RecTyped
<1>3. \A h \in Handlers : Follows(h)
  BY <1>1 DEF Follows, Emitting, Early, Told
<1>4. \A l \in late' : Arrives(l)
  BY <1>1 DEF Arrives
<1>5. \A p \in Payments : Follow(p)
  BY <1>1, <1>4, SameFollow
<1>6. \A q \in fresh' : q \in fresh /\ rec'[q].of = rec[q].of
  BY <1>1, <1>2 DEF SettlementInv, Typed, RecTyped
<1> QED
  BY <1>1, <1>3, <1>4, <1>5, <1>6, FollowedStep

LEMMA ClaimStuckFollowed ==
    ASSUME SettlementInv, Followed, NEW r \in Reconcilers, ClaimStuck(r) PROVE Followed'
<1>1. Holds(r)
  BY DEF ClaimStuck, PersistAndGoOn
<1>2. PICK x \in Rows : x = rec[r].of /\ IsCycle(rec[r]) /\ RowOf(x).status = "stamping"
  BY <1>1, RunAtHand
<1>3. PICK cycle : cycle = [rec[r] EXCEPT !.pc = "claimed"]
  OBVIOUS
<1>4. cycle.of = x
  BY <1>2, <1>3 DEF IsCycle, AnyCycle
<1>5. /\ rec' = [rec EXCEPT ![r] = cycle] /\ Becomes(x, RowOf(x))
      /\ fresh' = (fresh \ Readers(x)) \cup {r} /\ UNCHANGED <<req, pac, late>>
  BY <1>2, <1>3, SetWrites DEF ClaimStuck, PersistAndGoOn, SettlementInv, Typed
<1>6. fresh' \subseteq fresh
  BY <1>1, <1>5 DEF Holds
<1> QED
  BY <1>1, <1>2, <1>4, <1>5, <1>6, RowKinds, RunFollowed

LEMMA RecoverIdsFollowed ==
    ASSUME SettlementInv, Followed, NEW r \in Reconcilers, RecoverIds(r) PROVE Followed'
<1>1. Holds(r) /\ LacksId(r)
  BY DEF RecoverIds, PersistAndGoOn
<1>2. PICK x \in Rows : /\ x = rec[r].of /\ IsCycle(rec[r]) /\ IsRow(RowOf(x))
                        /\ RowOf(x).status = "stamping"
  BY <1>1, RunAtHand
<1>3. PICK d \in Found(x, rec[r].fid) :
         PersistAndGoOn(r, [RowOf(x) EXCEPT !.fid = d, !.uuid = d, !.misses = 0],
                        [rec[r] EXCEPT !.pc = "fetch", !.fid = d, !.uuid = d])
  BY <1>2 DEF RecoverIds
<1>4. d # NoDoc
  BY <1>1, <1>2, FoundIsOwn, DocumentIds
<1>5. PICK row, cycle : /\ row = [RowOf(x) EXCEPT !.fid = d, !.uuid = d, !.misses = 0]
                        /\ cycle = [rec[r] EXCEPT !.pc = "fetch", !.fid = d, !.uuid = d]
  OBVIOUS
<1>6. /\ row.number = RowOf(x).number /\ row.amount = RowOf(x).amount
      /\ row.status = "stamping"
  BY <1>2, <1>5 DEF IsRow, AnyRow
<1>7. cycle.of = x
  BY <1>2, <1>5 DEF IsCycle, AnyCycle
<1>8. /\ rec' = [rec EXCEPT ![r] = cycle] /\ Becomes(x, row)
      /\ fresh' = (fresh \ Readers(x)) \cup {r}
  BY <1>2, <1>3, <1>5, SetWrites DEF PersistAndGoOn, SettlementInv, Typed
<1>9. fresh' \subseteq fresh /\ UNCHANGED <<req, pac, late>>
  BY <1>1, <1>8 DEF Holds, RecoverIds
<1>10. x \in Payments => /\ row.number = pay[x].number /\ row.amount = pay[x].amount
                         /\ row.status \in {"stamping", "error", "stamped"}
                         /\ row.status = "stamping"
  BY <1>6, RowKinds
<1> QED
  BY <1>1, <1>2, <1>7, <1>8, <1>9, <1>10, RunFollowed

LEMMA NotYetFollowed ==
    ASSUME SettlementInv, Followed, NEW r \in Reconcilers, NotYetStamped(r) PROVE Followed'
<1>1. Holds(r) /\ LacksId(r)
  BY DEF NotYetStamped, PersistAndRest
<1>2. PICK x \in Rows : /\ x = rec[r].of /\ IsRow(RowOf(x)) /\ RowOf(x).status = "stamping"
  BY <1>1, RunAtHand
<1>3. PICK d \in Found(x, rec[r].fid) :
         PersistAndRest(r, [RowOf(x) EXCEPT !.fid = d,
                            !.status = IF pac[d].state = "failed" THEN "error" ELSE @])
  BY <1>2 DEF NotYetStamped
<1>4. d # NoDoc
  BY <1>1, <1>2, FoundIsOwn, DocumentIds
<1>5. PICK row : row = [RowOf(x) EXCEPT !.fid = d,
                            !.status = IF pac[d].state = "failed" THEN "error" ELSE @]
  OBVIOUS
<1>6. /\ row.number = RowOf(x).number /\ row.amount = RowOf(x).amount
      /\ row.status \in {"stamping", "error"} /\ row.fid = d
  BY <1>2, <1>5 DEF IsRow, AnyRow
<1>7. PersistAndRest(r, row) /\ UNCHANGED <<req, pac, late>>
  BY <1>3, <1>5 DEF NotYetStamped
<1> QED
  BY <1>2, <1>4, <1>6, <1>7, RowKinds, RestFollowed

LEMMA MissFollowed ==
    ASSUME SettlementInv, Followed, NEW r \in Reconcilers, MissDocument(r) PROVE Followed'
<1>1. Holds(r)
  BY DEF MissDocument, PersistAndRest
<1>2. PICK x \in Rows : /\ x = rec[r].of /\ IsRow(RowOf(x)) /\ RowOf(x).status = "stamping"
  BY <1>1, RunAtHand
<1>3. PICK row : row = Missed(RowOf(x), rec[r].misses)
  OBVIOUS
<1>4. /\ row.number = RowOf(x).number /\ row.amount = RowOf(x).amount
      /\ row.status \in {"stamping", "error"}
  BY <1>2, <1>3 DEF Missed, IsRow, AnyRow
<1>5. PersistAndRest(r, row) /\ UNCHANGED <<req, pac, late>> /\ Found(x, rec[r].fid) = {}
  BY <1>2, <1>3 DEF MissDocument
<1>6. \A d \in Documents : pac[d].of = x => pac[d].listed # TRUE
  BY <1>5 DEF Found, DocsOf
<1>7. HasNone(x)
  BY <1>2, <1>6, RowKinds DEF HasNone, Followed, Listed
<1> QED
  BY <1>2, <1>4, <1>5, <1>7, RowKinds, RestFollowed

\* A run that goes for the files knows the ids.
LEMMA FilesHaveIds ==
    ASSUME SettlementInv, NEW r \in Reconcilers, Holds(r), WithIds(r), rec[r].of \in Payments
    PROVE  RowOf(rec[r].of).fid # NoDoc
<1>1. PICK x \in Rows : /\ x = rec[r].of
                        /\ IsRow(RowOf(x)) /\ RowFacts(x, RowOf(x))
                        /\ RowOf(x).status = "stamping"
                        /\ rec[r].fid = RowOf(x).fid /\ rec[r].uuid = RowOf(x).uuid
  BY RunAtHand
<1>2. rec[r].uuid # NoDoc
  BY DEF WithIds, LacksId, SettlementInv, CycleFacts
<1>3. RowOf(x).uuid \in Documents
  BY <1>1, <1>2, RowKinds DEF IsRow, AnyRow, RowFacts
<1> QED
  BY <1>1, <1>3, DocumentIds DEF RowFacts

LEMMA FilesFollowed ==
    ASSUME SettlementInv, Followed, NEW r \in Reconcilers, ArchiveFiles(r) \/ XmlFails(r)
    PROVE  Followed'
<1>1. Holds(r) /\ WithIds(r) /\ UNCHANGED <<req, pac, late>>
  BY DEF ArchiveFiles, XmlFails, PersistAndRest
<1>2. PICK x \in Rows : /\ x = rec[r].of /\ IsRow(RowOf(x)) /\ RowOf(x).status = "stamping"
  BY <1>1, RunAtHand
<1>3. PICK row : /\ PersistAndRest(r, row)
                 /\ \/ row = [RowOf(x) EXCEPT !.status = "stamped", !.xml = TRUE,
                              !.xmlPending = FALSE, !.misses = 0, !.attempts = 0]
                    \/ \E spent : row = [RowOf(x) EXCEPT !.attempts = rec[r].attempts + 1,
                                         !.status = IF spent THEN "stamped" ELSE @,
                                         !.xmlPending = @ \/ spent]
  BY <1>2 DEF ArchiveFiles, XmlFails
<1>4. /\ row.number = RowOf(x).number /\ row.amount = RowOf(x).amount
      /\ row.status \in {"stamping", "stamped"} /\ row.fid = RowOf(x).fid
  BY <1>2, <1>3 DEF IsRow, AnyRow
<1>5. x \in Payments => RowOf(x).fid # NoDoc
  BY <1>1, <1>2, FilesHaveIds
<1>6. x \in Payments => /\ row.number = pay[x].number /\ row.amount = pay[x].amount
                        /\ row.status \in {"stamping", "error", "stamped"}
                        /\ row.fid # NoDoc
  BY <1>4, <1>5, RowKinds
<1> QED
  BY <1>1, <1>2, <1>3, <1>6, RestFollowed

LEMMA InitFollowed == Init => Followed
<1> SUFFICES ASSUME Init PROVE Followed
  OBVIOUS
<1>1. \A p \in Payments : pay[p].status = "absent" /\ pay[p].number = 0
  BY DEF Init, NoRecord
<1>2. \A h \in Handlers : req[h].pc = "idle"
  BY FreeSlotTyped DEF Init
<1>3. \A d \in Documents : pac[d].of = NoRow
  BY DEF Init, NoDocument
<1>4. late = {}
  BY DEF Init
<1>5. \A p \in Payments : HasNone(p) /\ ~InUse(p)
  BY <1>2, <1>3, <1>4, RowKinds DEF HasNone, InUse, Told
<1>6. ASSUME NEW p \in Payments PROVE PaymentFacts(p) /\ ContentFacts(p)
  BY <1>1, <1>2, <1>4, <1>5 DEF PaymentFacts, ContentFacts, HasNone, Told
<1> QED
  BY <1>3, <1>5, <1>6 DEF Followed, NumbersApart, Listed

LEMMA NextFollowed == SettlementInv /\ Followed /\ PacIsPrompt /\ [Next]_vars => Followed'
<1> SUFFICES ASSUME SettlementInv, Followed, PacIsPrompt, [Next]_vars PROVE Followed'
  OBVIOUS
<1>1. ASSUME NEW h \in Handlers, NEW p \in Payments, AskComplement(h, p) PROVE Followed'
  <2>1. p \in Rows
    BY RowKinds
  <2> QED
    BY <1>1, <2>1, AsksFollowed DEF AskComplement
<1>2. ASSUME NEW h \in Handlers, NEW n \in Notes, AskNote(h, n) PROVE Followed'
  <2>1. n \in Rows
    BY RowKinds
  <2> QED
    BY <1>2, <2>1, AsksFollowed DEF AskNote
<1>3. ASSUME NEW h \in Handlers, CrashRequest(h) PROVE Followed'
  BY <1>3, AsksFollowed DEF CrashRequest
<1>4. ASSUME NEW r \in Reconcilers, ReconcilerStep(r) PROVE Followed'
  BY <1>4, SelectFollowed, LeaveFollowed, ClaimStuckFollowed, RecoverIdsFollowed,
     NotYetFollowed, MissFollowed, FilesFollowed DEF ReconcilerStep
<1>5. CASE Next
  BY <1>1, <1>2, <1>3, <1>4, <1>5, UserFollowed, SendFollowed, PacAnswersFollowed,
     ComplementFollowed, NoteStepFollowed, RecordCancelledFollowed, PacStepFollowed
     DEF Next, HandlerStep
<1>6. CASE UNCHANGED vars
  BY <1>6, RowsFollowed DEF vars
<1> QED
  BY <1>5, <1>6

\* With a PAC that has served or dropped, and indexed, what it got before a row is
\* stale, every payment keeps its documents in sight and its number to itself.
THEOREM PaymentsAreFollowed == PacIsPrompt => (Spec => []Followed)
<1> SUFFICES ASSUME PacIsPrompt PROVE Spec => []Followed
  OBVIOUS
<1>1. SettlementInv /\ Followed /\ [Next]_vars => Followed'
  BY NextFollowed
<1> QED
  BY InitFollowed, <1>1, SettlementInvariant, PTL DEF Spec

\* No complement is forgotten, whatever crashes or is lost: while a payment lacks the
\* id of a document issued for it, it is 'stamping'.
THEOREM ComplementsAreTracked ==
    PacIsPrompt /\ "delete" \notin UserMoves => (Spec => []IssuedIsTracked)
<1> SUFFICES ASSUME PacIsPrompt, "delete" \notin UserMoves PROVE Spec => []IssuedIsTracked
  OBVIOUS
<1>1. SettlementInv /\ Followed => IssuedIsTracked
  <2> SUFFICES ASSUME SettlementInv, Followed, NEW d \in Documents, NEW p \in Payments,
                      pac[d].of = p
               PROVE  pay[p].fid = d \/ pay[p].status = "stamping"
    BY DEF IssuedIsTracked
  <2>1. pay[p].status = "stamping" \/ pay[p].fid # NoDoc
    BY DEF Followed, PaymentFacts, Open, HasNone
  <2>2. pay[p].fid # NoDoc => pay[p].fid \in Documents /\ pac[pay[p].fid].of = p
    BY RowKinds DEF SettlementInv, Typed, RowsTyped, IsRow, AnyRow, RowFacts
  <2>3. p # NoRow
    BY RowKinds
  <2> QED
    BY <2>1, <2>2, <2>3 DEF SettlementInv, OneDocument
<1>2. Spec => []Followed
  BY PaymentsAreFollowed
<1> QED
  BY <1>1, <1>2, SettlementInvariant, PTL

\* The SAT never holds two live complements with one instalment number: the number
\* of a request under way, of one that may still arrive and of every document is
\* that of the payment, and no other payment may count it.
THEOREM InstalmentNumbersDiffer ==
    PacIsPrompt /\ "delete" \notin UserMoves => (Spec => []InstalmentsDiffer)
<1> SUFFICES ASSUME PacIsPrompt, "delete" \notin UserMoves PROVE Spec => []InstalmentsDiffer
  OBVIOUS
<1>1. SettlementInv /\ Followed => InstalmentsDiffer
  <2> SUFFICES ASSUME SettlementInv, Followed, NEW d \in Documents, NEW e \in Documents,
                      NEW p \in Payments, NEW q \in Payments, pac[d].of = p, pac[e].of = q,
                      pac[d].state \in {"pending", "valid"},
                      pac[e].state \in {"pending", "valid"},
                      pac[d].content.number = pac[e].content.number
               PROVE  d = e
    BY DEF InstalmentsDiffer
  <2>1. ASSUME NEW c \in Documents, NEW o \in Payments, pac[c].of = o,
               pac[c].state \in {"pending", "valid"}
        PROVE  Counts(pay[o]) /\ InUse(o) /\ pac[c].content.number = pay[o].number
    <3>1. pay[o].status # "deleted"
      BY DEF Followed, PaymentFacts
    <3>2. ASSUME pay[o].status = "cancelled" PROVE FALSE
      <4>1. pay[o].uuid \in Documents /\ pac[pay[o].uuid].of = o
                                      /\ pac[pay[o].uuid].state = "cancelled"
        BY <3>2, RowKinds, DocumentIds
           DEF SettlementInv, Typed, RowsTyped, IsRow, AnyRow, RowFacts
      <4> QED
        BY <2>1, <4>1, RowKinds DEF SettlementInv, OneDocument
    <3> QED
      BY <2>1, <3>1, <3>2 DEF Counts, InUse, Followed, ContentFacts, Agrees
  <2>2. p = q
    BY <2>1 DEF Followed, NumbersApart
  <2> QED
    BY <2>2, RowKinds DEF SettlementInv, OneDocument
<1>2. Spec => []Followed
  BY PaymentsAreFollowed
<1> QED
  BY <1>1, <1>2, SettlementInvariant, PTL

\* A complement says of a payment what the database says of it, unless users edit the
\* amount of a payment while its complement is made.
THEOREM ComplementsMatchRows ==
    PacIsPrompt /\ "edit" \notin UserMoves => (Spec => []ComplementMatchesRow)
<1> SUFFICES ASSUME PacIsPrompt, "edit" \notin UserMoves PROVE Spec => []ComplementMatchesRow
  OBVIOUS
<1>1. SettlementInv /\ Followed => ComplementMatchesRow
  <2> SUFFICES ASSUME SettlementInv, Followed, NEW p \in Payments, pay[p].status = "stamped"
               PROVE  Agrees(pac[pay[p].uuid].content, pay[p])
    BY DEF ComplementMatchesRow, Agrees
  <2>1. pay[p].uuid \in Documents /\ pac[pay[p].uuid].of = p
    BY RowKinds, DocumentIds DEF SettlementInv, Typed, RowsTyped, IsRow, AnyRow, RowFacts
  <2> QED
    BY <2>1 DEF Followed, ContentFacts
<1>2. Spec => []Followed
  BY PaymentsAreFollowed
<1> QED
  BY <1>1, <1>2, SettlementInvariant, PTL

-----------------------------------------------------------------------------
(* Sums.  A sum of amounts is the number of their units: a set, which the  *)
(* facts about finite sets apply to.                                       *)

\* The sums of the model, as operators of what they add.
AmountSum(rows, S) == MapThenSumSet(LAMBDA n : rows[n].amount, S)
ContentSum(docs, S) == MapThenSumSet(LAMBDA d : docs[d].content.amount, S)

Units(f, S) == {u \in S \X (Nat \ {0}) : u[2] <= f[u[1]]}

\* The units of one element.
LEMMA OneUnits ==
    ASSUME NEW S, NEW f \in [S -> Nat], NEW x \in S
    PROVE  IsFiniteSet(Units(f, {x})) /\ Cardinality(Units(f, {x})) = f[x]
<1> DEFINE unit == [k \in 1..f[x] |-> <<x, k>>]
<1>1. f[x] \in Nat
  OBVIOUS
<1>2. unit \in Bijection(1..f[x], Units(f, {x}))
  <2>1. unit \in [1..f[x] -> Units(f, {x})]
    BY <1>1 DEF Units
  <2>2. \A u \in Units(f, {x}) : u[2] \in 1..f[x] /\ unit[u[2]] = u
    BY <1>1 DEF Units
  <2>3. \A j, k \in 1..f[x] : unit[j] = unit[k] => j = k
    OBVIOUS
  <2> QED
    BY <2>1, <2>2, <2>3 DEF Bijection, Injection, Surjection, IsInjective
<1>3. IsFiniteSet(1..f[x]) /\ Cardinality(1..f[x]) = f[x]
  BY <1>1, FS_Interval
<1> HIDE DEF unit
<1> QED
  BY <1>2, <1>3, FS_Bijection DEF ExistsBijection

\* The units of an element come on top of those of the others.
LEMMA AddUnits ==
    ASSUME NEW S, NEW f \in [S -> Nat], NEW T \in SUBSET S, NEW x \in T,
           IsFiniteSet(Units(f, T \ {x}))
    PROVE  /\ IsFiniteSet(Units(f, T))
           /\ Cardinality(Units(f, T)) = f[x] + Cardinality(Units(f, T \ {x}))
<1>1. IsFiniteSet(Units(f, {x})) /\ Cardinality(Units(f, {x})) = f[x] /\ f[x] \in Nat
  BY OneUnits
<1>2. /\ Units(f, T) = Units(f, {x}) \cup Units(f, T \ {x})
      /\ Units(f, {x}) \cap Units(f, T \ {x}) = {}
  BY DEF Units
<1> DEFINE one == Units(f, {x})
           rest == Units(f, T \ {x})
<1>3. IsFiniteSet(one) /\ IsFiniteSet(rest) /\ Cardinality(one) = f[x] /\ f[x] \in Nat
         /\ Units(f, T) = one \cup rest /\ one \cap rest = {}
  BY <1>1, <1>2
<1> HIDE DEF one, rest
<1>4. Cardinality(one \cap rest) = 0 /\ Cardinality(rest) \in Nat
  BY <1>3, FS_EmptySet, FS_CardinalityType
<1>5. /\ IsFiniteSet(one \cup rest)
      /\ Cardinality(one \cup rest) = Cardinality(one) + Cardinality(rest) - Cardinality(one \cap rest)
  BY <1>3, FS_Union
<1>6. /\ IsFiniteSet(Units(f, T))
      /\ Cardinality(Units(f, T)) = f[x] + Cardinality(rest)
  BY <1>3, <1>4, <1>5
<1> QED
  BY <1>6 DEF rest

\* Of the sets with infinitely many units, a smallest would have none.
LEMMA UnitsFinite ==
    ASSUME NEW S, IsFiniteSet(S), NEW f \in [S -> Nat], NEW T \in SUBSET S
    PROVE  IsFiniteSet(Units(f, T)) /\ Cardinality(Units(f, T)) \in Nat
<1> DEFINE Bad == {U \in SUBSET S : ~IsFiniteSet(Units(f, U))}
<1>1. ASSUME Bad # {} PROVE FALSE
  <2>1. PICK U \in Bad : \A V \in Bad : ~(<<V, U>> \in StrictSubsetOrdering(S))
    <3>1. Bad \subseteq FiniteSubsetsOf(S)
      BY FS_Subset DEF FiniteSubsetsOf
    <3> HIDE DEF Bad
    <3> QED
      BY <1>1, <3>1, FS_StrictSubsetOrderingWellFounded, WFMin
  <2>2. CASE U = {}
    <3>1. Units(f, U) = {}
      BY <2>2 DEF Units
    <3> QED
      BY <3>1, FS_EmptySet
  <2>3. ASSUME NEW x \in U PROVE FALSE
    <3>1. <<U \ {x}, U>> \in StrictSubsetOrdering(S)
      BY DEF StrictSubsetOrdering
    <3> QED
      BY <2>1, <2>3, <3>1, AddUnits
  <2> QED
    BY <2>2, <2>3
<1> QED
  BY <1>1, FS_CardinalityType

\* Whatever is computed by taking out one element after another counts the units:
\* a smallest set for which it does not would, without one element, still not.
LEMMA SumIsUnits ==
    ASSUME NEW S, IsFiniteSet(S), NEW f \in [S -> Nat], NEW sum,
           sum = [T \in SUBSET S |->
                     IF T = {} THEN 0
                     ELSE f[CHOOSE x \in T : TRUE] + sum[T \ {CHOOSE x \in T : TRUE}]]
    PROVE  sum[S] = Cardinality(Units(f, S))
<1> DEFINE Bad == {U \in SUBSET S : sum[U] # Cardinality(Units(f, U))}
<1>1. ASSUME Bad # {} PROVE FALSE
  <2>1. PICK U \in Bad : \A V \in Bad : ~(<<V, U>> \in StrictSubsetOrdering(S))
    <3>1. Bad \subseteq FiniteSubsetsOf(S)
      BY FS_Subset DEF FiniteSubsetsOf
    <3> HIDE DEF Bad
    <3> QED
      BY <1>1, <3>1, FS_StrictSubsetOrderingWellFounded, WFMin
  <2>2. CASE U = {}
    <3>1. Units(f, U) = {} /\ sum[U] = 0
      BY <2>2 DEF Units
    <3> QED
      BY <3>1, FS_EmptySet
  <2>3. CASE U # {}
    <3> DEFINE x == CHOOSE x \in U : TRUE
    <3>1. x \in U /\ sum[U] = f[x] + sum[U \ {x}]
      BY <2>3
    <3> HIDE DEF x
    <3>2. <<U \ {x}, U>> \in StrictSubsetOrdering(S) /\ U \ {x} \in SUBSET S
      BY <3>1 DEF StrictSubsetOrdering
    <3>3. sum[U \ {x}] = Cardinality(Units(f, U \ {x}))
      BY <2>1, <3>2
    <3>4. Cardinality(Units(f, U)) = f[x] + Cardinality(Units(f, U \ {x}))
      BY <3>1, <3>2, UnitsFinite, AddUnits
    <3> QED
      BY <3>1, <3>3, <3>4
  <2> QED
    BY <2>2, <2>3
<1> QED
  BY <1>1

\* The units can be counted in this way.
LEMMA UnitsSum ==
    ASSUME NEW S, IsFiniteSet(S), NEW f \in [S -> Nat]
    PROVE  LET cards == [T \in SUBSET S |-> Cardinality(Units(f, T))]
           IN cards = [T \in SUBSET S |->
                          IF T = {} THEN 0
                          ELSE f[CHOOSE x \in T : TRUE] + cards[T \ {CHOOSE x \in T : TRUE}]]
<1> DEFINE cards == [T \in SUBSET S |-> Cardinality(Units(f, T))]
<1> SUFFICES ASSUME NEW T \in SUBSET S
             PROVE  cards[T] = IF T = {} THEN 0
                               ELSE f[CHOOSE x \in T : TRUE] + cards[T \ {CHOOSE x \in T : TRUE}]
  OBVIOUS
<1>1. CASE T = {}
  <2>1. Units(f, T) = {}
    BY <1>1 DEF Units
  <2> QED
    BY <1>1, <2>1, FS_EmptySet
<1>2. CASE T # {}
  <2> DEFINE x == CHOOSE x \in T : TRUE
  <2>1. x \in T
    BY <1>2
  <2>2. x \in T => Cardinality(Units(f, T)) = f[x] + Cardinality(Units(f, T \ {x}))
    <3> HIDE DEF x
    <3> QED
      BY UnitsFinite, AddUnits
  <2> QED
    BY <1>2, <2>1, <2>2
<1> QED
  BY <1>1, <1>2

LEMMA AmountSumIs ==
    ASSUME NEW S, IsFiniteSet(S), NEW rows, \A n \in S : rows[n].amount \in Nat
    PROVE  AmountSum(rows, S) = Cardinality(Units([n \in S |-> rows[n].amount], S))
<1> DEFINE f == [n \in S |-> rows[n].amount]
           Sums(g) == [T \in SUBSET S |->
                         IF T = {} THEN 0
                         ELSE rows[CHOOSE x \in T : TRUE].amount
                                 + g[T \ {CHOOSE x \in T : TRUE}]]
           sum == CHOOSE g : g = Sums(g)
           cards == [T \in SUBSET S |-> Cardinality(Units(f, T))]
<1>1. f \in [S -> Nat] /\ \A T \in SUBSET S : T # {} => (CHOOSE x \in T : TRUE) \in S
  OBVIOUS
<1>2. cards = Sums(cards)
  <2>1. cards = [T \in SUBSET S |->
                    IF T = {} THEN 0
                    ELSE f[CHOOSE x \in T : TRUE] + cards[T \ {CHOOSE x \in T : TRUE}]]
    BY <1>1, UnitsSum
  <2> HIDE DEF cards
  <2> QED
    BY <1>1, <2>1
<1>3. sum = Sums(sum)
  BY <1>2
<1>4. sum[S] = Cardinality(Units(f, S))
  <2>1. sum = [T \in SUBSET S |->
                  IF T = {} THEN 0
                  ELSE f[CHOOSE x \in T : TRUE] + sum[T \ {CHOOSE x \in T : TRUE}]]
    <3> HIDE DEF sum
    <3> QED
      BY <1>1, <1>3
  <2> QED
    BY <1>1, <2>1, SumIsUnits
<1> QED
  BY <1>4 DEF AmountSum, MapThenSumSet, MapThenFoldSet

LEMMA ContentSumIs ==
    ASSUME NEW S, IsFiniteSet(S), NEW docs, \A d \in S : docs[d].content.amount \in Nat
    PROVE  ContentSum(docs, S) = Cardinality(Units([d \in S |-> docs[d].content.amount], S))
<1> DEFINE f == [d \in S |-> docs[d].content.amount]
           Sums(g) == [T \in SUBSET S |->
                         IF T = {} THEN 0
                         ELSE docs[CHOOSE x \in T : TRUE].content.amount
                                 + g[T \ {CHOOSE x \in T : TRUE}]]
           sum == CHOOSE g : g = Sums(g)
           cards == [T \in SUBSET S |-> Cardinality(Units(f, T))]
<1>1. f \in [S -> Nat] /\ \A T \in SUBSET S : T # {} => (CHOOSE x \in T : TRUE) \in S
  OBVIOUS
<1>2. cards = Sums(cards)
  <2>1. cards = [T \in SUBSET S |->
                    IF T = {} THEN 0
                    ELSE f[CHOOSE x \in T : TRUE] + cards[T \ {CHOOSE x \in T : TRUE}]]
    BY <1>1, UnitsSum
  <2> HIDE DEF cards
  <2> QED
    BY <1>1, <2>1
<1>3. sum = Sums(sum)
  BY <1>2
<1>4. sum[S] = Cardinality(Units(f, S))
  <2>1. sum = [T \in SUBSET S |->
                  IF T = {} THEN 0
                  ELSE f[CHOOSE x \in T : TRUE] + sum[T \ {CHOOSE x \in T : TRUE}]]
    <3> HIDE DEF sum
    <3> QED
      BY <1>1, <1>3
  <2> QED
    BY <1>1, <2>1, SumIsUnits
<1> QED
  BY <1>4 DEF ContentSum, MapThenSumSet, MapThenFoldSet

\* A sum of amounts is an amount, that of its members decides it, and a member adds
\* its own to that of the others.
LEMMA AmountSumFacts ==
    ASSUME NEW S, IsFiniteSet(S), NEW rows, \A n \in S : rows[n].amount \in Nat
    PROVE  /\ AmountSum(rows, S) \in Nat
           /\ \A other : (\A n \in S : other[n].amount = rows[n].amount)
                          => AmountSum(other, S) = AmountSum(rows, S)
           /\ \A x \in S : AmountSum(rows, S) = rows[x].amount + AmountSum(rows, S \ {x})
<1> DEFINE f == [n \in S |-> rows[n].amount]
<1>1. f \in [S -> Nat] /\ S \in SUBSET S
  OBVIOUS
<1>2. AmountSum(rows, S) = Cardinality(Units(f, S))
  BY AmountSumIs
<1>3. AmountSum(rows, S) \in Nat
  BY <1>1, <1>2, UnitsFinite
<1>4. ASSUME NEW other, \A n \in S : other[n].amount = rows[n].amount
      PROVE  AmountSum(other, S) = AmountSum(rows, S)
  <2>1. [n \in S |-> other[n].amount] = f /\ \A n \in S : other[n].amount \in Nat
    BY <1>4
  <2> HIDE DEF f
  <2> QED
    BY <1>2, <2>1, AmountSumIs
<1>5. ASSUME NEW x \in S PROVE AmountSum(rows, S) = rows[x].amount + AmountSum(rows, S \ {x})
  <2> DEFINE g == [n \in S \ {x} |-> rows[n].amount]
  <2>1. IsFiniteSet(S \ {x})
    BY FS_RemoveElement
  <2>2. AmountSum(rows, S \ {x}) = Cardinality(Units(g, S \ {x}))
    BY <2>1, AmountSumIs
  <2>3. Units(g, S \ {x}) = Units(f, S \ {x})
    BY DEF Units
  <2>4. Cardinality(Units(f, S)) = f[x] + Cardinality(Units(f, S \ {x}))
    <3> HIDE DEF f
    <3>1. S \ {x} \in SUBSET S
      OBVIOUS
    <3>2. IsFiniteSet(Units(f, S \ {x}))
      BY <1>1, <3>1, UnitsFinite
    <3> QED
      BY <1>1, <3>2, AddUnits
  <2> QED
    BY <1>2, <2>2, <2>3, <2>4
<1> QED
  BY <1>3, <1>4, <1>5

\* Documents each of which has the amount of a row of its own add up to no more than
\* the rows.
LEMMA SumsCompared ==
    ASSUME NEW D, NEW docs, NEW S, IsFiniteSet(S), NEW rows,
           \A n \in S : rows[n].amount \in Nat,
           \A d \in D : docs[d].of \in S /\ docs[d].content.amount = rows[docs[d].of].amount,
           \A d, e \in D : docs[d].of = docs[e].of => d = e
    PROVE  ContentSum(docs, D) <= AmountSum(rows, S) /\ ContentSum(docs, D) \in Nat
<1> DEFINE f == [n \in S |-> rows[n].amount]
           g == [d \in D |-> docs[d].content.amount]
           A == Units(f, S)
           B == Units(g, D)
           to == [u \in B |-> <<docs[u[1]].of, u[2]>>]
           row == [d \in D |-> docs[d].of]
<1>1. f \in [S -> Nat] /\ g \in [D -> Nat]
  OBVIOUS
<1>2. row \in Injection(D, S)
  BY DEF Injection, IsInjective
<1>3. IsFiniteSet(D)
  <2> HIDE DEF row
  <2> QED
    BY <1>2, FS_Injection
<1>4. to \in Injection(B, A)
  <2>1. to \in [B -> A]
    BY DEF Units
  <2>2. \A u, v \in B : to[u] = to[v] => u = v
    BY DEF Units
  <2> QED
    BY <2>1, <2>2 DEF Injection, IsInjective
<1>5. ContentSum(docs, D) = Cardinality(B) /\ AmountSum(rows, S) = Cardinality(A)
  BY <1>3, AmountSumIs, ContentSumIs
<1>6. IsFiniteSet(A) /\ IsFiniteSet(B) /\ Cardinality(B) \in Nat
  BY <1>1, <1>3, UnitsFinite
<1> HIDE DEF A, B, to
<1> QED
  BY <1>4, <1>5, <1>6, FS_Injection

-----------------------------------------------------------------------------
(* The ranges of the columns.                                              *)

\* A row that waits for its document has misses and cycles left; the cycles without
\* an XML are counted once the uuid is known.
Waits(row) ==
    /\ row.status = "stamping" => row.misses < MaxMisses /\ row.attempts < MaxXmlAttempts
    /\ row.uuid = NoDoc => row.attempts = 0

Ranges(row) == row \in Row /\ Waits(row)

RowsRanged == \A x \in Rows : Ranges(RowOf(x))

SlotsRanged == \A h \in Handlers : req[h].content \in Content

\* What a run has read of a row that was waiting.
CycleRanges(cycle) ==
    /\ cycle.misses \in 0..MaxMisses /\ cycle.attempts \in 0..MaxXmlAttempts
    /\ cycle.pc # "idle" => cycle.misses < MaxMisses /\ cycle.attempts < MaxXmlAttempts

CyclesRanged == \A r \in Reconcilers : CycleRanges(rec[r])

DocumentsRanged ==
    /\ \A d \in Documents : pac[d].content \in Content /\ pac[d].listed \in BOOLEAN
    /\ \A l \in late : l \in Aborted

Ranged == RowsRanged /\ SlotsRanged /\ CyclesRanged /\ DocumentsRanged

LEMMA RangedIsTypeOK == SettlementInv /\ Ranged => TypeOK
<1> SUFFICES ASSUME SettlementInv, Ranged PROVE TypeOK
  OBVIOUS
<1>1. pay \in [Payments -> Row] /\ note \in [Notes -> Row]
  BY RowKinds DEF SettlementInv, Typed, RowsTyped, Ranged, RowsRanged, Ranges
<1>2. ASSUME NEW h \in Handlers PROVE req[h] \in Slot
  <2>1. PICK V : req[h] \in AnySlot(V)
    BY DEF SettlementInv, Typed, ReqTyped, IsSlot
  <2>2. req[h].content \in Content
    BY DEF Ranged, SlotsRanged
  <2> QED
    BY <2>1, <2>2 DEF AnySlot, Slot
<1>3. ASSUME NEW r \in Reconcilers PROVE rec[r] \in Cycle
  <2>1. PICK V : rec[r] \in AnyCycle(V)
    BY DEF SettlementInv, Typed, RecTyped, IsCycle
  <2>2. rec[r].misses \in 0..MaxMisses /\ rec[r].attempts \in 0..MaxXmlAttempts
    BY DEF Ranged, CyclesRanged, CycleRanges
  <2> QED
    BY <2>1, <2>2 DEF AnyCycle, Cycle
<1>4. ASSUME NEW d \in Documents PROVE pac[d] \in PacDocument
  <2>1. PICK V : pac[d] \in AnyDocument(V)
    BY DEF SettlementInv, Typed, PacTyped, IsDocument
  <2>2. pac[d].content \in Content /\ pac[d].listed \in BOOLEAN
    BY DEF Ranged, DocumentsRanged
  <2> QED
    BY <2>1, <2>2 DEF AnyDocument, PacDocument
<1>5. req \in [Handlers -> Slot] /\ rec \in [Reconcilers -> Cycle] /\ fresh \subseteq Reconcilers
  BY <1>2, <1>3 DEF SettlementInv, Typed, ReqTyped, RecTyped
<1>6. pac \in [Documents -> PacDocument] /\ late \subseteq Aborted
  BY <1>4 DEF SettlementInv, Typed, PacTyped, Ranged, DocumentsRanged
<1> QED
  BY <1>1, <1>5, <1>6 DEF TypeOK

\* Numbers.
LEMMA ZeroRanges ==
    /\ 0 \in 0..Total /\ 0 \in 0..Cardinality(Payments) /\ Cardinality(Payments) \in Nat
    /\ 0 \in 0..MaxMisses /\ 0 \in 0..MaxXmlAttempts /\ 0 < MaxMisses /\ 0 < MaxXmlAttempts
    /\ 1..Total \subseteq 0..Total
<1>1. Cardinality(Payments) \in Nat
  BY SettlementAssumption, FS_CardinalityType
<1> QED
  BY <1>1, SettlementAssumption

LEMMA NothingRanged == Nothing \in Content /\ FreeSlot.content = Nothing
BY ZeroRanges DEF Nothing, Content, FreeSlot

LEMMA BlankRanges ==
    ASSUME NEW status \in {"absent", "pending", "deleted"}, NEW amount \in 0..Total
    PROVE  /\ Ranges([NoRecord EXCEPT !.status = status, !.amount = amount])
           /\ NoRecord \in Row
<1> DEFINE row == [NoRecord EXCEPT !.status = status, !.amount = amount]
<1>1. row \in Row /\ NoRecord \in Row
  BY ZeroRanges DEF NoRecord, Row, Status
<1>2. row.status = status /\ row.attempts = 0
  BY DEF NoRecord
<1> QED
  BY <1>1, <1>2 DEF Ranges, Waits

\* One row is written, or none.
LEMMA RowsAfter ==
    ASSUME RowsRanged, NEW x \in Rows, NEW row,
           (Becomes(x, row) /\ Live(RowOf(x))) \/ Becomes(x, row) \/ Becomes(x, RowOf(x)),
           Becomes(x, row) => Ranges(row)
    PROVE  RowsRanged'
<1>1. PICK after : Becomes(x, after) /\ Ranges(after)
  BY DEF RowsRanged
<1> QED
  BY <1>1 DEF RowsRanged, Becomes

LEMMA SameRanged == ASSUME RowsRanged, UNCHANGED <<pay, note>> PROVE RowsRanged'
BY DEF RowsRanged, RowOf

\* A status that does not wait, or the one there was.
LEMMA StatusRanges ==
    ASSUME NEW row, Ranges(row), NEW status \in Status, status # "stamping" \/ row.status = "stamping"
    PROVE  Ranges([row EXCEPT !.status = status])
<1> DEFINE after == [row EXCEPT !.status = status]
<1>1. after \in Row /\ after.status = status /\ after.misses = row.misses
         /\ after.attempts = row.attempts /\ after.uuid = row.uuid
  BY DEF Ranges, Row
<1> QED
  BY <1>1 DEF Ranges, Waits

LEMMA FolioRanges ==
    ASSUME NEW row, Ranges(row)
    PROVE  Ranges([row EXCEPT !.folio = TRUE])
<1> DEFINE after == [row EXCEPT !.folio = TRUE]
<1>1. after \in Row /\ after.status = row.status /\ after.misses = row.misses
         /\ after.attempts = row.attempts /\ after.uuid = row.uuid
  BY DEF Ranges, Row
<1> QED
  BY <1>1 DEF Ranges, Waits

LEMMA AmountRanges ==
    ASSUME NEW row, Ranges(row), NEW amount \in 0..Total
    PROVE  Ranges([row EXCEPT !.amount = amount])
<1> DEFINE after == [row EXCEPT !.amount = amount]
<1>1. after \in Row /\ after.status = row.status /\ after.misses = row.misses
         /\ after.attempts = row.attempts /\ after.uuid = row.uuid
  BY DEF Ranges, Row
<1> QED
  BY <1>1 DEF Ranges, Waits

\* A claim starts the count of misses again; the files were not asked for yet.
LEMMA ClaimRanges ==
    ASSUME NEW row, Ranges(row), row.uuid = NoDoc
    PROVE  Ranges([row EXCEPT !.status = "stamping", !.misses = 0])
<1> DEFINE after == [row EXCEPT !.status = "stamping", !.misses = 0]
<1>1. after \in Row /\ after.status = "stamping" /\ after.misses = 0
         /\ after.attempts = row.attempts /\ after.uuid = row.uuid
  BY ZeroRanges DEF Ranges, Row, Status
<1> QED
  BY <1>1, ZeroRanges DEF Ranges, Waits

-----------------------------------------------------------------------------
(* Requests and documents.                                                 *)

\* A request whose content is as it was, or is one.
LEMMA SlotsAfter ==
    ASSUME Typed, SlotsRanged, NEW h \in Handlers, NEW slot, req' = [req EXCEPT ![h] = slot],
           slot.content \in Content
    PROVE  SlotsRanged'
BY DEF Typed, ReqTyped, SlotsRanged

LEMMA AnswerRanged ==
    ASSUME Typed, SlotsRanged, NEW h \in Handlers, Answer(h)
    PROVE  SlotsRanged'
BY SlotsAfter, NothingRanged DEF Answer

LEMMA GoToRanged ==
    ASSUME Typed, SlotsRanged, NEW h \in Handlers, NEW pc, GoTo(h, pc)
    PROVE  SlotsRanged'
<1> DEFINE slot == [req[h] EXCEPT !.pc = pc]
<1>1. slot.content = req[h].content
  BY DEF Typed, ReqTyped, IsSlot, AnySlot
<1>2. req' = [req EXCEPT ![h] = slot]
  BY DEF GoTo
<1> HIDE DEF slot
<1> QED
  BY <1>1, <1>2, SlotsAfter DEF SlotsRanged

LEMMA ArrivesRanged ==
    ASSUME SettlementInv, Ranged, NEW h \in Handlers, Serves(h, "sent"),
           MayArrive(h) \/ UNCHANGED late, UNCHANGED pac
    PROVE  DocumentsRanged'
<1>1. req[h].of \in Rows /\ req[h].content \in Content
  BY DEF SettlementInv, SlotFacts, Emitting, Serves, Ranged, SlotsRanged
<1>2. [of |-> req[h].of, content |-> req[h].content] \in Aborted
  BY <1>1 DEF Aborted
<1> QED
  BY <1>2 DEF MayArrive, Ranged, DocumentsRanged

LEMMA CreatesRanged ==
    ASSUME SettlementInv, Ranged, NEW x, NEW content \in Content, NEW d, NEW state,
           Creates(x, content, d, state)
    PROVE  \A e \in Documents : pac'[e].content \in Content /\ pac'[e].listed \in BOOLEAN
<1>1. CASE UNCHANGED pac
  BY <1>1 DEF Ranged, DocumentsRanged
<1>2. CASE pac' = [pac EXCEPT ![d] = [of |-> x, content |-> content, state |-> state,
                                     listed |-> PacIsPrompt]]
  BY <1>2, SettlementAssumption DEF Ranged, DocumentsRanged, SettlementInv, Typed, PacTyped
<1> QED
  BY <1>1, <1>2 DEF Creates

\* A document changes, but not in what it says.
LEMMA DocumentMoved ==
    ASSUME SettlementInv, Ranged, NEW d \in Documents, NEW after, pac' = [pac EXCEPT ![d] = after],
           after.content = pac[d].content, after.listed \in BOOLEAN, UNCHANGED late
    PROVE  DocumentsRanged'
BY DEF SettlementInv, Typed, PacTyped, Ranged, DocumentsRanged

-----------------------------------------------------------------------------
(* Every step keeps the ranges.                                            *)

\* What a complement is told: a balance that is never negative, and a number that
\* the payments of the invoice suffice for.
LEMMA PreparedRanged ==
    ASSUME Ranged, NEW p \in Payments
    PROVE  Prepared(p) \in Content
<1>1. \A q \in Payments : pay[q] \in Row /\ pay[q].amount \in 0..Total
                          /\ pay[q].number \in 0..Cardinality(Payments)
  BY RowKinds DEF Ranged, RowsRanged, Ranges, Row
<1>2. \A n \in Notes : note[n].amount \in 0..Total
  BY RowKinds DEF Ranged, RowsRanged, Ranges, Row
<1>3. PriorPaid(p) \in Nat
  <2> DEFINE S == {q \in Payments \ {p} : Live(pay[q]) /\ pay[q].status # "cancelled"}
  <2>1. IsFiniteSet(S)
    BY SettlementAssumption, FS_Subset
  <2>2. \A q \in S : pay[q].amount \in Nat
    BY <1>1
  <2>3. PriorPaid(p) = AmountSum(pay, S)
    BY DEF PriorPaid, PaidBy, AmountSum, MapThenSumSet, MapThenFoldSet
  <2> HIDE DEF S
  <2> QED
    BY <2>1, <2>2, <2>3, AmountSumFacts
<1>4. Credited \in Nat
  <2> DEFINE S == {n \in Notes : note[n].status = "stamped"}
  <2>1. IsFiniteSet(S)
    BY SettlementAssumption, FS_Subset
  <2>2. \A n \in S : note[n].amount \in Nat
    BY <1>2
  <2>3. Credited = AmountSum(note, S)
    BY DEF Credited, CreditedBy, AmountSum, MapThenSumSet, MapThenFoldSet
  <2> HIDE DEF S
  <2> QED
    BY <2>1, <2>2, <2>3, AmountSumFacts
<1>5. PriorBalance(p) \in 0..Total
  BY <1>3, <1>4, SettlementAssumption DEF PriorBalance
<1>6. Instalment(p) \in 0..Cardinality(Payments)
  <2> DEFINE others == Payments \ {p}
  <2>1. IsFiniteSet(others) /\ Cardinality(others) = Cardinality(Payments) - 1
    BY SettlementAssumption, FS_RemoveElement
  <2>2. LiveComplements(p) \in SUBSET others
    BY DEF LiveComplements
  <2> HIDE DEF others
  <2>3. IsFiniteSet(LiveComplements(p)) /\ Cardinality(LiveComplements(p)) <= Cardinality(others)
    BY <2>1, <2>2, FS_Subset
  <2>4. Cardinality(LiveComplements(p)) \in Nat
    BY <2>3, FS_CardinalityType
  <2> QED
    BY <1>1, <2>1, <2>3, <2>4, ZeroRanges DEF Instalment
<1> QED
  BY <1>1, <1>5, <1>6 DEF Prepared, Content

LEMMA UserRanged == ASSUME SettlementInv, Ranged, UserStep PROVE Ranged'
<1>1. UNCHANGED <<req, rec, pac, late>>
  BY DEF UserStep, RegisterPayment, EditPayment, DeletePayment, DraftNote, EditNote, DeleteNote
<1>2. SlotsRanged' /\ CyclesRanged' /\ DocumentsRanged'
  BY <1>1 DEF Ranged, SlotsRanged, CyclesRanged, DocumentsRanged
<1>3. \A x \in Rows : Ranges(RowOf(x))
  BY DEF Ranged, RowsRanged
<1>4. RowsTyped /\ RowsRanged
  BY DEF SettlementInv, Typed, Ranged
<1>5. ASSUME NEW p \in Payments, RegisterPayment(p) PROVE RowsRanged'
  <2>1. PICK amount \in 1..Total :
           pay' = [pay EXCEPT ![p] = [NoRecord EXCEPT !.status = "pending", !.amount = amount]]
    BY <1>5 DEF RegisterPayment
  <2> DEFINE row == [NoRecord EXCEPT !.status = "pending", !.amount = amount]
  <2>2. Ranges(row)
    BY ZeroRanges, BlankRanges
  <2>3. pay' = [pay EXCEPT ![p] = row] /\ UNCHANGED note
    BY <1>5, <2>1 DEF RegisterPayment
  <2> HIDE DEF row
  <2> QED
    BY <1>4, <2>2, <2>3, PaymentSet, RowKinds, RowsAfter
<1>6. ASSUME NEW n \in Notes, DraftNote(n) PROVE RowsRanged'
  <2>1. PICK amount \in 1..Total :
           note' = [note EXCEPT ![n] = [NoRecord EXCEPT !.status = "pending", !.amount = amount]]
    BY <1>6 DEF DraftNote
  <2> DEFINE row == [NoRecord EXCEPT !.status = "pending", !.amount = amount]
  <2>2. Ranges(row)
    BY ZeroRanges, BlankRanges
  <2>3. note' = [note EXCEPT ![n] = row] /\ UNCHANGED pay
    BY <1>6, <2>1 DEF DraftNote
  <2> HIDE DEF row
  <2> QED
    BY <1>4, <2>2, <2>3, NoteSet, RowKinds, RowsAfter
<1>7. ASSUME NEW p \in Payments, EditPayment(p) PROVE RowsRanged'
  <2>1. PICK amount \in 1..Total : pay' = [pay EXCEPT ![p].amount = amount]
    BY <1>7 DEF EditPayment
  <2> DEFINE row == [pay[p] EXCEPT !.amount = amount]
  <2>2. Ranges(row)
    BY <1>3, RowKinds, ZeroRanges, AmountRanges
  <2>3. pay' = [pay EXCEPT ![p] = row] /\ UNCHANGED note
    BY <1>7, <2>1 DEF EditPayment
  <2> HIDE DEF row
  <2> QED
    BY <1>4, <2>2, <2>3, PaymentSet, RowKinds, RowsAfter
<1>8. ASSUME NEW n \in Notes, EditNote(n) PROVE RowsRanged'
  <2>1. PICK amount \in 1..Total : WriteNote(n, [note[n] EXCEPT !.amount = amount])
    BY <1>8 DEF EditNote
  <2> DEFINE row == [note[n] EXCEPT !.amount = amount]
  <2>2. Ranges(row)
    BY <1>3, RowKinds, ZeroRanges, AmountRanges
  <2>3. WriteNote(n, row)
    BY <2>1
  <2> HIDE DEF row
  <2> QED
    BY <1>4, <2>2, <2>3, NoteWritten, RowKinds, RowsAfter
<1> DEFINE deleted == [NoRecord EXCEPT !.status = "deleted"]
<1>9. Ranges(deleted)
  <2>1. deleted \in Row /\ deleted.status = "deleted" /\ deleted.attempts = 0
    BY ZeroRanges, BlankRanges DEF NoRecord, Row, Status
  <2> QED
    BY <2>1 DEF Ranges, Waits
<1>10. ASSUME NEW p \in Payments, DeletePayment(p) PROVE RowsRanged'
  <2>1. pay' = [pay EXCEPT ![p] = deleted] /\ UNCHANGED note
    BY <1>10 DEF DeletePayment
  <2> HIDE DEF deleted
  <2> QED
    BY <1>4, <1>9, <2>1, PaymentSet, RowKinds, RowsAfter
<1>11. ASSUME NEW n \in Notes, DeleteNote(n) PROVE RowsRanged'
  <2>1. WriteNote(n, deleted)
    BY <1>11 DEF DeleteNote
  <2> HIDE DEF deleted
  <2> QED
    BY <1>4, <1>9, <2>1, NoteWritten, RowKinds, RowsAfter
<1> QED
  BY <1>2, <1>5, <1>6, <1>7, <1>8, <1>10, <1>11 DEF UserStep, Ranged

LEMMA AsksRanged ==
    ASSUME SettlementInv, Ranged, NEW h \in Handlers, NEW x \in Rows,
           req' = [req EXCEPT ![h] = [FreeSlot EXCEPT !.pc = "claim", !.of = x]],
           UNCHANGED <<pay, note, rec, fresh, pac, late>>
    PROVE  Ranged'
<1> DEFINE slot == [FreeSlot EXCEPT !.pc = "claim", !.of = x]
<1>1. slot.content \in Content
  BY NothingRanged DEF FreeSlot
<1>2. req' = [req EXCEPT ![h] = slot]
  OBVIOUS
<1> HIDE DEF slot
<1>3. SlotsRanged'
  BY <1>1, <1>2, SlotsAfter DEF SettlementInv, Ranged
<1> QED
  BY <1>3, SameRanged DEF Ranged, CyclesRanged, DocumentsRanged

\* A step of a request that writes the row of x, or none, and answers.
LEMMA WriteRanged ==
    ASSUME SettlementInv, Ranged, NEW x \in Rows, NEW row,
           (Becomes(x, row) /\ Live(RowOf(x))) \/ Becomes(x, row) \/ Becomes(x, RowOf(x)),
           Becomes(x, row) => Ranges(row),
           UNCHANGED rec, SlotsRanged', DocumentsRanged'
    PROVE  Ranged'
BY RowsAfter DEF Ranged, CyclesRanged

LEMMA ComplementRanged ==
    ASSUME SettlementInv, Ranged, NEW h \in Handlers, ComplementStep(h)
    PROVE  Ranged'
<1>1. PICK p \in Payments : p = req[h].of /\ p \in Rows /\ p \notin Notes /\ RowOf(p) = pay[p]
                            /\ IsRow(pay[p]) /\ RowFacts(p, pay[p]) /\ IsSlot(req[h])
  BY PaymentAtHand DEF ComplementStep, ClaimPayment, PrepareComplement, PrepareFails,
     RefuseComplement, ComplementUncertain, ComplementRefused, RecordComplement,
     FinishComplement, AssignFolio, ForPayment
<1>2. Ranges(pay[p]) /\ Typed /\ RowsTyped /\ RowsRanged /\ SlotsRanged /\ req[h].content \in Content
  BY <1>1 DEF SettlementInv, Typed, Ranged, RowsRanged, SlotsRanged
<1>3. UNCHANGED rec /\ (UNCHANGED <<pac, late>> => DocumentsRanged')
  BY DEF ComplementStep, ClaimPayment, PrepareComplement, PrepareFails,
     RefuseComplement, ComplementUncertain, ComplementRefused, RecordComplement,
     FinishComplement, AssignFolio, Ranged, DocumentsRanged
<1>4. CASE ClaimPayment(h)
  <2>1. DocumentsRanged'
    BY <1>3, <1>4 DEF ClaimPayment
  <2>2. CASE Claimable(pay[p])
    <3> DEFINE row == [pay[p] EXCEPT !.status = "stamping", !.misses = 0]
    <3>1. WriteClaim(p, row) /\ GoTo(h, "prepare")
      BY <1>1, <1>4, <2>2 DEF ClaimPayment
    <3>2. Ranges(row)
      BY <1>2, <2>2, ClaimRanges DEF Claimable
    <3> HIDE DEF row
    <3>3. SlotsRanged'
      BY <1>2, <3>1, GoToRanged
    <3> QED
      BY <1>1, <1>2, <1>3, <2>1, <3>1, <3>2, <3>3, ClaimWritten, WriteRanged
  <2>3. CASE ~Claimable(pay[p])
    <3>1. Answer(h) /\ UNCHANGED <<pay, note>>
      BY <1>1, <1>4, <2>3 DEF ClaimPayment, RowsUnchanged
    <3> QED
      BY <1>1, <1>2, <1>3, <2>1, <3>1, AnswerRanged, SameRows, WriteRanged
  <2> QED
    BY <2>2, <2>3
<1>5. CASE PrepareComplement(h)
  <2> DEFINE content == Prepared(p)
             row == [pay[p] EXCEPT !.number = content.number, !.prior = content.prior]
             slot == [req[h] EXCEPT !.pc = "check", !.content = content]
  <2>1. WritePayment(p, row) /\ req' = [req EXCEPT ![h] = slot] /\ DocumentsRanged'
    BY <1>1, <1>3, <1>5 DEF PrepareComplement
  <2>2. content \in Content
    BY PreparedRanged
  <2>3. Ranges(row)
    <3> HIDE DEF content
    <3>1. content.number \in 0..Cardinality(Payments) /\ content.prior \in 0..Total
      BY <2>2 DEF Content
    <3>2. row \in Row /\ row.status = pay[p].status /\ row.misses = pay[p].misses
             /\ row.attempts = pay[p].attempts /\ row.uuid = pay[p].uuid
      BY <1>2, <3>1 DEF Ranges, Row
    <3> QED
      BY <1>2, <3>2 DEF Ranges, Waits
  <2>4. slot.content \in Content
    <3> HIDE DEF content
    <3> QED
      BY <1>1, <2>2 DEF IsSlot, AnySlot
  <2> HIDE DEF row, slot
  <2>5. SlotsRanged'
    BY <1>2, <2>1, <2>4, SlotsAfter
  <2> QED
    BY <1>1, <1>2, <1>3, <2>1, <2>3, <2>5, PaymentWritten, WriteRanged
<1>6. ASSUME NEW status \in {"pending", "error"},
             ReleasePayment(p, [pay[p] EXCEPT !.status = status]), Answer(h),
             UNCHANGED <<pac, late>>
      PROVE  Ranged'
  <2> DEFINE row == [pay[p] EXCEPT !.status = status]
  <2>1. ReleasePayment(p, row)
    BY <1>6
  <2>2. Ranges(row)
    <3>1. status \in Status /\ status # "stamping"
      BY DEF Status
    <3> QED
      BY <1>2, <3>1, StatusRanges
  <2> HIDE DEF row
  <2> QED
    BY <1>1, <1>2, <1>3, <1>6, <2>1, <2>2, AnswerRanged, Released, WriteRanged
<1>7. CASE PrepareFails(h) \/ RefuseComplement(h) \/ ComplementRefused(h)
  BY <1>1, <1>6, <1>7 DEF PrepareFails, RefuseComplement, ComplementRefused
<1>8. CASE ComplementUncertain(h)
  <2>1. DocumentsRanged'
    BY <1>8, ArrivesRanged DEF ComplementUncertain, ForPayment
  <2>2. Answer(h) /\ UNCHANGED <<pay, note>>
    BY <1>8 DEF ComplementUncertain
  <2> QED
    BY <1>1, <1>2, <1>3, <2>1, <2>2, AnswerRanged, SameRows, WriteRanged
<1>9. CASE RecordComplement(h)
  <2> DEFINE status == IF req[h].kind = "failed" THEN "error" ELSE "stamping"
             row == [pay[p] EXCEPT !.fid = req[h].doc, !.status = status]
  <2>1. UpdatePayment(p, row) /\ Answer(h) /\ UNCHANGED <<pac, late>> /\ req[h].pc = "record"
    BY <1>1, <1>9 DEF RecordComplement, ForPayment, Serves
  <2>2. req[h].doc \in Documents /\ Owned(pay[p])
    BY <1>1, <2>1 DEF SettlementInv, SlotFacts, Emitting
  <2>3. Live(RowOf(p)) => Ranges(row)
    <3>1. row \in Row /\ row.status = status /\ row.misses = pay[p].misses
             /\ row.attempts = pay[p].attempts /\ row.uuid = pay[p].uuid
      BY <1>2, <2>2 DEF Ranges, Row, Status
    <3> QED
      BY <1>1, <1>2, <2>2, <3>1 DEF Ranges, Waits, Owned, Live
  <2> HIDE DEF row
  <2>4. (Becomes(p, row) /\ Live(RowOf(p))) \/ Becomes(p, RowOf(p))
    BY <1>2, <2>1, Released
  <2>5. CASE Live(RowOf(p))
    BY <1>1, <1>2, <1>3, <2>1, <2>3, <2>4, <2>5, AnswerRanged, WriteRanged
  <2>6. CASE ~Live(RowOf(p))
    BY <1>1, <1>2, <1>3, <2>1, <2>4, <2>6, AnswerRanged, WriteRanged DEF Ranged, RowsRanged
  <2> QED
    BY <2>5, <2>6
<1>10. CASE FinishComplement(h)
  <2>1. req[h].pc = "finish" /\ UNCHANGED <<pac, late>>
    BY <1>10 DEF FinishComplement, ForPayment, Serves
  <2>2. req[h].doc \in Documents
    BY <2>1 DEF SettlementInv, SlotFacts
  <2>3. ASSUME NEW archived \in BOOLEAN,
               WriteClaim(p, [pay[p] EXCEPT !.status = "stamped",
                     !.fid = req[h].doc, !.uuid = req[h].doc, !.xml = archived,
                     !.number = req[h].content.number, !.prior = req[h].content.prior]),
               GoTo(h, "folio")
        PROVE  Ranged'
    <3> DEFINE number == req[h].content.number
               prior == req[h].content.prior
               row == [pay[p] EXCEPT !.status = "stamped", !.fid = req[h].doc,
                                     !.uuid = req[h].doc, !.xml = archived,
                                     !.number = number, !.prior = prior]
    <3>1. WriteClaim(p, row)
      BY <2>3
    <3>2. number \in 0..Cardinality(Payments) /\ prior \in 0..Total
      BY <1>2 DEF Content
    <3>3. Ranges(row)
      <4> HIDE DEF number, prior
      <4>1. row \in Row /\ row.status = "stamped" /\ row.uuid = req[h].doc
        BY <1>2, <2>2, <3>2 DEF Ranges, Row, Status
      <4> QED
        BY <2>2, <4>1, DocumentIds DEF Ranges, Waits
    <3> HIDE DEF row
    <3> QED
      BY <1>1, <1>2, <1>3, <2>1, <2>3, <3>1, <3>3, GoToRanged, ClaimWritten, WriteRanged
  <2>4. CASE RowsUnchanged /\ Answer(h)
    BY <1>1, <1>2, <1>3, <2>1, <2>4, AnswerRanged, SameRows, WriteRanged DEF RowsUnchanged
  <2> QED
    BY <1>1, <1>10, <2>3, <2>4 DEF FinishComplement
<1>11. CASE AssignFolio(h)
  <2> DEFINE row == [pay[p] EXCEPT !.folio = TRUE]
  <2>1. UpdatePayment(p, row) /\ Answer(h) /\ UNCHANGED <<pac, late>>
    BY <1>1, <1>11 DEF AssignFolio
  <2>2. Ranges(row)
    BY <1>2, FolioRanges
  <2> HIDE DEF row
  <2> QED
    BY <1>1, <1>2, <1>3, <2>1, <2>2, AnswerRanged, Released, WriteRanged
<1> QED
  BY <1>4, <1>5, <1>7, <1>8, <1>9, <1>10, <1>11 DEF ComplementStep

\* The request ends, and its note is written or not.
LEMMA NoteEndsRanged ==
    ASSUME SettlementInv, Ranged, NEW h \in Handlers, NEW n \in Notes, NEW row,
           IfStamping(n, row) \/ WriteNote(n, row) \/ RowsUnchanged, Ranges(row),
           Answer(h), UNCHANGED rec, DocumentsRanged'
    PROVE  Ranged'
<1>1. RowsTyped /\ Typed /\ SlotsRanged /\ n \in Rows /\ RowOf(n) = note[n]
  BY RowKinds DEF SettlementInv, Typed, Ranged
<1>2. (Becomes(n, row) /\ Live(RowOf(n))) \/ Becomes(n, row) \/ Becomes(n, RowOf(n))
  BY <1>1, IfStampingWritten, NoteWritten, SameRows DEF RowsUnchanged
<1> QED
  BY <1>1, <1>2, AnswerRanged, WriteRanged

\* The same for a write that only a note that is 'stamping' gets.
LEMMA StampingEndsRanged ==
    ASSUME SettlementInv, Ranged, NEW h \in Handlers, NEW n \in Notes, NEW row,
           IfStamping(n, row), note[n].status = "stamping" => Ranges(row),
           Answer(h), UNCHANGED rec, DocumentsRanged'
    PROVE  Ranged'
<1>1. CASE note[n].status = "stamping"
  BY <1>1, NoteEndsRanged
<1>2. CASE note[n].status # "stamping"
  <2>1. RowsUnchanged
    BY <1>2 DEF IfStamping
  <2>2. n \in Rows /\ Ranges(note[n])
    BY RowKinds DEF Ranged, RowsRanged
  <2> QED
    BY <2>1, <2>2, NoteEndsRanged
<1> QED
  BY <1>1, <1>2

LEMMA NoteRanged ==
    ASSUME SettlementInv, Ranged, NEW h \in Handlers, NoteStep(h)
    PROVE  Ranged'
<1>1. PICK n \in Notes : n = req[h].of /\ n \in Rows /\ n \notin Payments /\ RowOf(n) = note[n]
                         /\ IsRow(note[n]) /\ RowFacts(n, note[n]) /\ IsSlot(req[h])
  BY NoteAtHand DEF NoteStep, ClaimNote, RefuseNote, StubNote, NoteTimesOut, NoteRefused,
     RecordNote, FinishNote, NoteThrows, ForNote
<1>2. Ranges(note[n]) /\ Typed /\ RowsTyped /\ RowsRanged /\ SlotsRanged
  BY <1>1 DEF SettlementInv, Typed, Ranged, RowsRanged
<1>3. UNCHANGED rec /\ (UNCHANGED <<pac, late>> => DocumentsRanged')
  BY DEF NoteStep, ClaimNote, RefuseNote, StubNote, NoteTimesOut, NoteRefused,
     RecordNote, FinishNote, NoteThrows, Ranged, DocumentsRanged
<1>4. CASE ClaimNote(h)
  <2>1. DocumentsRanged'
    BY <1>3, <1>4 DEF ClaimNote
  <2>2. CASE ClaimableNote(note[n])
    <3> DEFINE row == [note[n] EXCEPT !.status = "stamping", !.misses = 0]
               content == [Nothing EXCEPT !.amount = note[n].amount]
               slot == [req[h] EXCEPT !.pc = "check", !.content = content]
    <3>1. WriteNote(n, row) /\ req' = [req EXCEPT ![h] = slot]
      BY <1>1, <1>4, <2>2 DEF ClaimNote
    <3>2. Ranges(row)
      BY <1>2, <2>2, ClaimRanges DEF ClaimableNote
    <3>3. content \in Content
      <4>1. note[n].amount \in 0..Total
        BY <1>2 DEF Ranges, Row
      <4> QED
        BY <4>1, ZeroRanges DEF Nothing, Content
    <3>4. slot.content \in Content
      <4> HIDE DEF content
      <4> QED
        BY <1>1, <3>3 DEF IsSlot, AnySlot
    <3> HIDE DEF row, slot
    <3>5. SlotsRanged'
      BY <1>2, <3>1, <3>4, SlotsAfter
    <3> QED
      BY <1>1, <1>2, <1>3, <2>1, <3>1, <3>2, <3>5, NoteWritten, WriteRanged
  <2>3. CASE ~ClaimableNote(note[n])
    <3>1. Answer(h) /\ RowsUnchanged
      BY <1>1, <1>4, <2>3 DEF ClaimNote
    <3> QED
      BY <1>2, <1>3, <2>1, <3>1, NoteEndsRanged
  <2> QED
    BY <2>2, <2>3
<1>5. ASSUME IfStamping(n, [note[n] EXCEPT !.status = "error"]), Answer(h), DocumentsRanged'
      PROVE  Ranged'
  <2> DEFINE row == [note[n] EXCEPT !.status = "error"]
  <2>1. IfStamping(n, row)
    BY <1>5
  <2>2. Ranges(row)
    BY <1>2, StatusRanges DEF Status
  <2> HIDE DEF row
  <2> QED
    BY <1>3, <1>5, <2>1, <2>2, NoteEndsRanged
<1>6. CASE RefuseNote(h)
  BY <1>1, <1>3, <1>5, <1>6 DEF RefuseNote
<1>7. CASE NoteRefused(h)
  <2>1. DocumentsRanged'
    BY <1>7, ArrivesRanged DEF NoteRefused, ForNote
  <2> QED
    BY <1>1, <1>5, <1>7, <2>1 DEF NoteRefused
<1>8. CASE StubNote(h)
  <2> DEFINE row == [note[n] EXCEPT !.status = "stamped", !.uuid = MockDoc]
  <2>1. (WriteNote(n, row) \/ RowsUnchanged) /\ Answer(h) /\ UNCHANGED <<pac, late>>
    BY <1>1, <1>8 DEF StubNote
  <2>2. Ranges(row)
    <3>1. row \in Row /\ row.status = "stamped" /\ row.uuid = MockDoc
      BY <1>2 DEF Ranges, Row, Status
    <3> QED
      BY <3>1, DocumentIds DEF Ranges, Waits
  <2> HIDE DEF row
  <2> QED
    BY <1>3, <2>1, <2>2, NoteEndsRanged
<1>9. CASE NoteTimesOut(h)
  <2>1. DocumentsRanged'
    BY <1>9, ArrivesRanged DEF NoteTimesOut, ForNote
  <2>2. Answer(h) /\ RowsUnchanged
    BY <1>9 DEF NoteTimesOut, RowsUnchanged
  <2> QED
    BY <1>2, <1>3, <2>1, <2>2, NoteEndsRanged
<1>10. CASE RecordNote(h)
  <2> DEFINE status == IF req[h].kind = "failed" THEN "error" ELSE "stamping"
             row == [note[n] EXCEPT !.fid = req[h].doc, !.status = status]
  <2>1. IfStamping(n, row) /\ Answer(h) /\ UNCHANGED <<pac, late>> /\ req[h].pc = "record"
    BY <1>1, <1>10 DEF RecordNote, ForNote, Serves
  <2>2. req[h].doc \in Documents
    BY <2>1 DEF SettlementInv, SlotFacts
  <2>3. note[n].status = "stamping" => Ranges(row)
    <3>1. row \in Row /\ row.status = status /\ row.misses = note[n].misses
             /\ row.attempts = note[n].attempts /\ row.uuid = note[n].uuid
      BY <1>2, <2>2 DEF Ranges, Row, Status
    <3> QED
      BY <1>2, <3>1 DEF Ranges, Waits
  <2> HIDE DEF row
  <2> QED
    BY <1>3, <2>1, <2>3, StampingEndsRanged
<1>11. CASE FinishNote(h)
  <2>1. req[h].pc = "finish" /\ UNCHANGED <<pac, late>> /\ Answer(h)
    BY <1>11 DEF FinishNote, ForNote, Serves
  <2>2. req[h].doc \in Documents
    BY <2>1 DEF SettlementInv, SlotFacts
  <2>3. ASSUME NEW status \in {"stamped", "error"}, NEW archived \in BOOLEAN,
               IfStamping(n, [note[n] EXCEPT !.status = status, !.fid = req[h].doc,
                                             !.uuid = req[h].doc, !.xml = archived])
        PROVE  Ranged'
    <3> DEFINE row == [note[n] EXCEPT !.status = status, !.fid = req[h].doc,
                                      !.uuid = req[h].doc, !.xml = archived]
    <3>1. IfStamping(n, row)
      BY <2>3
    <3>2. Ranges(row)
      <4>1. row \in Row /\ row.status = status /\ row.uuid = req[h].doc
        BY <1>2, <2>2 DEF Ranges, Row, Status
      <4> QED
        BY <2>2, <4>1, DocumentIds DEF Ranges, Waits
    <3> HIDE DEF row
    <3> QED
      BY <1>3, <2>1, <3>1, <3>2, NoteEndsRanged
  <2>4. CASE RowsUnchanged
    BY <1>2, <1>3, <2>1, <2>4, NoteEndsRanged
  <2> QED
    BY <1>1, <1>11, <2>3, <2>4 DEF FinishNote
<1>12. CASE NoteThrows(h)
  <2> DEFINE row == [note[n] EXCEPT !.fid = req[h].doc, !.uuid = req[h].doc]
  <2>1. IfStamping(n, row) /\ Answer(h) /\ UNCHANGED <<pac, late>> /\ req[h].pc = "finish"
    BY <1>1, <1>12 DEF NoteThrows, ForNote, Serves
  <2>2. req[h].doc \in Documents
    BY <2>1 DEF SettlementInv, SlotFacts
  <2>3. Ranges(row)
    <3>1. row \in Row /\ row.status = note[n].status /\ row.misses = note[n].misses
             /\ row.attempts = note[n].attempts /\ row.uuid = req[h].doc
      BY <1>2, <2>2 DEF Ranges, Row
    <3> QED
      BY <1>2, <2>2, <3>1, DocumentIds DEF Ranges, Waits
  <2> HIDE DEF row
  <2> QED
    BY <1>3, <2>1, <2>3, NoteEndsRanged
<1> QED
  BY <1>4, <1>6, <1>7, <1>8, <1>9, <1>10, <1>11, <1>12 DEF NoteStep

\* What a run writes, and what it goes on with.
LEMMA RunWritesRanged ==
    ASSUME SettlementInv, Ranged, NEW r \in Reconcilers, NEW x \in Rows, x = rec[r].of, NEW row,
           Set(r, row), Ranges(row), NEW cycle, rec' = [rec EXCEPT ![r] = cycle],
           CycleRanges(cycle), UNCHANGED <<req, pac, late>>
    PROVE  Ranged'
<1>1. RowsRanged'
  BY SetWrites, RowsAfter DEF SettlementInv, Typed, Ranged
<1>2. CyclesRanged'
  BY DEF SettlementInv, Typed, RecTyped, Ranged, CyclesRanged
<1> QED
  BY <1>1, <1>2 DEF Ranged, SlotsRanged, DocumentsRanged

LEMMA RestingRanges == CycleRanges(Resting)
BY ZeroRanges DEF CycleRanges, Resting

LEMMA RestRanged ==
    ASSUME SettlementInv, Ranged, NEW r \in Reconcilers, NEW x \in Rows, x = rec[r].of, NEW row,
           PersistAndRest(r, row), Ranges(row), UNCHANGED <<req, pac, late>>
    PROVE  Ranged'
BY RestingRanges, RunWritesRanged DEF PersistAndRest, Rest

LEMMA ReconcilerRanged ==
    ASSUME SettlementInv, Ranged, NEW r \in Reconcilers, ReconcilerStep(r)
    PROVE  Ranged'
<1>1. ASSUME NEW x \in Rows, SelectStuck(r, x) PROVE Ranged'
  <2> DEFINE cycle == [pc |-> "selected", of |-> x, fid |-> RowOf(x).fid, uuid |-> RowOf(x).uuid,
                       misses |-> RowOf(x).misses, attempts |-> RowOf(x).attempts]
  <2>1. CycleRanges(cycle)
    BY <1>1 DEF SelectStuck, Ranged, RowsRanged, Ranges, Row, Waits, CycleRanges
  <2>2. rec' = [rec EXCEPT ![r] = cycle] /\ UNCHANGED <<pay, note, req, pac, late>>
    BY <1>1 DEF SelectStuck
  <2> HIDE DEF cycle
  <2>3. CyclesRanged'
    BY <2>1, <2>2 DEF SettlementInv, Typed, RecTyped, Ranged, CyclesRanged
  <2> QED
    BY <2>2, <2>3, SameRanged DEF Ranged, SlotsRanged, DocumentsRanged
<1>2. CASE LeaveStuck(r)
  <2>1. CyclesRanged'
    BY <1>2, RestingRanges
       DEF LeaveStuck, Rest, SettlementInv, Typed, RecTyped, Ranged, CyclesRanged
  <2> QED
    BY <1>2, <2>1, SameRanged DEF LeaveStuck, Ranged, SlotsRanged, DocumentsRanged
<1>3. CASE ~LeaveStuck(r) /\ ~\E x \in Rows : SelectStuck(r, x)
  <2>1. PICK x \in Rows : /\ x = rec[r].of
                          /\ IsRow(RowOf(x)) /\ RowFacts(x, RowOf(x)) /\ IsCycle(rec[r])
                          /\ RowOf(x).status = "stamping"
                          /\ rec[r].fid = RowOf(x).fid /\ rec[r].uuid = RowOf(x).uuid
    BY <1>3, RunAtHand DEF ReconcilerStep, ClaimStuck, RecoverIds, NotYetStamped, MissDocument,
       ArchiveFiles, XmlFails, PersistAndGoOn, PersistAndRest
  <2>2. Ranges(RowOf(x)) /\ CycleRanges(rec[r]) /\ UNCHANGED <<req, pac, late>>
    BY <1>3, <2>1 DEF ReconcilerStep, ClaimStuck, RecoverIds, NotYetStamped, MissDocument,
       ArchiveFiles, XmlFails, Ranged, RowsRanged, CyclesRanged
  <2>3. CASE ClaimStuck(r)
    <3> DEFINE cycle == [rec[r] EXCEPT !.pc = "claimed"]
    <3>1. CycleRanges(cycle)
      <4>1. cycle.misses = rec[r].misses /\ cycle.attempts = rec[r].attempts
        BY <2>1 DEF IsCycle, AnyCycle
      <4>2. rec[r].pc # "idle"
        BY <2>3 DEF ClaimStuck
      <4> HIDE DEF cycle
      <4> QED
        BY <2>2, <4>1, <4>2 DEF CycleRanges
    <3>2. Set(r, RowOf(x)) /\ rec' = [rec EXCEPT ![r] = cycle]
      BY <2>1, <2>3 DEF ClaimStuck, PersistAndGoOn
    <3> HIDE DEF cycle
    <3> QED
      BY <2>1, <2>2, <3>1, <3>2, RunWritesRanged
  <2>4. CASE RecoverIds(r)
    <3>1. PICK d \in Found(x, rec[r].fid) :
             PersistAndGoOn(r, [RowOf(x) EXCEPT !.fid = d, !.uuid = d, !.misses = 0],
                            [rec[r] EXCEPT !.pc = "fetch", !.fid = d, !.uuid = d])
      BY <2>1, <2>4 DEF RecoverIds
    <3> DEFINE row == [RowOf(x) EXCEPT !.fid = d, !.uuid = d, !.misses = 0]
               cycle == [rec[r] EXCEPT !.pc = "fetch", !.fid = d, !.uuid = d]
    <3>2. Set(r, row) /\ rec' = [rec EXCEPT ![r] = cycle] /\ Holds(r) /\ LacksId(r)
      BY <2>1, <2>4, <3>1 DEF RecoverIds, PersistAndGoOn
    <3>3. d \in Documents
      BY <2>1, <3>2, FoundIsOwn
    <3>4. Ranges(row)
      <4>1. row \in Row /\ row.status = RowOf(x).status /\ row.misses = 0
               /\ row.attempts = RowOf(x).attempts /\ row.uuid = d
        BY <2>2, <3>3, ZeroRanges DEF Ranges, Row
      <4> QED
        BY <2>1, <2>2, <3>3, <4>1, ZeroRanges, DocumentIds DEF Ranges, Waits
    <3>5. CycleRanges(cycle)
      <4>1. cycle.misses = rec[r].misses /\ cycle.attempts = rec[r].attempts
        BY <2>1 DEF IsCycle, AnyCycle
      <4>2. rec[r].pc # "idle"
        BY <2>4 DEF RecoverIds
      <4> HIDE DEF cycle
      <4> QED
        BY <2>2, <4>1, <4>2 DEF CycleRanges
    <3> HIDE DEF row, cycle
    <3> QED
      BY <2>1, <2>2, <3>2, <3>4, <3>5, RunWritesRanged
  <2>5. CASE NotYetStamped(r)
    <3>1. PICK d \in Found(x, rec[r].fid) :
             PersistAndRest(r, [RowOf(x) EXCEPT !.fid = d,
                                !.status = IF pac[d].state = "failed" THEN "error" ELSE @])
      BY <2>1, <2>5 DEF NotYetStamped
    <3> DEFINE row == [RowOf(x) EXCEPT !.fid = d,
                                       !.status = IF pac[d].state = "failed" THEN "error" ELSE @]
    <3>2. PersistAndRest(r, row) /\ d \in Documents
      BY <2>1, <2>5, <3>1, FoundIsOwn DEF NotYetStamped, PersistAndRest
    <3>3. Ranges(row)
      <4>1. row \in Row /\ row.misses = RowOf(x).misses
               /\ row.attempts = RowOf(x).attempts /\ row.uuid = RowOf(x).uuid
        BY <2>2, <3>2 DEF Ranges, Row, Status
      <4> HIDE DEF row
      <4> QED
        BY <2>1, <2>2, <4>1 DEF Ranges, Waits
    <3> HIDE DEF row
    <3> QED
      BY <2>1, <2>2, <3>2, <3>3, RestRanged
  <2>6. CASE MissDocument(r)
    <3> DEFINE misses == rec[r].misses + 1
               row == [RowOf(x) EXCEPT !.misses = misses,
                                       !.status = IF misses >= MaxMisses THEN "error" ELSE @]
    <3>1. PersistAndRest(r, row) /\ rec[r].pc # "idle"
      BY <2>1, <2>6 DEF MissDocument, Missed
    <3>2. misses \in 0..MaxMisses
      BY <2>2, <3>1, SettlementAssumption DEF CycleRanges
    <3>3. Ranges(row)
      <4> HIDE DEF misses
      <4>1. row \in Row /\ row.misses = misses
               /\ row.attempts = RowOf(x).attempts /\ row.uuid = RowOf(x).uuid
               /\ (misses >= MaxMisses => row.status = "error")
        BY <2>2, <3>2 DEF Ranges, Row, Status
      <4> HIDE DEF row
      <4> QED
        BY <2>1, <2>2, <3>2, <4>1, SettlementAssumption DEF Ranges, Waits
    <3> HIDE DEF row
    <3> QED
      BY <2>1, <2>2, <3>1, <3>3, RestRanged
  <2>7. CASE ArchiveFiles(r)
    <3> DEFINE row == [RowOf(x) EXCEPT !.status = "stamped", !.xml = TRUE, !.xmlPending = FALSE,
                                       !.misses = 0, !.attempts = 0]
    <3>1. PersistAndRest(r, row)
      BY <2>1, <2>7 DEF ArchiveFiles
    <3>2. Ranges(row)
      <4>1. row \in Row /\ row.status = "stamped" /\ row.attempts = 0
        BY <2>2, ZeroRanges DEF Ranges, Row, Status
      <4> QED
        BY <4>1 DEF Ranges, Waits
    <3> HIDE DEF row
    <3> QED
      BY <2>1, <2>2, <3>1, <3>2, RestRanged
  <2>8. CASE XmlFails(r)
    <3> DEFINE attempts == rec[r].attempts + 1
               spent == attempts >= MaxXmlAttempts
               pending == RowOf(x).xmlPending \/ spent
               row == [RowOf(x) EXCEPT !.attempts = attempts,
                                       !.status = IF spent THEN "stamped" ELSE @,
                                       !.xmlPending = pending]
    <3>1. PersistAndRest(r, row) /\ rec[r].pc # "idle"
      BY <2>1, <2>8 DEF XmlFails, WithIds
    <3>2. attempts \in 0..MaxXmlAttempts /\ pending \in BOOLEAN
      BY <2>2, <3>1, SettlementAssumption DEF CycleRanges
    <3>3. RowOf(x).uuid # NoDoc
      BY <2>1, <2>8 DEF XmlFails, WithIds, LacksId, SettlementInv, CycleFacts
    <3>4. Ranges(row)
      <4> HIDE DEF attempts, pending
      <4>1. row \in Row /\ row.misses = RowOf(x).misses /\ row.attempts = attempts
               /\ row.uuid = RowOf(x).uuid /\ (spent => row.status = "stamped")
        BY <2>2, <3>2 DEF Ranges, Row, Status
      <4> HIDE DEF row
      <4> QED
        BY <2>1, <2>2, <3>2, <3>3, <4>1, SettlementAssumption DEF Ranges, Waits
    <3> HIDE DEF row
    <3> QED
      BY <2>1, <2>2, <3>1, <3>4, RestRanged
  <2> QED
    BY <1>3, <2>3, <2>4, <2>5, <2>6, <2>7, <2>8 DEF ReconcilerStep
<1> QED
  BY <1>1, <1>2, <1>3

LEMMA PacRanged == ASSUME SettlementInv, Ranged, PacStep PROVE Ranged'
<1>1. UNCHANGED rec /\ UNCHANGED req
  BY DEF PacStep, PacServesLate, PacSettles, PacLists, SatCancels, RecordCancelled
<1>2. CyclesRanged' /\ SlotsRanged' /\ (UNCHANGED <<pay, note>> => RowsRanged')
  BY <1>1, SameRanged DEF Ranged, CyclesRanged, SlotsRanged
<1>3. ASSUME NEW l \in late, PacServesLate(l) PROVE Ranged'
  <2>1. l.content \in Content
    BY DEF Ranged, DocumentsRanged, Aborted
  <2>2. \A d \in Documents : pac'[d].content \in Content /\ pac'[d].listed \in BOOLEAN
    BY <1>3, <2>1, CreatesRanged DEF PacServesLate, Ranged, DocumentsRanged
  <2>3. late' \subseteq late /\ UNCHANGED <<pay, note>>
    BY <1>3 DEF PacServesLate
  <2> QED
    BY <1>2, <2>2, <2>3 DEF Ranged, DocumentsRanged
<1>4. ASSUME NEW d \in Documents, NEW after, pac' = [pac EXCEPT ![d] = after],
             after.content = pac[d].content, after.listed \in BOOLEAN,
             UNCHANGED <<late, pay, note>>
      PROVE  Ranged'
  BY <1>2, <1>4, DocumentMoved DEF Ranged
<1>5. \A d \in Documents : IsDocument(pac[d]) /\ pac[d].listed \in BOOLEAN
  BY DEF SettlementInv, Typed, PacTyped, Ranged, DocumentsRanged
<1>6. ASSUME NEW d \in Documents, PacSettles(d) PROVE Ranged'
  <2>1. PICK state : pac' = [pac EXCEPT ![d].state = state]
    BY <1>6 DEF PacSettles
  <2> DEFINE after == [pac[d] EXCEPT !.state = state]
  <2>2. after.content = pac[d].content /\ after.listed \in BOOLEAN
    BY <1>5 DEF IsDocument, AnyDocument
  <2>3. pac' = [pac EXCEPT ![d] = after] /\ UNCHANGED <<late, pay, note>>
    BY <1>6, <2>1 DEF PacSettles
  <2> HIDE DEF after
  <2> QED
    BY <1>4, <2>2, <2>3
<1>7. ASSUME NEW d \in Documents, PacLists(d) PROVE Ranged'
  <2> DEFINE after == [pac[d] EXCEPT !.listed = TRUE]
  <2>1. after.content = pac[d].content /\ after.listed \in BOOLEAN
    BY <1>5 DEF IsDocument, AnyDocument
  <2>2. pac' = [pac EXCEPT ![d] = after] /\ UNCHANGED <<late, pay, note>>
    BY <1>7 DEF PacLists
  <2> HIDE DEF after
  <2> QED
    BY <1>4, <2>1, <2>2
<1>8. ASSUME NEW p \in Payments, SatCancels(p) PROVE Ranged'
  <2> DEFINE d == pay[p].uuid
             after == [pac[d] EXCEPT !.state = "cancelled"]
  <2>1. d \in Documents
    BY <1>8, RowKinds DEF SatCancels, SettlementInv, Typed, RowsTyped, IsRow, AnyRow, RowFacts
  <2>2. after.content = pac[d].content /\ after.listed \in BOOLEAN
    BY <1>5, <2>1 DEF IsDocument, AnyDocument
  <2>3. pac' = [pac EXCEPT ![d] = after] /\ UNCHANGED <<late, pay, note>>
    BY <1>8 DEF SatCancels
  <2> HIDE DEF d, after
  <2> QED
    BY <1>4, <2>1, <2>2, <2>3
<1>9. ASSUME NEW p \in Payments, RecordCancelled(p) PROVE Ranged'
  <2> DEFINE row == [pay[p] EXCEPT !.status = "cancelled"]
  <2>1. WritePayment(p, row) /\ UNCHANGED <<pac, late>>
    BY <1>9 DEF RecordCancelled
  <2>2. Ranges(row) /\ RowsTyped
    BY RowKinds, StatusRanges DEF Status, Ranged, RowsRanged, SettlementInv, Typed
  <2> HIDE DEF row
  <2> QED
    BY <1>1, <1>2, <2>1, <2>2, PaymentWritten, RowKinds, WriteRanged DEF Ranged, DocumentsRanged
<1> QED
  BY <1>3, <1>6, <1>7, <1>8, <1>9 DEF PacStep

LEMMA InitRanged == Init => Ranged
<1> SUFFICES ASSUME Init PROVE Ranged
  OBVIOUS
<1>1. Ranges(NoRecord)
  <2>1. NoRecord \in Row /\ NoRecord.status = "absent" /\ NoRecord.attempts = 0
    BY ZeroRanges, BlankRanges DEF NoRecord
  <2> QED
    BY <2>1 DEF Ranges, Waits
<1>2. RowsRanged
  BY <1>1, RowKinds DEF Init, RowsRanged, RowOf
<1>3. SlotsRanged /\ CyclesRanged
  BY NothingRanged, RestingRanges DEF Init, SlotsRanged, CyclesRanged
<1>4. DocumentsRanged
  BY NothingRanged DEF Init, DocumentsRanged, NoDocument
<1> QED
  BY <1>2, <1>3, <1>4 DEF Ranged

LEMMA NextRanged == SettlementInv /\ Ranged /\ [Next]_vars => Ranged'
<1> SUFFICES ASSUME SettlementInv, Ranged, [Next]_vars PROVE Ranged'
  OBVIOUS
<1>1. ASSUME NEW h \in Handlers, NEW p \in Payments, AskComplement(h, p) PROVE Ranged'
  BY <1>1, RowKinds, AsksRanged DEF AskComplement
<1>2. ASSUME NEW h \in Handlers, NEW n \in Notes, AskNote(h, n) PROVE Ranged'
  BY <1>2, RowKinds, AsksRanged DEF AskNote
<1>3. ASSUME NEW h \in Handlers, SendToPac(h) PROVE Ranged'
  <2>1. SlotsRanged'
    BY <1>3, GoToRanged DEF SendToPac, SettlementInv, Ranged
  <2> QED
    BY <1>3, <2>1, SameRanged DEF SendToPac, Ranged, CyclesRanged, DocumentsRanged
<1>4. ASSUME NEW h \in Handlers, PacAnswers(h) PROVE Ranged'
  <2>1. PICK d \in Documents, state \in PacState :
           /\ Creates(req[h].of, req[h].content, d, state)
           /\ req' = [req EXCEPT ![h].pc = AfterAnswer(state), ![h].doc = d, ![h].kind = state]
    BY <1>4 DEF PacAnswers
  <2> DEFINE slot == [req[h] EXCEPT !.pc = AfterAnswer(state), !.doc = d, !.kind = state]
  <2>2. req[h].content \in Content
    BY DEF Ranged, SlotsRanged
  <2>3. slot.content \in Content
    BY <2>2 DEF SettlementInv, Typed, ReqTyped, IsSlot, AnySlot
  <2>4. req' = [req EXCEPT ![h] = slot]
    BY <2>1
  <2> HIDE DEF slot
  <2>5. SlotsRanged'
    BY <2>3, <2>4, SlotsAfter DEF SettlementInv, Ranged
  <2>6. \A e \in Documents : pac'[e].content \in Content /\ pac'[e].listed \in BOOLEAN
    BY <2>1, <2>2, CreatesRanged
  <2>7. UNCHANGED <<pay, note, rec, late>>
    BY <1>4 DEF PacAnswers
  <2> QED
    BY <2>5, <2>6, <2>7, SameRanged DEF Ranged, CyclesRanged, DocumentsRanged
<1>5. ASSUME NEW h \in Handlers, CrashRequest(h) PROVE Ranged'
  <2>1. SlotsRanged' /\ UNCHANGED <<pay, note, rec, pac>>
    BY <1>5, AnswerRanged DEF CrashRequest, SettlementInv, Ranged
  <2>2. DocumentsRanged'
    BY <1>5, ArrivesRanged DEF CrashRequest, Ranged, DocumentsRanged
  <2> QED
    BY <2>1, <2>2, SameRanged DEF Ranged, CyclesRanged
<1>6. ASSUME NEW p \in Payments, RecoverFolio(p) PROVE Ranged'
  <2> DEFINE row == [pay[p] EXCEPT !.folio = TRUE]
  <2>1. WritePayment(p, row) /\ UNCHANGED <<req, rec, pac, late>>
    BY <1>6 DEF RecoverFolio
  <2>2. Ranges(row) /\ RowsTyped
    BY RowKinds, FolioRanges DEF Ranged, RowsRanged, SettlementInv, Typed
  <2> HIDE DEF row
  <2> QED
    BY <2>1, <2>2, PaymentWritten, RowKinds, WriteRanged DEF Ranged, SlotsRanged, DocumentsRanged
<1>7. CASE Next
  BY <1>1, <1>2, <1>3, <1>4, <1>5, <1>6, <1>7, UserRanged, ComplementRanged, NoteRanged,
     ReconcilerRanged, PacRanged DEF Next, HandlerStep
<1>8. CASE UNCHANGED vars
  BY <1>8, SameRanged DEF vars, Ranged, SlotsRanged, CyclesRanged, DocumentsRanged
<1> QED
  BY <1>7, <1>8

\* What the rows, requests, runs and documents hold stays within its range: no
\* sum, balance, number or counter leaves it, whoever writes and whatever fails.
THEOREM SettlementIsTyped == Spec => []TypeOK
<1>1. Spec => []Ranged
  BY InitRanged, NextRanged, SettlementInvariant, PTL DEF Spec
<1> QED
  BY <1>1, RangedIsTypeOK, SettlementInvariant, PTL

-----------------------------------------------------------------------------
(* The cap of the credit notes, as long as no note is edited or deleted.   *)

Drafted == {n \in Notes : note[n].status # "absent"}

\* No note was given up, so the cap counted every note that was drafted.
NotesStand == \A n \in Notes : note[n].status \notin {"deleted", "cancelled"}

NotesCapped == AmountSum(note, Drafted) <= Total

\* What is said of a credit note is what its row says.
SaidOf(rows, content, x) ==
    x \in Notes => rows[x].status # "absent" /\ content.amount = rows[x].amount

NotesTold ==
    /\ \A h \in Handlers : Emitting(h) => SaidOf(note, req[h].content, req[h].of)
    /\ \A l \in late : SaidOf(note, l.content, l.of)
    /\ \A d \in Documents : SaidOf(note, pac[d].content, pac[d].of)

NotesHeld == NotesStand /\ NotesCapped /\ NotesTold

\* What the steps do to a note once it is drafted.
NoteStands(before, after) ==
    /\ after.amount = before.amount
    /\ after.status = "absent" <=> before.status = "absent"
    /\ after.status \notin {"deleted", "cancelled"}

NotesKept == \A n \in Notes : NoteStands(note[n], note'[n])

LEMMA NotesAmount == ASSUME Ranged PROVE \A n \in Notes : note[n].amount \in 0..Total
BY RowKinds DEF Ranged, RowsRanged, Ranges, Row

LEMMA CreditedIs == \A S : CreditedBy(S) = AmountSum(note, S)
BY DEF CreditedBy, AmountSum

\* Notes that are kept are said and summed as before.
LEMMA KeptHolds ==
    ASSUME Ranged, NotesHeld, NotesKept
    PROVE  /\ NotesStand' /\ NotesCapped'
           /\ \A content, x : SaidOf(note, content, x) => SaidOf(note', content, x)
<1>1. Drafted' = Drafted
  BY DEF Drafted, NotesKept, NoteStands
<1>2. IsFiniteSet(Drafted) /\ \A n \in Drafted : note[n].amount \in Nat
  BY NotesAmount, SettlementAssumption, FS_Subset DEF Drafted
<1>3. \A n \in Drafted : note'[n].amount = note[n].amount
  BY DEF Drafted, NotesKept, NoteStands
<1>4. AmountSum(note', Drafted) = AmountSum(note, Drafted)
  BY <1>2, <1>3, AmountSumFacts
<1>5. NotesCapped'
  BY <1>1, <1>4 DEF NotesHeld, NotesCapped
<1> QED
  BY <1>5 DEF NotesStand, SaidOf, NotesKept, NoteStands

\* A new note is one that the cap has room for.
LEMMA DraftHolds ==
    ASSUME SettlementInv, Ranged, NotesHeld, NEW n \in Notes, DraftNote(n)
    PROVE  NotesHeld'
<1>1. PICK amount \in 1..Total :
         /\ WithinCap(n, amount)
         /\ note' = [note EXCEPT ![n] = [NoRecord EXCEPT !.status = "pending",
                                                         !.amount = amount]]
  BY DEF DraftNote
<1>2. note[n].status = "absent" /\ UNCHANGED <<pay, req, rec, fresh, pac, late>>
  BY DEF DraftNote
<1>3. note'[n].status = "pending" /\ note'[n].amount = amount
      /\ \A m \in Notes \ {n} : note'[m] = note[m]
  BY <1>1 DEF SettlementInv, Typed, RowsTyped, NoRecord
<1>4. NotesStand' /\ \A content, x : SaidOf(note, content, x) => SaidOf(note', content, x)
  BY <1>2, <1>3 DEF NotesHeld, NotesStand, SaidOf
<1>5. NotesTold'
  BY <1>2, <1>4 DEF NotesHeld, NotesTold, Emitting
<1>6. Drafted' = Drafted \cup {n} /\ n \notin Drafted
  BY <1>2, <1>3 DEF Drafted
<1>7. {m \in Notes \ {n} : Live(note[m]) /\ note[m].status # "cancelled"} = Drafted
  BY <1>2 DEF Drafted, Live, NotesHeld, NotesStand
<1>8. AmountSum(note, Drafted) + amount <= Total - RepBacked
  BY <1>1, <1>7, CreditedIs DEF WithinCap
<1>9. /\ IsFiniteSet(Drafted) /\ IsFiniteSet(Drafted \cup {n})
      /\ \A m \in Drafted : note[m].amount \in Nat /\ note'[m].amount = note[m].amount
      /\ \A m \in Drafted \cup {n} : note'[m].amount \in Nat
  <2>1. IsFiniteSet(Drafted)
    BY SettlementAssumption, FS_Subset DEF Drafted
  <2>2. IsFiniteSet(Drafted \cup {n})
    BY <2>1, FS_AddElement
  <2>3. \A m \in Drafted : m \in Notes \ {n}
    BY <1>6 DEF Drafted
  <2> QED
    BY <1>1, <1>3, <2>1, <2>2, <2>3, NotesAmount, SettlementAssumption
<1>10. AmountSum(note', Drafted \cup {n}) = amount + AmountSum(note', Drafted)
  <2> DEFINE S == Drafted \cup {n}
  <2>1. S \ {n} = Drafted /\ n \in S
    BY <1>6
  <2>2. IsFiniteSet(S) /\ \A m \in S : note'[m].amount \in Nat
    BY <1>9
  <2> HIDE DEF S
  <2>3. AmountSum(note', S) = note'[n].amount + AmountSum(note', S \ {n})
    BY <2>1, <2>2, AmountSumFacts
  <2> QED
    BY <1>3, <2>1, <2>3 DEF S
<1>11. AmountSum(note', Drafted) = AmountSum(note, Drafted) /\ AmountSum(note, Drafted) \in Nat
  BY <1>9, AmountSumFacts
<1>12. RepBacked \in Nat
  <2> DEFINE S == {p \in Payments : pay[p].status = "stamped"}
  <2>1. \A p \in S : pay[p].amount \in Nat
    BY RowKinds, SettlementAssumption DEF Ranged, RowsRanged, Ranges, Row
  <2>2. IsFiniteSet(S)
    BY SettlementAssumption, FS_Subset
  <2>3. RepBacked = AmountSum(pay, S)
    BY DEF RepBacked, PaidBy, AmountSum
  <2> HIDE DEF S
  <2> QED
    BY <2>1, <2>2, <2>3, AmountSumFacts
<1>13. NotesCapped'
  <2>1. AmountSum(note', Drafted \cup {n}) <= Total
    BY <1>8, <1>10, <1>11, <1>12, SettlementAssumption
  <2> QED
    BY <1>6, <2>1 DEF NotesCapped
<1> QED
  BY <1>4, <1>5, <1>13 DEF NotesHeld

\* A write of a note that leaves its amount.
LEMMA WriteKeeps ==
    ASSUME SettlementInv, NotesHeld, NEW n \in Notes, NEW row,
           (Becomes(n, row) /\ Live(RowOf(n))) \/ Becomes(n, RowOf(n)),
           Live(RowOf(n)) => /\ row.amount = note[n].amount
                             /\ row.status \notin {"absent", "deleted", "cancelled"}
    PROVE  NotesKept
<1>1. \A m \in Notes : m # n => note'[m] = note[m]
  BY RowKinds DEF Becomes
<1>2. NoteStands(note[n], note'[n])
  BY RowKinds DEF Becomes, Live, NoteStands, NotesHeld, NotesStand
<1>3. \A m \in Notes : NoteStands(note[m], note[m])
  BY DEF NoteStands, NotesHeld, NotesStand
<1> QED
  BY <1>1, <1>2, <1>3 DEF NotesKept

LEMMA SameKeeps == ASSUME NotesHeld, UNCHANGED note PROVE NotesKept
BY DEF NotesKept, NoteStands, NotesHeld, NotesStand

\* A write of a payment leaves the notes.
LEMMA PaymentKeeps ==
    /\ \A p, row : WritePayment(p, row) \/ WriteClaim(p, row) \/ UpdatePayment(p, row)
                      \/ ReleasePayment(p, row) => UNCHANGED note
    /\ RowsUnchanged => UNCHANGED note
BY DEF WritePayment, WriteClaim, UpdatePayment, ReleasePayment, RowsUnchanged

\* A request goes on with slot, which says of its note what the row says, or with
\* nothing to say; its call may be left behind.
LEMMA SlotTold ==
    ASSUME SettlementInv, Ranged, NotesHeld, NotesKept, NEW h \in Handlers, NEW slot,
           req' = [req EXCEPT ![h] = slot],
           slot.pc \in {"idle", "claim", "folio"} \/ SaidOf(note', slot.content, slot.of),
           UNCHANGED pac, (Serves(h, "sent") /\ MayArrive(h)) \/ UNCHANGED late
    PROVE  NotesHeld'
<1>1. \A content, x : SaidOf(note, content, x) => SaidOf(note', content, x)
  BY KeptHolds
<1>2. ASSUME NEW g \in Handlers, Emitting(g)' PROVE SaidOf(note', req'[g].content, req'[g].of)
  <2>1. CASE g = h
    <3>1. req'[h] = slot
      BY DEF SettlementInv, Typed, ReqTyped
    <3> QED
      BY <1>2, <2>1, <3>1 DEF Emitting
  <2>2. CASE g # h
    <3>1. req'[g] = req[g]
      BY <2>2 DEF SettlementInv, Typed, ReqTyped
    <3> QED
      BY <1>1, <1>2, <3>1 DEF Emitting, NotesHeld, NotesTold
  <2> QED
    BY <2>1, <2>2
<1>3. Serves(h, "sent") => SaidOf(note, req[h].content, req[h].of)
  BY DEF Serves, Emitting, NotesHeld, NotesTold
<1>4. \A l \in late' : SaidOf(note', l.content, l.of)
  BY <1>1, <1>3 DEF MayArrive, NotesHeld, NotesTold
<1>5. \A d \in Documents : SaidOf(note', pac'[d].content, pac'[d].of)
  BY <1>1 DEF NotesHeld, NotesTold
<1> QED
  BY <1>2, <1>4, <1>5, KeptHolds DEF NotesHeld, NotesTold

\* A row is written, and requests and documents say what they said.
LEMMA RowTold ==
    ASSUME Ranged, NotesHeld, NotesKept, UNCHANGED <<req, pac, late>>
    PROVE  NotesHeld'
BY KeptHolds DEF NotesHeld, NotesTold, Emitting

\* A document is created with what was said, or is the one there is.
LEMMA CreatesTold ==
    ASSUME SettlementInv, NotesHeld, NEW x, NEW content, SaidOf(note, content, x),
           NEW d, NEW state, Creates(x, content, d, state)
    PROVE  \A e \in Documents : SaidOf(note, pac'[e].content, pac'[e].of)
<1>1. CASE UNCHANGED pac
  BY <1>1 DEF NotesHeld, NotesTold
<1>2. CASE pac' = [pac EXCEPT ![d] = [of |-> x, content |-> content, state |-> state,
                                     listed |-> PacIsPrompt]]
  BY <1>2 DEF NotesHeld, NotesTold, SettlementInv, Typed, PacTyped
<1> QED
  BY <1>1, <1>2 DEF Creates

\* A document changes, but neither in what it says nor of what.
LEMMA MovedTold ==
    ASSUME SettlementInv, Ranged, NotesHeld, NEW d \in Documents, NEW after,
           pac' = [pac EXCEPT ![d] = after],
           after.content = pac[d].content, after.of = pac[d].of,
           UNCHANGED <<pay, note, req, late>>
    PROVE  NotesHeld'
<1>1. \A e \in Documents : pac'[e].content = pac[e].content /\ pac'[e].of = pac[e].of
  BY DEF SettlementInv, Typed, PacTyped
<1> QED
  BY <1>1, KeptHolds, SameKeeps DEF NotesHeld, NotesTold, Emitting

LEMMA UserHolds ==
    ASSUME SettlementInv, Ranged, NotesHeld, "edit" \notin UserMoves, "delete" \notin UserMoves,
           UserStep
    PROVE  NotesHeld'
<1>1. ASSUME NEW p \in Payments, RegisterPayment(p) PROVE NotesHeld'
  BY <1>1, SameKeeps, RowTold DEF RegisterPayment
<1> QED
  BY <1>1, DraftHolds
     DEF UserStep, EditPayment, DeletePayment, EditNote, DeleteNote

LEMMA ComplementHolds ==
    ASSUME SettlementInv, Ranged, NotesHeld, NEW h \in Handlers, ComplementStep(h)
    PROVE  NotesHeld'
<1>1. NotesKept
  BY PaymentKeeps, SameKeeps
     DEF ComplementStep, ClaimPayment, PrepareComplement, PrepareFails, RefuseComplement,
         ComplementUncertain, ComplementRefused, RecordComplement, FinishComplement, AssignFolio
<1>2. req[h].of \in Payments /\ req[h].of \notin Notes /\ IsSlot(req[h])
  BY RowKinds DEF ComplementStep, ClaimPayment, PrepareComplement, PrepareFails, RefuseComplement,
     ComplementUncertain, ComplementRefused, RecordComplement, FinishComplement, AssignFolio,
     ForPayment, SettlementInv, Typed, ReqTyped
<1>3. UNCHANGED pac /\ ((Serves(h, "sent") /\ MayArrive(h)) \/ UNCHANGED late)
  BY DEF ComplementStep, ClaimPayment, PrepareComplement, PrepareFails, RefuseComplement,
     ComplementUncertain, ComplementRefused, RecordComplement, FinishComplement, AssignFolio,
     ForPayment
<1>4. CASE Answer(h)
  BY <1>1, <1>3, <1>4, FreeSlotTyped, SlotTold DEF Answer
<1>5. CASE GoTo(h, "prepare") \/ GoTo(h, "folio")
  <2>1. PICK pc \in {"prepare", "folio"} : GoTo(h, pc)
    BY <1>5
  <2> DEFINE slot == [req[h] EXCEPT !.pc = pc]
  <2>2. slot.of \notin Notes
    BY <1>2, SlotGoesTo
  <2>3. req' = [req EXCEPT ![h] = slot] /\ SaidOf(note', slot.content, slot.of)
    BY <2>1, <2>2 DEF GoTo, SaidOf
  <2> HIDE DEF slot
  <2> QED
    BY <1>1, <1>3, <2>3, SlotTold
<1>6. CASE PrepareComplement(h)
  <2> DEFINE content == Prepared(req[h].of)
             slot == [req[h] EXCEPT !.pc = "check", !.content = content]
  <2>1. req' = [req EXCEPT ![h] = slot]
    BY <1>6 DEF PrepareComplement
  <2> HIDE DEF content
  <2>2. slot.of \notin Notes
    BY <1>2 DEF IsSlot, AnySlot
  <2>3. SaidOf(note', slot.content, slot.of)
    BY <2>2 DEF SaidOf
  <2> HIDE DEF slot
  <2> QED
    BY <1>1, <1>3, <2>1, <2>3, SlotTold
<1> QED
  BY <1>4, <1>5, <1>6 DEF ComplementStep, ClaimPayment, PrepareFails, RefuseComplement,
     ComplementUncertain, ComplementRefused, RecordComplement, FinishComplement, AssignFolio

\* A request for a note ends; what it writes leaves the amount.
LEMMA NoteEndsHeld ==
    ASSUME SettlementInv, Ranged, NotesHeld, NEW h \in Handlers, NEW n \in Notes, NEW row,
           IfStamping(n, row) \/ WriteNote(n, row) \/ RowsUnchanged,
           row.amount = note[n].amount,
           note[n].status = "stamping" \/ ~IfStamping(n, row) =>
               row.status \notin {"absent", "deleted", "cancelled"},
           Answer(h), UNCHANGED pac, (Serves(h, "sent") /\ MayArrive(h)) \/ UNCHANGED late
    PROVE  NotesHeld'
<1>1. RowsTyped
  BY DEF SettlementInv, Typed
<1>2. NotesKept
  <2>1. CASE RowsUnchanged
    BY <2>1, PaymentKeeps, SameKeeps
  <2>2. CASE WriteNote(n, row) /\ row.status \notin {"absent", "deleted", "cancelled"}
    BY <1>1, <2>2, NoteWritten, RowKinds, WriteKeeps
  <2> QED
    BY <2>1, <2>2 DEF IfStamping
<1> QED
  BY <1>2, FreeSlotTyped, SlotTold DEF Answer

LEMMA NoteHolds ==
    ASSUME SettlementInv, Ranged, NotesHeld, NEW h \in Handlers, NoteStep(h)
    PROVE  NotesHeld'
<1>1. PICK n \in Notes : n = req[h].of /\ IsRow(note[n]) /\ IsSlot(req[h]) /\ RowFacts(n, note[n])
  BY NoteAtHand DEF NoteStep, ClaimNote, RefuseNote, StubNote, NoteTimesOut, NoteRefused,
     RecordNote, FinishNote, NoteThrows, ForNote
<1>2. UNCHANGED pac /\ ((Serves(h, "sent") /\ MayArrive(h)) \/ UNCHANGED late)
  BY DEF NoteStep, ClaimNote, RefuseNote, StubNote, NoteTimesOut, NoteRefused,
     RecordNote, FinishNote, NoteThrows, ForNote
<1>3. CASE ClaimNote(h) /\ ClaimableNote(note[n])
  <2> DEFINE row == [note[n] EXCEPT !.status = "stamping", !.misses = 0]
             content == [Nothing EXCEPT !.amount = note[n].amount]
             slot == [req[h] EXCEPT !.pc = "check", !.content = content]
  <2>1. WriteNote(n, row) /\ req' = [req EXCEPT ![h] = slot]
    BY <1>1, <1>3 DEF ClaimNote
  <2>2. row.amount = note[n].amount /\ row.status = "stamping"
    BY <1>1 DEF IsRow, AnyRow
  <2>3. content.amount = note[n].amount
    BY DEF Nothing
  <2> HIDE DEF row, content
  <2>4. slot.content = content /\ slot.of = n
    BY <1>1 DEF IsSlot, AnySlot
  <2> HIDE DEF slot
  <2>5. NotesKept
    BY <2>1, <2>2, NoteWritten, RowKinds, WriteKeeps DEF SettlementInv, Typed
  <2>6. SaidOf(note', slot.content, slot.of)
    BY <1>3, <2>3, <2>4, <2>5 DEF SaidOf, NotesKept, NoteStands, ClaimableNote
  <2> QED
    BY <1>2, <2>1, <2>5, <2>6, SlotTold
<1>4. CASE RowsUnchanged /\ Answer(h)
  BY <1>2, <1>4, PaymentKeeps, SameKeeps, FreeSlotTyped, SlotTold DEF Answer
<1>5. CASE RefuseNote(h) \/ NoteRefused(h)
  <2> DEFINE row == [note[n] EXCEPT !.status = "error"]
  <2>1. IfStamping(n, row) /\ Answer(h)
    BY <1>1, <1>5 DEF RefuseNote, NoteRefused
  <2>2. row.amount = note[n].amount /\ row.status = "error"
    BY <1>1 DEF IsRow, AnyRow
  <2> HIDE DEF row
  <2> QED
    BY <1>2, <2>1, <2>2, NoteEndsHeld
<1>6. CASE StubNote(h)
  <2> DEFINE row == [note[n] EXCEPT !.status = "stamped", !.uuid = MockDoc]
  <2>1. (WriteNote(n, row) \/ RowsUnchanged) /\ Answer(h)
    BY <1>1, <1>6 DEF StubNote
  <2>2. row.amount = note[n].amount /\ row.status = "stamped"
    BY <1>1 DEF IsRow, AnyRow
  <2> HIDE DEF row
  <2> QED
    BY <1>2, <2>1, <2>2, NoteEndsHeld
<1>7. CASE RecordNote(h)
  <2> DEFINE status == IF req[h].kind = "failed" THEN "error" ELSE "stamping"
             row == [note[n] EXCEPT !.fid = req[h].doc, !.status = status]
  <2>1. IfStamping(n, row) /\ Answer(h)
    BY <1>1, <1>7 DEF RecordNote
  <2>2. row.amount = note[n].amount /\ row.status = status
    BY <1>1 DEF IsRow, AnyRow
  <2> HIDE DEF row
  <2> QED
    BY <1>2, <2>1, <2>2, NoteEndsHeld
<1>8. ASSUME NEW status \in {"stamped", "error"}, NEW archived \in BOOLEAN, Answer(h),
             IfStamping(n, [note[n] EXCEPT !.status = status, !.fid = req[h].doc,
                                           !.uuid = req[h].doc, !.xml = archived])
      PROVE  NotesHeld'
  <2> DEFINE row == [note[n] EXCEPT !.status = status, !.fid = req[h].doc,
                                    !.uuid = req[h].doc, !.xml = archived]
  <2>1. IfStamping(n, row)
    BY <1>8
  <2>2. row.amount = note[n].amount /\ row.status = status
    BY <1>1 DEF IsRow, AnyRow
  <2> HIDE DEF row
  <2> QED
    BY <1>2, <1>8, <2>1, <2>2, NoteEndsHeld
<1>9. CASE NoteThrows(h)
  <2> DEFINE row == [note[n] EXCEPT !.fid = req[h].doc, !.uuid = req[h].doc]
  <2>1. IfStamping(n, row) /\ Answer(h)
    BY <1>1, <1>9 DEF NoteThrows
  <2>2. row.amount = note[n].amount /\ row.status = note[n].status
    BY <1>1 DEF IsRow, AnyRow
  <2>3. note[n].status \notin {"absent", "deleted", "cancelled"}
        \/ (RowsUnchanged /\ note[n].status # "stamping")
    BY <2>1 DEF IfStamping
  <2> HIDE DEF row
  <2> QED
    BY <1>2, <1>4, <2>1, <2>2, <2>3, NoteEndsHeld
<1> QED
  BY <1>1, <1>3, <1>4, <1>5, <1>6, <1>7, <1>8, <1>9
     DEF NoteStep, ClaimNote, NoteTimesOut, FinishNote, RowsUnchanged

\* A run of the reconciliation writes columns other than the amount.
LEMMA RunHolds ==
    ASSUME SettlementInv, Ranged, NotesHeld, NEW r \in Reconcilers, NEW x \in Rows,
           x = rec[r].of, RowOf(x).status = "stamping", NEW row, Set(r, row),
           row.amount = RowOf(x).amount, row.status \in {"stamping", "error", "stamped"},
           UNCHANGED <<req, pac, late>>
    PROVE  NotesHeld'
<1>1. NotesKept
  <2>1. CASE x \in Payments
    BY <2>1, SameKeeps DEF Set
  <2>2. CASE x \notin Payments
    <3>1. x \in Notes /\ RowOf(x) = note[x] /\ Live(RowOf(x))
      BY <2>2, RowKinds DEF Live
    <3>2. Becomes(x, row)
      BY SetWrites DEF SettlementInv, Typed
    <3> QED
      BY <3>1, <3>2, WriteKeeps
  <2> QED
    BY <2>1, <2>2
<1> QED
  BY <1>1, RowTold

LEMMA ReconcilerHolds ==
    ASSUME SettlementInv, Ranged, NotesHeld, NEW r \in Reconcilers, ReconcilerStep(r)
    PROVE  NotesHeld'
<1>1. UNCHANGED <<req, pac, late>>
  BY DEF ReconcilerStep, SelectStuck, LeaveStuck, ClaimStuck, RecoverIds, NotYetStamped,
     MissDocument, ArchiveFiles, XmlFails
<1>2. CASE UNCHANGED note
  BY <1>1, <1>2, SameKeeps, RowTold
<1>3. CASE ~UNCHANGED note
  <2>1. PICK x \in Rows : x = rec[r].of /\ IsRow(RowOf(x)) /\ RowOf(x).status = "stamping"
    BY <1>3, RunAtHand DEF ReconcilerStep, SelectStuck, LeaveStuck, ClaimStuck, RecoverIds,
       NotYetStamped, MissDocument, ArchiveFiles, XmlFails, PersistAndGoOn, PersistAndRest
  <2>2. PICK row : /\ Set(r, row) /\ row.amount = RowOf(x).amount
                   /\ row.status \in {"stamping", "error", "stamped"}
    <3>1. CASE ClaimStuck(r)
      BY <2>1, <3>1 DEF ClaimStuck, PersistAndGoOn
    <3>2. CASE RecoverIds(r)
      <4>1. PICK d : Set(r, [RowOf(x) EXCEPT !.fid = d, !.uuid = d, !.misses = 0])
        BY <2>1, <3>2 DEF RecoverIds, PersistAndGoOn
      <4> DEFINE row == [RowOf(x) EXCEPT !.fid = d, !.uuid = d, !.misses = 0]
      <4>2. row.amount = RowOf(x).amount /\ row.status = "stamping"
        BY <2>1 DEF IsRow, AnyRow
      <4> HIDE DEF row
      <4> QED
        BY <4>1, <4>2 DEF row
    <3>3. CASE NotYetStamped(r)
      <4>1. PICK d : Set(r, [RowOf(x) EXCEPT !.fid = d,
                                !.status = IF pac[d].state = "failed" THEN "error" ELSE @])
        BY <2>1, <3>3 DEF NotYetStamped, PersistAndRest
      <4> DEFINE row == [RowOf(x) EXCEPT !.fid = d,
                            !.status = IF pac[d].state = "failed" THEN "error" ELSE @]
      <4>2. row.amount = RowOf(x).amount /\ row.status \in {"stamping", "error"}
        BY <2>1 DEF IsRow, AnyRow
      <4>3. Set(r, row)
        BY <4>1
      <4> HIDE DEF row
      <4> QED
        BY <4>2, <4>3
    <3>4. CASE MissDocument(r)
      <4> DEFINE row == Missed(RowOf(x), rec[r].misses)
      <4>1. row.amount = RowOf(x).amount /\ row.status \in {"stamping", "error"}
        BY <2>1 DEF IsRow, AnyRow, Missed
      <4>2. Set(r, row)
        BY <2>1, <3>4 DEF MissDocument, PersistAndRest
      <4> HIDE DEF row
      <4> QED
        BY <4>1, <4>2
    <3>5. CASE ArchiveFiles(r)
      <4> DEFINE row == [RowOf(x) EXCEPT !.status = "stamped", !.xml = TRUE,
                             !.xmlPending = FALSE, !.misses = 0, !.attempts = 0]
      <4>1. row.amount = RowOf(x).amount /\ row.status = "stamped"
        BY <2>1 DEF IsRow, AnyRow
      <4>2. Set(r, row)
        BY <2>1, <3>5 DEF ArchiveFiles, PersistAndRest
      <4> HIDE DEF row
      <4> QED
        BY <4>1, <4>2
    <3>6. CASE XmlFails(r)
      <4> DEFINE spent == rec[r].attempts + 1 >= MaxXmlAttempts
                 row == [RowOf(x) EXCEPT !.attempts = rec[r].attempts + 1,
                             !.status = IF spent THEN "stamped" ELSE @,
                             !.xmlPending = @ \/ spent]
      <4>1. row.amount = RowOf(x).amount /\ row.status \in {"stamped", "stamping"}
        BY <2>1 DEF IsRow, AnyRow
      <4>2. Set(r, row)
        BY <2>1, <3>6 DEF XmlFails, PersistAndRest
      <4> HIDE DEF row
      <4> QED
        BY <4>1, <4>2
    <3>7. ~LeaveStuck(r) /\ ~\E y \in Rows : SelectStuck(r, y)
      BY <1>3 DEF LeaveStuck, SelectStuck
    <3> QED
      BY <3>1, <3>2, <3>3, <3>4, <3>5, <3>6, <3>7 DEF ReconcilerStep
  <2> QED
    BY <1>1, <2>1, <2>2, RunHolds
<1> QED
  BY <1>2, <1>3

LEMMA PacHolds ==
    ASSUME SettlementInv, Ranged, NotesHeld, PacStep PROVE NotesHeld'
<1>1. ASSUME NEW l \in late, PacServesLate(l) PROVE NotesHeld'
  <2>1. SaidOf(note, l.content, l.of)
    BY DEF NotesHeld, NotesTold
  <2>2. \A d \in Documents : SaidOf(note, pac'[d].content, pac'[d].of)
    BY <1>1, <2>1, CreatesTold DEF PacServesLate, NotesHeld, NotesTold
  <2>3. late' \subseteq late /\ UNCHANGED <<pay, note, req>>
    BY <1>1 DEF PacServesLate
  <2> QED
    BY <2>2, <2>3, SameKeeps, KeptHolds DEF NotesHeld, NotesTold, Emitting
<1>2. \A d \in Documents : IsDocument(pac[d])
  BY DEF SettlementInv, Typed, PacTyped
<1>3. ASSUME NEW d \in Documents, NEW state, pac' = [pac EXCEPT ![d].state = state],
             UNCHANGED <<pay, note, req, late>>
      PROVE  NotesHeld'
  <2> DEFINE after == [pac[d] EXCEPT !.state = state]
  <2>1. after.content = pac[d].content /\ after.of = pac[d].of
    BY <1>2 DEF IsDocument, AnyDocument
  <2>2. pac' = [pac EXCEPT ![d] = after]
    BY <1>3
  <2> HIDE DEF after
  <2> QED
    BY <1>3, <2>1, <2>2, MovedTold
<1>4. ASSUME NEW d \in Documents, PacLists(d) PROVE NotesHeld'
  <2> DEFINE after == [pac[d] EXCEPT !.listed = TRUE]
  <2>1. after.content = pac[d].content /\ after.of = pac[d].of
    BY <1>2 DEF IsDocument, AnyDocument
  <2>2. pac' = [pac EXCEPT ![d] = after] /\ UNCHANGED <<pay, note, req, late>>
    BY <1>4 DEF PacLists
  <2> HIDE DEF after
  <2> QED
    BY <2>1, <2>2, MovedTold
<1>5. ASSUME NEW d \in Documents, PacSettles(d) PROVE NotesHeld'
  BY <1>3, <1>5 DEF PacSettles
<1>6. ASSUME NEW p \in Payments, SatCancels(p) PROVE NotesHeld'
  <2>1. pay[p].uuid \in Documents
    BY <1>6, RowKinds DEF SatCancels, SettlementInv, Typed, RowsTyped, IsRow, AnyRow, RowFacts
  <2> QED
    BY <1>3, <1>6, <2>1 DEF SatCancels
<1>7. ASSUME NEW p \in Payments, RecordCancelled(p) PROVE NotesHeld'
  BY <1>7, PaymentKeeps, SameKeeps, RowTold DEF RecordCancelled
<1> QED
  BY <1>1, <1>4, <1>5, <1>6, <1>7 DEF PacStep

\* The answer of the PAC.
LEMMA AnswerHolds ==
    ASSUME SettlementInv, Ranged, NotesHeld, NEW h \in Handlers, PacAnswers(h)
    PROVE  NotesHeld'
<1>1. PICK d \in Documents, state \in PacState :
         /\ Creates(req[h].of, req[h].content, d, state)
         /\ req' = [req EXCEPT ![h].pc = AfterAnswer(state), ![h].doc = d, ![h].kind = state]
  BY DEF PacAnswers
<1>2. UNCHANGED <<pay, note, rec, fresh, late>> /\ Emitting(h)
  BY DEF PacAnswers, Serves, Emitting
<1>3. SaidOf(note, req[h].content, req[h].of)
  BY <1>2 DEF NotesHeld, NotesTold
<1>4. \A e \in Documents : SaidOf(note, pac'[e].content, pac'[e].of)
  BY <1>1, <1>3, CreatesTold
<1>5. ASSUME NEW g \in Handlers, Emitting(g)' PROVE SaidOf(note, req'[g].content, req'[g].of)
  <2>1. req'[g].content = req[g].content /\ req'[g].of = req[g].of /\ Emitting(g)
    BY <1>1, <1>2, <1>5 DEF SettlementInv, Typed, ReqTyped, IsSlot, AnySlot, Emitting
  <2> QED
    BY <2>1 DEF NotesHeld, NotesTold
<1>6. NotesStand' /\ NotesCapped'
  BY <1>2, SameKeeps, KeptHolds
<1> QED
  BY <1>2, <1>4, <1>5, <1>6 DEF NotesHeld, NotesTold

LEMMA InitHeld == Init => NotesHeld
<1> SUFFICES ASSUME Init PROVE NotesHeld
  OBVIOUS
<1>1. \A n \in Notes : note[n].status = "absent"
  BY DEF Init, NoRecord
<1>2. Drafted = {} /\ NotesStand
  BY <1>1 DEF Drafted, NotesStand
<1>3. AmountSum(note, {}) <= Total
  <2> DEFINE D == {}
             units == Units([n \in D |-> note[n].amount], D)
  <2>1. IsFiniteSet(D) /\ \A d \in D : FALSE
    BY FS_EmptySet
  <2>2. units = {}
    BY DEF Units
  <2> HIDE DEF units
  <2>3. AmountSum(note, D) = Cardinality(units)
    BY <2>1, AmountSumIs DEF units
  <2>4. Cardinality({}) = 0
    BY FS_EmptySet
  <2>5. AmountSum(note, D) = 0
    BY <2>2, <2>3, <2>4
  <2> QED
    BY <2>5, SettlementAssumption
<1>4. \A d \in Documents : pac[d].of \notin Notes
  BY RowKinds DEF Init, NoDocument
<1>5. NotesTold
  BY <1>4 DEF Init, NotesTold, SaidOf, Emitting, FreeSlot
<1> QED
  BY <1>2, <1>3, <1>5 DEF NotesHeld, NotesCapped

LEMMA NextHeld ==
    ASSUME SettlementInv, Ranged, NotesHeld, "edit" \notin UserMoves, "delete" \notin UserMoves,
           [Next]_vars
    PROVE  NotesHeld'
<1>1. ASSUME NEW h \in Handlers, NEW x \in Rows, AskComplement(h, x) \/ AskNote(h, x)
      PROVE  NotesHeld'
  <2> DEFINE slot == [FreeSlot EXCEPT !.pc = "claim", !.of = x]
  <2>1. req' = [req EXCEPT ![h] = slot] /\ UNCHANGED <<pay, note, pac, late>>
    BY <1>1 DEF AskComplement, AskNote
  <2>2. slot.pc = "claim"
    BY DEF FreeSlot
  <2> HIDE DEF slot
  <2> QED
    BY <2>1, <2>2, SameKeeps, SlotTold
<1>2. ASSUME NEW h \in Handlers, SendToPac(h) PROVE NotesHeld'
  <2> DEFINE slot == [req[h] EXCEPT !.pc = "sent"]
  <2>1. req' = [req EXCEPT ![h] = slot] /\ UNCHANGED <<pay, note, pac, late>> /\ Emitting(h)
    BY <1>2 DEF SendToPac, GoTo, Serves, Emitting
  <2>2. slot.content = req[h].content /\ slot.of = req[h].of
    BY DEF SettlementInv, Typed, ReqTyped, IsSlot, AnySlot
  <2>3. SaidOf(note', slot.content, slot.of)
    BY <2>1, <2>2 DEF NotesHeld, NotesTold
  <2> HIDE DEF slot
  <2> QED
    BY <2>1, <2>3, SameKeeps, SlotTold
<1>3. ASSUME NEW h \in Handlers, CrashRequest(h) PROVE NotesHeld'
  <2>1. /\ req' = [req EXCEPT ![h] = FreeSlot] /\ UNCHANGED <<pay, note, pac>>
        /\ (Serves(h, "sent") /\ MayArrive(h)) \/ UNCHANGED late
    BY <1>3 DEF CrashRequest, Answer
  <2> QED
    BY <2>1, FreeSlotTyped, SameKeeps, SlotTold
<1>4. ASSUME NEW p \in Payments, RecoverFolio(p) PROVE NotesHeld'
  BY <1>4, PaymentKeeps, SameKeeps, RowTold DEF RecoverFolio
<1>5. CASE UNCHANGED vars
  BY <1>5, SameKeeps, RowTold DEF vars
<1>6. CASE Next
  <2>1. \A x : x \in Payments \/ x \in Notes => x \in Rows
    BY RowKinds
  <2> QED
    BY <1>1, <1>2, <1>3, <1>4, <1>6, <2>1, UserHolds, AnswerHolds, ComplementHolds, NoteHolds,
       ReconcilerHolds, PacHolds DEF Next, HandlerStep
<1> QED
  BY <1>5, <1>6

\* The SAT never holds credit notes for more than the invoice, when no user edits or
\* deletes a note: the trigger counts every note that was drafted, a request says
\* what the row says, and the PAC keeps one document for each note.
THEOREM CreditNotesWithinTotal ==
    "edit" \notin UserMoves /\ "delete" \notin UserMoves => (Spec => []NotesWithinTotal)
<1> SUFFICES ASSUME "edit" \notin UserMoves, "delete" \notin UserMoves
             PROVE  Spec => []NotesWithinTotal
  OBVIOUS
<1>1. Spec => [](Ranged /\ NotesHeld)
  BY InitRanged, NextRanged, InitHeld, NextHeld, SettlementInvariant, PTL DEF Spec
<1>2. SettlementInv /\ Ranged /\ NotesHeld => NotesWithinTotal
  <2> SUFFICES ASSUME SettlementInv, Ranged, NotesHeld PROVE NotesWithinTotal
    OBVIOUS
  <2>1. \A d \in Issued(Notes) : pac[d].of \in Drafted
                                  /\ pac[d].content.amount = note[pac[d].of].amount
    BY DEF Issued, NotesHeld, NotesTold, SaidOf, Drafted
  <2>2. \A d, e \in Issued(Notes) : pac[d].of = pac[e].of => d = e
    BY RowKinds DEF Issued, SettlementInv, OneDocument
  <2>3. IsFiniteSet(Drafted) /\ \A n \in Drafted : note[n].amount \in Nat
    BY NotesAmount, SettlementAssumption, FS_Subset DEF Drafted
  <2>4. ContentSum(pac, Issued(Notes)) <= AmountSum(note, Drafted)
        /\ ContentSum(pac, Issued(Notes)) \in Nat
    BY <2>1, <2>2, <2>3, SumsCompared
  <2>5. AmountSum(note, Drafted) \in Nat
    BY <2>3, AmountSumFacts
  <2>6. DeclaredBy(Notes) = ContentSum(pac, Issued(Notes))
    BY DEF DeclaredBy, ContentSum
  <2> QED
    BY <2>4, <2>5, <2>6, SettlementAssumption DEF NotesWithinTotal, NotesHeld, NotesCapped
<1> QED
  BY <1>1, <1>2, SettlementInvariant, PTL
=============================================================================
