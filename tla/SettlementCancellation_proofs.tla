-------------------- MODULE SettlementCancellation_proofs --------------------
(***************************************************************************)
(* Proofs about the cancellation of complements and credit notes, for any  *)
(* number of payments, notes, requests, refreshes, rows and runs, and any  *)
(* kinds of failure.                                                       *)
(*                                                                         *)
(* First the queue and the types.  Then that one request at a time works   *)
(* on a complement, that the database never runs ahead of the SAT, and     *)
(* that no row of the queue is closed as done without the SAT.             *)
(***************************************************************************)
EXTENDS SettlementCancellation, TLAPS

Lease == INSTANCE CfdiRetryQueue_proofs

-----------------------------------------------------------------------------
(* The queue inside the system.                                            *)

\* Each step of a request, a refresh or a run moves the queue as CfdiRetryQueue
\* says, or not at all.
LEMMA StepIsQueueStep ==
    ASSUME Next
    PROVE  [Queue!Next]_<<queue, hold>>
<1>1. CASE \E x \in Rows : Documents(x)
  BY <1>1 DEF Documents, RoomChanges, DeletePayment, Age, SatDecides, SatServesLate
<1>2. CASE \/ \E h \in Handlers, x \in Rows : UserCancels(h, x)
           \/ \E f \in Refreshers, x \in Rows : UserRefreshes(f, x)
           \/ \E f \in Refreshers : RefreshStep(f)
  BY <1>2 DEF UserCancels, UserRefreshes, RefreshStep, AskSat, RefreshFails, WriteRefresh
<1>3. ASSUME NEW h \in Handlers, CancelStep(h) \/ CrashCancel(h)
      PROVE  [Queue!Next]_<<queue, hold>>
  <2>1. CASE \E j \in Jobs : EnqueueRetry(h, j)
    BY <2>1 DEF EnqueueRetry, Queue!Next
  <2> QED
    BY <1>3, <2>1 DEF CancelStep, CrashCancel, ClaimRep, ExplainRep, ClaimNote, ConfigFails,
       CancelStub, SendToSat, SatAnswers, SatRefuses, TimeOut, ReleaseClaim, EnqueueLost,
       FinishCancellation
<1>4. ASSUME NEW c \in Consumers, ConsumerStep(c)
      PROVE  [Queue!Next]_<<queue, hold>>
  <2>1. CASE \E j \in Jobs : SelectRow(c, j)
    BY <2>1 DEF SelectRow, Queue!Next
  <2>2. CASE TakeRow(c) \/ SkipRow(c) \/ LoseRow(c)
    BY <2>2 DEF TakeRow, SkipRow, LoseRow, Queue!Next
  <2>3. CASE \/ ReadDocument(c) \/ InvokeGone(c) \/ Collect(c) \/ StopWaiting(c)
             \/ CheckCancelled(c)
    BY <2>3 DEF ReadDocument, InvokeGone, Collect, StopWaiting, CheckCancelled, Queue!Next,
       Queue!Outcome
  <2>4. CASE (\E h \in Handlers : Invoke(c, h)) \/ AskRefresh(c)
    BY <2>4 DEF Invoke, AskRefresh
  <2> QED
    BY <1>4, <2>1, <2>2, <2>3, <2>4 DEF ConsumerStep
<1> QED
  BY <1>1, <1>2, <1>3, <1>4 DEF Next

\* The cancellation of complements and notes implements the queue's specification:
\* no request or run touches a row in another way.
THEOREM RetriesImplementQueue == Spec => Queue!Spec
<1>1. Init => Queue!Init
  BY DEF Init
<1>2. [Next]_vars => [Queue!Next]_<<queue, hold>>
  BY StepIsQueueStep DEF vars
<1> QED
  BY <1>1, <1>2, PTL DEF Spec, Queue!Spec, Queue!queueVars

\* The module of the proofs names the same queue.
LEMMA SameQueue == Queue!Spec => Lease!Spec
<1>1. Queue!Init => Lease!Init
  BY DEF Queue!Init, Lease!Init, Queue!Idle, Lease!Idle, Queue!AbsentRow, Lease!AbsentRow
<1>2. [Queue!Next]_<<queue, hold>> => [Lease!Next]_<<queue, hold>>
  BY DEF Queue!Next, Lease!Next, Queue!Enqueue, Lease!Enqueue, Queue!SelectRow,
     Lease!SelectRow, Queue!Claim, Lease!Claim, Queue!ClaimSkipped, Lease!ClaimSkipped,
     Queue!Outcome, Lease!Outcome, Queue!LeaseLost, Lease!LeaseLost, Queue!Abandon,
     Lease!Abandon, Queue!AsRead, Lease!AsRead, Queue!Touched, Lease!Touched, Queue!Owns,
     Lease!Owns, Queue!Settle, Lease!Settle, Queue!Idle, Lease!Idle, Queue!InsertedRow,
     Lease!InsertedRow, Queue!AbsentRow, Lease!AbsentRow, Queue!SucceedRecovered,
     Lease!SucceedRecovered, Queue!SucceedInvoked, Lease!SucceedInvoked,
     Queue!SucceedRefreshed, Lease!SucceedRefreshed, Queue!Defer, Lease!Defer, Queue!GiveUp,
     Lease!GiveUp, Queue!GiveUpUncounted, Lease!GiveUpUncounted, Queue!DeferConflict,
     Lease!DeferConflict, Queue!RefuseConflict, Lease!RefuseConflict, Queue!RetryAnswered,
     Lease!RetryAnswered, Queue!RetryThrown, Lease!RetryThrown, Queue!Held, Lease!Held,
     Queue!IsCancel, Lease!IsCancel, Queue!TerminalStatus, Lease!TerminalStatus,
     Queue!CancelOps, Lease!CancelOps
<1> QED
  BY <1>1, <1>2, PTL DEF Lease!Spec, Queue!Spec, Queue!queueVars, Lease!queueVars

LEMMA QueueAssumed == Lease!QueueAssumption
BY CancelAssumption DEF Queue!QueueAssumption, Lease!QueueAssumption,
   Queue!Operations, Lease!Operations, Queue!CancelOps, Lease!CancelOps

\* What the system needs of the queue: its types, and that a run that works has
\* a row.
QueueInv ==
    /\ Queue!TypeOK
    /\ \A c \in Consumers : hold[c].phase # "idle" => hold[c].job \in Jobs

\* No matter how requests, refreshes and runs interleave, a row of the queue has
\* one owner.
THEOREM RetryHasOneOwner == Spec => []Queue!SingleOwner
<1>1. Lease!Spec => []Lease!SingleOwner
  BY QueueAssumed, Lease!QueueHasSingleOwner
<1>2. Lease!SingleOwner => Queue!SingleOwner
  BY DEF Lease!SingleOwner, Queue!SingleOwner, Lease!Owns, Queue!Owns
<1> QED
  BY <1>1, <1>2, RetriesImplementQueue, SameQueue, PTL

LEMMA QueueInvHolds == Spec => []QueueInv
<1>1. Lease!Spec => []Lease!LeaseInv
  BY QueueAssumed, Lease!LeaseInvariant
<1>2. Lease!LeaseInv => QueueInv
  BY DEF Lease!LeaseInv, QueueInv, Lease!TypeOK, Queue!TypeOK, Lease!Row, Queue!Row,
     Lease!Status, Queue!Status, Lease!Phase, Queue!Phase, Lease!Working, Lease!HoldsRealRow
<1> QED
  BY <1>1, <1>2, RetriesImplementQueue, SameQueue, PTL

-----------------------------------------------------------------------------
(* Types.                                                                  *)

ColumnsOK == row \in [Rows -> Row] /\ room \subseteq Notes

\* A request at work is about a row, and the outcome it is about to record is one
\* that the column admits.
RequestsOK ==
    /\ req \in [Handlers -> Slot]
    /\ \A h \in Handlers :
          /\ req[h].pc # "idle" => req[h].row \in Rows
          /\ req[h].pc = "finish" => req[h].kind \in Cancellation

\* Only notes are refreshed.
RefreshesOK ==
    /\ refresh \in [Refreshers -> Query]
    /\ \A f \in Refreshers : refresh[f].pc # "idle" => refresh[f].row \in Notes

SatOK == sat \in [Rows -> Cancellation] /\ late \subseteq Rows

\* A run that waits knows which request it waits for.
WorkOK ==
    /\ work \in [Consumers -> Work]
    /\ \A c \in Consumers : work[c].step = "await" => work[c].handler \in Handlers

Typed == ColumnsOK /\ RequestsOK /\ RefreshesOK /\ SatOK /\ WorkOK

\* The records of an idle slot, query or run are well typed.
LEMMA Records ==
    /\ FreeSlot \in Slot /\ FreeSlot.pc = "idle"
    /\ Resting \in Query /\ Resting.pc = "idle"
    /\ NoWork \in Work /\ NoWork.step # "await"
BY DEF FreeSlot, Slot, Resting, Query, NoWork, Work, Cancellation

LEMMA TypedInit == Init => Typed
<1> SUFFICES ASSUME Init PROVE Typed
  OBVIOUS
<1> USE DEF Init, InitRows
<1>1. ColumnsOK
  BY DEF ColumnsOK, Row, Cancellation
<1>2. RequestsOK /\ RefreshesOK /\ WorkOK
  BY Records DEF RequestsOK, RefreshesOK, WorkOK
<1>3. SatOK
  BY DEF SatOK, Cancellation
<1> QED
  BY <1>1, <1>2, <1>3 DEF Typed

\* What the UPDATE of an outcome leaves: the row as it was, or with the outcome.
LEMMA RecordShape ==
    ASSUME ColumnsOK, NEW x \in Rows, NEW status, Record(x, status)
    PROVE  \/ row' = row
           \/ /\ row[x].status # "deleted" /\ ~CapRefuses(x, status)
              /\ row' = [row EXCEPT ![x] = [known |-> row[x].known,
                           status |-> IF status = "accepted" THEN "cancelled" ELSE row[x].status,
                           cancel |-> status, aged |-> row[x].aged]]
<1> SUFFICES ASSUME row' # row PROVE row' = [row EXCEPT ![x] = [known |-> row[x].known,
                           status |-> IF status = "accepted" THEN "cancelled" ELSE row[x].status,
                           cancel |-> status, aged |-> row[x].aged]]
  BY DEF Record
<1>1. row[x] \in Row
  BY DEF ColumnsOK
<1>2. PICK new : new = [row[x] EXCEPT !.cancel = status,
                           !.status = IF status = "accepted" THEN "cancelled" ELSE @]
  OBVIOUS
<1>3. new = [known |-> row[x].known,
             status |-> IF status = "accepted" THEN "cancelled" ELSE row[x].status,
             cancel |-> status, aged |-> row[x].aged]
  BY <1>1, <1>2 DEF Row
<1>4. row' = [row EXCEPT ![x] = new]
  BY <1>2 DEF Record
<1> QED
  BY <1>3, <1>4

LEMMA RecordKeeps ==
    ASSUME ColumnsOK, NEW x \in Rows, NEW status \in Cancellation, Record(x, status)
    PROVE  row' \in [Rows -> Row]
BY RecordShape DEF ColumnsOK, Row

LEMMA ReleaseKeeps ==
    ASSUME ColumnsOK, NEW x \in Rows, Release(x)
    PROVE  row' \in [Rows -> Row]
BY DEF ColumnsOK, Release, Row, Cancellation

\* An answer ends a request, or leaves it to the run that made it.
LEMMA AnswerKeeps ==
    ASSUME RequestsOK, NEW h \in Handlers, req[h].pc # "idle",
           NEW kind \in {"ok", "progress", "error", "changed", "unavailable"},
           Answer(h, kind)
    PROVE  RequestsOK'
<1>1. req[h] \in Slot /\ req[h].row \in Rows
  BY DEF RequestsOK
<1>2. [req[h] EXCEPT !.pc = "answered", !.kind = kind] \in Slot
  BY <1>1 DEF Slot
<1> QED
  BY <1>1, <1>2, Records DEF RequestsOK, Answer, Slot

\* A move to another step of the same request.
LEMMA GoToKeeps ==
    ASSUME RequestsOK, NEW h \in Handlers, req[h].pc # "idle",
           NEW pc \in {"why", "config", "enqueue", "release", "reopen"}, GoTo(h, pc)
    PROVE  RequestsOK'
<1>1. req[h] \in Slot /\ req[h].row \in Rows
  BY DEF RequestsOK
<1>2. [req[h] EXCEPT !.pc = pc] \in Slot
  BY <1>1 DEF Slot
<1> QED
  BY <1>1, <1>2 DEF RequestsOK, GoTo, Slot

\* A request that begins, or is answered at once.
LEMMA RequestShape ==
    ASSUME RequestsOK, NEW h \in Handlers, NEW x, NEW caller, NEW job, NEW token,
           Request(h, x, caller, job, token)
    PROVE  /\ req[h].pc = "idle"
           /\ \E pc \in {"claim", "answered"} :
                req' = [req EXCEPT ![h] =
                          [pc |-> pc, row |-> x, caller |-> caller, job |-> job,
                           token |-> token, kind |-> IF pc = "claim" THEN "none" ELSE "error"]]
BY DEF Request, RequestRep, RequestNote, Start, Serves

LEMMA RequestKeeps ==
    ASSUME RequestsOK, NEW h \in Handlers, NEW x \in Rows,
           NEW caller \in Consumers \cup {User}, NEW job \in Jobs \cup {NoJob},
           NEW token \in Nat, Request(h, x, caller, job, token)
    PROVE  RequestsOK'
<1>1. PICK pc \in {"claim", "answered"} :
         req' = [req EXCEPT ![h] =
                   [pc |-> pc, row |-> x, caller |-> caller, job |-> job,
                    token |-> token, kind |-> IF pc = "claim" THEN "none" ELSE "error"]]
  BY RequestShape
<1>2. [pc |-> pc, row |-> x, caller |-> caller, job |-> job,
       token |-> token, kind |-> IF pc = "claim" THEN "none" ELSE "error"] \in Slot
  BY DEF Slot, Cancellation
<1> QED
  BY <1>1, <1>2 DEF RequestsOK, Slot

\* A refresh that begins reads a note.
LEMMA QueryKeeps ==
    ASSUME ColumnsOK, RefreshesOK, NEW f \in Refreshers, NEW x \in Rows,
           NEW job \in Jobs \cup {NoJob}, NEW token \in Nat,
           RefreshRequest(f, x, job, token)
    PROVE  RefreshesOK'
<1>1. x \in Notes /\ row[x].cancel \in Cancellation /\ row[x].aged \in BOOLEAN
  BY DEF ColumnsOK, Row, RefreshRequest, Refreshable
<1>2. [pc |-> "asked", row |-> x, job |-> job, token |-> token, prior |-> row[x].cancel,
       aged |-> row[x].aged, next |-> "none"] \in Query
  BY <1>1 DEF Query, Cancellation
<1> QED
  BY <1>1, <1>2 DEF RefreshesOK, RefreshRequest, Query

\* The SAT's answer to a request that arrives.
LEMMA ReachesKeeps ==
    ASSUME SatOK, NEW x \in Rows, Reaches(x), late' \subseteq Rows
    PROVE  SatOK'
BY DEF SatOK, Reaches, Served, Cancellation

-----------------------------------------------------------------------------
\* Every step keeps the types.

LEMMA DocumentsKeep ==
    ASSUME Typed, NEW x \in Rows, Documents(x), UNCHANGED work
    PROVE  Typed'
<1> USE DEF Typed
<1>1. WorkOK' /\ (UNCHANGED req => RequestsOK') /\ (UNCHANGED refresh => RefreshesOK')
  BY DEF WorkOK, RequestsOK, RefreshesOK
<1>2. CASE (x \in Notes /\ RoomChanges(x)) \/ (x \in Payments /\ DeletePayment(x)) \/ Age(x)
  <2>1. ColumnsOK'
    BY <1>2 DEF ColumnsOK, RoomChanges, DeletePayment, Age, Row
  <2> QED
    BY <1>1, <1>2, <2>1 DEF RoomChanges, DeletePayment, Age, SatOK
<1>3. CASE SatDecides(x)
  <2>1. SatOK'
    BY <1>3 DEF SatOK, SatDecides, Cancellation
  <2> QED
    BY <1>1, <1>3, <2>1 DEF SatDecides, ColumnsOK
<1>4. CASE SatServesLate(x)
  <2>1. late' \subseteq Rows
    BY <1>4 DEF SatOK, SatServesLate
  <2>2. SatOK'
    BY <1>4, <2>1, ReachesKeeps DEF SatOK, SatServesLate
  <2> QED
    BY <1>1, <1>4, <2>2 DEF SatServesLate, ColumnsOK
<1> QED
  BY <1>2, <1>3, <1>4 DEF Documents

\* A request of one of the cancel functions.
LEMMA CancelKeeps ==
    ASSUME Typed, NEW h \in Handlers, CancelStep(h) \/ CrashCancel(h), UNCHANGED work
    PROVE  Typed'
<1> DEFINE x == req[h].row
<1> USE DEF Typed, Serves
<1>1. /\ WorkOK'
      /\ UNCHANGED <<row, room>> => ColumnsOK'
      /\ UNCHANGED refresh => RefreshesOK'
      /\ UNCHANGED <<sat, late>> => SatOK'
  BY DEF WorkOK, ColumnsOK, RefreshesOK, SatOK
<1>2. row' \in [Rows -> Row] /\ UNCHANGED room => ColumnsOK'
  BY DEF ColumnsOK
<1>3. req[h] \in Slot /\ (req[h].pc # "idle" => x \in Rows)
  BY DEF RequestsOK
<1>4. CASE ClaimRep(h) \/ ClaimNote(h)
  <2>1. ColumnsOK'
    BY <1>1, <1>3, <1>4 DEF ClaimRep, ClaimNote, ColumnsOK, Row, Cancellation
  <2>2. RequestsOK'
    BY <1>4, GoToKeeps, AnswerKeeps DEF ClaimRep, ClaimNote
  <2> QED
    BY <1>1, <1>4, <2>1, <2>2 DEF ClaimRep, ClaimNote
<1>5. CASE ExplainRep(h) \/ (\E j \in Jobs : EnqueueRetry(h, j)) \/ EnqueueLost(h)
  <2>1. RequestsOK'
    BY <1>5, AnswerKeeps DEF ExplainRep, EnqueueRetry, EnqueueLost
  <2> QED
    BY <1>1, <1>5, <2>1 DEF ExplainRep, EnqueueRetry, EnqueueLost
<1>6. CASE ConfigFails(h)
  <2>1. RequestsOK'
    BY <1>6, AnswerKeeps DEF ConfigFails
  <2>2. ColumnsOK'
    BY <1>2, <1>3, <1>6, ReleaseKeeps DEF ConfigFails
  <2> QED
    BY <1>1, <1>6, <2>1, <2>2 DEF ConfigFails
<1>7. CASE CancelStub(h)
  <2>1. CASE Answer(h, "error") /\ Release(x)
    BY <1>1, <1>2, <1>3, <1>7, <2>1, AnswerKeeps, ReleaseKeeps DEF CancelStub
  <2>2. CASE /\ req' = [req EXCEPT ![h].pc = "finish", ![h].kind = "accepted",
                                ![h].job = NoJob, ![h].token = 0]
             /\ UNCHANGED row
    <3>1. [req[h] EXCEPT !.pc = "finish", !.kind = "accepted", !.job = NoJob, !.token = 0] \in Slot
      BY <1>3 DEF Slot, Cancellation
    <3>2. RequestsOK'
      BY <1>3, <1>7, <2>2, <3>1 DEF CancelStub, RequestsOK, Slot, Cancellation
    <3> QED
      BY <1>1, <1>7, <2>2, <3>2 DEF CancelStub
  <2> QED
    BY <1>7, <2>1, <2>2 DEF CancelStub
<1>8. CASE SendToSat(h)
  <2>1. [req[h] EXCEPT !.pc = "sent", !.job = NoJob, !.token = 0] \in Slot
    BY <1>3 DEF Slot
  <2>2. RequestsOK'
    BY <1>3, <1>8, <2>1 DEF SendToSat, RequestsOK, Slot
  <2> QED
    BY <1>1, <1>8, <2>2 DEF SendToSat
<1>9. CASE SatAnswers(h)
  <2>1. SatOK'
    BY <1>3, <1>9, ReachesKeeps DEF SatAnswers, SatOK
  <2>2. PICK s \in {sat'[x], "none"} :
           IF s = "none" THEN Answer(h, "error")
           ELSE req' = [req EXCEPT ![h].pc = "finish", ![h].kind = s]
    BY <1>9 DEF SatAnswers, Understood
  <2>3. s \in Cancellation
    BY <1>3, <1>9, <2>1 DEF SatAnswers, SatOK, Cancellation
  <2>4. [req[h] EXCEPT !.pc = "finish", !.kind = s] \in Slot
    BY <1>3, <2>3 DEF Slot
  <2>5. RequestsOK'
    <3>1. CASE s = "none"
      BY <1>9, <2>2, <3>1, AnswerKeeps DEF SatAnswers
    <3>2. CASE s # "none"
      BY <1>3, <1>9, <2>2, <2>3, <2>4, <3>2 DEF SatAnswers, RequestsOK, Slot
    <3> QED
      BY <3>1, <3>2
  <2> QED
    BY <1>1, <1>9, <2>1, <2>5 DEF SatAnswers
<1>10. CASE SatRefuses(h)
  <2>1. SatOK'
    BY <1>1, <1>3, <1>10, ReachesKeeps DEF SatRefuses, SatOK
  <2>2. RequestsOK'
    BY <1>10, GoToKeeps DEF SatRefuses
  <2> QED
    BY <1>1, <1>10, <2>1, <2>2 DEF SatRefuses
<1>11. CASE TimeOut(h)
  <2>1. SatOK' /\ RequestsOK'
    BY <1>3, <1>11, AnswerKeeps DEF TimeOut, SatOK
  <2> QED
    BY <1>1, <1>11, <2>1 DEF TimeOut
<1>12. CASE ReleaseClaim(h)
  <2>1. ColumnsOK' /\ RequestsOK'
    BY <1>2, <1>3, <1>12, ReleaseKeeps, AnswerKeeps, GoToKeeps DEF ReleaseClaim
  <2> QED
    BY <1>1, <1>12, <2>1 DEF ReleaseClaim
<1>13. CASE FinishCancellation(h)
  <2>1. x \in Rows /\ req[h].kind \in Cancellation
    BY <1>3, <1>13 DEF FinishCancellation, RequestsOK
  <2>2. ColumnsOK'
    BY <1>1, <1>2, <1>13, <2>1, RecordKeeps DEF FinishCancellation
  <2>3. RequestsOK'
    BY <1>13, AnswerKeeps DEF FinishCancellation
  <2> QED
    BY <1>1, <1>13, <2>2, <2>3 DEF FinishCancellation
<1>14. CASE CrashCancel(h)
  <2>1. RequestsOK'
    BY <1>14, Records DEF CrashCancel, RequestsOK
  <2>2. SatOK'
    BY <1>3, <1>14 DEF CrashCancel, SatOK
  <2> QED
    BY <1>1, <1>14, <2>1, <2>2 DEF CrashCancel
<1> QED
  BY <1>4, <1>5, <1>6, <1>7, <1>8, <1>9, <1>10, <1>11, <1>12, <1>13, <1>14 DEF CancelStep

\* A request of refresh-cancellation-status.
LEMMA RefreshKeeps ==
    ASSUME Typed, NEW f \in Refreshers, RefreshStep(f), UNCHANGED work
    PROVE  Typed'
<1> DEFINE r == refresh[f]
<1> USE DEF Typed
<1>1. /\ WorkOK'
      /\ UNCHANGED <<row, room>> => ColumnsOK'
      /\ UNCHANGED req => RequestsOK'
      /\ UNCHANGED <<sat, late>> => SatOK'
  BY DEF WorkOK, ColumnsOK, RequestsOK, SatOK
<1>2. r \in Query /\ (r.pc # "idle" => r.row \in Notes)
  BY DEF RefreshesOK
<1>3. CASE AskSat(f)
  <2>1. sat[r.row] \in Cancellation /\ r.row \in Notes
    BY <1>2, <1>3 DEF AskSat, SatOK, Rows
  <2>2. Refreshed(r.prior, r.aged, sat[r.row]) \in Cancellation
    BY <1>2, <2>1 DEF Refreshed, Query, Cancellation
  <2>3. \A n \in Cancellation :
           [Resting EXCEPT !.pc = "write", !.row = r.row, !.next = n] \in Query
    BY <2>1, Records DEF Query, Rows
  <2>4. RefreshesOK'
    BY <1>3, <2>1, <2>2, <2>3, Records DEF AskSat, RefreshesOK, Query, Resting
  <2> QED
    BY <1>1, <1>3, <2>4 DEF AskSat
<1>4. CASE RefreshFails(f)
  <2>1. RefreshesOK'
    BY <1>4, Records DEF RefreshFails, RefreshesOK
  <2> QED
    BY <1>1, <1>4, <2>1 DEF RefreshFails
<1>5. CASE WriteRefresh(f)
  <2>1. r.row \in Rows /\ r.next \in Cancellation
    BY <1>2, <1>5 DEF WriteRefresh, Query, Rows
  <2>2. ColumnsOK'
    BY <1>1, <1>5, <2>1, RecordKeeps DEF WriteRefresh, ColumnsOK
  <2>3. RefreshesOK'
    BY <1>5, Records DEF WriteRefresh, RefreshesOK
  <2> QED
    BY <1>1, <1>5, <2>2, <2>3 DEF WriteRefresh
<1> QED
  BY <1>3, <1>4, <1>5 DEF RefreshStep

\* A run of the queue that lets its request go.
LEMMA DisownKeeps ==
    ASSUME RequestsOK, NEW c \in Consumers, Disown(c)
    PROVE  RequestsOK'
<1>1. \A h \in Handlers : req[h] \in Slot
  BY DEF RequestsOK
<1>2. \A h \in Handlers : [req[h] EXCEPT !.caller = User] \in Slot
  BY <1>1 DEF Slot
<1> QED
  BY <1>1, <1>2, Records DEF RequestsOK, Disown, Slot

\* What a run that owns its row knows of it.
LEMMA OwnedRow ==
    ASSUME QueueInv, NEW c \in Consumers, hold[c].phase # "idle"
    PROVE  /\ hold[c].job \in Jobs
           /\ SubjectOf(c) \in Rows
           /\ hold[c].row.updatedAt \in Nat
BY CancelAssumption DEF QueueInv, Queue!TypeOK, Queue!Row, SubjectOf

\* A run of the queue.  It writes no row itself.
LEMMA ConsumerKeeps ==
    ASSUME Typed, QueueInv, NEW c \in Consumers, ConsumerStep(c)
    PROVE  Typed'
<1> USE DEF Typed
<1>1. /\ UNCHANGED <<row, room>> => ColumnsOK'
      /\ UNCHANGED req => RequestsOK'
      /\ UNCHANGED refresh => RefreshesOK'
      /\ UNCHANGED <<sat, late>> => SatOK'
      /\ UNCHANGED work => WorkOK'
  BY DEF WorkOK, ColumnsOK, RequestsOK, RefreshesOK, SatOK
<1>2. Done(c) => WorkOK'
  BY Records DEF Done, WorkOK
<1>3. \A step \in {"read", "invoke", "conflict", "check"} : StepTo(c, step) => WorkOK'
  BY DEF StepTo, WorkOK, Work
<1>4. UNCHANGED rowVars =>
        /\ UNCHANGED <<row, room>> /\ UNCHANGED req /\ UNCHANGED refresh
        /\ UNCHANGED <<sat, late>>
  BY DEF rowVars
<1>5. CASE (\E j \in Jobs : SelectRow(c, j)) \/ SkipRow(c)
  BY <1>1, <1>4, <1>5 DEF SelectRow, SkipRow
<1>6. CASE TakeRow(c) \/ ReadDocument(c) \/ InvokeGone(c) \/ CheckCancelled(c)
  BY <1>1, <1>2, <1>3, <1>4, <1>6 DEF TakeRow, ReadDocument, InvokeGone, CheckCancelled
<1>7. ASSUME NEW h \in Handlers, Invoke(c, h)
      PROVE  Typed'
  <2>1. RequestsOK'
    BY <1>7, RequestKeeps, OwnedRow DEF Invoke, Queue!Owns
  <2>2. WorkOK'
    BY <1>7 DEF Invoke, WorkOK, Work
  <2> QED
    BY <1>1, <1>7, <2>1, <2>2 DEF Invoke
<1>8. CASE Collect(c)
  <2>1. WorkOK'
    BY <1>1, <1>2, <1>3, <1>8 DEF Collect
  <2>2. RequestsOK'
    BY <1>8, Records DEF Collect, RequestsOK
  <2> QED
    BY <1>1, <1>8, <2>1, <2>2 DEF Collect
<1>9. CASE StopWaiting(c) \/ LoseRow(c)
  BY <1>1, <1>2, <1>9, DisownKeeps DEF StopWaiting, LoseRow
<1>10. CASE AskRefresh(c)
  <2>1. RefreshesOK'
    BY <1>1, <1>10, QueryKeeps, OwnedRow DEF AskRefresh, Queue!Owns
  <2> QED
    BY <1>1, <1>3, <1>10, <2>1 DEF AskRefresh
<1> QED
  BY <1>5, <1>6, <1>7, <1>8, <1>9, <1>10 DEF ConsumerStep

LEMMA TypedStep ==
    ASSUME Typed, QueueInv, [Next]_vars
    PROVE  Typed'
<1>1. CASE \E x \in Rows : Documents(x) /\ UNCHANGED work
  BY <1>1, DocumentsKeep
<1>2. ASSUME NEW h \in Handlers, NEW x \in Rows, UserCancels(h, x) /\ UNCHANGED work
      PROVE  Typed'
  <2>1. RequestsOK'
    BY <1>2, RequestKeeps DEF UserCancels, Typed
  <2> QED
    BY <1>2, <2>1 DEF UserCancels, Typed, ColumnsOK, RefreshesOK, SatOK, WorkOK
<1>3. ASSUME NEW f \in Refreshers, NEW x \in Rows, UserRefreshes(f, x) /\ UNCHANGED work
      PROVE  Typed'
  <2>1. RefreshesOK'
    BY <1>3, QueryKeeps DEF UserRefreshes, Typed
  <2> QED
    BY <1>3, <2>1 DEF UserRefreshes, Typed, ColumnsOK, RequestsOK, SatOK, WorkOK
<1>4. CASE \E h \in Handlers : (CancelStep(h) \/ CrashCancel(h)) /\ UNCHANGED work
  BY <1>4, CancelKeeps
<1>5. CASE \E f \in Refreshers : RefreshStep(f) /\ UNCHANGED work
  BY <1>5, RefreshKeeps
<1>6. CASE \E c \in Consumers : ConsumerStep(c)
  BY <1>6, ConsumerKeeps
<1>7. CASE UNCHANGED vars
  BY <1>7 DEF vars, Typed, ColumnsOK, RequestsOK, RefreshesOK, SatOK, WorkOK
<1> QED
  BY <1>1, <1>2, <1>3, <1>4, <1>5, <1>6, <1>7 DEF Next

LEMMA TypedHolds == Spec => []Typed
BY TypedInit, TypedStep, QueueInvHolds, PTL DEF Spec

\* Every reachable state is well typed: in particular cancellation_status of a
\* payment or a note only takes values its CHECK constraint admits, whatever the
\* PAC answers and whoever records it.
THEOREM SettlementCancellationTypeCorrect == Spec => []TypeOK
<1>1. Typed /\ QueueInv => TypeOK
  BY DEF Typed, QueueInv, TypeOK, RowsOK, ColumnsOK, RequestsOK, RefreshesOK, SatOK, WorkOK
<1> QED
  BY <1>1, TypedHolds, QueueInvHolds, PTL
-----------------------------------------------------------------------------
(* One request at a time.                                                  *)

\* What OneRequest says of one payment.
Alone(p) ==
    \A h \in Handlers : Working(h, p) =>
        /\ row[p].status = "stamped" /\ row[p].cancel = "pending"
        /\ \A g \in Handlers : Working(g, p) => g = h

\* The steps in which a request holds its claim.
AtWork == {"config", "sent", "release", "reopen", "finish"}

\* Nobody begins to work on a payment whose claim stays as it is.
LEMMA AloneStays ==
    ASSUME OneRequest, NEW p \in Payments,
           row'[p].status = row[p].status, row'[p].cancel = row[p].cancel,
           \A g \in Handlers : Working(g, p)' => Working(g, p)
    PROVE  Alone(p)'
BY DEF OneRequest, Alone

\* The one who works on a payment stops, and may do what it likes to the row.
LEMMA AloneEnds ==
    ASSUME OneRequest, NEW p \in Payments, NEW h \in Handlers, Working(h, p),
           req'[h].pc \notin AtWork, \A g \in Handlers \ {h} : req'[g] = req[g]
    PROVE  Alone(p)'
BY DEF OneRequest, Alone, Working, AtWork

\* No row is written, and no request begins to work.
LEMMA QuietAlone ==
    ASSUME OneRequest, UNCHANGED row,
           \A g \in Handlers : req'[g].pc \in AtWork =>
              req[g].pc \in AtWork /\ req'[g].row = req[g].row
    PROVE  OneRequest'
<1>1. \A p \in Payments : Alone(p)'
  BY AloneStays DEF Working, AtWork
<1> QED
  BY <1>1 DEF OneRequest, Alone

\* A request gives its claim back or records its outcome, and stops working.
LEMMA WorkEnds ==
    ASSUME OneRequest, NEW h \in Handlers, req[h].pc \in AtWork,
           req'[h].pc \notin AtWork, \A g \in Handlers \ {h} : req'[g] = req[g],
           \A x \in Payments \ {req[h].row} : row'[x] = row[x]
    PROVE  OneRequest'
<1> SUFFICES ASSUME NEW p \in Payments PROVE Alone(p)'
  BY DEF OneRequest, Alone
<1>1. CASE p = req[h].row
  BY <1>1, AloneEnds DEF Working, AtWork
<1>2. CASE p # req[h].row
  BY <1>2, AloneStays DEF Working, AtWork
<1> QED
  BY <1>1, <1>2

\* What an answer and a move leave of a request.
LEMMA AnswerStops ==
    ASSUME RequestsOK, NEW h \in Handlers, NEW kind, Answer(h, kind)
    PROVE  req'[h].pc \notin AtWork /\ \A g \in Handlers \ {h} : req'[g] = req[g]
<1>1. CASE req[h].caller = User
  BY <1>1 DEF RequestsOK, Answer, FreeSlot, AtWork
<1>2. CASE req[h].caller # User
  <2>1. req' = [req EXCEPT ![h] = [req[h] EXCEPT !.pc = "answered", !.kind = kind]]
    BY <1>2 DEF Answer
  <2>2. req[h] \in Slot
    BY DEF RequestsOK
  <2>3. req'[h] = [req[h] EXCEPT !.pc = "answered", !.kind = kind]
    BY <2>1 DEF RequestsOK
  <2>4. req'[h].pc = "answered"
    BY <2>2, <2>3 DEF Slot
  <2> QED
    BY <2>1, <2>4 DEF AtWork
<1> QED
  BY <1>1, <1>2

LEMMA GoToMoves ==
    ASSUME RequestsOK, NEW h \in Handlers, NEW pc, GoTo(h, pc)
    PROVE  /\ req'[h].pc = pc /\ req'[h].row = req[h].row
           /\ \A g \in Handlers \ {h} : req'[g] = req[g]
BY DEF RequestsOK, Slot, GoTo

LEMMA ReleaseAlone ==
    ASSUME ColumnsOK, NEW x \in Rows, Release(x)
    PROVE  \A y \in Rows \ {x} : row'[y] = row[y]
BY DEF ColumnsOK, Release

LEMMA RecordAlone ==
    ASSUME ColumnsOK, NEW x \in Rows, NEW status, Record(x, status)
    PROVE  \A y \in Rows \ {x} : row'[y] = row[y]
BY RecordShape DEF ColumnsOK

\* Deletions, time and the SAT: a payment at work is neither cancelled nor gone.
LEMMA DocumentsAlone ==
    ASSUME Typed, OneRequest, NEW x \in Rows, Documents(x)
    PROVE  OneRequest'
<1>1. row \in [Rows -> Row] /\ UNCHANGED req
  BY DEF Typed, ColumnsOK, Documents, RoomChanges, DeletePayment, Age, SatDecides,
     SatServesLate
<1>2. CASE x \in Payments /\ DeletePayment(x)
  <2>1. /\ \A y \in Rows \ {x} : row'[y] = row[y]
        /\ \A h \in Handlers : ~Working(h, x)
    BY <1>1, <1>2 DEF DeletePayment, OneRequest
  <2>2. \A p \in Payments : Alone(p)'
    <3> TAKE p \in Payments
    <3>1. CASE p = x
      BY <1>1, <2>1, <3>1 DEF Alone, Working
    <3>2. CASE p # x
      <4>1. row'[p] = row[p]
        BY <2>1, <3>2 DEF Rows
      <4> QED
        BY <1>1, <4>1, AloneStays DEF Working
    <3> QED
      BY <3>1, <3>2
  <2> QED
    BY <2>2 DEF OneRequest, Alone
<1>3. CASE Age(x)
  <2>1. \A y \in Rows : row'[y].status = row[y].status /\ row'[y].cancel = row[y].cancel
    BY <1>1, <1>3 DEF Age, Row
  <2>2. \A p \in Payments : Alone(p)'
    BY <1>1, <2>1, AloneStays DEF Working, Rows
  <2> QED
    BY <2>2 DEF OneRequest, Alone
<1>4. CASE (x \in Notes /\ RoomChanges(x)) \/ SatDecides(x) \/ SatServesLate(x)
  BY <1>1, <1>4, QuietAlone DEF RoomChanges, SatDecides, SatServesLate
<1> QED
  BY <1>2, <1>3, <1>4 DEF Documents

\* A request of one of the cancel functions.
LEMMA CancelAlone ==
    ASSUME Typed, OneRequest, NEW h \in Handlers, CancelStep(h) \/ CrashCancel(h)
    PROVE  OneRequest'
<1> DEFINE x == req[h].row
           others == \A g \in Handlers \ {h} : req'[g] = req[g]
           on == req'[h].pc \in AtWork => req[h].pc \in AtWork /\ req'[h].row = x
<1> USE DEF Serves
<1>1. /\ ColumnsOK /\ RequestsOK
      /\ req[h] \in Slot
      /\ req[h].pc # "idle" => x \in Rows
  BY DEF Typed, RequestsOK
<1>2. UNCHANGED row /\ others /\ on => OneRequest'
  BY QuietAlone
<1>3. ASSUME ClaimRep(h), Claimable(x)
      PROVE  OneRequest'
  <2>1. x \in Payments /\ x \in Rows /\ GoTo(h, "config")
    BY <1>1, <1>3 DEF ClaimRep
  <2>2. /\ req'[h].row = x
        /\ others
    BY <1>1, <2>1, GoToMoves
  <2>3. /\ row'[x].status = "stamped" /\ row'[x].cancel = "pending"
        /\ \A y \in Rows \ {x} : row'[y] = row[y]
    BY <1>1, <1>3, <2>1 DEF ClaimRep, Claimable, ColumnsOK, Row
  <2>4. \A g \in Handlers : ~Working(g, x)
    BY <1>3, <2>1 DEF OneRequest, Claimable
  <2> SUFFICES ASSUME NEW p \in Payments PROVE Alone(p)'
    BY DEF OneRequest, Alone
  <2>5. CASE p = x
    BY <2>2, <2>3, <2>4, <2>5 DEF Alone, Working
  <2>6. CASE p # x
    <3>1. row'[p] = row[p]
      BY <2>3, <2>6 DEF Rows
    <3>2. \A g \in Handlers : Working(g, p)' => Working(g, p)
      BY <2>2, <2>6 DEF Working
    <3> QED
      BY <3>1, <3>2, AloneStays
  <2> QED
    BY <2>5, <2>6
<1>4. ASSUME ClaimRep(h), ~Claimable(x)
      PROVE  OneRequest'
  BY <1>1, <1>2, <1>4, GoToMoves DEF ClaimRep, AtWork
<1>5. CASE ClaimNote(h)
  <2>1. x \in Notes /\ x \notin Payments
    BY <1>5, CancelAssumption DEF ClaimNote
  <2>2. \A p \in Payments : row'[p] = row[p]
    BY <1>1, <1>5, <2>1 DEF ClaimNote, ColumnsOK, Rows
  <2>3. others /\ (req'[h].pc \in AtWork => req'[h].row = x)
    BY <1>1, <1>5, GoToMoves, AnswerStops DEF ClaimNote
  <2>4. \A p \in Payments, g \in Handlers : Working(g, p)' => Working(g, p)
    BY <2>1, <2>3 DEF Working, AtWork
  <2>5. \A p \in Payments : Alone(p)'
    BY <2>2, <2>4, AloneStays
  <2> QED
    BY <2>5 DEF OneRequest, Alone
<1>6. CASE ExplainRep(h) \/ TimeOut(h) \/ (\E j \in Jobs : EnqueueRetry(h, j)) \/ EnqueueLost(h)
  <2>1. UNCHANGED row /\ others /\ on
    BY <1>1, <1>6, AnswerStops DEF ExplainRep, TimeOut, EnqueueRetry, EnqueueLost
  <2> QED
    BY <1>2, <2>1
<1>7. CASE ConfigFails(h)
  <2>1. /\ req[h].pc \in AtWork /\ req'[h].pc \notin AtWork /\ others
        /\ \A y \in Payments \ {x} : row'[y] = row[y]
    BY <1>1, <1>7, AnswerStops, ReleaseAlone DEF ConfigFails, AtWork, Rows
  <2> QED
    BY <2>1, WorkEnds
<1>8. CASE CancelStub(h)
  <2>1. req[h].pc \in AtWork
    BY <1>8 DEF CancelStub, AtWork
  <2>2. CASE Answer(h, "error") /\ Release(x)
    <3>1. /\ req'[h].pc \notin AtWork /\ others
          /\ \A y \in Payments \ {x} : row'[y] = row[y]
      BY <1>1, <2>1, <2>2, AnswerStops, ReleaseAlone DEF AtWork, Rows
    <3> QED
      BY <2>1, <3>1, WorkEnds
  <2>3. CASE /\ req' = [req EXCEPT ![h].pc = "finish", ![h].kind = "accepted",
                                ![h].job = NoJob, ![h].token = 0]
             /\ UNCHANGED row
    <3>1. others /\ req'[h].row = x
      BY <1>1, <2>3 DEF RequestsOK, Slot
    <3> QED
      BY <1>2, <2>1, <2>3, <3>1
  <2> QED
    BY <1>8, <2>2, <2>3 DEF CancelStub
<1>9. CASE SendToSat(h)
  <2>1. others /\ req'[h].row = x /\ req[h].pc \in AtWork /\ UNCHANGED row
    BY <1>1, <1>9 DEF SendToSat, RequestsOK, Slot, AtWork
  <2> QED
    BY <1>2, <2>1
<1>10. CASE SatAnswers(h)
  <2>1. PICK s : IF s = "none" THEN Answer(h, "error")
                 ELSE req' = [req EXCEPT ![h].pc = "finish", ![h].kind = s]
    BY <1>10 DEF SatAnswers, Understood
  <2>2. req[h].pc \in AtWork /\ UNCHANGED row
    BY <1>10 DEF SatAnswers, AtWork
  <2>3. others /\ on
    <3>1. CASE s = "none"
      BY <1>1, <2>1, <3>1, AnswerStops
    <3>2. CASE s # "none"
      BY <1>1, <2>1, <2>2, <3>2 DEF RequestsOK, Slot
    <3> QED
      BY <3>1, <3>2
  <2> QED
    BY <1>2, <2>2, <2>3
<1>11. CASE SatRefuses(h)
  <2>1. UNCHANGED row /\ others /\ on
    BY <1>1, <1>11, GoToMoves DEF SatRefuses, AtWork
  <2> QED
    BY <1>2, <2>1
<1>12. CASE ReleaseClaim(h)
  <2>1. /\ req[h].pc \in AtWork /\ others
        /\ req'[h].pc \notin AtWork
    BY <1>1, <1>12, AnswerStops, GoToMoves DEF ReleaseClaim, AtWork
  <2>2. \A y \in Payments \ {x} : row'[y] = row[y]
    BY <1>1, <1>12, ReleaseAlone DEF ReleaseClaim, Rows
  <2> QED
    BY <2>1, <2>2, WorkEnds
<1>13. CASE FinishCancellation(h)
  <2>1. req[h].pc \in AtWork /\ req'[h].pc \notin AtWork /\ others
    BY <1>1, <1>13, AnswerStops DEF FinishCancellation, AtWork
  <2>2. \A y \in Payments \ {x} : row'[y] = row[y]
    BY <1>1, <1>13, RecordAlone DEF FinishCancellation, Rows
  <2> QED
    BY <2>1, <2>2, WorkEnds
<1>14. CASE CrashCancel(h)
  <2>1. UNCHANGED row /\ others /\ on
    BY <1>1, <1>14 DEF CrashCancel, RequestsOK, FreeSlot, AtWork
  <2> QED
    BY <1>2, <2>1
<1> QED
  BY <1>3, <1>4, <1>5, <1>6, <1>7, <1>8, <1>9, <1>10, <1>11, <1>12, <1>13, <1>14 DEF CancelStep

\* Refreshes write notes only.
LEMMA RefreshAlone ==
    ASSUME Typed, OneRequest, NEW f \in Refreshers, RefreshStep(f)
    PROVE  OneRequest'
<1>1. UNCHANGED req /\ ColumnsOK
  BY DEF Typed, RefreshStep, AskSat, RefreshFails, WriteRefresh
<1>2. \A p \in Payments : row'[p] = row[p]
  <2>1. CASE AskSat(f) \/ RefreshFails(f)
    BY <2>1 DEF AskSat, RefreshFails
  <2>2. CASE WriteRefresh(f)
    <3>1. refresh[f].row \in Rows /\ refresh[f].row \notin Payments
      BY <2>2, CancelAssumption DEF WriteRefresh, Typed, RefreshesOK, Rows
    <3> QED
      BY <1>1, <2>2, <3>1, RecordAlone DEF WriteRefresh, Rows
  <2> QED
    BY <2>1, <2>2 DEF RefreshStep
<1>3. \A p \in Payments : Alone(p)'
  BY <1>1, <1>2, AloneStays DEF Working
<1> QED
  BY <1>3 DEF OneRequest, Alone

\* A request that begins does not work yet.
LEMMA RequestBegins ==
    ASSUME RequestsOK, NEW h \in Handlers, NEW x, NEW caller, NEW job, NEW token,
           Request(h, x, caller, job, token)
    PROVE  \A g \in Handlers : req'[g] = req[g] \/ req'[g].pc \notin AtWork
<1>1. PICK pc \in {"claim", "answered"} :
         req' = [req EXCEPT ![h] =
                   [pc |-> pc, row |-> x, caller |-> caller, job |-> job,
                    token |-> token, kind |-> IF pc = "claim" THEN "none" ELSE "error"]]
  BY RequestShape
<1> QED
  BY <1>1 DEF RequestsOK, AtWork

\* A run that lets its request go leaves it where it is.
LEMMA DisownMoves ==
    ASSUME RequestsOK, NEW c \in Consumers, Disown(c), NEW h \in Handlers
    PROVE  \/ req'[h] = FreeSlot
           \/ /\ req'[h].pc = req[h].pc /\ req'[h].row = req[h].row
              /\ req'[h].kind = req[h].kind
              /\ req'[h].caller \in {req[h].caller, User} \ {c}
<1>1. req[h] \in Slot /\ c # User
  BY CancelAssumption DEF RequestsOK
<1>2. CASE req[h].caller # c
  <2>1. req'[h] = req[h]
    BY <1>2 DEF Disown
  <2> QED
    BY <1>2, <2>1
<1>3. CASE req[h].caller = c /\ ~Serves(h, "answered")
  <2>1. req'[h] = [req[h] EXCEPT !.caller = User]
    BY <1>3 DEF Disown
  <2> QED
    BY <1>1, <2>1 DEF Slot
<1>4. CASE req[h].caller = c /\ Serves(h, "answered")
  BY <1>4 DEF Disown
<1> QED
  BY <1>2, <1>3, <1>4

LEMMA ConsumerAlone ==
    ASSUME Typed, OneRequest, NEW c \in Consumers, ConsumerStep(c)
    PROVE  OneRequest'
<1>1. RequestsOK
  BY DEF Typed
<1>2. UNCHANGED row
  BY DEF ConsumerStep, SelectRow, TakeRow, SkipRow, ReadDocument, Invoke, InvokeGone, Collect,
     StopWaiting, AskRefresh, CheckCancelled, LoseRow, rowVars
<1>3. \A g \in Handlers : req'[g].pc \in AtWork =>
         req[g].pc \in AtWork /\ req'[g].row = req[g].row
  <2>1. CASE UNCHANGED req
    BY <2>1
  <2>2. CASE \E h \in Handlers : Invoke(c, h)
    BY <1>1, <2>2, RequestBegins DEF Invoke
  <2>3. CASE Collect(c)
    BY <1>1, <2>3 DEF Collect, RequestsOK, FreeSlot, AtWork
  <2>4. CASE StopWaiting(c) \/ LoseRow(c)
    BY <1>1, <2>4, DisownMoves DEF StopWaiting, LoseRow, FreeSlot, AtWork
  <2> QED
    BY <2>1, <2>2, <2>3, <2>4 DEF ConsumerStep, SelectRow, TakeRow, SkipRow, ReadDocument,
       InvokeGone, AskRefresh, CheckCancelled, rowVars
<1> QED
  BY <1>2, <1>3, QuietAlone

LEMMA OneRequestStep ==
    ASSUME Typed, OneRequest, [Next]_vars
    PROVE  OneRequest'
<1>1. CASE \E x \in Rows : Documents(x)
  BY <1>1, DocumentsAlone
<1>2. CASE \E h \in Handlers, x \in Rows : UserCancels(h, x)
  BY <1>2, RequestBegins, QuietAlone DEF UserCancels, Typed
<1>3. CASE (\E f \in Refreshers, x \in Rows : UserRefreshes(f, x)) \/ UNCHANGED vars
  BY <1>3, QuietAlone DEF UserRefreshes, vars
<1>4. CASE \E h \in Handlers : CancelStep(h) \/ CrashCancel(h)
  BY <1>4, CancelAlone
<1>5. CASE \E f \in Refreshers : RefreshStep(f)
  BY <1>5, RefreshAlone
<1>6. CASE \E c \in Consumers : ConsumerStep(c)
  BY <1>6, ConsumerAlone
<1> QED
  BY <1>1, <1>2, <1>3, <1>4, <1>5, <1>6 DEF Next

\* For any number of requests, users and retries of the queue, one request at a
\* time works on a complement, and the claim is in the row while it does: nobody
\* else can give the claim back, write over it or delete the payment.
THEOREM ComplementHasOneRequest == Spec => []OneRequest
<1>1. Init => OneRequest
  BY DEF Init, InitRows, OneRequest, Working, FreeSlot
<1> QED
  BY <1>1, OneRequestStep, TypedHolds, PTL DEF Spec
-----------------------------------------------------------------------------
(* A run and the request it waits for.                                     *)

\* A run with a document holds the row, and a request that answers to a run is the
\* one the run waits for, about the document of its row.
AwaitedBy(h, c) ==
    work[c].step = "await" /\ work[c].handler = h /\ req[h].row = SubjectOf(c)

Paired ==
    /\ \A c \in Consumers : work[c].step # "none" => hold[c].phase = "owner"
    /\ \A h \in Handlers, c \in Consumers : req[h].caller = c => AwaitedBy(h, c)

\* A request changes hands only when it ends.
LEMMA HandlerPaired ==
    ASSUME Typed, NEW h \in Handlers, CancelStep(h) \/ CrashCancel(h), NEW g \in Handlers
    PROVE  \/ req'[g] = FreeSlot
           \/ req'[g].caller = req[g].caller /\ req'[g].row = req[g].row
<1> USE DEF Serves
<1>1. RequestsOK /\ req[h] \in Slot
  BY DEF Typed, RequestsOK
<1>2. \A kind : Answer(h, kind) =>
         \/ req'[g] = FreeSlot
         \/ req'[g].caller = req[g].caller /\ req'[g].row = req[g].row
  BY <1>1 DEF RequestsOK, Answer, Slot
<1>3. \A pc : GoTo(h, pc) => req'[g].caller = req[g].caller /\ req'[g].row = req[g].row
  BY <1>1 DEF RequestsOK, GoTo, Slot
<1>4. CASE ClaimRep(h) \/ ClaimNote(h) \/ SatRefuses(h) \/ ReleaseClaim(h)
  BY <1>2, <1>3, <1>4 DEF ClaimRep, ClaimNote, SatRefuses, ReleaseClaim
<1>5. CASE \/ ExplainRep(h) \/ ConfigFails(h) \/ TimeOut(h) \/ FinishCancellation(h)
           \/ (\E j \in Jobs : EnqueueRetry(h, j)) \/ EnqueueLost(h)
  BY <1>2, <1>5 DEF ExplainRep, ConfigFails, TimeOut, FinishCancellation, EnqueueRetry,
     EnqueueLost
<1>6. CASE CancelStub(h) \/ SendToSat(h)
  BY <1>1, <1>2, <1>6 DEF CancelStub, SendToSat, RequestsOK, Slot
<1>7. CASE SatAnswers(h)
  <2>1. PICK s : IF s = "none" THEN Answer(h, "error")
                 ELSE req' = [req EXCEPT ![h].pc = "finish", ![h].kind = s]
    BY <1>7 DEF SatAnswers, Understood
  <2>2. CASE s = "none"
    BY <1>2, <2>1, <2>2
  <2>3. CASE s # "none"
    BY <1>1, <2>1, <2>3 DEF RequestsOK, Slot
  <2> QED
    BY <2>2, <2>3
<1>8. CASE CrashCancel(h)
  BY <1>1, <1>8 DEF CrashCancel, RequestsOK
<1> QED
  BY <1>4, <1>5, <1>6, <1>7, <1>8 DEF CancelStep

\* Requests move, the runs do not.
LEMMA RequestsPaired ==
    ASSUME Paired, UNCHANGED <<hold, work>>,
           \A g \in Handlers :
              \/ req'[g].caller = User
              \/ req'[g].caller = req[g].caller /\ req'[g].row = req[g].row
    PROVE  Paired'
BY CancelAssumption DEF Paired, AwaitedBy, SubjectOf

\* One run moves, and nobody answers to it who does not answer to its new state.
LEMMA RunPaired ==
    ASSUME Paired, NEW c \in Consumers,
           \A d \in Consumers \ {c} : hold'[d] = hold[d] /\ work'[d] = work[d],
           work'[c].step # "none" => hold'[c].phase = "owner",
           \A h \in Handlers :
              \/ req'[h].caller = User
              \/ req'[h].caller # c /\ req'[h].caller = req[h].caller /\ req'[h].row = req[h].row
              \/ req'[h].caller = c /\ AwaitedBy(h, c)'
    PROVE  Paired'
<1>1. \A d \in Consumers : work'[d].step # "none" => hold'[d].phase = "owner"
  BY DEF Paired
<1>2. ASSUME NEW h \in Handlers, NEW d \in Consumers, req'[h].caller = d
      PROVE  AwaitedBy(h, d)'
  <2>1. d # User
    BY CancelAssumption
  <2>2. CASE d = c
    BY <1>2, <2>1, <2>2
  <2>3. CASE d # c
    BY <1>2, <2>1, <2>3 DEF Paired, AwaitedBy, SubjectOf
  <2> QED
    BY <2>2, <2>3
<1> QED
  BY <1>1, <1>2 DEF Paired

\* How a step of the queue leaves what the runs hold.
LEMMA SettleHolds ==
    ASSUME QueueInv, NEW c \in Consumers, NEW status, NEW attempts, NEW deferrals,
           Queue!Settle(c, status, attempts, deferrals)
    PROVE  /\ hold[c].phase = "owner" /\ hold'[c].phase = "idle"
           /\ \A d \in Consumers \ {c} : hold'[d] = hold[d]
           /\ hold[c].job \in Jobs
           /\ queue'[hold[c].job].status = status
           /\ \A j \in Jobs \ {hold[c].job} : queue'[j] = queue[j]
<1>1. queue' = [queue EXCEPT ![hold[c].job] =
                   Queue!Touched(queue[hold[c].job], status, attempts, deferrals)]
  BY DEF Queue!Settle
<1> QED
  BY <1>1 DEF Queue!Settle, Queue!Owns, Queue!Idle, Queue!Touched, QueueInv, Queue!TypeOK

\* The outcomes that do not close a row as done.
Unsuccessful(c) ==
    \/ Queue!Defer(c) \/ Queue!GiveUpUncounted(c) \/ Queue!DeferConflict(c)
    \/ Queue!RetryAnswered(c) \/ Queue!RetryThrown(c)

LEMMA UnsuccessfulHolds ==
    ASSUME QueueInv, NEW c \in Consumers, Unsuccessful(c)
    PROVE  /\ hold'[c].phase = "idle"
           /\ \A d \in Consumers \ {c} : hold'[d] = hold[d]
           /\ \A j \in Jobs : queue'[j].status = "succeeded" => queue[j].status = "succeeded"
<1>1. PICK status, attempts, deferrals :
         /\ status \in {"pending", "exhausted"}
         /\ Queue!Settle(c, status, attempts, deferrals)
  BY DEF Unsuccessful, Queue!Defer, Queue!GiveUpUncounted, Queue!DeferConflict,
     Queue!RetryAnswered, Queue!RetryThrown, Queue!TerminalStatus
<1> QED
  BY <1>1, SettleHolds

\* A row that is closed as done was closed by the run that owned it.
LEMMA SuccessHolds ==
    ASSUME QueueInv, NEW c \in Consumers,
           Queue!SucceedInvoked(c) \/ Queue!SucceedRefreshed(c)
    PROVE  /\ hold'[c].phase = "idle"
           /\ \A d \in Consumers \ {c} : hold'[d] = hold[d]
           /\ \A j \in Jobs : queue'[j].status = "succeeded" =>
                 queue[j].status = "succeeded" \/ DocOf[j] = SubjectOf(c)
<1>1. PICK attempts, deferrals : Queue!Settle(c, "succeeded", attempts, deferrals)
  BY DEF Queue!SucceedInvoked, Queue!SucceedRefreshed
<1> QED
  BY <1>1, SettleHolds DEF SubjectOf

\* What a run does to its own state.
LEMMA WorkMoves ==
    ASSUME Typed, NEW c \in Consumers
    PROVE  /\ Done(c) => work'[c].step = "none" /\ \A d \in Consumers \ {c} : work'[d] = work[d]
           /\ \A step : StepTo(c, step) =>
                 /\ work'[c].step = step /\ work'[c].handler = work[c].handler
                 /\ \A d \in Consumers \ {c} : work'[d] = work[d]
<1>1. work[c] \in Work /\ work \in [Consumers -> Work]
  BY DEF Typed, WorkOK
<1> QED
  BY <1>1 DEF Done, NoWork, StepTo, Work

LEMMA ConsumerPaired ==
    ASSUME Typed, QueueInv, Paired, NEW c \in Consumers, ConsumerStep(c)
    PROVE  Paired'
<1> DEFINE alone == \A d \in Consumers \ {c} : hold'[d] = hold[d]
<1>1. RequestsOK /\ c # User /\ hold \in [Consumers -> [phase: Queue!Phase,
                                   job: Jobs \cup {NoJob}, row: Queue!Row]]
  BY CancelAssumption DEF Typed, QueueInv, Queue!TypeOK
<1>2. \A h \in Handlers : req[h].caller = c =>
         work[c].step = "await" /\ work[c].handler = h /\ req[h].row = SubjectOf(c)
  BY DEF Paired, AwaitedBy
<1>3. CASE \E j \in Jobs : SelectRow(c, j)
  <2>1. hold[c].phase = "idle" /\ alone /\ UNCHANGED <<req, work>>
    BY <1>1, <1>3 DEF SelectRow, Queue!SelectRow, rowVars
  <2>2. work[c].step = "none"
    BY <2>1 DEF Paired
  <2> QED
    BY <1>2, <2>1, <2>2, RunPaired
<1>4. CASE TakeRow(c)
  <2>1. /\ hold[c].phase = "selected" /\ hold'[c].phase = "owner" /\ alone /\ UNCHANGED req
        /\ StepTo(c, "read")
    BY <1>1, <1>4 DEF TakeRow, Queue!Claim, rowVars
  <2>2. work[c].step = "none"
    BY <2>1 DEF Paired
  <2> QED
    BY <1>2, <2>1, <2>2, WorkMoves, RunPaired
<1>5. CASE SkipRow(c)
  <2>1. hold[c].phase = "selected" /\ alone /\ UNCHANGED <<req, work>>
    BY <1>1, <1>5 DEF SkipRow, Queue!ClaimSkipped, rowVars
  <2>2. work[c].step = "none"
    BY <2>1 DEF Paired
  <2> QED
    BY <1>2, <2>1, <2>2, RunPaired
<1>6. CASE ReadDocument(c) \/ InvokeGone(c) \/ CheckCancelled(c)
  <2>1. /\ work[c].step \in {"read", "invoke", "check"} /\ UNCHANGED req
        /\ \/ Unsuccessful(c) /\ Done(c)
           \/ Queue!SucceedRefreshed(c) /\ Done(c)
           \/ StepTo(c, "invoke") /\ UNCHANGED hold
    BY <1>6 DEF ReadDocument, InvokeGone, CheckCancelled, Step, Unsuccessful, rowVars
  <2>2. hold[c].phase = "owner" /\ \A h \in Handlers : req[h].caller # c
    BY <1>2, <2>1 DEF Paired
  <2>3. alone /\ (work'[c].step # "none" => hold'[c].phase = "owner")
    BY <2>1, <2>2, UnsuccessfulHolds, SuccessHolds, WorkMoves
  <2>4. \A d \in Consumers \ {c} : work'[d] = work[d]
    BY <2>1, WorkMoves
  <2> QED
    BY <2>1, <2>2, <2>3, <2>4, RunPaired
<1>7. ASSUME NEW h \in Handlers, Invoke(c, h)
      PROVE  Paired'
  <2>1. /\ work[c].step = "invoke" /\ hold[c].phase = "owner" /\ UNCHANGED hold
        /\ Request(h, SubjectOf(c), c, hold[c].job, hold[c].row.updatedAt)
    BY <1>7 DEF Invoke, Step, Queue!Owns
  <2>2. /\ work'[c].step = "await" /\ work'[c].handler = h
        /\ \A d \in Consumers \ {c} : work'[d] = work[d]
    BY <1>7 DEF Invoke, Typed, WorkOK, Work
  <2>3. PICK pc : req' = [req EXCEPT ![h] =
                   [pc |-> pc, row |-> SubjectOf(c), caller |-> c, job |-> hold[c].job,
                    token |-> hold[c].row.updatedAt,
                    kind |-> IF pc = "claim" THEN "none" ELSE "error"]]
    BY <1>1, <2>1, RequestShape
  <2>4. /\ req'[h].caller = c /\ AwaitedBy(h, c)'
        /\ \A g \in Handlers \ {h} : req'[g] = req[g]
    BY <1>1, <2>1, <2>2, <2>3 DEF RequestsOK, AwaitedBy, SubjectOf
  <2>5. \A g \in Handlers : req[g].caller # c
    BY <1>2, <2>1
  <2>6. \A g \in Handlers :
           \/ req'[g].caller # c /\ req'[g].caller = req[g].caller /\ req'[g].row = req[g].row
           \/ req'[g].caller = c /\ AwaitedBy(g, c)'
    BY <2>4, <2>5
  <2> QED
    BY <2>1, <2>2, <2>6, RunPaired
<1>8. CASE Collect(c)
  <2>1. /\ work[c].step = "await" /\ req[work[c].handler].caller = c
        /\ req' = [req EXCEPT ![work[c].handler] = FreeSlot]
        /\ \/ Unsuccessful(c) /\ Done(c)
           \/ Queue!SucceedInvoked(c) /\ Done(c)
           \/ StepTo(c, "conflict") /\ UNCHANGED hold
    BY <1>8 DEF Collect, Step, Unsuccessful
  <2>2. /\ hold[c].phase = "owner"
        /\ \A h \in Handlers : req'[h] = FreeSlot \/ (req'[h] = req[h] /\ req[h].caller # c)
    BY <1>1, <1>2, <2>1 DEF Paired, RequestsOK
  <2>3. alone /\ (work'[c].step # "none" => hold'[c].phase = "owner")
    BY <2>1, <2>2, UnsuccessfulHolds, SuccessHolds, WorkMoves
  <2>4. \A d \in Consumers \ {c} : work'[d] = work[d]
    BY <2>1, WorkMoves
  <2>5. \A h \in Handlers : \/ req'[h].caller = User
                            \/ /\ req'[h].caller # c /\ req'[h].caller = req[h].caller
                               /\ req'[h].row = req[h].row
    BY <2>2 DEF FreeSlot
  <2> QED
    BY <2>3, <2>4, <2>5, RunPaired
<1>9. CASE StopWaiting(c) \/ LoseRow(c)
  <2>1. /\ Disown(c) /\ Done(c)
        /\ Unsuccessful(c) \/ Queue!LeaseLost(c) \/ Queue!Abandon(c)
    BY <1>9 DEF StopWaiting, LoseRow, Unsuccessful
  <2>2. alone
    BY <1>1, <2>1, UnsuccessfulHolds DEF Queue!LeaseLost, Queue!Abandon
  <2>3. work'[c].step = "none" /\ \A d \in Consumers \ {c} : work'[d] = work[d]
    BY <2>1, WorkMoves
  <2>4. \A h \in Handlers : \/ req'[h].caller = User
                            \/ /\ req'[h].caller # c /\ req'[h].caller = req[h].caller
                               /\ req'[h].row = req[h].row
    BY <1>1, <2>1, DisownMoves DEF FreeSlot
  <2> QED
    BY <2>2, <2>3, <2>4, RunPaired
<1>10. CASE AskRefresh(c)
  <2>1. /\ work[c].step = "conflict" /\ hold[c].phase = "owner" /\ UNCHANGED <<hold, req>>
        /\ StepTo(c, "check")
    BY <1>10 DEF AskRefresh, Step, Queue!Owns
  <2> QED
    BY <1>2, <2>1, WorkMoves, RunPaired
<1> QED
  BY <1>3, <1>4, <1>5, <1>6, <1>7, <1>8, <1>9, <1>10 DEF ConsumerStep

LEMMA PairedStep ==
    ASSUME Typed, QueueInv, Paired, [Next]_vars
    PROVE  Paired'
<1>1. CASE \/ \E x \in Rows : Documents(x) /\ UNCHANGED work
           \/ \E f \in Refreshers, x \in Rows : UserRefreshes(f, x) /\ UNCHANGED work
           \/ \E f \in Refreshers : RefreshStep(f) /\ UNCHANGED work
           \/ UNCHANGED vars
  <2>1. UNCHANGED <<hold, work, req>>
    BY <1>1 DEF Documents, RoomChanges, DeletePayment, Age, SatDecides, SatServesLate,
       UserRefreshes, RefreshStep, AskSat, RefreshFails, WriteRefresh, vars
  <2> QED
    BY <2>1, RequestsPaired
<1>2. ASSUME NEW h \in Handlers, NEW x \in Rows, UserCancels(h, x) /\ UNCHANGED work
      PROVE  Paired'
  <2>1. UNCHANGED <<hold, work>> /\ RequestsOK /\ Request(h, x, User, NoJob, 0)
    BY <1>2 DEF UserCancels, Typed
  <2>2. PICK pc : req' = [req EXCEPT ![h] =
                   [pc |-> pc, row |-> x, caller |-> User, job |-> NoJob,
                    token |-> 0, kind |-> IF pc = "claim" THEN "none" ELSE "error"]]
    BY <2>1, RequestShape
  <2> QED
    BY <2>1, <2>2, RequestsPaired DEF RequestsOK
<1>3. ASSUME NEW h \in Handlers, (CancelStep(h) \/ CrashCancel(h)) /\ UNCHANGED work
      PROVE  Paired'
  <2>1. UNCHANGED <<hold, work>>
    BY <1>3 DEF CancelStep, CrashCancel, ClaimRep, ExplainRep, ClaimNote, ConfigFails,
       CancelStub, SendToSat, SatAnswers, SatRefuses, TimeOut, ReleaseClaim, EnqueueRetry,
       EnqueueLost, FinishCancellation, Queue!Enqueue
  <2> QED
    BY <1>3, <2>1, HandlerPaired, RequestsPaired DEF FreeSlot
<1>4. CASE \E c \in Consumers : ConsumerStep(c)
  BY <1>4, ConsumerPaired
<1> QED
  BY <1>1, <1>2, <1>3, <1>4 DEF Next

LEMMA PairedHolds == Spec => []Paired
<1>1. Init => Paired
  BY CancelAssumption DEF Init, InitRows, Paired, NoWork, FreeSlot
<1> QED
  BY <1>1, PairedStep, TypedHolds, QueueInvHolds, PTL DEF Spec
-----------------------------------------------------------------------------
(* What is known of the SAT.                                               *)

\* An acceptance of a document the PAC has is one the SAT gave, and a request for
\* it that counts as made has reached the SAT.
Backed(x) == row[x].known => sat[x] = "accepted"
Reached(x) == row[x].known => sat[x] # "none"

\* What a request is about to record, or reports as recorded, came from the SAT.
ToldRequest(h) ==
    /\ req[h].pc = "finish" => Reached(req[h].row)
    /\ req[h].pc = "finish" /\ req[h].kind = "accepted" => Backed(req[h].row)
    /\ req[h].pc = "answered" /\ req[h].kind = "ok" => Reached(req[h].row)

\* So did every acceptance that a refresh has read or is about to write.
ToldRefresh(f) ==
    /\ refresh[f].pc # "idle" /\ refresh[f].prior = "accepted" => Backed(refresh[f].row)
    /\ refresh[f].pc # "idle" /\ refresh[f].next = "accepted" => Backed(refresh[f].row)

Told ==
    /\ CancelledAtSat
    /\ DoneReachedSat
    /\ \A h \in Handlers : ToldRequest(h)
    /\ \A f \in Refreshers : ToldRefresh(f)

LEMMA ToldInit == Init => Told
<1> SUFFICES ASSUME Init PROVE Told
  OBVIOUS
<1> USE DEF Init, InitRows
<1>1. CancelledAtSat
  BY DEF CancelledAtSat
<1>2. DoneReachedSat
  BY DEF DoneReachedSat, Queue!Init, Queue!AbsentRow
<1>3. (\A h \in Handlers : ToldRequest(h)) /\ (\A f \in Refreshers : ToldRefresh(f))
  BY DEF ToldRequest, FreeSlot, ToldRefresh, Resting
<1> QED
  BY <1>1, <1>2, <1>3 DEF Told

\* No step changes whether the PAC has a document, and the SAT neither takes an
\* acceptance back nor forgets a request.
SatGrows ==
    \A x \in Rows : /\ row'[x].known = row[x].known
                    /\ sat[x] = "accepted" => sat'[x] = "accepted"
                    /\ sat[x] # "none" => sat'[x] # "none"

LEMMA SatAlone == ASSUME UNCHANGED <<row, sat>> PROVE SatGrows
BY DEF SatGrows

\* The SAT's answer is final once it is an acceptance, and reaching it is reaching it.
LEMMA ReachesGrows ==
    ASSUME SatOK, UNCHANGED row, NEW x \in Rows, Reaches(x)
    PROVE  SatGrows /\ sat'[x] # "none"
BY DEF SatOK, Reaches, Served, SatGrows

\* What is left alone stays true while the SAT goes on.
LEMMA ToldStays ==
    ASSUME Typed, Told, SatGrows
    PROVE  /\ \A h \in Handlers : req'[h] = req[h] => ToldRequest(h)'
           /\ \A f \in Refreshers : refresh'[f] = refresh[f] => ToldRefresh(f)'
           /\ \A x \in Rows : (Backed(x) => Backed(x)') /\ (Reached(x) => Reached(x)')
<1>1. \A x \in Rows : (Backed(x) => Backed(x)') /\ (Reached(x) => Reached(x)')
  BY DEF SatGrows, Backed, Reached
<1>2. \A h \in Handlers : req'[h] = req[h] => ToldRequest(h)'
  BY <1>1 DEF Told, Typed, RequestsOK, ToldRequest
<1>3. \A f \in Refreshers : refresh'[f] = refresh[f] => ToldRefresh(f)'
  BY <1>1 DEF Told, Typed, RefreshesOK, ToldRefresh, Rows
<1> QED
  BY <1>1, <1>2, <1>3

\* A row shows an acceptance only where it did, or where the SAT gave one.
LEMMA RowsTell ==
    ASSUME CancelledAtSat, SatGrows,
           \A x \in Rows :
              row'[x].status = "cancelled" \/ row'[x].cancel = "accepted" =>
                 row[x].status = "cancelled" \/ row[x].cancel = "accepted" \/ Backed(x)
    PROVE  CancelledAtSat'
BY DEF CancelledAtSat, SatGrows, Backed

\* A row of the queue is closed as done only where it was, or with the SAT asked.
LEMMA QueueTells ==
    ASSUME DoneReachedSat, SatGrows,
           \A j \in Jobs : queue'[j].status = "succeeded" =>
              queue[j].status = "succeeded" \/ Reached(DocOf[j])
    PROVE  DoneReachedSat'
<1>1. \A j \in Jobs : DocOf[j] \in Rows
  BY CancelAssumption
<1> QED
  BY <1>1 DEF DoneReachedSat, SatGrows, Reached

LEMMA RecordTells ==
    ASSUME ColumnsOK, CancelledAtSat, UNCHANGED sat, NEW x \in Rows, NEW status,
           Record(x, status), status = "accepted" => Backed(x)
    PROVE  SatGrows /\ CancelledAtSat'
<1>1. CASE row' = row
  BY <1>1, SatAlone, RowsTell
<1>2. CASE row' # row
  <2>1. /\ \A y \in Rows \ {x} : row'[y] = row[y]
        /\ row'[x].known = row[x].known
        /\ row'[x].cancel = status
        /\ row'[x].status = "cancelled" => row[x].status = "cancelled" \/ status = "accepted"
    BY <1>2, RecordShape DEF ColumnsOK
  <2>2. SatGrows
    BY <2>1 DEF SatGrows
  <2> QED
    BY <2>1, <2>2, RowsTell
<1> QED
  BY <1>1, <1>2

LEMMA ReleaseTells ==
    ASSUME ColumnsOK, CancelledAtSat, UNCHANGED sat, NEW x \in Rows, Release(x)
    PROVE  SatGrows /\ CancelledAtSat'
<1>1. \A y \in Rows :
         /\ row'[y].known = row[y].known /\ row'[y].status = row[y].status
         /\ row'[y].cancel = row[y].cancel \/ row'[y].cancel = "none"
  BY DEF ColumnsOK, Release, Row
<1> QED
  BY <1>1, RowsTell DEF SatGrows

\* An answer that is not "ok", and a move to a step that writes nothing of the
\* SAT's, claim nothing.
LEMMA AnswerTells ==
    ASSUME RequestsOK, NEW h \in Handlers, NEW kind, Answer(h, kind),
           req[h].row \in Rows,
           kind = "ok" => (row'[req[h].row].known => sat'[req[h].row] # "none")
    PROVE  ToldRequest(h)' /\ \A g \in Handlers \ {h} : req'[g] = req[g]
<1>1. req[h] \in Slot /\ \A g \in Handlers \ {h} : req'[g] = req[g]
  BY DEF RequestsOK, Answer
<1>2. CASE req[h].caller = User
  <2>1. req'[h] = FreeSlot
    BY <1>2 DEF RequestsOK, Answer
  <2> QED
    BY <1>1, <2>1 DEF ToldRequest, FreeSlot
<1>3. CASE req[h].caller # User
  <2>1. req'[h] = [req[h] EXCEPT !.pc = "answered", !.kind = kind]
    BY <1>3 DEF RequestsOK, Answer
  <2>2. req'[h].pc = "answered" /\ req'[h].kind = kind /\ req'[h].row = req[h].row
    BY <1>1, <2>1 DEF Slot
  <2> QED
    BY <1>1, <2>2 DEF ToldRequest, Reached
<1> QED
  BY <1>2, <1>3

LEMMA GoToTells ==
    ASSUME RequestsOK, NEW h \in Handlers,
           NEW pc \in {"why", "config", "enqueue", "release", "reopen"}, GoTo(h, pc)
    PROVE  ToldRequest(h)' /\ \A g \in Handlers \ {h} : req'[g] = req[g]
BY GoToMoves DEF ToldRequest
-----------------------------------------------------------------------------
\* Room, deletions, time and the SAT.
LEMMA DocumentsTell ==
    ASSUME Typed, Told, NEW x \in Rows, Documents(x)
    PROVE  Told'
<1>1. ColumnsOK /\ SatOK /\ CancelledAtSat /\ DoneReachedSat
  BY DEF Typed, Told
<1>2. UNCHANGED <<req, refresh, queue>>
  BY DEF Documents, RoomChanges, DeletePayment, Age, SatDecides, SatServesLate
<1>3. SatGrows /\ CancelledAtSat'
  <2>1. CASE RoomChanges(x) \/ DeletePayment(x) \/ Age(x)
    <3>1. UNCHANGED sat
      BY <2>1 DEF RoomChanges, DeletePayment, Age
    <3>2. \A y \in Rows : /\ row'[y].known = row[y].known
                          /\ row'[y].cancel = row[y].cancel
                          /\ row'[y].status \in {row[y].status, "deleted"}
      BY <1>1, <2>1 DEF RoomChanges, DeletePayment, Age, ColumnsOK, Row
    <3>3. SatGrows
      BY <3>1, <3>2 DEF SatGrows
    <3> QED
      BY <1>1, <3>2, <3>3, RowsTell
  <2>2. CASE SatDecides(x)
    <3>1. SatGrows /\ UNCHANGED row
      BY <1>1, <2>2 DEF SatDecides, SatOK, SatGrows
    <3> QED
      BY <1>1, <3>1, RowsTell
  <2>3. CASE SatServesLate(x)
    <3>1. UNCHANGED row /\ (UNCHANGED sat \/ Reaches(x))
      BY <2>3 DEF SatServesLate
    <3>2. SatGrows
      BY <1>1, <3>1, SatAlone, ReachesGrows
    <3> QED
      BY <1>1, <3>1, <3>2, RowsTell
  <2> QED
    BY <2>1, <2>2, <2>3 DEF Documents
<1> QED
  BY <1>1, <1>2, <1>3, ToldStays, QueueTells DEF Told

\* A request of one of the cancel functions.
LEMMA CancelTells ==
    ASSUME Typed, QueueInv, Told, NEW h \in Handlers, CancelStep(h) \/ CrashCancel(h)
    PROVE  Told'
<1> DEFINE x == req[h].row
           mine == ToldRequest(h)' /\ \A g \in Handlers \ {h} : req'[g] = req[g]
<1> USE DEF Serves
<1>1. /\ ColumnsOK /\ RequestsOK /\ SatOK /\ CancelledAtSat /\ DoneReachedSat
      /\ ToldRequest(h)
      /\ req[h] \in Slot
      /\ req[h].pc # "idle" => x \in Rows
  BY DEF Typed, Told, RequestsOK
<1>2. \A j \in Jobs : queue'[j].status = "succeeded" => queue[j].status = "succeeded"
  <2>1. CASE \E j \in Jobs : EnqueueRetry(h, j)
    <3>1. PICK k \in Jobs : queue' = [queue EXCEPT ![k] = Queue!InsertedRow]
      BY <2>1 DEF EnqueueRetry, Queue!Enqueue
    <3> QED
      BY <3>1 DEF Queue!InsertedRow, QueueInv, Queue!TypeOK
  <2>2. CASE ~\E j \in Jobs : EnqueueRetry(h, j)
    <3>1. UNCHANGED queue
      BY <2>2 DEF CancelStep, CrashCancel, ClaimRep, ExplainRep, ClaimNote, ConfigFails,
         CancelStub, SendToSat, SatAnswers, SatRefuses, TimeOut, ReleaseClaim, EnqueueLost,
         FinishCancellation
    <3> QED
      BY <3>1
  <2> QED
    BY <2>1, <2>2
<1>3. UNCHANGED refresh
  BY DEF CancelStep, CrashCancel, ClaimRep, ExplainRep, ClaimNote, ConfigFails,
     CancelStub, SendToSat, SatAnswers, SatRefuses, TimeOut, ReleaseClaim, EnqueueRetry,
     EnqueueLost, FinishCancellation
<1>4. SatGrows /\ CancelledAtSat' /\ mine => Told'
  BY <1>1, <1>2, <1>3, ToldStays, QueueTells DEF Told
<1>5. UNCHANGED <<row, sat>> => SatGrows /\ CancelledAtSat'
  BY <1>1, SatAlone, RowsTell
<1>6. CASE ClaimRep(h) \/ ClaimNote(h)
  <2>1. \A y \in Rows :
           /\ row'[y].known = row[y].known /\ row'[y].status = row[y].status
           /\ row'[y].cancel = row[y].cancel \/ row'[y].cancel = "pending"
    BY <1>1, <1>6 DEF ClaimRep, ClaimNote, ColumnsOK, Row
  <2>2. /\ x \in Rows /\ UNCHANGED sat
        /\ GoTo(h, "config") \/ GoTo(h, "why") \/ Answer(h, "progress")
    BY <1>1, <1>6 DEF ClaimRep, ClaimNote
  <2>3. SatGrows
    BY <2>1, <2>2 DEF SatGrows
  <2>4. CancelledAtSat'
    BY <1>1, <2>1, <2>3, RowsTell
  <2>5. mine
    BY <1>1, <2>2, GoToTells, AnswerTells
  <2> QED
    BY <1>4, <2>3, <2>4, <2>5
<1>7. CASE ConfigFails(h) \/ ReleaseClaim(h)
  <2>1. Release(x) /\ x \in Rows /\ UNCHANGED sat
    BY <1>1, <1>7 DEF ConfigFails, ReleaseClaim
  <2>2. mine
    BY <1>1, <1>7, <2>1, AnswerTells, GoToTells DEF ConfigFails, ReleaseClaim
  <2> QED
    BY <1>1, <1>4, <2>1, <2>2, ReleaseTells
<1>8. CASE CancelStub(h)
  <2>1. ~row[x].known /\ x \in Rows /\ UNCHANGED sat
    BY <1>1, <1>8 DEF CancelStub
  <2>2. CASE Answer(h, "error") /\ Release(x)
    BY <1>1, <1>4, <2>1, <2>2, AnswerTells, ReleaseTells
  <2>3. CASE /\ req' = [req EXCEPT ![h].pc = "finish", ![h].kind = "accepted",
                                ![h].job = NoJob, ![h].token = 0]
             /\ UNCHANGED row
    <3>1. /\ req'[h].row = x /\ req'[h].pc = "finish"
          /\ \A g \in Handlers \ {h} : req'[g] = req[g]
      BY <1>1, <2>3 DEF RequestsOK, Slot
    <3>2. ToldRequest(h)'
      BY <2>1, <2>3, <3>1 DEF ToldRequest, Backed, Reached
    <3> QED
      BY <1>4, <1>5, <2>1, <2>3, <3>1, <3>2
  <2> QED
    BY <1>8, <2>2, <2>3 DEF CancelStub
<1>9. CASE SendToSat(h)
  <2>1. /\ req'[h].pc = "sent" /\ UNCHANGED <<row, sat>>
        /\ \A g \in Handlers \ {h} : req'[g] = req[g]
    BY <1>1, <1>9 DEF SendToSat, RequestsOK, Slot
  <2> QED
    BY <1>4, <1>5, <2>1 DEF ToldRequest
<1>10. CASE SatAnswers(h)
  <2>1. x \in Rows /\ Reaches(x) /\ UNCHANGED row
    BY <1>1, <1>10 DEF SatAnswers
  <2>2. SatGrows /\ sat'[x] # "none" /\ CancelledAtSat'
    BY <1>1, <2>1, ReachesGrows, RowsTell
  <2>3. PICK s \in {sat'[x], "none"} :
           IF s = "none" THEN Answer(h, "error")
           ELSE req' = [req EXCEPT ![h].pc = "finish", ![h].kind = s]
    BY <1>10 DEF SatAnswers, Understood
  <2>4. CASE s = "none"
    BY <1>1, <1>4, <2>1, <2>2, <2>3, <2>4, AnswerTells
  <2>5. CASE s # "none"
    <3>1. /\ req'[h].row = x /\ req'[h].kind = sat'[x] /\ req'[h].pc = "finish"
          /\ \A g \in Handlers \ {h} : req'[g] = req[g]
      BY <1>1, <2>3, <2>5 DEF RequestsOK, Slot
    <3>2. ToldRequest(h)'
      BY <2>2, <3>1 DEF ToldRequest, Backed, Reached
    <3> QED
      BY <1>4, <2>2, <3>1, <3>2
  <2> QED
    BY <2>4, <2>5
<1>11. CASE SatRefuses(h)
  <2>1. /\ x \in Rows /\ UNCHANGED row
        /\ UNCHANGED sat \/ Reaches(x)
        /\ GoTo(h, "release") \/ GoTo(h, "reopen")
    BY <1>1, <1>11 DEF SatRefuses
  <2>2. SatGrows
    BY <1>1, <2>1, ReachesGrows, SatAlone
  <2> QED
    BY <1>1, <1>4, <2>1, <2>2, RowsTell, GoToTells
<1>12. CASE \/ ExplainRep(h) \/ TimeOut(h) \/ (\E j \in Jobs : EnqueueRetry(h, j))
            \/ EnqueueLost(h)
  <2>1. /\ UNCHANGED <<row, sat>> /\ x \in Rows
        /\ Answer(h, "progress") \/ Answer(h, "error")
    BY <1>1, <1>12 DEF ExplainRep, TimeOut, EnqueueRetry, EnqueueLost
  <2> QED
    BY <1>1, <1>4, <1>5, <2>1, AnswerTells
<1>13. CASE FinishCancellation(h)
  <2>1. /\ x \in Rows /\ UNCHANGED sat
        /\ Reached(x) /\ (req[h].kind = "accepted" => Backed(x))
    BY <1>1, <1>13 DEF FinishCancellation, ToldRequest
  <2>2. Record(x, req[h].kind) \/ UNCHANGED row
    BY <1>13 DEF FinishCancellation
  <2>3. SatGrows /\ CancelledAtSat'
    BY <1>1, <1>5, <2>1, <2>2, RecordTells
  <2>4. row'[x].known => sat'[x] # "none"
    BY <2>1, <2>3 DEF Reached, SatGrows
  <2>5. mine
    BY <1>1, <1>13, <2>1, <2>4, AnswerTells DEF FinishCancellation
  <2> QED
    BY <1>4, <2>3, <2>5
<1>14. CASE CrashCancel(h)
  <2>1. /\ req'[h] = FreeSlot /\ UNCHANGED <<row, sat>>
        /\ \A g \in Handlers \ {h} : req'[g] = req[g]
    BY <1>1, <1>14 DEF CrashCancel, RequestsOK
  <2> QED
    BY <1>4, <1>5, <2>1 DEF ToldRequest, FreeSlot
<1> QED
  BY <1>6, <1>7, <1>8, <1>9, <1>10, <1>11, <1>12, <1>13, <1>14 DEF CancelStep

\* A refresh that begins: the status it reads is backed by the invariant.
LEMMA QueryTells ==
    ASSUME Typed, Told, UNCHANGED <<row, sat>>, NEW f \in Refreshers, NEW x \in Rows,
           NEW job, NEW token, RefreshRequest(f, x, job, token)
    PROVE  ToldRefresh(f)' /\ \A g \in Refreshers \ {f} : refresh'[g] = refresh[g]
<1>1. row[x].cancel = "accepted" => Backed(x)
  BY DEF Told, CancelledAtSat, Backed
<1>2. /\ refresh'[f].row = x /\ refresh'[f].prior = row[x].cancel
      /\ refresh'[f].next = "none"
      /\ \A g \in Refreshers \ {f} : refresh'[g] = refresh[g]
  BY DEF Typed, RefreshesOK, RefreshRequest
<1> QED
  BY <1>1, <1>2 DEF ToldRefresh, Backed

\* A request of refresh-cancellation-status.  However old the status it read, an
\* acceptance in it was true and is still.
LEMMA RefreshTells ==
    ASSUME Typed, Told, NEW f \in Refreshers, RefreshStep(f)
    PROVE  Told'
<1> DEFINE r == refresh[f]
           mine == ToldRefresh(f)' /\ \A g \in Refreshers \ {f} : refresh'[g] = refresh[g]
<1>1. /\ ColumnsOK /\ RefreshesOK /\ CancelledAtSat /\ DoneReachedSat /\ ToldRefresh(f)
      /\ r \in Query
      /\ r.pc # "idle" => r.row \in Rows
      /\ UNCHANGED <<queue, req, sat>>
  BY DEF Typed, Told, RefreshesOK, Rows, RefreshStep, AskSat, RefreshFails, WriteRefresh
<1>2. SatGrows /\ CancelledAtSat' /\ mine => Told'
  BY <1>1, ToldStays, QueueTells DEF Told
<1>3. UNCHANGED row => SatGrows /\ CancelledAtSat'
  BY <1>1, SatAlone, RowsTell
<1>4. refresh'[f] = Resting => ToldRefresh(f)'
  BY DEF ToldRefresh, Resting
<1>5. CASE AskSat(f)
  <2> DEFINE next == Refreshed(r.prior, r.aged, sat[r.row])
  <2>1. next = "accepted" => Backed(r.row)
    BY <1>1, <1>5 DEF Refreshed, AskSat, ToldRefresh, Backed
  <2>2. /\ refresh'[f] = Resting
             \/ (refresh'[f].row = r.row /\ refresh'[f].next = next
                                         /\ refresh'[f].prior = "none")
        /\ \A g \in Refreshers \ {f} : refresh'[g] = refresh[g]
        /\ UNCHANGED row
    BY <1>1, <1>5 DEF AskSat, RefreshesOK, Resting
  <2>3. mine
    BY <1>1, <1>4, <2>1, <2>2 DEF ToldRefresh, Backed
  <2> QED
    BY <1>2, <1>3, <2>2, <2>3
<1>6. CASE RefreshFails(f)
  <2>1. mine /\ UNCHANGED row
    BY <1>1, <1>4, <1>6 DEF RefreshFails, RefreshesOK
  <2> QED
    BY <1>2, <1>3, <2>1
<1>7. CASE WriteRefresh(f)
  <2>1. r.row \in Rows /\ (r.next = "accepted" => Backed(r.row))
    BY <1>1, <1>7 DEF WriteRefresh, ToldRefresh
  <2>2. SatGrows /\ CancelledAtSat'
    BY <1>1, <1>3, <1>7, <2>1, RecordTells DEF WriteRefresh
  <2>3. mine
    BY <1>1, <1>4, <1>7 DEF WriteRefresh, RefreshesOK
  <2> QED
    BY <1>2, <2>2, <2>3
<1> QED
  BY <1>5, <1>6, <1>7 DEF RefreshStep

\* A request that begins claims nothing.
LEMMA RequestTells ==
    ASSUME RequestsOK, NEW h \in Handlers, NEW x, NEW caller, NEW job, NEW token,
           Request(h, x, caller, job, token)
    PROVE  ToldRequest(h)' /\ \A g \in Handlers \ {h} : req'[g] = req[g]
<1>1. PICK pc \in {"claim", "answered"} :
         req' = [req EXCEPT ![h] =
                   [pc |-> pc, row |-> x, caller |-> caller, job |-> job,
                    token |-> token, kind |-> IF pc = "claim" THEN "none" ELSE "error"]]
  BY RequestShape
<1>2. req'[h].pc = pc /\ req'[h].kind # "ok"
  BY <1>1 DEF RequestsOK
<1> QED
  BY <1>1, <1>2 DEF RequestsOK, ToldRequest

\* Requests that are left, or that a run lets go.
LEMMA RequestsTell ==
    ASSUME Typed, Told, SatGrows,
           \A h \in Handlers :
              \/ req'[h] = FreeSlot
              \/ /\ req'[h].pc = req[h].pc /\ req'[h].row = req[h].row
                 /\ req'[h].kind = req[h].kind
    PROVE  \A h \in Handlers : ToldRequest(h)'
<1> SUFFICES ASSUME NEW h \in Handlers PROVE ToldRequest(h)'
  OBVIOUS
<1>1. ToldRequest(h) /\ (req[h].pc # "idle" => req[h].row \in Rows)
  BY DEF Typed, RequestsOK, Told
<1>2. CASE req'[h] = FreeSlot
  BY <1>2 DEF ToldRequest, FreeSlot
<1>3. CASE req'[h] # FreeSlot
  <2>1. req'[h].pc = req[h].pc /\ req'[h].row = req[h].row /\ req'[h].kind = req[h].kind
    BY <1>3
  <2> QED
    BY <1>1, <2>1 DEF ToldRequest, Reached, Backed, SatGrows
<1> QED
  BY <1>2, <1>3

\* A run of the queue.  It closes its row as done on the word of the request it
\* waited for, or when the row of its document says so.
LEMMA ConsumerTells ==
    ASSUME Typed, QueueInv, Paired, Told, NEW c \in Consumers, ConsumerStep(c)
    PROVE  Told'
<1>1. RequestsOK /\ CancelledAtSat /\ DoneReachedSat
  BY DEF Typed, Told
<1>2. UNCHANGED <<row, sat>>
  BY DEF ConsumerStep, SelectRow, TakeRow, SkipRow, ReadDocument, Invoke, InvokeGone, Collect,
     StopWaiting, AskRefresh, CheckCancelled, LoseRow, rowVars
<1>3. SatGrows /\ CancelledAtSat'
  BY <1>1, <1>2, SatAlone, RowsTell
<1>4. (\A f \in Refreshers : ToldRefresh(f)') /\ (\A h \in Handlers : ToldRequest(h)')
         /\ DoneReachedSat' => Told'
  BY <1>3 DEF Told
<1>5. UNCHANGED refresh => \A f \in Refreshers : ToldRefresh(f)'
  BY <1>3, ToldStays
<1>6. UNCHANGED req => \A h \in Handlers : ToldRequest(h)'
  BY <1>3, ToldStays
<1>7. (\A j \in Jobs : queue'[j].status = "succeeded" =>
                \/ queue[j].status = "succeeded"
                \/ DocOf[j] = SubjectOf(c) /\ Reached(SubjectOf(c)))
         => DoneReachedSat'
  BY <1>1, <1>3, QueueTells
<1>8. UNCHANGED queue \/ Unsuccessful(c) => DoneReachedSat'
  BY <1>1, <1>3, QueueTells, UnsuccessfulHolds
<1>9. CASE \/ \E j \in Jobs : SelectRow(c, j)
           \/ SkipRow(c) \/ ReadDocument(c) \/ InvokeGone(c)
  <2>1. UNCHANGED <<req, refresh>> /\ (UNCHANGED queue \/ Unsuccessful(c))
    BY <1>9 DEF SelectRow, SkipRow, ReadDocument, InvokeGone, rowVars, Unsuccessful,
       Queue!SelectRow, Queue!ClaimSkipped
  <2> QED
    BY <1>4, <1>5, <1>6, <1>8, <2>1
<1>10. CASE TakeRow(c)
  <2>1. UNCHANGED <<req, refresh>> /\ Queue!Claim(c)
    BY <1>10 DEF TakeRow, rowVars
  <2>2. hold[c].job \in Jobs
    BY <2>1 DEF QueueInv, Queue!Claim
  <2>3. \A j \in Jobs : queue'[j].status = "succeeded" => queue[j].status = "succeeded"
    BY <2>1, <2>2 DEF QueueInv, Queue!TypeOK, Queue!Claim, Queue!Touched
  <2> QED
    BY <1>1, <1>3, <1>4, <1>5, <1>6, <2>1, <2>3, QueueTells
<1>11. ASSUME NEW h \in Handlers, Invoke(c, h)
       PROVE  Told'
  <2>1. /\ UNCHANGED <<queue, refresh>>
        /\ Request(h, SubjectOf(c), c, hold[c].job, hold[c].row.updatedAt)
    BY <1>11 DEF Invoke
  <2>2. \A g \in Handlers : ToldRequest(g)'
    BY <1>1, <1>3, <2>1, RequestTells, ToldStays
  <2> QED
    BY <1>4, <1>5, <1>8, <2>1, <2>2
<1>12. CASE Collect(c)
  <2> DEFINE h == work[c].handler
  <2>1. /\ req[h].caller = c /\ Serves(h, "answered") /\ UNCHANGED refresh
        /\ req' = [req EXCEPT ![h] = FreeSlot]
        /\ \/ UNCHANGED queue \/ Unsuccessful(c)
           \/ req[h].kind = "ok" /\ Queue!SucceedInvoked(c)
    BY <1>12 DEF Collect, Unsuccessful, Succeeded
  <2>2. \A g \in Handlers : ToldRequest(g)'
    BY <1>1, <1>3, <2>1, RequestsTell DEF RequestsOK
  <2>3. CASE req[h].kind = "ok" /\ Queue!SucceedInvoked(c)
    <3>1. h \in Handlers
      BY <1>12, CancelAssumption DEF Collect, Step, Serves, Typed, WorkOK, Work
    <3>2. Reached(SubjectOf(c))
      BY <2>1, <2>3, <3>1 DEF Told, ToldRequest, Serves, Paired, AwaitedBy
    <3>3. DoneReachedSat'
      BY <1>7, <2>3, <3>2, SuccessHolds
    <3> QED
      BY <1>4, <1>5, <2>1, <2>2, <3>3
  <2> QED
    BY <1>4, <1>5, <1>8, <2>1, <2>2, <2>3
<1>13. CASE StopWaiting(c) \/ LoseRow(c)
  <2>1. /\ UNCHANGED refresh /\ Disown(c)
        /\ UNCHANGED queue \/ Unsuccessful(c)
    BY <1>13 DEF StopWaiting, LoseRow, Unsuccessful, Queue!LeaseLost, Queue!Abandon
  <2>2. \A h \in Handlers : ToldRequest(h)'
    BY <1>1, <1>3, <2>1, DisownMoves, RequestsTell
  <2> QED
    BY <1>4, <1>5, <1>8, <2>1, <2>2
<1>14. CASE AskRefresh(c)
  <2>1. UNCHANGED <<queue, req>> /\ SubjectOf(c) \in Rows
    BY <1>14, OwnedRow DEF AskRefresh, Queue!Owns
  <2>2. \A f \in Refreshers : ToldRefresh(f)'
    <3>1. ASSUME NEW f \in Refreshers,
                 RefreshRequest(f, SubjectOf(c), hold[c].job, hold[c].row.updatedAt)
          PROVE  \A g \in Refreshers : ToldRefresh(g)'
      BY <1>2, <1>3, <2>1, <3>1, QueryTells, ToldStays
    <3> QED
      BY <1>5, <1>14, <3>1 DEF AskRefresh
  <2> QED
    BY <1>4, <1>6, <1>8, <2>1, <2>2
<1>15. CASE CheckCancelled(c)
  <2>1. /\ UNCHANGED <<req, refresh>>
        /\ Unsuccessful(c) \/ (Confirmed(SubjectOf(c)) /\ Queue!SucceedRefreshed(c))
    BY <1>15 DEF CheckCancelled, rowVars, Unsuccessful
  <2>2. CASE Confirmed(SubjectOf(c)) /\ Queue!SucceedRefreshed(c)
    <3>1. SubjectOf(c) \in Rows
      BY <2>2, OwnedRow DEF Queue!SucceedRefreshed, Queue!Settle, Queue!Owns
    <3>2. Reached(SubjectOf(c))
      BY <1>1, <2>2, <3>1 DEF Confirmed, CancelledAtSat, Reached
    <3> QED
      BY <1>4, <1>5, <1>6, <1>7, <2>1, <2>2, <3>2, SuccessHolds
  <2> QED
    BY <1>4, <1>5, <1>6, <1>8, <2>1, <2>2
<1> QED
  BY <1>9, <1>10, <1>11, <1>12, <1>13, <1>14, <1>15 DEF ConsumerStep

LEMMA ToldStep ==
    ASSUME Typed, QueueInv, Paired, Told, [Next]_vars
    PROVE  Told'
<1>1. CASE \E x \in Rows : Documents(x)
  BY <1>1, DocumentsTell
<1>2. CASE \/ \E h \in Handlers, x \in Rows : UserCancels(h, x)
           \/ \E f \in Refreshers, x \in Rows : UserRefreshes(f, x)
           \/ UNCHANGED vars
  <2>1. UNCHANGED <<row, sat, queue>>
    BY <1>2 DEF UserCancels, UserRefreshes, vars
  <2>2. SatGrows /\ CancelledAtSat' /\ DoneReachedSat'
    BY <2>1, SatAlone, RowsTell, QueueTells DEF Told
  <2>3. CASE UNCHANGED vars
    BY <2>3, <2>2, ToldStays DEF Told, vars
  <2>4. ASSUME NEW h \in Handlers, NEW x \in Rows, UserCancels(h, x)
        PROVE  Told'
    BY <2>2, <2>4, RequestTells, ToldStays DEF UserCancels, Told, Typed
  <2>5. ASSUME NEW f \in Refreshers, NEW x \in Rows, UserRefreshes(f, x)
        PROVE  Told'
    BY <2>1, <2>2, <2>5, QueryTells, ToldStays DEF UserRefreshes, Told
  <2> QED
    BY <1>2, <2>3, <2>4, <2>5
<1>3. CASE \E h \in Handlers : CancelStep(h) \/ CrashCancel(h)
  BY <1>3, CancelTells
<1>4. CASE \E f \in Refreshers : RefreshStep(f)
  BY <1>4, RefreshTells
<1>5. CASE \E c \in Consumers : ConsumerStep(c)
  BY <1>5, ConsumerTells
<1> QED
  BY <1>1, <1>2, <1>3, <1>4, <1>5 DEF Next

LEMMA ToldHolds == Spec => []Told
BY ToldInit, ToldStep, TypedHolds, QueueInvHolds, PairedHolds, PTL DEF Spec

\* The database never says of a complement or a note of the PAC that it is
\* cancelled unless the SAT accepted it: lost and unclear answers, refreshes that
\* write what they read long before and claims that change hands make no difference.
THEOREM CancelledDocumentsAtSat == Spec => []CancelledAtSat
BY ToldHolds, PTL DEF Told

\* A row of the queue is closed as done only if its request has reached the SAT,
\* although the run may hear a 409 that somebody else's claim caused, or the answer
\* of a request whose answer another run has already given up.
THEOREM DoneRetriesReachedSat == Spec => []DoneReachedSat
BY ToldHolds, PTL DEF Told
=============================================================================
