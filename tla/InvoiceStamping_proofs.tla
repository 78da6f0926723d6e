------------------------ MODULE InvoiceStamping_proofs ------------------------
(***************************************************************************)
(* Proofs about the stamping of invoices, for any number of invoices,      *)
(* requests, rows, runs and documents, and any kinds of failure.           *)
(*                                                                         *)
(* The composed system only takes steps that CfdiRetryQueue allows on the  *)
(* queue; its states are well typed; and no two processes are between the  *)
(* claim of an invoice and their last write of it.                         *)
(***************************************************************************)
EXTENDS InvoiceStamping, TLAPS

Lease == INSTANCE CfdiRetryQueue_proofs

-----------------------------------------------------------------------------
(* The queue inside the system.                                            *)

\* Each step of a request, a run or the PAC moves the queue as CfdiRetryQueue
\* says, or not at all.
LEMMA StepIsQueueStep ==
    ASSUME Next
    PROVE  [Queue!Next]_<<queue, hold>>
<1>1. CASE \/ \E i \in Invoices : EditInvoice(i)
           \/ \E h \in Handlers, i \in Invoices : UserRequest(h, i)
           \/ PacStep
  BY <1>1 DEF EditInvoice, UserRequest, PacStep, PacServesLate, PacSettles, PacLists
<1>2. ASSUME NEW h \in Handlers, HandlerStep(h) \/ CrashRequest(h)
      PROVE  [Queue!Next]_<<queue, hold>>
  <2>1. CASE \E j \in Jobs : EnqueueRetry(h, j)
    BY <2>1 DEF EnqueueRetry, Queue!Next
  <2> QED
    BY <1>2, <2>1 DEF HandlerStep, CrashRequest, ClaimInvoice, RefuseConfig, StampStub,
       SendToPac, PacAnswers, PacRefuses, PacLosesAnswer, TimeOut, RecordRefusal,
       EnqueueLost, RecordIncomplete, PersistIds, FinishStamping
<1>3. ASSUME NEW c \in Consumers, ConsumerStep(c)
      PROVE  [Queue!Next]_<<queue, hold>>
  <2>1. CASE \E j \in Jobs : SelectRow(c, j)
    BY <2>1 DEF SelectRow, Queue!Next
  <2>2. CASE TakeRow(c) \/ SkipRow(c) \/ LoseRow(c)
    BY <2>2 DEF TakeRow, SkipRow, LoseRow, Queue!Next
  <2>3. CASE ReadInvoice(c) \/ LookUp(c) \/ SaveRecovered(c) \/ CloseRecovered(c)
    BY <2>3 DEF ReadInvoice, LookUp, SaveRecovered, CloseRecovered, Queue!Next, Queue!Outcome
  <2>4. CASE (\E h \in Handlers : Invoke(c, h)) \/ Collect(c) \/ StopWaiting(c)
    BY <2>4 DEF Invoke, Collect, StopWaiting, Queue!Next, Queue!Outcome
  <2> QED
    BY <1>3, <2>1, <2>2, <2>3, <2>4 DEF ConsumerStep
<1>4. CASE \E r \in Reconcilers : ReconcilerStep(r) \/ CrashReconciler(r)
  BY <1>4 DEF ReconcilerStep, CrashReconciler, SelectStuck, ClaimStuck, SkipStuck,
     ResolveStuck, LookupFails, FetchStuck, FetchLost
<1> QED
  BY <1>1, <1>2, <1>3, <1>4 DEF Next

\* The stamping of invoices implements the queue's specification: no request or
\* run touches a row of the queue in another way.
THEOREM StampingImplementsQueue == Spec => Queue!Spec
<1>1. Init => Queue!Init
  BY DEF Init
<1>2. [Next]_vars => [Queue!Next]_<<queue, hold>>
  BY StepIsQueueStep DEF vars
<1> QED
  BY <1>1, <1>2, PTL DEF Spec, Queue!Spec, Queue!queueVars

\* The module of the proofs names the same queue.
LEMMA SameQueue == Queue!Spec => Lease!Spec
<1>1. Queue!Init => Lease!Init
  BY DEF Queue!Init, Lease!Init, Queue!Idle, Lease!Idle, Queue!AbsentRow, Lease!AbsentRow
<1>2. [Queue!Next]_<<queue, hold>> => [Lease!Next]_<<queue, hold>>
  BY DEF Queue!Next, Lease!Next, Queue!Enqueue, Lease!Enqueue, Queue!SelectRow,
     Lease!SelectRow, Queue!Claim, Lease!Claim, Queue!ClaimSkipped, Lease!ClaimSkipped,
     Queue!Outcome, Lease!Outcome, Queue!LeaseLost, Lease!LeaseLost, Queue!Abandon,
     Lease!Abandon, Queue!AsRead, Lease!AsRead, Queue!Touched, Lease!Touched, Queue!Owns,
     Lease!Owns, Queue!Settle, Lease!Settle, Queue!Idle, Lease!Idle, Queue!InsertedRow,
     Lease!InsertedRow, Queue!AbsentRow, Lease!AbsentRow, Queue!SucceedRecovered,
     Lease!SucceedRecovered, Queue!SucceedInvoked, Lease!SucceedInvoked,
     Queue!SucceedRefreshed, Lease!SucceedRefreshed, Queue!Defer, Lease!Defer, Queue!GiveUp,
     Lease!GiveUp, Queue!GiveUpUncounted, Lease!GiveUpUncounted, Queue!DeferConflict,
     Lease!DeferConflict, Queue!RefuseConflict, Lease!RefuseConflict, Queue!RetryAnswered,
     Lease!RetryAnswered, Queue!RetryThrown, Lease!RetryThrown, Queue!Held, Lease!Held,
     Queue!IsCancel, Lease!IsCancel, Queue!TerminalStatus, Lease!TerminalStatus,
     Queue!CancelOps, Lease!CancelOps
<1> QED
  BY <1>1, <1>2, PTL DEF Lease!Spec, Queue!Spec, Queue!queueVars, Lease!queueVars

LEMMA QueueAssumed == Lease!QueueAssumption
BY StampingAssumption DEF Queue!QueueAssumption, Lease!QueueAssumption,
   Queue!Operations, Lease!Operations, Queue!CancelOps, Lease!CancelOps

\* What the system needs of the queue: its types, and that a run that works has
\* a row.
QueueInv ==
    /\ Queue!TypeOK
    /\ \A c \in Consumers : hold[c].phase # "idle" => hold[c].job \in Jobs

\* Whatever requests, runs and the PAC do, a row of the queue has one owner.
THEOREM StampingKeepsOwner == Spec => []Queue!SingleOwner
<1>1. Lease!Spec => []Lease!SingleOwner
  BY QueueAssumed, Lease!QueueHasSingleOwner
<1>2. Lease!SingleOwner => Queue!SingleOwner
  BY DEF Lease!SingleOwner, Queue!SingleOwner, Lease!Owns, Queue!Owns
<1> QED
  BY <1>1, <1>2, StampingImplementsQueue, SameQueue, PTL

LEMMA QueueInvHolds == Spec => []QueueInv
<1>1. Lease!Spec => []Lease!LeaseInv
  BY QueueAssumed, Lease!LeaseInvariant
<1>2. Lease!LeaseInv => QueueInv
  BY DEF Lease!LeaseInv, QueueInv, Lease!TypeOK, Queue!TypeOK, Lease!Row, Queue!Row,
     Lease!Status, Queue!Status, Lease!Phase, Queue!Phase, Lease!Working, Lease!HoldsRealRow
<1> QED
  BY <1>1, <1>2, StampingImplementsQueue, SameQueue, PTL

-----------------------------------------------------------------------------
(* Types.                                                                  *)

RowsOK == inv \in [Invoices -> Invoice] /\ fresh \subseteq Consumers \cup Reconcilers

\* A request at work is about an invoice, and once the PAC answered it has a
\* document.
RequestsOK ==
    /\ req \in [Handlers -> Slot]
    /\ \A h \in Handlers :
          /\ req[h].pc # "idle" => req[h].inv \in Invoices
          /\ req[h].pc \in {"record", "persist", "finish"} => req[h].doc \in Documents

\* A run is at work exactly while it owns a row.
WorkOK ==
    /\ work \in [Consumers -> Work]
    /\ \A c \in Consumers :
          /\ work[c].step = "none" <=> hold[c].phase # "owner"
          /\ work[c].step = "save" => work[c].doc \in Documents

CyclesOK ==
    /\ rec \in [Reconcilers -> Cycle]
    /\ \A r \in Reconcilers : rec[r].pc # "idle" => rec[r].inv \in Invoices

PacOK == pac \in [Documents -> PacDocument] /\ late \subseteq Aborted

Typed == RowsOK /\ RequestsOK /\ WorkOK /\ CyclesOK /\ PacOK

\* The records of what is at rest are well typed.
LEMMA Records ==
    /\ Draft \in Invoice /\ FreeSlot \in Slot /\ FreeSlot.pc = "idle"
    /\ NoWork \in Work /\ NoWork.step = "none"
    /\ Resting \in Cycle /\ Resting.pc = "idle"
    /\ NoDocument \in PacDocument
BY StampingAssumption
   DEF Draft, Invoice, FreeSlot, Slot, NoWork, Work, Resting, Cycle, NoDocument, PacDocument,
       PacState, Documents, NoDoc, MockDoc

LEMMA TypedInit == Init => Typed
<1> SUFFICES ASSUME Init PROVE Typed
  OBVIOUS
<1> USE DEF Init
<1>1. RowsOK /\ RequestsOK /\ CyclesOK /\ PacOK
  BY Records DEF RowsOK, RequestsOK, CyclesOK, PacOK
<1>2. WorkOK
  BY Records DEF WorkOK, Queue!Init, Queue!Idle
<1> QED
  BY <1>1, <1>2 DEF Typed

LEMMA WriteKeeps ==
    ASSUME RowsOK, NEW i \in Invoices, NEW row \in Invoice, WriteOrLose(i, row)
    PROVE  RowsOK'
BY DEF RowsOK, WriteOrLose, Write, UnchangedInvoices

\* An answer ends a request, or leaves it to the run that made it.
LEMMA AnswerKeeps ==
    ASSUME RequestsOK, NEW h \in Handlers, req[h].pc # "idle",
           NEW kind \in {"ok", "error", "changed", "unavailable"}, Answer(h, kind)
    PROVE  RequestsOK'
<1>1. req[h] \in Slot /\ req[h].inv \in Invoices
  BY DEF RequestsOK
<1>2. [req[h] EXCEPT !.pc = "answered", !.kind = kind] \in Slot
  BY <1>1 DEF Slot
<1> QED
  BY <1>1, <1>2, Records DEF RequestsOK, Answer, Slot

\* A move to another step of the same request.
LEMMA GoToKeeps ==
    ASSUME RequestsOK, NEW h \in Handlers, req[h].pc # "idle",
           NEW pc \in {"config", "sent", "enqueue", "finish"}, GoTo(h, pc),
           pc = "finish" => req[h].pc = "persist"
    PROVE  RequestsOK'
<1>1. req[h] \in Slot /\ req[h].inv \in Invoices
  BY DEF RequestsOK
<1>2. [req[h] EXCEPT !.pc = pc] \in Slot
  BY <1>1 DEF Slot
<1> QED
  BY <1>1, <1>2 DEF RequestsOK, GoTo, Slot

\* A request that begins.
LEMMA RequestKeeps ==
    ASSUME RowsOK, RequestsOK, NEW h \in Handlers, NEW i \in Invoices,
           NEW caller \in Consumers \cup {User}, NEW job \in Jobs \cup {NoJob},
           NEW token \in Nat, NEW verdict \in {"none", "ok", "error"},
           StampRequest(h, i, caller, job, token, verdict)
    PROVE  RequestsOK'
<1>1. [pc |-> IF verdict = "none" THEN "claim" ELSE "answered", inv |-> i,
       caller |-> caller, job |-> job, token |-> token, total |-> inv[i].total,
       doc |-> NoDoc, kind |-> verdict] \in Slot
  BY DEF RowsOK, Invoice, Slot
<1> QED
  BY <1>1 DEF RequestsOK, StampRequest, Slot

\* A create call leaves well-typed documents.
LEMMA CreatesKeeps ==
    ASSUME PacOK, NEW i \in Invoices, NEW total \in 0..MaxEdits, NEW d \in Documents,
           NEW state \in PacState, Creates(i, total, d, state)
    PROVE  pac' \in [Documents -> PacDocument]
BY StampingAssumption DEF PacOK, PacDocument, Creates

\* Edits and the PAC.
LEMMA OthersKeep ==
    ASSUME Typed, (\E i \in Invoices : EditInvoice(i)) \/ PacStep
    PROVE  Typed'
<1> USE DEF Typed
<1>1. CASE \E i \in Invoices : EditInvoice(i)
  <2>1. PICK i \in Invoices : EditInvoice(i)
    BY <1>1
  <2>2. inv[i] \in Invoice /\ inv[i].total + 1 \in 0..MaxEdits
    BY <2>1, StampingAssumption DEF EditInvoice, RowsOK, Invoice
  <2>3. [inv[i] EXCEPT !.total = inv[i].total + 1] \in Invoice
    BY <2>2 DEF Invoice
  <2>4. RowsOK'
    BY <2>1, <2>3, WriteKeeps DEF EditInvoice, WriteOrLose
  <2> QED
    BY <2>1, <2>4 DEF EditInvoice, RequestsOK, WorkOK, CyclesOK, PacOK
<1>2. CASE PacStep
  <2>1. RowsOK' /\ RequestsOK' /\ WorkOK' /\ CyclesOK'
    BY <1>2 DEF PacStep, PacServesLate, PacSettles, PacLists, RowsOK, RequestsOK, WorkOK, CyclesOK
  <2>2. ASSUME NEW l \in late, PacServesLate(l)
        PROVE  PacOK'
    <3>1. l.inv \in Invoices /\ l.total \in 0..MaxEdits /\ late' \subseteq Aborted
      BY <2>2 DEF PacOK, Aborted, PacServesLate
    <3>2. pac' \in [Documents -> PacDocument]
      BY <2>2, <3>1, CreatesKeeps DEF PacServesLate, PacOK
    <3> QED
      BY <3>1, <3>2 DEF PacOK
  <2>3. ASSUME NEW d \in Documents, PacSettles(d) \/ PacLists(d)
        PROVE  PacOK'
    <3>1. pac[d] \in PacDocument /\ UNCHANGED late
      BY <2>3 DEF PacSettles, PacLists, PacOK
    <3>2. \A state \in PacState : [pac[d] EXCEPT !.state = state] \in PacDocument
      BY <3>1 DEF PacDocument
    <3>3. [pac[d] EXCEPT !.listed = TRUE] \in PacDocument
      BY <3>1 DEF PacDocument
    <3> QED
      BY <2>3, <3>1, <3>2, <3>3 DEF PacSettles, PacLists, PacOK, PacState
  <2> QED
    BY <1>2, <2>1, <2>2, <2>3 DEF PacStep
<1> QED
  BY <1>1, <1>2

\* A request of stamp-cfdi.
LEMMA HandlerKeeps ==
    ASSUME Typed, NEW h \in Handlers, HandlerStep(h) \/ CrashRequest(h)
    PROVE  Typed'
<1> DEFINE i == req[h].inv
<1> USE DEF Typed, Serves
<1>1. /\ UNCHANGED <<inv, fresh>> => RowsOK'
      /\ UNCHANGED <<pac, late>> => PacOK'
  BY DEF RowsOK, PacOK
<1>2. WorkOK' /\ CyclesOK'
  <2>1. UNCHANGED <<hold, work, rec>>
    BY DEF HandlerStep, CrashRequest, ClaimInvoice, RefuseConfig, StampStub, SendToPac,
       PacAnswers, PacRefuses, PacLosesAnswer, TimeOut, RecordRefusal, EnqueueRetry,
       EnqueueLost, RecordIncomplete, PersistIds, FinishStamping, Queue!Enqueue
  <2> QED
    BY <2>1 DEF WorkOK, CyclesOK
<1>3. /\ req[h] \in Slot
      /\ req[h].pc # "idle" => i \in Invoices /\ inv[i] \in Invoice
  BY DEF RequestsOK, RowsOK
<1>4. CASE ClaimInvoice(h)
  <2>1. [inv[i] EXCEPT !.status = "stamping"] \in Invoice
    BY <1>3, <1>4 DEF ClaimInvoice, Invoice
  <2>2. RowsOK'
    BY <1>1, <1>3, <1>4, <2>1, WriteKeeps
       DEF ClaimInvoice, RowOf, UnchangedInvoices, WriteOrLose
  <2>3. RequestsOK'
    BY <1>4, AnswerKeeps, GoToKeeps DEF ClaimInvoice
  <2> QED
    BY <1>1, <1>2, <1>4, <2>2, <2>3 DEF ClaimInvoice
<1>5. CASE RefuseConfig(h)
  <2>1. [inv[i] EXCEPT !.status = "error"] \in Invoice
    BY <1>3, <1>5 DEF RefuseConfig, Invoice
  <2>2. RowsOK'
    BY <1>3, <1>5, <2>1, WriteKeeps DEF RefuseConfig, RowOf, RefusedRow
  <2>3. RequestsOK'
    BY <1>5, AnswerKeeps DEF RefuseConfig
  <2> QED
    BY <1>1, <1>2, <1>5, <2>2, <2>3 DEF RefuseConfig
<1>6. CASE StampStub(h)
  <2>1. [inv[i] EXCEPT !.status = "stamped", !.uuid = MockDoc, !.xml = TRUE] \in Invoice
    BY <1>3, <1>6 DEF StampStub, Invoice
  <2>2. RowsOK'
    BY <1>3, <1>6, <2>1, WriteKeeps DEF StampStub, RowOf
  <2>3. RequestsOK'
    BY <1>6, AnswerKeeps DEF StampStub
  <2> QED
    BY <1>1, <1>2, <1>6, <2>2, <2>3 DEF StampStub
<1>7. CASE SendToPac(h)
  BY <1>1, <1>2, <1>7, GoToKeeps DEF SendToPac
<1>8. CASE PacAnswers(h)
  <2>1. PICK d \in Documents, state \in PacState :
           /\ Creates(i, req[h].total, d, state)
           /\ req' = [req EXCEPT ![h].pc = AfterAnswer(state), ![h].doc = d, ![h].kind = state]
    BY <1>8 DEF PacAnswers
  <2>2. PacOK'
    BY <1>3, <1>8, <2>1, CreatesKeeps DEF PacAnswers, PacOK, Slot
  <2>3. [req[h] EXCEPT !.pc = AfterAnswer(state), !.doc = d, !.kind = state] \in Slot
    BY <1>3 DEF Slot, AfterAnswer
  <2>4. RequestsOK'
    BY <1>3, <1>8, <2>1, <2>3 DEF PacAnswers, RequestsOK, Slot
  <2> QED
    BY <1>1, <1>2, <1>8, <2>2, <2>4 DEF PacAnswers
<1>9. CASE PacRefuses(h) \/ PacLosesAnswer(h)
  <2>1. PICK kind \in {"permanent", "transient"} :
           req' = [req EXCEPT ![h].pc = "refused", ![h].kind = kind]
    BY <1>9 DEF PacRefuses, PacLosesAnswer
  <2>2. [req[h] EXCEPT !.pc = "refused", !.kind = kind] \in Slot
    BY <1>3 DEF Slot
  <2>3. RequestsOK'
    BY <1>3, <1>9, <2>1, <2>2 DEF PacRefuses, PacLosesAnswer, RequestsOK, Slot
  <2>4. PacOK'
    BY <1>1, <1>3, <1>9, CreatesKeeps DEF PacRefuses, PacLosesAnswer, PacOK, Slot
  <2> QED
    BY <1>1, <1>2, <1>9, <2>3, <2>4 DEF PacRefuses, PacLosesAnswer
<1>10. CASE TimeOut(h)
  <2>1. RequestsOK'
    BY <1>10, AnswerKeeps DEF TimeOut
  <2>2. PacOK'
    BY <1>3, <1>10 DEF TimeOut, PacOK, Aborted, Slot
  <2> QED
    BY <1>1, <1>2, <1>10, <2>1, <2>2 DEF TimeOut
<1>11. CASE RecordRefusal(h)
  <2>1. [inv[i] EXCEPT !.status = "error"] \in Invoice
    BY <1>3, <1>11 DEF RecordRefusal, Invoice
  <2>2. RowsOK'
    BY <1>3, <1>11, <2>1, WriteKeeps DEF RecordRefusal, RowOf, RefusedRow
  <2>3. RequestsOK'
    BY <1>11, AnswerKeeps, GoToKeeps DEF RecordRefusal
  <2> QED
    BY <1>1, <1>2, <1>11, <2>2, <2>3 DEF RecordRefusal
<1>12. CASE (\E j \in Jobs : EnqueueRetry(h, j)) \/ EnqueueLost(h)
  BY <1>1, <1>2, <1>12, AnswerKeeps DEF EnqueueRetry, EnqueueLost
<1>13. CASE RecordIncomplete(h)
  <2>1. req[h].doc \in Documents
    BY <1>13 DEF RecordIncomplete, RequestsOK
  <2>2. \A status \in {"error", "stamping"} :
           [inv[i] EXCEPT !.fid = req[h].doc, !.status = status] \in Invoice
    BY <1>3, <1>13, <2>1 DEF RecordIncomplete, Invoice
  <2>3. RowsOK'
    BY <1>3, <1>13, <2>2, WriteKeeps DEF RecordIncomplete, RowOf
  <2>4. RequestsOK'
    BY <1>13, AnswerKeeps DEF RecordIncomplete
  <2> QED
    BY <1>1, <1>2, <1>13, <2>3, <2>4 DEF RecordIncomplete
<1>14. CASE PersistIds(h)
  <2>1. req[h].doc \in Documents
    BY <1>14 DEF PersistIds, RequestsOK
  <2>2. [inv[i] EXCEPT !.fid = req[h].doc, !.uuid = req[h].doc] \in Invoice
    BY <1>3, <1>14, <2>1 DEF PersistIds, Invoice
  <2>3. RowsOK'
    BY <1>3, <1>14, <2>2, WriteKeeps DEF PersistIds, RowOf
  <2>4. RequestsOK'
    BY <1>14, GoToKeeps DEF PersistIds
  <2> QED
    BY <1>1, <1>2, <1>14, <2>3, <2>4 DEF PersistIds
<1>15. CASE FinishStamping(h)
  <2>1. req[h].doc \in Documents
    BY <1>15 DEF FinishStamping, RequestsOK
  <2>2. \A downloaded \in BOOLEAN, status \in {"error", "stamped"} :
           [inv[i] EXCEPT !.fid = req[h].doc, !.uuid = req[h].doc, !.xml = downloaded,
                          !.status = status] \in Invoice
    BY <1>3, <1>15, <2>1 DEF FinishStamping, Invoice
  <2>3. RowsOK'
    BY <1>1, <1>3, <1>15, <2>2, WriteKeeps
       DEF FinishStamping, RowOf, UnchangedInvoices, WriteOrLose
  <2>4. RequestsOK'
    BY <1>15, AnswerKeeps DEF FinishStamping
  <2> QED
    BY <1>1, <1>2, <1>15, <2>3, <2>4 DEF FinishStamping
<1>16. CASE CrashRequest(h)
  <2>1. RequestsOK'
    BY <1>16, Records DEF CrashRequest, RequestsOK
  <2>2. PacOK'
    BY <1>3, <1>16 DEF CrashRequest, PacOK, Aborted, Slot
  <2> QED
    BY <1>1, <1>2, <1>16, <2>1, <2>2 DEF CrashRequest
<1> QED
  BY <1>4, <1>5, <1>6, <1>7, <1>8, <1>9, <1>10, <1>11, <1>12, <1>13, <1>14, <1>15, <1>16
     DEF HandlerStep

-----------------------------------------------------------------------------
(* Runs of the queue.                                                      *)

\* However a run leaves its row, it holds none afterwards.
Leaves(c) == Queue!Outcome(c) \/ Queue!LeaseLost(c) \/ Queue!Abandon(c)

LEMMA LeavesRow ==
    ASSUME NEW c \in Consumers, Leaves(c)
    PROVE  hold' = [hold EXCEPT ![c] = Queue!Idle]
BY DEF Leaves, Queue!Outcome, Queue!LeaseLost, Queue!Abandon, Queue!SucceedRecovered,
   Queue!SucceedInvoked, Queue!SucceedRefreshed, Queue!Defer, Queue!GiveUp,
   Queue!GiveUpUncounted, Queue!DeferConflict, Queue!RefuseConflict, Queue!RetryAnswered,
   Queue!RetryThrown, Queue!Settle

\* A run that leaves its row is done with the document.
LEMMA DoneKeeps ==
    ASSUME RowsOK, WorkOK, QueueInv, NEW c \in Consumers, Leaves(c), Done(c)
    PROVE  /\ WorkOK'
           /\ UNCHANGED inv => RowsOK'
<1>1. hold' = [hold EXCEPT ![c] = Queue!Idle] /\ DOMAIN hold = Consumers
  BY LeavesRow DEF QueueInv, Queue!TypeOK
<1>2. work' = [work EXCEPT ![c] = NoWork]
  BY DEF Done
<1>3. WorkOK'
  BY <1>1, <1>2, Records DEF WorkOK, Queue!Idle
<1> QED
  BY <1>3 DEF RowsOK, Done

\* A run that goes on keeps its row.
LEMMA StepKeeps ==
    ASSUME WorkOK, NEW c \in Consumers, work[c].step # "none", UNCHANGED hold,
           NEW row \in Work, row.step # "none", row.step = "save" => row.doc \in Documents,
           work' = [work EXCEPT ![c] = row]
    PROVE  WorkOK'
BY DEF WorkOK

\* A run that lets its request go.
LEMMA DisownKeeps ==
    ASSUME RequestsOK, NEW c \in Consumers, Disown(c)
    PROVE  RequestsOK'
<1>1. \A h \in Handlers : req[h] \in Slot
  BY DEF RequestsOK
<1>2. \A h \in Handlers : [req[h] EXCEPT !.caller = User] \in Slot
  BY <1>1 DEF Slot
<1> QED
  BY <1>1, <1>2, Records DEF RequestsOK, Disown, Slot

\* The document of a row that a run works on.
LEMMA SubjectIsInvoice ==
    ASSUME QueueInv, WorkOK, NEW c \in Consumers, work[c].step # "none"
    PROVE  /\ SubjectOf(c) \in Invoices
           /\ hold[c].job \in Jobs /\ hold[c].row.updatedAt \in Nat
           /\ hold[c].phase = "owner"
BY StampingAssumption DEF QueueInv, WorkOK, SubjectOf, Queue!TypeOK, Queue!Row

\* A step of a run of the queue.
LEMMA ConsumerKeeps ==
    ASSUME Typed, QueueInv, NEW c \in Consumers, ConsumerStep(c)
    PROVE  Typed'
<1> USE DEF Typed
<1>1. /\ UNCHANGED <<inv, fresh>> => RowsOK'
      /\ UNCHANGED req => RequestsOK'
      /\ UNCHANGED <<hold, work>> => WorkOK'
  BY DEF RowsOK, RequestsOK, WorkOK
<1>2. CyclesOK' /\ PacOK'
  <2>1. UNCHANGED <<rec, pac, late>>
    BY DEF ConsumerStep, SelectRow, TakeRow, SkipRow, ReadInvoice, LookUp, SaveRecovered,
       CloseRecovered, Invoke, Collect, StopWaiting, LoseRow
  <2> QED
    BY <2>1 DEF CyclesOK, PacOK
<1>3. work[c] \in Work /\ DOMAIN hold = Consumers
  BY DEF WorkOK, QueueInv, Queue!TypeOK
<1>4. CASE \E j \in Jobs : SelectRow(c, j)
  <2>1. WorkOK'
    BY <1>3, <1>4 DEF SelectRow, Queue!SelectRow, WorkOK
  <2> QED
    BY <1>1, <1>2, <1>4, <2>1 DEF SelectRow
<1>5. CASE TakeRow(c)
  <2>1. [work[c] EXCEPT !.step = "read"] \in Work
    BY <1>3 DEF Work
  <2>2. hold'[c].phase = "owner" /\ \A b \in Consumers \ {c} : hold'[b] = hold[b]
    BY <1>3, <1>5 DEF TakeRow, Queue!Claim
  <2>3. WorkOK'
    BY <1>5, <2>1, <2>2 DEF TakeRow, WorkOK, Work
  <2> QED
    BY <1>1, <1>2, <1>5, <2>3 DEF TakeRow
<1>6. CASE SkipRow(c)
  <2>1. WorkOK'
    BY <1>3, <1>6 DEF SkipRow, Queue!ClaimSkipped, Queue!Idle, WorkOK
  <2> QED
    BY <1>1, <1>2, <1>6, <2>1 DEF SkipRow
<1>7. CASE ReadInvoice(c)
  <2>1. CASE Leaves(c) /\ Done(c)
    BY <1>1, <1>2, <1>7, <2>1, DoneKeeps DEF ReadInvoice
  <2>2. CASE /\ work' = [work EXCEPT ![c].step = "lookup"]
             /\ fresh' = fresh \cup {c} /\ UNCHANGED <<queue, hold>>
    <3>1. [work[c] EXCEPT !.step = "lookup"] \in Work
      BY <1>3 DEF Work
    <3>2. WorkOK'
      BY <1>3, <1>7, <2>2, <3>1, StepKeeps DEF ReadInvoice, Step, Work
    <3>3. RowsOK'
      BY <1>7, <2>2 DEF ReadInvoice, RowsOK
    <3> QED
      BY <1>1, <1>2, <1>7, <3>2, <3>3 DEF ReadInvoice
  <2> QED
    BY <1>7, <2>1, <2>2 DEF ReadInvoice, Leaves, Queue!Outcome
<1>8. CASE LookUp(c)
  <2>1. CASE Queue!Defer(c) /\ Done(c)
    BY <1>1, <1>2, <1>8, <2>1, DoneKeeps DEF LookUp, Leaves, Queue!Outcome
  <2>2. CASE /\ work' = [work EXCEPT ![c].step = "invoke"]
             /\ fresh' = fresh \ {c} /\ UNCHANGED <<queue, hold>>
    <3>1. [work[c] EXCEPT !.step = "invoke"] \in Work
      BY <1>3 DEF Work
    <3>2. WorkOK'
      BY <1>3, <1>8, <2>2, <3>1, StepKeeps DEF LookUp, Step, Work
    <3>3. RowsOK'
      BY <1>8, <2>2 DEF LookUp, RowsOK
    <3> QED
      BY <1>1, <1>2, <1>8, <3>2, <3>3 DEF LookUp
  <2>3. ASSUME NEW d \in Found(SubjectOf(c), NoDoc),
               work' = [work EXCEPT ![c].step = "save", ![c].doc = d, ![c].kind = pac[d].state],
               UNCHANGED <<queue, hold, fresh>>
        PROVE  Typed'
    <3>1. d \in Documents /\ pac[d].state \in PacState
      BY <2>3 DEF Found, DocsOf, PacOK, PacDocument
    <3>2. [work[c] EXCEPT !.step = "save", !.doc = d, !.kind = pac[d].state] \in Work
      BY <1>3, <3>1 DEF Work
    <3>3. work' = [work EXCEPT ![c] = [work[c] EXCEPT !.step = "save", !.doc = d,
                                                      !.kind = pac[d].state]]
      BY <2>3 DEF WorkOK
    <3>4. WorkOK'
      BY <1>3, <1>8, <2>3, <3>1, <3>2, <3>3, StepKeeps DEF LookUp, Step, Work
    <3> QED
      BY <1>1, <1>2, <1>8, <2>3, <3>4 DEF LookUp
  <2> QED
    BY <1>8, <2>1, <2>2, <2>3 DEF LookUp
<1>9. CASE SaveRecovered(c)
  <2> DEFINE i == SubjectOf(c)
  <2>1. CASE /\ work' = [work EXCEPT ![c].step = "close"] /\ UNCHANGED <<queue, hold>>
             /\ \E row \in Invoice : Write(i, row)
    <3>1. [work[c] EXCEPT !.step = "close"] \in Work
      BY <1>3 DEF Work
    <3>2. WorkOK'
      BY <1>3, <1>9, <2>1, <3>1, StepKeeps DEF SaveRecovered, Step, Work
    <3>3. RowsOK'
      BY <1>9, <2>1, SubjectIsInvoice, WriteKeeps DEF SaveRecovered, Step, WriteOrLose
    <3> QED
      BY <1>1, <1>2, <1>9, <3>2, <3>3 DEF SaveRecovered
  <2>2. CASE Queue!Defer(c) /\ Done(c) /\ UNCHANGED inv
    BY <1>1, <1>2, <1>9, <2>2, DoneKeeps DEF SaveRecovered, Leaves, Queue!Outcome
  <2>3. \A uuid \in {inv[i].uuid, work[c].doc}, status \in {"error", "stamping"} :
           [inv[i] EXCEPT !.fid = work[c].doc, !.uuid = uuid, !.status = status] \in Invoice
    <3>1. work[c].doc \in Documents /\ inv[i] \in Invoice
      BY <1>9, SubjectIsInvoice DEF SaveRecovered, Step, WorkOK, RowsOK
    <3> QED
      BY <3>1 DEF Invoice
  <2> QED
    BY <1>9, <2>1, <2>2, <2>3 DEF SaveRecovered
<1>10. CASE CloseRecovered(c)
  BY <1>1, <1>2, <1>10, DoneKeeps DEF CloseRecovered, Leaves, Queue!Outcome
<1>11. ASSUME NEW h \in Handlers, Invoke(c, h)
       PROVE  Typed'
  <2>1. [work[c] EXCEPT !.step = "await", !.handler = h] \in Work
    BY <1>3 DEF Work
  <2>2. work' = [work EXCEPT ![c] = [work[c] EXCEPT !.step = "await", !.handler = h]]
    BY <1>11 DEF Invoke, WorkOK
  <2>3. WorkOK'
    BY <1>3, <1>11, <2>1, <2>2, StepKeeps DEF Invoke, Step, Work
  <2>4. RequestsOK'
    BY <1>11, SubjectIsInvoice, RequestKeeps DEF Invoke, Step
  <2> QED
    BY <1>1, <1>2, <1>11, <2>3, <2>4 DEF Invoke
<1>12. CASE Collect(c)
  <2>1. Leaves(c) /\ Done(c) /\ UNCHANGED inv
    BY <1>12 DEF Collect, Leaves, Queue!Outcome
  <2>2. RequestsOK'
    BY <1>12, Records DEF Collect, RequestsOK
  <2> QED
    BY <1>2, <2>1, <2>2, DoneKeeps
<1>13. CASE StopWaiting(c) \/ LoseRow(c)
  <2>1. Leaves(c) /\ Done(c) /\ Disown(c) /\ UNCHANGED inv
    BY <1>13 DEF StopWaiting, LoseRow, Leaves, Queue!Outcome
  <2> QED
    BY <1>2, <2>1, DoneKeeps, DisownKeeps
<1> QED
  BY <1>4, <1>5, <1>6, <1>7, <1>8, <1>9, <1>10, <1>11, <1>12, <1>13 DEF ConsumerStep

-----------------------------------------------------------------------------
\* A step of a run of the reconciliation.
LEMMA ReconcilerKeeps ==
    ASSUME Typed, NEW r \in Reconcilers, ReconcilerStep(r) \/ CrashReconciler(r)
    PROVE  Typed'
<1> DEFINE i == rec[r].inv
<1> USE DEF Typed
<1>1. UNCHANGED <<inv, fresh>> => RowsOK'
  BY DEF RowsOK
<1>2. RequestsOK' /\ WorkOK' /\ PacOK'
  <2>1. UNCHANGED <<hold, req, work, pac, late>>
    BY DEF ReconcilerStep, CrashReconciler, SelectStuck, ClaimStuck, SkipStuck, ResolveStuck,
       LookupFails, FetchStuck, FetchLost
  <2> QED
    BY <2>1 DEF RequestsOK, WorkOK, PacOK
<1>3. /\ rec[r] \in Cycle
      /\ rec[r].pc # "idle" => i \in Invoices /\ inv[i] \in Invoice
  BY DEF CyclesOK, RowsOK
<1>4. Rest(r) => CyclesOK'
  BY Records DEF Rest, CyclesOK
<1>5. ASSUME NEW s \in Invoices, SelectStuck(r, s)
      PROVE  Typed'
  <2>1. [pc |-> "selected", inv |-> s, fid |-> inv[s].fid, uuid |-> inv[s].uuid,
         attempts |-> inv[s].attempts] \in Cycle
    BY DEF RowsOK, Invoice, Cycle
  <2>2. CyclesOK' /\ RowsOK'
    BY <1>5, <2>1 DEF SelectStuck, CyclesOK, RowsOK
  <2> QED
    BY <1>2, <2>2
<1>6. CASE ClaimStuck(r)
  <2>1. [rec[r] EXCEPT !.pc = "claimed"] \in Cycle
    BY <1>3 DEF Cycle
  <2>2. CyclesOK'
    BY <1>3, <1>6, <2>1 DEF ClaimStuck, CyclesOK, Cycle
  <2>3. RowsOK'
    BY <1>3, <1>6, WriteKeeps DEF ClaimStuck, WriteOrLose
  <2> QED
    BY <1>2, <2>2, <2>3
<1>7. CASE SkipStuck(r) \/ LookupFails(r) \/ FetchLost(r)
  BY <1>1, <1>2, <1>4, <1>7 DEF SkipStuck, LookupFails, FetchLost
<1>8. \A n \in 0..MaxStampingAttempts : Bumped(n) \in 0..MaxStampingAttempts
  BY StampingAssumption DEF Bumped
<1>9. CASE ResolveStuck(r)
  <2>1. i \in Invoices /\ inv[i] \in Invoice /\ rec[r].fid \in Documents \cup {NoDoc}
    BY <1>3, <1>9 DEF ResolveStuck, Cycle
  <2>2. \A d \in Found(i, rec[r].fid) : Resolved(inv[i], d) \in Invoice
    <3> SUFFICES ASSUME NEW d \in Found(i, rec[r].fid) PROVE Resolved(inv[i], d) \in Invoice
      OBVIOUS
    <3>1. d \in Documents
      BY <2>1 DEF Found, DocsOf
    <3> QED
      BY <2>1, <3>1 DEF Resolved, Invoice
  <2>3. Missed(inv[i], rec[r].attempts) \in Invoice
    BY <1>3, <1>8, <2>1 DEF Missed, Invoice, Cycle
  <2>4. RowsOK'
    BY <1>9, <2>1, <2>2, <2>3, WriteKeeps DEF ResolveStuck, WriteOrLose
  <2> QED
    BY <1>2, <1>4, <1>9, <2>4 DEF ResolveStuck
<1>10. CASE FetchStuck(r)
  <2>1. /\ i \in Invoices /\ inv[i] \in Invoice
        /\ rec[r].fid \in Documents /\ rec[r].uuid \in Documents \cup {MockDoc}
    BY <1>3, <1>10 DEF FetchStuck, LacksId, Cycle
  <2>2. ReconcileRow(i, rec[r]) => RowsOK'
    <3>1. 0 \in 0..MaxStampingAttempts
      BY StampingAssumption
    <3>2. \A fid \in {inv[i].fid, rec[r].fid} :
             [inv[i] EXCEPT !.status = "stamped", !.uuid = rec[r].uuid, !.xml = TRUE,
                            !.fid = fid, !.attempts = 0] \in Invoice
      BY <2>1, <3>1 DEF Invoice
    <3>3. Reconciled(inv[i], rec[r]) \in Invoice
      BY <3>2 DEF Reconciled
    <3>4. Write(i, Reconciled(inv[i], rec[r])) => RowsOK'
      BY <2>1, <3>3, WriteKeeps DEF WriteOrLose
    <3> QED
      BY <1>1, <3>4 DEF ReconcileRow, UnchangedInvoices
  <2>3. GiveUpXml(i, rec[r]) => RowsOK'
    <3> DEFINE spent == MissesExhausted(rec[r].attempts)
    <3>1. \A status \in {inv[i].status, "stamped"}, pending \in BOOLEAN :
             [inv[i] EXCEPT !.status = status, !.xmlPending = pending,
                            !.attempts = Bumped(rec[r].attempts)] \in Invoice
      BY <1>3, <1>8, <2>1 DEF Invoice, Cycle
    <3>2. (inv[i].xmlPending \/ spent) \in BOOLEAN
      OBVIOUS
    <3> QED
      BY <2>1, <3>1, <3>2, WriteKeeps DEF GiveUpXml, WriteOrLose
  <2> QED
    BY <1>2, <1>4, <1>10, <2>2, <2>3 DEF FetchStuck
<1>11. CASE CrashReconciler(r)
  BY <1>2, <1>4, <1>11 DEF CrashReconciler, RowsOK
<1> QED
  BY <1>5, <1>6, <1>7, <1>9, <1>10, <1>11 DEF ReconcilerStep

LEMMA TypedStep ==
    ASSUME Typed, QueueInv, [Next]_vars
    PROVE  Typed'
<1>1. ASSUME NEW h \in Handlers, NEW i \in Invoices, UserRequest(h, i)
      PROVE  Typed'
  <2>1. RequestsOK'
    BY <1>1, RequestKeeps DEF UserRequest, Typed
  <2> QED
    BY <1>1, <2>1 DEF UserRequest, Typed, RowsOK, WorkOK, CyclesOK, PacOK
<1>2. CASE UNCHANGED vars
  BY <1>2 DEF vars, Typed, RowsOK, RequestsOK, WorkOK, CyclesOK, PacOK
<1> QED
  BY <1>1, <1>2, OthersKeep, HandlerKeeps, ConsumerKeeps, ReconcilerKeeps DEF Next

LEMMA TypedHolds == Spec => []Typed
  BY TypedInit, TypedStep, QueueInvHolds, PTL DEF Spec

\* Every reachable state is well typed: the columns of the invoice only take
\* values the table admits, the ids it holds are documents of the PAC.
THEOREM StampingTypeCorrect == Spec => []TypeOK
<1>1. Typed /\ QueueInv => TypeOK
  BY DEF Typed, QueueInv, TypeOK, RowsOK, RequestsOK, WorkOK, CyclesOK, PacOK
<1> QED
  BY <1>1, TypedHolds, QueueInvHolds, PTL

-----------------------------------------------------------------------------
(* Who works on an invoice.                                                *)

Status(i) == inv[i].status

\* Nobody is between the claim of i and the last write of it, as a request or as
\* a run of the reconciliation.
NoEmitter(i) == \A h \in Handlers : Emitting(h) => req[h].inv # i
NoCycle(i) == \A r \in Reconcilers : rec[r].pc = "claimed" => rec[r].inv # i

\* A request at work has marked its invoice.
EmittersMark == \A h \in Handlers : Emitting(h) => Status(req[h].inv) = "stamping"

\* A run of the reconciliation at work shares its invoice with no request, and
\* what it read of another invoice is stale once somebody works on that one.
CyclesAlone ==
    \A r \in Reconcilers :
        LET i == rec[r].inv
        IN /\ rec[r].pc = "claimed" => Status(i) = "stamping" /\ NoEmitter(i)
           /\ rec[r].pc = "selected" /\ r \in fresh =>
                 Status(i) = "stamping" /\ NoEmitter(i) /\ NoCycle(i)

\* A run of the queue whose reading is current works on an invoice that nobody
\* has marked.
ReadersUnmarked ==
    \A c \in Consumers : c \in fresh =>
        /\ work[c].step \in {"lookup", "save"}
        /\ Status(SubjectOf(c)) \in {"pending", "error"}

Exclusive == SingleEmitter /\ OneReconciler /\ EmittersMark /\ CyclesAlone /\ ReadersUnmarked

LEMMA ExclusiveInit == Init => Exclusive
BY DEF Init, FreeSlot, Resting, Exclusive, SingleEmitter, OneReconciler, EmittersMark,
   CyclesAlone, ReadersUnmarked, Emitting

\* No request begins to emit, no run of the reconciliation claims an invoice, no
\* reading becomes current.
Retreat ==
    /\ \A h \in Handlers : Emitting(h)' => Emitting(h) /\ req'[h].inv = req[h].inv
    /\ \A r \in Reconcilers : rec'[r] = rec[r] \/ rec'[r].pc = "idle"
    /\ fresh' \subseteq fresh
    /\ \A c \in Consumers : c \in fresh' => hold'[c].job = hold[c].job
                                            /\ work'[c].step \in {"lookup", "save"}

\* Steps that mark no invoice and clear no mark.
LEMMA CalmStep ==
    ASSUME Typed, QueueInv, Exclusive, Retreat, \A i \in Invoices : Status(i)' = Status(i)
    PROVE  Exclusive'
<1> USE DEF Exclusive, Retreat
<1>1. \A i : (NoEmitter(i) => NoEmitter(i)') /\ (NoCycle(i) => NoCycle(i)')
  BY DEF NoEmitter, NoCycle
<1>2. \A h \in Handlers : Emitting(h) => req[h].inv \in Invoices
  BY DEF Typed, RequestsOK, Emitting
<1>3. \A r \in Reconcilers : rec[r].pc # "idle" => rec[r].inv \in Invoices
  BY DEF Typed, CyclesOK
<1>4. SingleEmitter'
  BY DEF SingleEmitter
<1>5. OneReconciler'
  BY DEF OneReconciler
<1>6. EmittersMark'
  BY <1>2 DEF EmittersMark, Status
<1>7. CyclesAlone'
  BY <1>1, <1>3 DEF CyclesAlone, Status
<1>8. ReadersUnmarked'
  <2> SUFFICES ASSUME NEW c \in Consumers, c \in fresh'
               PROVE  Status(SubjectOf(c))' \in {"pending", "error"}
    BY DEF ReadersUnmarked
  <2>1. SubjectOf(c)' = SubjectOf(c) /\ SubjectOf(c) \in Invoices
    BY SubjectIsInvoice DEF SubjectOf, ReadersUnmarked, Typed
  <2> QED
    BY <2>1 DEF ReadersUnmarked, Status
<1> QED
  BY <1>4, <1>5, <1>6, <1>7, <1>8

\* A write of one invoice, whatever it makes of the status, by the last process
\* that was at work on it: all that was read of that invoice becomes stale.
LEMMA LastWrite ==
    ASSUME Typed, QueueInv, Exclusive, Retreat, NEW i \in Invoices,
           \A k \in Invoices \ {i} : Status(k)' = Status(k),
           fresh' \subseteq fresh \ Readers(i),
           NoEmitter(i)', NoCycle(i)'
    PROVE  Exclusive'
<1> USE DEF Exclusive, Retreat
<1>1. \A k : (NoEmitter(k) => NoEmitter(k)') /\ (NoCycle(k) => NoCycle(k)')
  BY DEF NoEmitter, NoCycle
<1>2. \A h \in Handlers : Emitting(h)' => req'[h].inv \in Invoices \ {i}
  BY DEF Typed, RequestsOK, Emitting, NoEmitter
<1>3. \A r \in Reconcilers :
         /\ rec'[r].pc = "claimed" => rec'[r] = rec[r] /\ rec[r].inv \in Invoices \ {i}
         /\ rec'[r].pc = "selected" /\ r \in fresh' =>
               rec'[r] = rec[r] /\ rec[r].inv \in Invoices \ {i}
  BY DEF Typed, CyclesOK, NoCycle, Readers
<1>4. SingleEmitter'
  BY DEF SingleEmitter
<1>5. OneReconciler'
  BY DEF OneReconciler
<1>6. EmittersMark'
  BY <1>2 DEF EmittersMark, Status
<1>7. CyclesAlone'
  BY <1>1, <1>3 DEF CyclesAlone, Status
<1>8. ReadersUnmarked'
  <2> SUFFICES ASSUME NEW c \in Consumers, c \in fresh'
               PROVE  Status(SubjectOf(c))' \in {"pending", "error"}
    BY DEF ReadersUnmarked
  <2>1. SubjectOf(c)' = SubjectOf(c) /\ SubjectOf(c) \in Invoices
    BY SubjectIsInvoice DEF SubjectOf, ReadersUnmarked, Typed
  <2>2. SubjectOf(c) # i
    BY SubjectIsInvoice DEF Readers, SubjectOf, ReadersUnmarked, Typed
  <2> QED
    BY <2>1, <2>2 DEF ReadersUnmarked, Status
<1> QED
  BY <1>4, <1>5, <1>6, <1>7, <1>8

\* What a write does to the statuses.
LEMMA WriteStatus ==
    ASSUME RowsOK, NEW i \in Invoices, NEW row, Write(i, row)
    PROVE  /\ Status(i)' = row.status
           /\ \A k \in Invoices \ {i} : Status(k)' = Status(k)
           /\ fresh' = fresh \ Readers(i)
BY DEF RowsOK, Write, Status

\* An answer ends the work of a request.
LEMMA AnswerEnds ==
    ASSUME RequestsOK, NEW h \in Handlers, NEW kind, Answer(h, kind)
    PROVE  ~Emitting(h)' /\ \A g \in Handlers \ {h} : req'[g] = req[g]
<1>1. req[h] \in Slot /\ \A g \in Handlers \ {h} : req'[g] = req[g]
  BY DEF RequestsOK, Answer
<1>2. req'[h] = FreeSlot \/ req'[h] = [req[h] EXCEPT !.pc = "answered", !.kind = kind]
  BY DEF RequestsOK, Answer
<1>3. req'[h] = FreeSlot => req'[h].pc = "idle"
  BY DEF FreeSlot
<1>4. [req[h] EXCEPT !.pc = "answered", !.kind = kind].pc = "answered"
  BY <1>1 DEF Slot
<1> QED
  BY <1>1, <1>2, <1>3, <1>4 DEF Emitting

\* Request h does not begin to emit, and the others stand still.
OnlyHandler(h) ==
    /\ UNCHANGED <<hold, work, rec>>
    /\ \A g \in Handlers \ {h} : req'[g] = req[g]
    /\ Emitting(h)' => Emitting(h) /\ req'[h].inv = req[h].inv

LEMMA HandlerRetreats ==
    ASSUME ReadersUnmarked, NEW h \in Handlers, OnlyHandler(h), fresh' \subseteq fresh
    PROVE  Retreat
BY DEF OnlyHandler, Retreat, ReadersUnmarked, Emitting

\* The last write of a request that emits.
LEMMA EmitterEnds ==
    ASSUME Typed, QueueInv, Exclusive, NEW h \in Handlers, Emitting(h), ~Emitting(h)',
           OnlyHandler(h), NEW row, WriteOrLose(req[h].inv, row)
    PROVE  Exclusive'
<1>1. PICK i \in Invoices : i = req[h].inv
  BY DEF Typed, RequestsOK, Emitting
<1>2. RowsOK /\ ReadersUnmarked
  BY DEF Typed, Exclusive
<1>3. NoEmitter(i)'
  <2>1. \A g \in Handlers : Emitting(g)' => g # h /\ Emitting(g) /\ req'[g] = req[g]
    BY DEF OnlyHandler, Emitting
  <2> QED
    BY <1>1, <2>1 DEF NoEmitter, Exclusive, SingleEmitter
<1>4. NoCycle(i)'
  BY <1>1 DEF NoCycle, OnlyHandler, Exclusive, CyclesAlone, NoEmitter
<1>5. CASE Write(i, row)
  <2>1. /\ \A k \in Invoices \ {i} : Status(k)' = Status(k)
        /\ fresh' \subseteq fresh \ Readers(i)
    BY <1>2, <1>5, WriteStatus
  <2>2. Retreat
    BY <1>2, <2>1, HandlerRetreats
  <2> QED
    BY <1>3, <1>4, <2>1, <2>2, LastWrite
<1>6. CASE UnchangedInvoices
  <2>1. fresh' \subseteq fresh /\ \A k \in Invoices : Status(k)' = Status(k)
    BY <1>6 DEF UnchangedInvoices, Status
  <2> QED
    BY <1>2, <2>1, HandlerRetreats, CalmStep
<1> QED
  BY <1>1, <1>5, <1>6 DEF WriteOrLose

\* The claim of an invoice: its status says that no request emits for it and no
\* run of the reconciliation works on it.
LEMMA ClaimExclusive ==
    ASSUME Typed, QueueInv, Exclusive, NEW h \in Handlers, req[h].pc = "claim",
           Claimable(RowOf(h)), Write(req[h].inv, [RowOf(h) EXCEPT !.status = "stamping"]),
           GoTo(h, "config"), UNCHANGED <<hold, work, rec>>
    PROVE  Exclusive'
<1> USE DEF Exclusive
<1>0. PICK i \in Invoices : i = req[h].inv
  BY DEF Typed, RequestsOK
<1>1. RowsOK /\ inv[i] \in Invoice /\ req[h] \in Slot
  BY DEF Typed, RequestsOK, RowsOK
<1>2. /\ Status(i)' = "stamping"
      /\ \A k \in Invoices \ {i} : Status(k)' = Status(k)
      /\ fresh' = fresh \ Readers(i)
  <2>1. [RowOf(h) EXCEPT !.status = "stamping"].status = "stamping"
    BY <1>0, <1>1 DEF RowOf, Invoice
  <2>2. Write(i, [RowOf(h) EXCEPT !.status = "stamping"])
    BY <1>0
  <2> QED
    BY <1>1, <2>1, <2>2, WriteStatus
<1>3. Status(i) # "stamping"
  BY <1>0 DEF Claimable, RowOf, Status
<1>4. NoEmitter(i) /\ NoCycle(i)
  BY <1>3 DEF NoEmitter, NoCycle, EmittersMark, CyclesAlone
<1>5. /\ req'[h].inv = i /\ \A g \in Handlers \ {h} : req'[g] = req[g]
      /\ \A g \in Handlers \ {h} : Emitting(g)' = Emitting(g)
  BY <1>0, <1>1 DEF GoTo, Typed, RequestsOK, Slot, Emitting
<1>6. \A g \in Handlers : Emitting(g) => req[g].inv \in Invoices \ {i}
  BY <1>4 DEF Typed, RequestsOK, Emitting, NoEmitter
<1>7. \A r \in Reconcilers :
         /\ rec[r].pc = "claimed" => rec[r].inv \in Invoices \ {i}
         /\ rec[r].pc = "selected" /\ r \in fresh' => rec[r].inv \in Invoices \ {i}
  BY <1>2, <1>4 DEF Typed, CyclesOK, NoCycle, Readers
<1>8. SingleEmitter'
  BY <1>5, <1>6 DEF SingleEmitter
<1>9. OneReconciler'
  BY DEF OneReconciler
<1>10. EmittersMark'
  BY <1>2, <1>5, <1>6 DEF EmittersMark, Status
<1>11. CyclesAlone'
  <2>1. \A k \in Invoices \ {i} : /\ NoEmitter(k) => NoEmitter(k)'
                                  /\ NoCycle(k) => NoCycle(k)'
    BY <1>5 DEF NoEmitter, NoCycle
  <2> QED
    BY <1>2, <1>7, <2>1 DEF CyclesAlone, Status
<1>12. ReadersUnmarked'
  <2> SUFFICES ASSUME NEW c \in Consumers, c \in fresh'
               PROVE  Status(SubjectOf(c))' \in {"pending", "error"}
    BY <1>2 DEF ReadersUnmarked
  <2>1. SubjectOf(c)' = SubjectOf(c) /\ SubjectOf(c) \in Invoices \ {i}
    BY <1>2, SubjectIsInvoice DEF SubjectOf, ReadersUnmarked, Typed, Readers
  <2> QED
    BY <1>2, <2>1 DEF ReadersUnmarked, Status
<1> QED
  BY <1>8, <1>9, <1>10, <1>11, <1>12

\* A step of a request.
LEMMA HandlerExclusive ==
    ASSUME Typed, QueueInv, Exclusive, NEW h \in Handlers, HandlerStep(h) \/ CrashRequest(h)
    PROVE  Exclusive'
<1> USE DEF Serves
<1>1. /\ RequestsOK /\ RowsOK /\ ReadersUnmarked /\ req[h] \in Slot
      /\ UNCHANGED <<hold, work, rec>>
  BY DEF Typed, RequestsOK, Exclusive, HandlerStep, CrashRequest, ClaimInvoice, RefuseConfig,
     StampStub, SendToPac, PacAnswers, PacRefuses, PacLosesAnswer, TimeOut, RecordRefusal,
     EnqueueRetry, EnqueueLost, RecordIncomplete, PersistIds, FinishStamping, Queue!Enqueue
<1>2. OnlyHandler(h) /\ UNCHANGED <<inv, fresh>> => Exclusive'
  BY <1>1, HandlerRetreats, CalmStep DEF Status
<1>3. \A kind : Answer(h, kind) => OnlyHandler(h) /\ ~Emitting(h)'
  BY <1>1, AnswerEnds DEF OnlyHandler
<1>4. CASE ClaimInvoice(h)
  <2>1. CASE Claimable(RowOf(h))
    BY <1>1, <1>4, <2>1, ClaimExclusive DEF ClaimInvoice
  <2>2. CASE ~Claimable(RowOf(h))
    BY <1>2, <1>3, <1>4, <2>2 DEF ClaimInvoice, UnchangedInvoices
  <2> QED
    BY <2>1, <2>2
<1>5. CASE RefuseConfig(h) \/ StampStub(h) \/ RecordIncomplete(h)
  <2>1. PICK row, kind : WriteOrLose(req[h].inv, row) /\ Answer(h, kind)
    BY <1>5 DEF RefuseConfig, StampStub, RecordIncomplete
  <2>2. Emitting(h)
    BY <1>5 DEF RefuseConfig, StampStub, RecordIncomplete, Emitting
  <2> QED
    BY <1>3, <2>1, <2>2, EmitterEnds
<1>6. CASE SendToPac(h) \/ PacAnswers(h) \/ PacRefuses(h) \/ PacLosesAnswer(h)
  <2>1. UNCHANGED <<inv, fresh>> /\ Emitting(h)
    BY <1>6 DEF SendToPac, PacAnswers, PacRefuses, PacLosesAnswer, Emitting
  <2>2. CASE SendToPac(h)
    BY <1>1, <1>2, <2>1, <2>2 DEF SendToPac, GoTo, RequestsOK, Slot, OnlyHandler
  <2>3. CASE PacAnswers(h)
    <3>1. PICK d, state : req' = [req EXCEPT ![h].pc = AfterAnswer(state), ![h].doc = d,
                                             ![h].kind = state]
      BY <2>3 DEF PacAnswers
    <3> QED
      BY <1>1, <1>2, <2>1, <3>1 DEF RequestsOK, Slot, OnlyHandler
  <2>4. CASE PacRefuses(h) \/ PacLosesAnswer(h)
    <3>1. PICK kind : req' = [req EXCEPT ![h].pc = "refused", ![h].kind = kind]
      BY <2>4 DEF PacRefuses, PacLosesAnswer
    <3> QED
      BY <1>1, <1>2, <2>1, <3>1 DEF RequestsOK, Slot, OnlyHandler
  <2> QED
    BY <1>6, <2>2, <2>3, <2>4
<1>7. CASE TimeOut(h) \/ (\E j \in Jobs : EnqueueRetry(h, j)) \/ EnqueueLost(h)
  BY <1>2, <1>3, <1>7 DEF TimeOut, EnqueueRetry, EnqueueLost
<1>8. CASE RecordRefusal(h)
  <2>1. PICK row : WriteOrLose(req[h].inv, row)
    BY <1>8 DEF RecordRefusal
  <2>2. Emitting(h)
    BY <1>8 DEF RecordRefusal, Emitting
  <2>3. GoTo(h, "enqueue") => OnlyHandler(h) /\ ~Emitting(h)'
    BY <1>1 DEF GoTo, OnlyHandler, Emitting, RequestsOK, Slot
  <2>4. OnlyHandler(h) /\ ~Emitting(h)'
    BY <1>3, <1>8, <2>3 DEF RecordRefusal
  <2> QED
    BY <2>1, <2>2, <2>4, EmitterEnds
<1>9. CASE PersistIds(h)
  <2>1. OnlyHandler(h)
    BY <1>1, <1>9 DEF PersistIds, GoTo, OnlyHandler, Emitting, RequestsOK, Slot
  <2>2. PICK i \in Invoices : i = req[h].inv /\ inv[i] \in Invoice
    BY <1>1, <1>9 DEF PersistIds, RequestsOK, RowsOK
  <2>3. [inv[i] EXCEPT !.fid = req[h].doc, !.uuid = req[h].doc].status = Status(i)
    BY <2>2 DEF Invoice, Status
  <2>4. \/ Write(i, [inv[i] EXCEPT !.fid = req[h].doc, !.uuid = req[h].doc])
        \/ UNCHANGED <<inv, fresh>>
    BY <1>9, <2>2 DEF PersistIds, RowOf, WriteOrLose, UnchangedInvoices
  <2>5. fresh' \subseteq fresh /\ \A k \in Invoices : Status(k)' = Status(k)
    BY <1>1, <2>3, <2>4, WriteStatus DEF Status
  <2> QED
    BY <1>1, <2>1, <2>5, HandlerRetreats, CalmStep
<1>10. CASE FinishStamping(h)
  <2>1. PICK row, kind : WriteOrLose(req[h].inv, row) /\ Answer(h, kind)
    BY <1>10 DEF FinishStamping, WriteOrLose
  <2>2. Emitting(h)
    BY <1>10 DEF FinishStamping, Emitting
  <2> QED
    BY <1>3, <2>1, <2>2, EmitterEnds
<1>11. CASE CrashRequest(h)
  <2>1. OnlyHandler(h)
    BY <1>1, <1>11 DEF CrashRequest, OnlyHandler, Emitting, RequestsOK, FreeSlot
  <2> QED
    BY <1>2, <1>11, <2>1 DEF CrashRequest
<1> QED
  BY <1>4, <1>5, <1>6, <1>7, <1>8, <1>9, <1>10, <1>11 DEF HandlerStep

\* No request begins to emit, and the runs other than c stand still.
Silent == \A h \in Handlers : Emitting(h)' => Emitting(h) /\ req'[h].inv = req[h].inv

OnlyRun(c) ==
    /\ UNCHANGED rec
    /\ \A b \in Consumers \ {c} : hold'[b] = hold[b] /\ work'[b] = work[b]

LEMMA RequestSilent ==
    ASSUME RequestsOK, NEW h \in Handlers, NEW i, NEW caller, NEW job, NEW token, NEW verdict,
           StampRequest(h, i, caller, job, token, verdict)
    PROVE  Silent
<1>1. req'[h].pc \in {"claim", "answered"} /\ \A g \in Handlers \ {h} : req'[g] = req[g]
  BY DEF StampRequest, RequestsOK
<1> QED
  BY <1>1 DEF Silent, Emitting

LEMMA DisownSilent ==
    ASSUME RequestsOK, NEW c \in Consumers, Disown(c)
    PROVE  Silent
<1> SUFFICES ASSUME NEW h \in Handlers, Emitting(h)'
             PROVE  Emitting(h) /\ req'[h].inv = req[h].inv
  BY DEF Silent
<1>1. req[h] \in Slot
  BY DEF RequestsOK
<1>2. req'[h] # FreeSlot
  BY DEF Emitting, FreeSlot
<1>3. req'[h] = req[h] \/ req'[h] = [req[h] EXCEPT !.caller = User]
  BY <1>2 DEF Disown
<1>4. req'[h].pc = req[h].pc /\ req'[h].inv = req[h].inv
  BY <1>1, <1>3 DEF Slot
<1> QED
  BY <1>4 DEF Emitting

\* A run that writes no invoice, and reads none or stays with what it read.
LEMMA RunCalm ==
    ASSUME Typed, QueueInv, Exclusive, NEW c \in Consumers, OnlyRun(c), Silent,
           UNCHANGED inv, fresh' \subseteq fresh,
           c \in fresh' => hold'[c] = hold[c] /\ work'[c].step \in {"lookup", "save"}
    PROVE  Exclusive'
<1>1. Retreat
  BY DEF Retreat, OnlyRun, Silent, Exclusive, ReadersUnmarked
<1> QED
  BY <1>1, CalmStep DEF Status

\* A run that reads an invoice that may be stamped: its reading is current.
LEMMA ReadExclusive ==
    ASSUME Typed, QueueInv, Exclusive, NEW c \in Consumers, work[c].step = "read",
           ~NoOp(inv[SubjectOf(c)]), work' = [work EXCEPT ![c].step = "lookup"],
           fresh' = fresh \cup {c}, UNCHANGED <<hold, inv, req, rec>>
    PROVE  Exclusive'
<1> USE DEF Exclusive
<1>1. c \notin Reconcilers
  BY StampingAssumption
<1>2. Status(SubjectOf(c)) \in {"pending", "error"}
  BY DEF NoOp, Status
<1>3. SingleEmitter' /\ OneReconciler' /\ EmittersMark'
  BY DEF SingleEmitter, OneReconciler, EmittersMark, Status, Emitting
<1>4. CyclesAlone'
  BY <1>1 DEF CyclesAlone, NoEmitter, NoCycle, Status, Emitting
<1>5. ReadersUnmarked'
  <2> SUFFICES ASSUME NEW b \in Consumers, b \in fresh'
               PROVE  /\ work'[b].step \in {"lookup", "save"}
                      /\ Status(SubjectOf(b))' \in {"pending", "error"}
    BY DEF ReadersUnmarked
  <2>1. Status(SubjectOf(b))' = Status(SubjectOf(b))
    BY DEF Status, SubjectOf
  <2>2. work'[b].step \in {"lookup", "save"}
    BY DEF Typed, WorkOK, Work, ReadersUnmarked
  <2> QED
    BY <1>2, <2>1, <2>2 DEF ReadersUnmarked
<1> QED
  BY <1>3, <1>4, <1>5

\* A run that saves what it recovered, over the row that it read.
LEMMA SaveExclusive ==
    ASSUME Typed, QueueInv, Exclusive, NEW c \in Consumers, OnlyRun(c), c \in fresh,
           UNCHANGED <<hold, req>>, NEW row, Write(SubjectOf(c), row)
    PROVE  Exclusive'
<1>1. PICK i \in Invoices : i = SubjectOf(c) /\ hold[c].job \in Jobs
  BY SubjectIsInvoice DEF Exclusive, ReadersUnmarked, Typed
<1>2. /\ RowsOK
      /\ \A k \in Invoices \ {i} : Status(k)' = Status(k)
      /\ fresh' = fresh \ Readers(i)
  BY <1>1, WriteStatus DEF Typed
<1>3. c \notin fresh'
  BY <1>1, <1>2 DEF Readers, SubjectOf
<1>4. Retreat
  BY <1>2, <1>3 DEF Retreat, OnlyRun, Emitting, Exclusive, ReadersUnmarked
<1>5. Status(i) # "stamping"
  BY <1>1 DEF Exclusive, ReadersUnmarked
<1>6. NoEmitter(i)'
  BY <1>5 DEF NoEmitter, Exclusive, EmittersMark, Emitting
<1>7. NoCycle(i)'
  BY <1>5 DEF NoCycle, Exclusive, CyclesAlone, OnlyRun
<1> QED
  BY <1>2, <1>4, <1>6, <1>7, LastWrite

\* A step of a run of the queue.
LEMMA ConsumerExclusive ==
    ASSUME Typed, QueueInv, Exclusive, NEW c \in Consumers, ConsumerStep(c)
    PROVE  Exclusive'
<1>1. /\ RequestsOK /\ RowsOK
      /\ DOMAIN hold = Consumers /\ DOMAIN work = Consumers /\ work[c] \in Work
      /\ c \in fresh => work[c].step \in {"lookup", "save"} /\ hold[c].phase = "owner"
  BY DEF Typed, RowsOK, WorkOK, QueueInv, Queue!TypeOK, Exclusive, ReadersUnmarked
<1>2. UNCHANGED req => Silent
  BY DEF Silent, Emitting
<1>3. Leaves(c) /\ Done(c) /\ UNCHANGED rec
        => OnlyRun(c) /\ fresh' \subseteq fresh /\ c \notin fresh'
  BY <1>1, LeavesRow DEF OnlyRun, Done
<1>4. Leaves(c) /\ Done(c) /\ Silent /\ UNCHANGED <<inv, rec>> => Exclusive'
  BY <1>3, RunCalm
<1>5. CASE (\E j \in Jobs : SelectRow(c, j)) \/ TakeRow(c) \/ SkipRow(c)
  <2>1. c \notin fresh /\ UNCHANGED <<inv, fresh, req, rec>>
    BY <1>1, <1>5 DEF SelectRow, TakeRow, SkipRow, Queue!SelectRow, Queue!Claim, Queue!ClaimSkipped
  <2>2. OnlyRun(c)
    BY <1>1, <1>5 DEF SelectRow, TakeRow, SkipRow, Queue!SelectRow, Queue!Claim,
       Queue!ClaimSkipped, OnlyRun
  <2> QED
    BY <1>2, <2>1, <2>2, RunCalm
<1>6. CASE ReadInvoice(c)
  <2>1. CASE Leaves(c) /\ Done(c)
    BY <1>2, <1>4, <1>6, <2>1 DEF ReadInvoice
  <2>2. CASE /\ ~NoOp(inv[SubjectOf(c)])
             /\ work' = [work EXCEPT ![c].step = "lookup"]
             /\ fresh' = fresh \cup {c} /\ UNCHANGED <<queue, hold>>
    BY <1>6, <2>2, ReadExclusive DEF ReadInvoice, Step
  <2> QED
    BY <1>6, <2>1, <2>2 DEF ReadInvoice, Leaves, Queue!Outcome
<1>7. CASE LookUp(c)
  <2>1. CASE Leaves(c) /\ Done(c)
    BY <1>2, <1>4, <1>7, <2>1 DEF LookUp
  <2>2. CASE /\ work' = [work EXCEPT ![c].step = "invoke"]
             /\ fresh' = fresh \ {c} /\ UNCHANGED <<queue, hold>>
    <3>1. OnlyRun(c)
      BY <1>1, <1>7, <2>2 DEF LookUp, OnlyRun
    <3> QED
      BY <1>2, <1>7, <2>2, <3>1, RunCalm DEF LookUp
  <2>3. ASSUME NEW d, UNCHANGED <<queue, hold, fresh>>,
               work' = [work EXCEPT ![c].step = "save", ![c].doc = d, ![c].kind = pac[d].state]
        PROVE  Exclusive'
    <3>1. OnlyRun(c) /\ work'[c].step = "save"
      BY <1>1, <1>7, <2>3 DEF LookUp, OnlyRun, Work
    <3> QED
      BY <1>2, <1>7, <2>3, <3>1, RunCalm DEF LookUp
  <2> QED
    BY <1>7, <2>1, <2>2, <2>3 DEF LookUp, Leaves, Queue!Outcome
<1>8. CASE SaveRecovered(c)
  <2>1. CASE Leaves(c) /\ Done(c) /\ UNCHANGED inv
    BY <1>2, <1>4, <1>8, <2>1 DEF SaveRecovered
  <2>2. ASSUME NEW row, Write(SubjectOf(c), row), StillAsRead(c),
               work' = [work EXCEPT ![c].step = "close"], UNCHANGED <<queue, hold>>
        PROVE  Exclusive'
    <3>1. OnlyRun(c)
      BY <1>1, <1>8, <2>2 DEF SaveRecovered, OnlyRun
    <3> QED
      BY <1>8, <2>2, <3>1, SaveExclusive DEF SaveRecovered, StillAsRead
  <2> QED
    BY <1>8, <2>1, <2>2 DEF SaveRecovered, Leaves, Queue!Outcome
<1>9. CASE CloseRecovered(c)
  BY <1>2, <1>4, <1>9 DEF CloseRecovered, Leaves, Queue!Outcome
<1>10. ASSUME NEW h \in Handlers, Invoke(c, h)
       PROVE  Exclusive'
  <2>1. Silent /\ c \notin fresh /\ UNCHANGED <<inv, fresh>>
    BY <1>1, <1>10, RequestSilent DEF Invoke, Step
  <2>2. OnlyRun(c)
    BY <1>1, <1>10 DEF Invoke, OnlyRun
  <2> QED
    BY <2>1, <2>2, RunCalm
<1>11. CASE Collect(c)
  <2>1. Silent
    BY <1>1, <1>11 DEF Collect, RequestsOK, FreeSlot, Silent, Emitting
  <2> QED
    BY <1>4, <1>11, <2>1 DEF Collect, Leaves, Queue!Outcome
<1>12. CASE StopWaiting(c) \/ LoseRow(c)
  BY <1>1, <1>4, <1>12, DisownSilent DEF StopWaiting, LoseRow, Leaves, Queue!Outcome
<1> QED
  BY <1>5, <1>6, <1>7, <1>8, <1>9, <1>10, <1>11, <1>12 DEF ConsumerStep

-----------------------------------------------------------------------------
\* Run r of the reconciliation rests, and nothing moves but the row it wrote.
RestsAlone(r) == Rest(r) /\ UNCHANGED <<hold, req, work>>

LEMMA RestRetreats ==
    ASSUME CyclesOK, ReadersUnmarked, NEW r \in Reconcilers, RestsAlone(r),
           fresh' \subseteq fresh
    PROVE  Retreat /\ rec'[r].pc = "idle" /\ \A q \in Reconcilers \ {r} : rec'[q] = rec[q]
<1>1. rec'[r] = Resting /\ \A q \in Reconcilers \ {r} : rec'[q] = rec[q]
  BY DEF RestsAlone, Rest, CyclesOK
<1>2. rec'[r].pc = "idle"
  BY <1>1 DEF Resting
<1>3. UNCHANGED <<hold, req, work>>
  BY DEF RestsAlone
<1> QED
  BY <1>1, <1>2, <1>3 DEF Retreat, ReadersUnmarked, Emitting

\* The last write of a run of the reconciliation.
LEMMA CycleEnds ==
    ASSUME Typed, QueueInv, Exclusive, NEW r \in Reconcilers, rec[r].pc = "claimed",
           RestsAlone(r), NEW row, Write(rec[r].inv, row)
    PROVE  Exclusive'
<1>1. PICK i \in Invoices : i = rec[r].inv
  BY DEF Typed, CyclesOK
<1>2. /\ \A k \in Invoices \ {i} : Status(k)' = Status(k)
      /\ fresh' = fresh \ Readers(i)
  BY <1>1, WriteStatus DEF Typed
<1>3. Retreat /\ rec'[r].pc = "idle" /\ \A q \in Reconcilers \ {r} : rec'[q] = rec[q]
  BY <1>2, RestRetreats DEF Typed, Exclusive
<1>4. NoEmitter(i)'
  BY <1>1 DEF Exclusive, CyclesAlone, NoEmitter, RestsAlone, Emitting
<1>5. NoCycle(i)'
  BY <1>1, <1>3 DEF NoCycle, Exclusive, OneReconciler
<1> QED
  BY <1>2, <1>3, <1>4, <1>5, LastWrite

\* A run selects an invoice that nobody has touched for ten minutes.
LEMMA SelectExclusive ==
    ASSUME Typed, Exclusive, NEW r \in Reconcilers, NEW s \in Invoices, SelectStuck(r, s)
    PROVE  Exclusive'
<1> USE DEF Exclusive
<1>1. /\ NoEmitter(s) /\ NoCycle(s) /\ Status(s) = "stamping"
      /\ UNCHANGED <<hold, inv, req, work>>
      /\ fresh' = fresh \cup {r}
  BY DEF SelectStuck, Quiet, NoEmitter, NoCycle, Emitting, Serves, Status
<1>2. /\ rec'[r].pc = "selected" /\ rec'[r].inv = s
      /\ \A q \in Reconcilers \ {r} : rec'[q] = rec[q]
  BY DEF SelectStuck, Typed, CyclesOK
<1>3. \A i : (NoEmitter(i) => NoEmitter(i)') /\ (NoCycle(i) => NoCycle(i)')
  BY <1>1, <1>2 DEF NoEmitter, NoCycle, Emitting
<1>4. SingleEmitter' /\ EmittersMark'
  BY <1>1 DEF SingleEmitter, EmittersMark, Status, Emitting
<1>5. OneReconciler'
  BY <1>2 DEF OneReconciler
<1>6. CyclesAlone'
  BY <1>1, <1>2, <1>3 DEF CyclesAlone, Status
<1>7. ReadersUnmarked'
  BY <1>1, StampingAssumption DEF ReadersUnmarked, Status, SubjectOf
<1> QED
  BY <1>4, <1>5, <1>6, <1>7

\* claimRow: what r read is current, so nobody works on the invoice, and what the
\* others read of it becomes stale.
LEMMA ClaimStuckExclusive ==
    ASSUME Typed, QueueInv, Exclusive, NEW r \in Reconcilers, ClaimStuck(r)
    PROVE  Exclusive'
<1> USE DEF Exclusive
<1>1. PICK i \in Invoices : i = rec[r].inv
  BY DEF ClaimStuck, Typed, CyclesOK
<1>2. NoEmitter(i) /\ NoCycle(i) /\ Status(i) = "stamping"
  BY <1>1 DEF ClaimStuck, CyclesAlone
<1>3. /\ \A k \in Invoices : Status(k)' = Status(k)
      /\ fresh' = fresh \ Readers(i)
      /\ UNCHANGED <<hold, req, work>>
  BY <1>1, WriteStatus DEF ClaimStuck, Typed, Status
<1>4. /\ rec'[r].pc = "claimed" /\ rec'[r].inv = i
      /\ \A q \in Reconcilers \ {r} : rec'[q] = rec[q]
  BY <1>1 DEF ClaimStuck, Typed, CyclesOK, Cycle
<1>5. \A k : /\ NoEmitter(k) => NoEmitter(k)'
             /\ NoCycle(k) /\ k # i => NoCycle(k)'
  BY <1>3, <1>4 DEF NoEmitter, NoCycle, Emitting
<1>6. SingleEmitter' /\ EmittersMark'
  BY <1>3 DEF SingleEmitter, EmittersMark, Status, Emitting, Typed, RequestsOK
<1>7. OneReconciler'
  BY <1>2, <1>4 DEF OneReconciler, NoCycle
<1>8. CyclesAlone'
  <2>1. \A q \in Reconcilers \ {r} :
           rec[q].pc = "selected" /\ q \in fresh' => rec[q].inv # i
    BY <1>3 DEF Readers
  <2>2. \A q \in Reconcilers : rec[q].pc # "idle" => rec[q].inv \in Invoices
    BY DEF Typed, CyclesOK
  <2> QED
    BY <1>2, <1>3, <1>4, <1>5, <2>1, <2>2 DEF CyclesAlone, Status
<1>9. ReadersUnmarked'
  <2> SUFFICES ASSUME NEW c \in Consumers, c \in fresh'
               PROVE  Status(SubjectOf(c))' \in {"pending", "error"}
    BY <1>3 DEF ReadersUnmarked
  <2>1. SubjectOf(c)' = SubjectOf(c) /\ SubjectOf(c) \in Invoices
    BY <1>3, SubjectIsInvoice DEF SubjectOf, ReadersUnmarked, Typed
  <2> QED
    BY <1>3, <2>1 DEF ReadersUnmarked, Status
<1> QED
  BY <1>6, <1>7, <1>8, <1>9

\* A step of a run of the reconciliation.
LEMMA ReconcilerExclusive ==
    ASSUME Typed, QueueInv, Exclusive, NEW r \in Reconcilers,
           ReconcilerStep(r) \/ CrashReconciler(r)
    PROVE  Exclusive'
<1>1. RestsAlone(r) /\ fresh' \subseteq fresh /\ UNCHANGED inv => Exclusive'
  BY RestRetreats, CalmStep DEF Typed, Exclusive, Status
<1>2. CASE SkipStuck(r) \/ LookupFails(r) \/ FetchLost(r) \/ CrashReconciler(r)
  BY <1>1, <1>2 DEF SkipStuck, LookupFails, FetchLost, CrashReconciler, RestsAlone
<1>3. CASE ResolveStuck(r)
  <2>1. PICK row : Write(rec[r].inv, row)
    BY <1>3 DEF ResolveStuck
  <2> QED
    BY <1>3, <2>1, CycleEnds DEF ResolveStuck, RestsAlone
<1>4. CASE FetchStuck(r)
  <2>1. RestsAlone(r) /\ rec[r].pc = "claimed"
    BY <1>4 DEF FetchStuck, RestsAlone
  <2>2. CASE UnchangedInvoices
    BY <1>1, <2>1, <2>2 DEF UnchangedInvoices
  <2>3. CASE ~UnchangedInvoices
    <3>1. PICK row : Write(rec[r].inv, row)
      BY <1>4, <2>3 DEF FetchStuck, ReconcileRow, GiveUpXml
    <3> QED
      BY <2>1, <3>1, CycleEnds
  <2> QED
    BY <2>2, <2>3
<1> QED
  BY <1>2, <1>3, <1>4, SelectExclusive, ClaimStuckExclusive DEF ReconcilerStep

LEMMA ExclusiveStep ==
    ASSUME Typed, QueueInv, Exclusive, [Next]_vars
    PROVE  Exclusive'
<1>1. ReadersUnmarked /\ RowsOK /\ RequestsOK
  BY DEF Exclusive, Typed
<1>2. UNCHANGED <<hold, work, rec>> /\ Silent /\ fresh' \subseteq fresh => Retreat
  BY <1>1 DEF Retreat, Silent, ReadersUnmarked
<1>3. UNCHANGED req => Silent
  BY DEF Silent, Emitting
<1>4. CASE \E i \in Invoices : EditInvoice(i)
  <2>1. PICK i \in Invoices : EditInvoice(i)
    BY <1>4
  <2>2. [inv[i] EXCEPT !.total = @ + 1].status = Status(i)
    BY <1>1 DEF RowsOK, Invoice, Status
  <2>3. fresh' \subseteq fresh /\ \A k \in Invoices : Status(k)' = Status(k)
    BY <1>1, <2>1, <2>2, WriteStatus DEF EditInvoice
  <2> QED
    BY <1>2, <1>3, <2>1, <2>3, CalmStep DEF EditInvoice
<1>5. ASSUME NEW h \in Handlers, NEW i \in Invoices, UserRequest(h, i)
      PROVE  Exclusive'
  <2>1. UNCHANGED <<hold, inv, fresh, work, rec>> /\ Silent
    BY <1>1, <1>5, RequestSilent DEF UserRequest
  <2> QED
    BY <1>2, <2>1, CalmStep DEF Status
<1>6. CASE PacStep \/ UNCHANGED vars
  <2>1. UNCHANGED <<hold, inv, fresh, req, work, rec>>
    BY <1>6 DEF PacStep, PacServesLate, PacSettles, PacLists, vars
  <2> QED
    BY <1>2, <1>3, <2>1, CalmStep DEF Status
<1> QED
  BY <1>4, <1>5, <1>6, HandlerExclusive, ConsumerExclusive, ReconcilerExclusive DEF Next

LEMMA ExclusiveHolds == Spec => []Exclusive
  BY ExclusiveInit, ExclusiveStep, TypedHolds, QueueInvHolds, PTL DEF Spec

\* An invoice never has two requests between its claim and its last write, for
\* any number of users, runs and retries, with every kind of failure: the
\* unconditional writes of stamp-cfdi have no rival.
THEOREM OneEmitterPerInvoice == Spec => []SingleEmitter
<1>1. Exclusive => SingleEmitter
  BY DEF Exclusive
<1> QED
  BY <1>1, ExclusiveHolds, PTL

\* Two runs of the reconciliation never work on the same invoice.
THEOREM OneReconcilerPerInvoice == Spec => []OneReconciler
<1>1. Exclusive => OneReconciler
  BY DEF Exclusive
<1> QED
  BY <1>1, ExclusiveHolds, PTL
=============================================================================
