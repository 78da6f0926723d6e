---------------------- MODULE InvoiceCancellation_proofs ----------------------
(***************************************************************************)
(* Proofs about the cancellation of invoices, for any number of invoices,  *)
(* requests, refreshes, rows and runs, and any kinds of failure.           *)
(*                                                                         *)
(* First, the composed system only takes steps that CfdiRetryQueue allows  *)
(* on the queue, so what is proved of the queue holds here.  With that,    *)
(* types and the guard on payments are preserved by every step.            *)
(***************************************************************************)
EXTENDS InvoiceCancellation, TLAPS

Lease == INSTANCE CfdiRetryQueue_proofs

-----------------------------------------------------------------------------
(* The queue inside the system.                                            *)

\* Each step of a request, a refresh or a run moves the queue as CfdiRetryQueue
\* says, or not at all.
LEMMA StepIsQueueStep ==
    ASSUME Next
    PROVE  [Queue!Next]_<<queue, hold>>
<1>1. CASE \E i \in Invoices : Documents(i)
  BY <1>1 DEF Documents, RegisterPayment, DeletePayment, Age, SatDecides, SatServesLate
<1>2. CASE \E h \in Handlers, i \in Invoices : UserCancels(h, i)
  BY <1>2 DEF UserCancels
<1>3. CASE \E f \in Refreshers, i \in Invoices : UserRefreshes(f, i)
  BY <1>3 DEF UserRefreshes
<1>4. ASSUME NEW h \in Handlers, CancelStep(h) \/ CrashCancel(h)
      PROVE  [Queue!Next]_<<queue, hold>>
  <2>1. CASE \E j \in Jobs : EnqueueRetry(h, j)
    BY <2>1 DEF EnqueueRetry, Queue!Next
  <2> QED
    BY <1>4, <2>1 DEF CancelStep, CrashCancel, ClaimCancellation, RefuseConfig, CancelStub,
       SendToSat, SatAnswers, SatRefuses, TimeOut, EnqueueLost, ReleaseClaim, FinishCancellation
<1>5. CASE \E f \in Refreshers : RefreshStep(f)
  BY <1>5 DEF RefreshStep, AskSat, RefreshFails, WriteRefresh
<1>6. ASSUME NEW c \in Consumers, ConsumerStep(c)
      PROVE  [Queue!Next]_<<queue, hold>>
  <2>1. CASE \E j \in Jobs : SelectRow(c, j)
    BY <2>1 DEF SelectRow, Queue!Next
  <2>2. CASE TakeRow(c) \/ SkipRow(c) \/ LoseRow(c)
    BY <2>2 DEF TakeRow, SkipRow, LoseRow, Queue!Next
  <2>3. CASE ReadDocument(c) \/ Collect(c) \/ StopWaiting(c) \/ CheckCancelled(c)
    BY <2>3 DEF ReadDocument, Collect, StopWaiting, CheckCancelled, Queue!Next, Queue!Outcome
  <2>4. CASE (\E h \in Handlers : Invoke(c, h)) \/ AskRefresh(c)
    BY <2>4 DEF Invoke, AskRefresh
  <2> QED
    BY <1>6, <2>1, <2>2, <2>3, <2>4 DEF ConsumerStep
<1> QED
  BY <1>1, <1>2, <1>3, <1>4, <1>5, <1>6 DEF Next

\* The cancellation of invoices implements the queue's specification: no request
\* or run touches a row in another way.
THEOREM CancellationImplementsQueue == Spec => Queue!Spec
<1>1. Init => Queue!Init
  BY DEF Init
<1>2. [Next]_vars => [Queue!Next]_<<queue, hold>>
  BY StepIsQueueStep DEF vars
<1> QED
  BY <1>1, <1>2, PTL DEF Spec, Queue!Spec, Queue!queueVars

\* The module of the proofs names the same queue.
LEMMA SameQueue == Queue!Spec => Lease!Spec
<1>1. Queue!Init => Lease!Init
  BY DEF Queue!Init, Lease!Init, Queue!Idle, Lease!Idle, Queue!AbsentRow, Lease!AbsentRow
<1>2. [Queue!Next]_<<queue, hold>> => [Lease!Next]_<<queue, hold>>
  BY DEF Queue!Next, Lease!Next, Queue!Enqueue, Lease!Enqueue, Queue!SelectRow,
     Lease!SelectRow, Queue!Claim, Lease!Claim, Queue!ClaimSkipped, Lease!ClaimSkipped,
     Queue!Outcome, Lease!Outcome, Queue!LeaseLost, Lease!LeaseLost, Queue!Abandon,
     Lease!Abandon, Queue!AsRead, Lease!AsRead, Queue!Touched, Lease!Touched, Queue!Owns,
     Lease!Owns, Queue!Settle, Lease!Settle, Queue!Idle, Lease!Idle, Queue!InsertedRow,
     Lease!InsertedRow, Queue!AbsentRow, Lease!AbsentRow, Queue!SucceedRecovered,
     Lease!SucceedRecovered, Queue!SucceedInvoked, Lease!SucceedInvoked,
     Queue!SucceedRefreshed, Lease!SucceedRefreshed, Queue!Defer, Lease!Defer, Queue!GiveUp,
     Lease!GiveUp, Queue!GiveUpUncounted, Lease!GiveUpUncounted, Queue!DeferConflict,
     Lease!DeferConflict, Queue!RefuseConflict, Lease!RefuseConflict, Queue!RetryAnswered,
     Lease!RetryAnswered, Queue!RetryThrown, Lease!RetryThrown, Queue!Held, Lease!Held,
     Queue!IsCancel, Lease!IsCancel, Queue!TerminalStatus, Lease!TerminalStatus,
     Queue!CancelOps, Lease!CancelOps
<1> QED
  BY <1>1, <1>2, PTL DEF Lease!Spec, Queue!Spec, Queue!queueVars, Lease!queueVars

LEMMA QueueAssumed == Lease!QueueAssumption
BY CancellationAssumption DEF Queue!QueueAssumption, Lease!QueueAssumption,
   Queue!Operations, Lease!Operations, Queue!CancelOps, Lease!CancelOps

\* What the system needs of the queue: its types, and that a run that works has
\* a row.
QueueInv ==
    /\ Queue!TypeOK
    /\ \A c \in Consumers : hold[c].phase # "idle" => hold[c].job \in Jobs

\* No matter how requests, refreshes and runs interleave, a row of the queue has
\* one owner.
THEOREM CancellationKeepsOwner == Spec => []Queue!SingleOwner
<1>1. Lease!Spec => []Lease!SingleOwner
  BY QueueAssumed, Lease!QueueHasSingleOwner
<1>2. Lease!SingleOwner => Queue!SingleOwner
  BY DEF Lease!SingleOwner, Queue!SingleOwner, Lease!Owns, Queue!Owns
<1> QED
  BY <1>1, <1>2, CancellationImplementsQueue, SameQueue, PTL

LEMMA QueueInvHolds == Spec => []QueueInv
<1>1. Lease!Spec => []Lease!LeaseInv
  BY QueueAssumed, Lease!LeaseInvariant
<1>2. Lease!LeaseInv => QueueInv
  BY DEF Lease!LeaseInv, QueueInv, Lease!TypeOK, Queue!TypeOK, Lease!Row, Queue!Row,
     Lease!Status, Queue!Status, Lease!Phase, Queue!Phase, Lease!Working, Lease!HoldsRealRow
<1> QED
  BY <1>1, <1>2, CancellationImplementsQueue, SameQueue, PTL

-----------------------------------------------------------------------------
(* Requests and refreshes.                                                 *)

RowsOK == inv \in [Invoices -> Invoice] /\ NoPaymentOnCancelled

\* A request at work is about an invoice, and the outcome it is about to record
\* is one that the column admits.
RequestsOK ==
    /\ req \in [Handlers -> Slot]
    /\ \A h \in Handlers :
          /\ req[h].pc # "idle" => req[h].inv \in Invoices
          /\ req[h].pc = "finish" => req[h].kind \in Cancellation

RefreshesOK ==
    /\ refresh \in [Refreshers -> Query]
    /\ \A f \in Refreshers : refresh[f].pc # "idle" => refresh[f].inv \in Invoices

SatOK == sat \in [Invoices -> Cancellation] /\ late \subseteq Invoices

DocInv == RowsOK /\ RequestsOK /\ RefreshesOK /\ SatOK /\ WorkOK

\* The records of an idle slot, query or run are well typed.
LEMMA Records ==
    /\ FreeSlot \in Slot /\ FreeSlot.pc = "idle"
    /\ Resting \in Query /\ Resting.pc = "idle"
    /\ NoWork \in Work
BY DEF FreeSlot, Slot, Resting, Query, NoWork, Work, Cancellation

LEMMA DocInvInit == Init => DocInv
<1> SUFFICES ASSUME Init PROVE DocInv
  OBVIOUS
<1> USE DEF Init, InitDocuments
<1>1. RowsOK
  BY DEF RowsOK, Invoice, Cancellation, NoPaymentOnCancelled
<1>2. RequestsOK /\ RefreshesOK /\ WorkOK
  BY Records DEF RequestsOK, RefreshesOK, WorkOK
<1>3. SatOK
  BY DEF SatOK, Cancellation
<1> QED
  BY <1>1, <1>2, <1>3 DEF DocInv

\* The UPDATE of an outcome, whoever makes it, keeps the row well typed, and the
\* trigger keeps a cancelled invoice free of payments.
LEMMA RecordKeeps ==
    ASSUME RowsOK, NEW i \in Invoices, NEW status \in Cancellation, Record(i, status)
    PROVE  RowsOK'
<1> USE DEF RowsOK
<1>1. CASE Refused(i, status)
  BY <1>1 DEF Record, NoPaymentOnCancelled
<1>2. CASE ~Refused(i, status)
  <2>1. inv' = [inv EXCEPT ![i] = [inv[i] EXCEPT !.cancel = status,
                     !.status = IF status = "accepted" THEN "cancelled" ELSE @]]
    BY <1>2 DEF Record
  <2>2. inv' \in [Invoices -> Invoice]
    BY <2>1 DEF Invoice
  <2>3. status = "accepted" /\ inv[i].status # "cancelled" => ~inv[i].paid
    BY <1>2 DEF Refused, Cancellable
  <2>4. inv'[i].status = "cancelled" => ~inv'[i].paid
    BY <2>1, <2>3 DEF NoPaymentOnCancelled, Invoice
  <2> QED
    BY <2>1, <2>2, <2>4 DEF NoPaymentOnCancelled
<1> QED
  BY <1>1, <1>2

LEMMA ReleaseKeeps ==
    ASSUME RowsOK, NEW i \in Invoices, Release(i)
    PROVE  RowsOK'
BY DEF RowsOK, Release, Invoice, Cancellation, NoPaymentOnCancelled
\* An answer ends a request, or leaves it to the run that made it.
LEMMA AnswerKeeps ==
    ASSUME RequestsOK, NEW h \in Handlers, req[h].pc # "idle",
           NEW kind \in {"ok", "progress", "error", "changed", "unavailable"},
           Answer(h, kind)
    PROVE  RequestsOK'
<1>1. req[h] \in Slot /\ req[h].inv \in Invoices
  BY DEF RequestsOK
<1>2. [req[h] EXCEPT !.pc = "answered", !.kind = kind] \in Slot
  BY <1>1 DEF Slot
<1> QED
  BY <1>1, <1>2, Records DEF RequestsOK, Answer, Slot

\* A move to another step of the same request.
LEMMA GoToKeeps ==
    ASSUME RequestsOK, NEW h \in Handlers, req[h].pc # "idle",
           NEW pc \in {"config", "enqueue", "release"}, GoTo(h, pc)
    PROVE  RequestsOK'
<1>1. req[h] \in Slot /\ req[h].inv \in Invoices
  BY DEF RequestsOK
<1>2. [req[h] EXCEPT !.pc = pc] \in Slot
  BY <1>1 DEF Slot
<1> QED
  BY <1>1, <1>2 DEF RequestsOK, GoTo, Slot

\* A request that begins.
LEMMA RequestKeeps ==
    ASSUME RequestsOK, NEW h \in Handlers, NEW i \in Invoices,
           NEW caller \in Consumers \cup {User}, NEW job \in Jobs \cup {NoJob},
           NEW token \in Nat, CancelRequest(h, i, caller, job, token)
    PROVE  RequestsOK'
<1>1. PICK v \in {"none", "error", "refused"} :
         req' = [req EXCEPT ![h] =
                   [pc |-> IF v = "none" THEN "claim" ELSE "answered", inv |-> i,
                    caller |-> caller, job |-> job, token |-> token, kind |-> v]]
  BY DEF CancelRequest
<1>2. [pc |-> IF v = "none" THEN "claim" ELSE "answered", inv |-> i, caller |-> caller,
       job |-> job, token |-> token, kind |-> v] \in Slot
  BY DEF Slot, Cancellation
<1> QED
  BY <1>1, <1>2 DEF RequestsOK, Slot

\* A refresh that begins reads a row.
LEMMA QueryKeeps ==
    ASSUME RowsOK, RefreshesOK, NEW f \in Refreshers, NEW i \in Invoices,
           NEW job \in Jobs \cup {NoJob}, NEW token \in Nat,
           RefreshRequest(f, i, job, token)
    PROVE  RefreshesOK'
<1>1. inv[i].cancel \in Cancellation /\ inv[i].aged \in BOOLEAN
  BY DEF RowsOK, Invoice
<1>2. [pc |-> "asked", inv |-> i, job |-> job, token |-> token, prior |-> inv[i].cancel,
       aged |-> inv[i].aged, next |-> "none"] \in Query
  BY <1>1 DEF Query, Cancellation
<1> QED
  BY <1>2 DEF RefreshesOK, RefreshRequest, Query

\* The SAT's answer to a request that arrives.
LEMMA ReachesKeeps ==
    ASSUME SatOK, NEW i \in Invoices, Reaches(i), late' \subseteq Invoices
    PROVE  SatOK'
BY DEF SatOK, Reaches, Served, Cancellation
-----------------------------------------------------------------------------
(* Every step.                                                             *)

\* Payments, time and the SAT.
LEMMA DocumentsKeep ==
    ASSUME DocInv, NEW i \in Invoices, Documents(i), UNCHANGED work
    PROVE  DocInv'
<1> USE DEF DocInv
<1>1. WorkOK' /\ (UNCHANGED req => RequestsOK') /\ (UNCHANGED refresh => RefreshesOK')
  BY DEF WorkOK, RequestsOK, RefreshesOK
<1>2. CASE RegisterPayment(i)
  <2>1. RowsOK'
    BY <1>2 DEF RowsOK, RegisterPayment, Invoice, NoPaymentOnCancelled
  <2> QED
    BY <1>1, <1>2, <2>1 DEF RegisterPayment, SatOK
<1>3. CASE DeletePayment(i)
  <2>1. RowsOK'
    BY <1>3 DEF RowsOK, DeletePayment, Invoice, NoPaymentOnCancelled
  <2> QED
    BY <1>1, <1>3, <2>1 DEF DeletePayment, SatOK
<1>4. CASE Age(i)
  <2>1. RowsOK'
    BY <1>4 DEF RowsOK, Age, Invoice, NoPaymentOnCancelled
  <2> QED
    BY <1>1, <1>4, <2>1 DEF Age, SatOK
<1>5. CASE SatDecides(i)
  <2>1. SatOK'
    BY <1>5 DEF SatOK, SatDecides, Cancellation
  <2> QED
    BY <1>1, <1>5, <2>1 DEF SatDecides, RowsOK, NoPaymentOnCancelled
<1>6. CASE SatServesLate(i)
  <2>1. late' \subseteq Invoices
    BY <1>6 DEF SatOK, SatServesLate
  <2>2. SatOK'
    BY <1>6, <2>1, ReachesKeeps DEF SatOK, SatServesLate
  <2> QED
    BY <1>1, <1>6, <2>2 DEF SatServesLate, RowsOK, NoPaymentOnCancelled
<1> QED
  BY <1>2, <1>3, <1>4, <1>5, <1>6 DEF Documents

\* A request of cancel-cfdi.
LEMMA CancelKeeps ==
    ASSUME DocInv, NEW h \in Handlers, CancelStep(h) \/ CrashCancel(h), UNCHANGED work
    PROVE  DocInv'
<1> DEFINE i == req[h].inv
<1> USE DEF DocInv, Serves
<1>1. WorkOK' /\ (UNCHANGED inv => RowsOK') /\ (UNCHANGED refresh => RefreshesOK')
  BY DEF WorkOK, RowsOK, NoPaymentOnCancelled, RefreshesOK
<1>2. UNCHANGED <<sat, late>> => SatOK'
  BY DEF SatOK
<1>3. req[h] \in Slot /\ (req[h].pc # "idle" => i \in Invoices)
  BY DEF RequestsOK
<1>4. CASE ClaimCancellation(h)
  <2>1. RowsOK'
    BY <1>1, <1>3, <1>4 DEF ClaimCancellation, RowsOK, Invoice, Cancellation, NoPaymentOnCancelled
  <2>2. RequestsOK'
    BY <1>3, <1>4, GoToKeeps, AnswerKeeps DEF ClaimCancellation
  <2> QED
    BY <1>1, <1>2, <1>4, <2>1, <2>2 DEF ClaimCancellation
<1>5. CASE RefuseConfig(h)
  <2>1. RowsOK'
    BY <1>3, <1>5, ReleaseKeeps DEF RefuseConfig
  <2>2. RequestsOK'
    BY <1>5, AnswerKeeps DEF RefuseConfig
  <2> QED
    BY <1>1, <1>2, <1>5, <2>1, <2>2 DEF RefuseConfig
<1>6. CASE CancelStub(h)
  <2>1. [req[h] EXCEPT !.pc = "finish", !.kind = "accepted", !.job = NoJob, !.token = 0] \in Slot
    BY <1>3 DEF Slot, Cancellation
  <2>2. RequestsOK'
    BY <1>3, <1>6, <2>1 DEF CancelStub, RequestsOK, Slot, Cancellation
  <2> QED
    BY <1>1, <1>2, <1>6, <2>2 DEF CancelStub
<1>7. CASE SendToSat(h)
  <2>1. [req[h] EXCEPT !.pc = "sent", !.job = NoJob, !.token = 0] \in Slot
    BY <1>3 DEF Slot
  <2>2. RequestsOK'
    BY <1>3, <1>7, <2>1 DEF SendToSat, RequestsOK, Slot
  <2> QED
    BY <1>1, <1>2, <1>7, <2>2 DEF SendToSat
<1>8. CASE SatAnswers(h)
  <2>1. SatOK'
    BY <1>3, <1>8, ReachesKeeps DEF SatAnswers, SatOK
  <2>2. PICK s \in {sat'[i], "none"} :
           IF s = "none" THEN Answer(h, "error")
           ELSE req' = [req EXCEPT ![h].pc = "finish", ![h].kind = s]
    BY <1>8 DEF SatAnswers, Understood
  <2>3. s \in Cancellation
    BY <1>3, <1>8, <2>1 DEF SatAnswers, SatOK, Cancellation
  <2>4. [req[h] EXCEPT !.pc = "finish", !.kind = s] \in Slot
    BY <1>3, <2>3 DEF Slot
  <2>5. RequestsOK'
    <3>1. CASE s = "none"
      BY <1>8, <2>2, <3>1, AnswerKeeps DEF SatAnswers
    <3>2. CASE s # "none"
      BY <1>3, <1>8, <2>2, <2>3, <2>4, <3>2 DEF SatAnswers, RequestsOK, Slot
    <3> QED
      BY <3>1, <3>2
  <2> QED
    BY <1>1, <1>8, <2>1, <2>5 DEF SatAnswers
<1>9. CASE SatRefuses(h)
  <2>1. SatOK'
    BY <1>2, <1>3, <1>9, ReachesKeeps DEF SatRefuses, SatOK
  <2>2. RequestsOK'
    BY <1>9, GoToKeeps DEF SatRefuses
  <2> QED
    BY <1>1, <1>9, <2>1, <2>2 DEF SatRefuses
<1>10. CASE TimeOut(h)
  <2>1. SatOK' /\ RequestsOK'
    BY <1>3, <1>10, AnswerKeeps DEF TimeOut, SatOK
  <2> QED
    BY <1>1, <1>10, <2>1 DEF TimeOut
<1>11. CASE (\E j \in Jobs : EnqueueRetry(h, j)) \/ EnqueueLost(h)
  <2>1. RequestsOK'
    BY <1>11, GoToKeeps DEF EnqueueRetry, EnqueueLost
  <2> QED
    BY <1>1, <1>2, <1>11, <2>1 DEF EnqueueRetry, EnqueueLost
<1>12. CASE ReleaseClaim(h)
  <2>1. RowsOK' /\ RequestsOK'
    BY <1>3, <1>12, ReleaseKeeps, AnswerKeeps DEF ReleaseClaim
  <2> QED
    BY <1>1, <1>2, <1>12, <2>1 DEF ReleaseClaim
<1>13. CASE FinishCancellation(h)
  <2>1. i \in Invoices /\ req[h].kind \in Cancellation
    BY <1>3, <1>13 DEF FinishCancellation, RequestsOK
  <2>2. RowsOK'
    BY <1>1, <1>13, <2>1, RecordKeeps DEF FinishCancellation
  <2>3. RequestsOK'
    BY <1>13, AnswerKeeps DEF FinishCancellation
  <2> QED
    BY <1>1, <1>2, <1>13, <2>2, <2>3 DEF FinishCancellation
<1>14. CASE CrashCancel(h)
  <2>1. RequestsOK'
    BY <1>14, Records DEF CrashCancel, RequestsOK
  <2>2. SatOK'
    BY <1>3, <1>14 DEF CrashCancel, SatOK
  <2> QED
    BY <1>1, <1>14, <2>1, <2>2 DEF CrashCancel
<1> QED
  BY <1>4, <1>5, <1>6, <1>7, <1>8, <1>9, <1>10, <1>11, <1>12, <1>13, <1>14 DEF CancelStep

\* A request of refresh-cancellation-status.
LEMMA RefreshKeeps ==
    ASSUME DocInv, NEW f \in Refreshers, RefreshStep(f), UNCHANGED work
    PROVE  DocInv'
<1> DEFINE r == refresh[f]
<1> USE DEF DocInv
<1>1. WorkOK' /\ (UNCHANGED inv => RowsOK') /\ (UNCHANGED req => RequestsOK')
  BY DEF WorkOK, RowsOK, NoPaymentOnCancelled, RequestsOK
<1>2. UNCHANGED <<sat, late>> => SatOK'
  BY DEF SatOK
<1>3. r \in Query /\ (r.pc # "idle" => r.inv \in Invoices)
  BY DEF RefreshesOK
<1>4. CASE AskSat(f)
  <2>1. sat[r.inv] \in Cancellation /\ r.inv \in Invoices
    BY <1>3, <1>4 DEF AskSat, SatOK
  <2>2. Refreshed(r.prior, r.aged, sat[r.inv]) \in Cancellation
    BY <1>3, <2>1 DEF Refreshed, Query, Cancellation
  <2>3. \A n \in Cancellation :
           [Resting EXCEPT !.pc = "write", !.inv = r.inv, !.next = n] \in Query
    BY <2>1, Records DEF Query
  <2>4. RefreshesOK'
    BY <1>4, <2>1, <2>2, <2>3, Records DEF AskSat, RefreshesOK, Query, Resting
  <2> QED
    BY <1>1, <1>2, <1>4, <2>4 DEF AskSat
<1>5. CASE RefreshFails(f)
  <2>1. RefreshesOK'
    BY <1>5, Records DEF RefreshFails, RefreshesOK
  <2> QED
    BY <1>1, <1>2, <1>5, <2>1 DEF RefreshFails
<1>6. CASE WriteRefresh(f)
  <2>1. r.inv \in Invoices /\ r.next \in Cancellation
    BY <1>3, <1>6 DEF WriteRefresh, Query
  <2>2. RowsOK'
    BY <1>1, <1>6, <2>1, RecordKeeps DEF WriteRefresh
  <2>3. RefreshesOK'
    BY <1>6, Records DEF WriteRefresh, RefreshesOK
  <2> QED
    BY <1>1, <1>2, <1>6, <2>2, <2>3 DEF WriteRefresh
<1> QED
  BY <1>4, <1>5, <1>6 DEF RefreshStep
\* A run of the queue that lets its request go.
LEMMA DisownKeeps ==
    ASSUME RequestsOK, NEW c \in Consumers, Disown(c)
    PROVE  RequestsOK'
<1>1. \A h \in Handlers : req[h] \in Slot
  BY DEF RequestsOK
<1>2. \A h \in Handlers : [req[h] EXCEPT !.caller = User] \in Slot
  BY <1>1 DEF Slot
<1> QED
  BY <1>1, <1>2, Records DEF RequestsOK, Disown, Slot

\* A run of the queue.  It writes no invoice itself.
LEMMA ConsumerKeeps ==
    ASSUME DocInv, QueueInv, NEW c \in Consumers, ConsumerStep(c)
    PROVE  DocInv'
<1> USE DEF DocInv
<1>1. /\ UNCHANGED inv => RowsOK'
      /\ UNCHANGED req => RequestsOK'
      /\ UNCHANGED refresh => RefreshesOK'
      /\ UNCHANGED <<sat, late>> => SatOK'
      /\ UNCHANGED work => WorkOK'
  BY DEF WorkOK, RowsOK, NoPaymentOnCancelled, RequestsOK, RefreshesOK, SatOK
<1>2. Done(c) => WorkOK'
  BY Records DEF Done, WorkOK
<1>3. \A step \in {"read", "invoke", "conflict", "check"} : StepTo(c, step) => WorkOK'
  BY DEF StepTo, WorkOK, Work
<1>4. UNCHANGED documentVars =>
        UNCHANGED inv /\ UNCHANGED req /\ UNCHANGED refresh /\ UNCHANGED <<sat, late>>
  BY DEF documentVars
<1>5. Queue!Owns(c) => /\ SubjectOf(c) \in Invoices
                       /\ hold[c].job \in Jobs
                       /\ hold[c].row.updatedAt \in Nat
  BY CancellationAssumption
     DEF Queue!Owns, QueueInv, Queue!TypeOK, Queue!Row, Queue!Phase, SubjectOf
<1>6. CASE (\E j \in Jobs : SelectRow(c, j)) \/ SkipRow(c)
  BY <1>1, <1>4, <1>6 DEF SelectRow, SkipRow
<1>7. CASE TakeRow(c) \/ ReadDocument(c) \/ CheckCancelled(c)
  BY <1>1, <1>2, <1>3, <1>4, <1>7 DEF TakeRow, ReadDocument, CheckCancelled
<1>8. ASSUME NEW h \in Handlers, Invoke(c, h)
      PROVE  DocInv'
  <2>1. RequestsOK'
    BY <1>5, <1>8, RequestKeeps DEF Invoke
  <2>2. WorkOK'
    BY <1>8 DEF Invoke, WorkOK, Work
  <2> QED
    BY <1>1, <1>8, <2>1, <2>2 DEF Invoke
<1>9. CASE Collect(c)
  <2>1. WorkOK'
    BY <1>1, <1>2, <1>3, <1>9 DEF Collect
  <2>2. RequestsOK'
    BY <1>9, Records DEF Collect, RequestsOK
  <2> QED
    BY <1>1, <1>9, <2>1, <2>2 DEF Collect
<1>10. CASE StopWaiting(c) \/ LoseRow(c)
  BY <1>1, <1>2, <1>10, DisownKeeps DEF StopWaiting, LoseRow
<1>11. CASE AskRefresh(c)
  <2>1. RefreshesOK'
    BY <1>1, <1>5, <1>11, QueryKeeps DEF AskRefresh
  <2> QED
    BY <1>1, <1>3, <1>11, <2>1 DEF AskRefresh
<1> QED
  BY <1>6, <1>7, <1>8, <1>9, <1>10, <1>11 DEF ConsumerStep

LEMMA DocInvStep ==
    ASSUME DocInv, QueueInv, [Next]_vars
    PROVE  DocInv'
<1>1. CASE \E i \in Invoices : Documents(i) /\ UNCHANGED work
  BY <1>1, DocumentsKeep
<1>2. ASSUME NEW h \in Handlers, NEW i \in Invoices, UserCancels(h, i) /\ UNCHANGED work
      PROVE  DocInv'
  <2>1. RequestsOK'
    BY <1>2, RequestKeeps DEF UserCancels, DocInv
  <2> QED
    BY <1>2, <2>1 DEF UserCancels, DocInv, RowsOK, NoPaymentOnCancelled, RefreshesOK, SatOK, WorkOK
<1>3. ASSUME NEW f \in Refreshers, NEW i \in Invoices, UserRefreshes(f, i) /\ UNCHANGED work
      PROVE  DocInv'
  <2>1. RefreshesOK'
    BY <1>3, QueryKeeps DEF UserRefreshes, DocInv
  <2> QED
    BY <1>3, <2>1 DEF UserRefreshes, DocInv, RowsOK, NoPaymentOnCancelled, RequestsOK, SatOK, WorkOK
<1>4. CASE \E h \in Handlers : (CancelStep(h) \/ CrashCancel(h)) /\ UNCHANGED work
  BY <1>4, CancelKeeps
<1>5. CASE \E f \in Refreshers : RefreshStep(f) /\ UNCHANGED work
  BY <1>5, RefreshKeeps
<1>6. CASE \E c \in Consumers : ConsumerStep(c)
  BY <1>6, ConsumerKeeps
<1>7. CASE UNCHANGED vars
  BY <1>7 DEF vars, DocInv, RowsOK, NoPaymentOnCancelled, RequestsOK, RefreshesOK, SatOK, WorkOK
<1> QED
  BY <1>1, <1>2, <1>3, <1>4, <1>5, <1>6, <1>7 DEF Next

-----------------------------------------------------------------------------
LEMMA DocInvHolds == Spec => []DocInv
  BY DocInvInit, DocInvStep, QueueInvHolds, PTL DEF Spec

\* Every reachable state is well typed: in particular the columns of the invoice
\* only take values their CHECK constraints admit.
THEOREM CancellationTypeCorrect == Spec => []TypeOK
<1>1. DocInv /\ QueueInv => TypeOK
  BY DEF DocInv, QueueInv, TypeOK, DocumentsOK, RowsOK, RequestsOK, RefreshesOK, SatOK
<1> QED
  BY <1>1, DocInvHolds, QueueInvHolds, PTL

\* No cancelled invoice has payments, for any number of requests, refreshes and
\* runs, although none of them looks at the payments when it writes.
THEOREM CancelledHasNoPayment == Spec => []NoPaymentOnCancelled
<1>1. DocInv => NoPaymentOnCancelled
  BY DEF DocInv, RowsOK
<1> QED
  BY <1>1, DocInvHolds, PTL
-----------------------------------------------------------------------------
(* What is known of the SAT.                                               *)

\* An acceptance that a request or a refresh is about to write, of a document the
\* PAC has, is one the SAT gave.
Backed(i) == inv[i].known => sat[i] = "accepted"

ToldRequest(h) ==
    req[h].pc = "finish" /\ req[h].kind = "accepted" => Backed(req[h].inv)

ToldRefresh(f) ==
    /\ refresh[f].pc # "idle" /\ refresh[f].prior = "accepted" => Backed(refresh[f].inv)
    /\ refresh[f].pc # "idle" /\ refresh[f].next = "accepted" => Backed(refresh[f].inv)

Told ==
    /\ CancelledAtSat
    /\ \A h \in Handlers : ToldRequest(h)
    /\ \A f \in Refreshers : ToldRefresh(f)

LEMMA ToldInit == Init => Told
<1> SUFFICES ASSUME Init PROVE Told
  OBVIOUS
<1> USE DEF Init, InitDocuments
<1>1. CancelledAtSat
  BY DEF CancelledAtSat
<1>2. \A h \in Handlers : ToldRequest(h)
  BY DEF ToldRequest, FreeSlot
<1>3. \A f \in Refreshers : ToldRefresh(f)
  BY DEF ToldRefresh, Resting
<1> QED
  BY <1>1, <1>2, <1>3 DEF Told

\* No step changes whether the PAC has a document, and the SAT does not take an
\* acceptance back.
SatGrows == \A i \in Invoices : Backed(i) => Backed(i)'

\* What is left alone stays true while the SAT goes on.
LEMMA ToldStays ==
    ASSUME DocInv, Told, SatGrows
    PROVE  /\ \A h \in Handlers : req'[h] = req[h] => ToldRequest(h)'
           /\ \A f \in Refreshers : refresh'[f] = refresh[f] => ToldRefresh(f)'
           /\ UNCHANGED inv => CancelledAtSat'
<1> USE DEF DocInv, Told, SatGrows
<1>1. \A h \in Handlers : req'[h] = req[h] => ToldRequest(h)'
  BY DEF ToldRequest, RequestsOK, Backed
<1>2. \A f \in Refreshers : refresh'[f] = refresh[f] => ToldRefresh(f)'
  BY DEF ToldRefresh, RefreshesOK, Backed
<1>3. UNCHANGED inv => CancelledAtSat'
  BY DEF CancelledAtSat, Backed
<1> QED
  BY <1>1, <1>2, <1>3

\* The SAT's answer is final once it is an acceptance.
LEMMA ReachesGrows ==
    ASSUME SatOK, NEW i \in Invoices, Reaches(i)
    PROVE  \A k \in Invoices : sat[k] = "accepted" => sat'[k] = "accepted"
BY DEF SatOK, Reaches, Served

LEMMA SatAlone ==
    ASSUME UNCHANGED inv, \A k \in Invoices : sat[k] = "accepted" => sat'[k] = "accepted"
    PROVE  SatGrows
BY DEF SatGrows, Backed

\* The UPDATE of an acceptance that the SAT gave, or of anything else.
LEMMA RecordTells ==
    ASSUME RowsOK, CancelledAtSat, UNCHANGED sat, NEW i \in Invoices, NEW status,
           Record(i, status), status = "accepted" => Backed(i)
    PROVE  SatGrows /\ CancelledAtSat'
<1>1. CASE Refused(i, status)
  BY <1>1 DEF Record, SatGrows, Backed, CancelledAtSat
<1>2. CASE ~Refused(i, status)
  <2>1. inv' = [inv EXCEPT ![i] = [inv[i] EXCEPT !.cancel = status,
                     !.status = IF status = "accepted" THEN "cancelled" ELSE @]]
    BY <1>2 DEF Record
  <2>2. \A k \in Invoices :
           /\ inv'[k].known = inv[k].known
           /\ k # i => inv'[k] = inv[k]
    BY <2>1 DEF RowsOK, Invoice
  <2>3. /\ inv'[i].cancel = status
        /\ inv'[i].status = "cancelled" => inv[i].status = "cancelled" \/ status = "accepted"
    BY <2>1 DEF RowsOK, Invoice
  <2> QED
    BY <2>2, <2>3 DEF SatGrows, Backed, CancelledAtSat
<1> QED
  BY <1>1, <1>2

LEMMA ReleaseTells ==
    ASSUME RowsOK, CancelledAtSat, UNCHANGED sat, NEW i \in Invoices, Release(i)
    PROVE  SatGrows /\ CancelledAtSat'
<1>1. \A k \in Invoices :
         /\ inv'[k].known = inv[k].known
         /\ inv'[k].status = inv[k].status
         /\ inv'[k].cancel = inv[k].cancel \/ inv'[k].cancel = "none"
  BY DEF RowsOK, Release, Invoice
<1> QED
  BY <1>1 DEF SatGrows, Backed, CancelledAtSat

\* A handler that does not go to "finish" claims nothing.
LEMMA AnswerSilent ==
    ASSUME RequestsOK, NEW h \in Handlers, NEW kind, Answer(h, kind)
    PROVE  ToldRequest(h)' /\ \A g \in Handlers \ {h} : req'[g] = req[g]
<1>1. req[h] \in Slot /\ \A g \in Handlers \ {h} : req'[g] = req[g]
  BY DEF RequestsOK, Answer
<1>2. CASE req[h].caller = User
  <2>1. req'[h] = FreeSlot
    BY <1>2 DEF RequestsOK, Answer
  <2> QED
    BY <1>1, <2>1 DEF ToldRequest, FreeSlot
<1>3. CASE req[h].caller # User
  <2>1. req'[h] = [req[h] EXCEPT !.pc = "answered", !.kind = kind]
    BY <1>3 DEF RequestsOK, Answer
  <2>2. req'[h].pc = "answered"
    BY <1>1, <2>1 DEF Slot
  <2> QED
    BY <1>1, <2>2 DEF ToldRequest
<1> QED
  BY <1>2, <1>3

LEMMA GoToSilent ==
    ASSUME RequestsOK, NEW h \in Handlers, NEW pc \in {"config", "enqueue", "release"},
           GoTo(h, pc)
    PROVE  ToldRequest(h)' /\ \A g \in Handlers \ {h} : req'[g] = req[g]
BY DEF RequestsOK, Slot, GoTo, ToldRequest
-----------------------------------------------------------------------------
\* Payments, time and the SAT.
LEMMA DocumentsTell ==
    ASSUME DocInv, Told, NEW i \in Invoices, Documents(i)
    PROVE  Told'
<1>1. /\ RowsOK /\ SatOK /\ CancelledAtSat
      /\ UNCHANGED <<req, refresh>>
  BY DEF DocInv, Told, Documents, RegisterPayment, DeletePayment, Age, SatDecides, SatServesLate
<1>2. SatGrows /\ CancelledAtSat'
  <2>1. CASE RegisterPayment(i) \/ DeletePayment(i) \/ Age(i)
    <3>1. UNCHANGED sat
      BY <2>1 DEF RegisterPayment, DeletePayment, Age
    <3>2. \A k \in Invoices : /\ inv'[k].known = inv[k].known
                              /\ inv'[k].status = inv[k].status
                              /\ inv'[k].cancel = inv[k].cancel
      BY <1>1, <2>1 DEF RegisterPayment, DeletePayment, Age, RowsOK, Invoice
    <3> QED
      BY <1>1, <3>1, <3>2 DEF SatGrows, Backed, CancelledAtSat
  <2>2. CASE SatDecides(i)
    <3>1. UNCHANGED inv /\ \A k \in Invoices : sat[k] = "accepted" => sat'[k] = "accepted"
      BY <1>1, <2>2 DEF SatDecides, SatOK
    <3> QED
      BY <3>1, SatAlone, ToldStays
  <2>3. CASE SatServesLate(i)
    <3>1. UNCHANGED inv /\ (UNCHANGED sat \/ Reaches(i))
      BY <2>3 DEF SatServesLate
    <3> QED
      BY <1>1, <3>1, ReachesGrows, SatAlone, ToldStays
  <2> QED
    BY <2>1, <2>2, <2>3 DEF Documents
<1> QED
  BY <1>1, <1>2, ToldStays DEF Told

\* A request of cancel-cfdi.
LEMMA CancelTells ==
    ASSUME DocInv, Told, NEW h \in Handlers, CancelStep(h) \/ CrashCancel(h)
    PROVE  Told'
<1> DEFINE i == req[h].inv
           mine == ToldRequest(h)' /\ \A g \in Handlers \ {h} : req'[g] = req[g]
<1> USE DEF Serves
<1>1. /\ RowsOK /\ RequestsOK /\ SatOK /\ CancelledAtSat /\ ToldRequest(h)
      /\ req[h] \in Slot
      /\ req[h].pc # "idle" => i \in Invoices
  BY DEF DocInv, Told, RequestsOK
<1>2. UNCHANGED <<inv, sat>> => SatGrows
  BY DEF SatGrows, Backed
<1>3. SatGrows /\ CancelledAtSat' /\ UNCHANGED refresh /\ mine => Told'
  BY ToldStays DEF Told
<1>4. UNCHANGED <<inv, sat, refresh>> /\ mine => Told'
  BY <1>2, <1>3, ToldStays
<1>5. CASE ClaimCancellation(h)
  <2>1. \A k \in Invoices :
           /\ inv'[k].known = inv[k].known /\ inv'[k].status = inv[k].status
           /\ inv'[k].cancel = inv[k].cancel \/ inv'[k].cancel = "pending"
    BY <1>1, <1>5 DEF ClaimCancellation, RowsOK, Invoice
  <2>2. UNCHANGED <<sat, refresh>> /\ (GoTo(h, "config") \/ Answer(h, "progress"))
    BY <1>5 DEF ClaimCancellation
  <2>3. SatGrows /\ CancelledAtSat'
    BY <1>1, <2>1, <2>2 DEF SatGrows, Backed, CancelledAtSat
  <2>4. mine
    BY <1>1, <2>2, GoToSilent, AnswerSilent
  <2> QED
    BY <1>3, <2>2, <2>3, <2>4
<1>6. CASE RefuseConfig(h) \/ ReleaseClaim(h)
  <2>1. Release(i) /\ i \in Invoices /\ UNCHANGED <<sat, refresh>>
    BY <1>1, <1>6 DEF RefuseConfig, ReleaseClaim
  <2>2. mine
    BY <1>1, <1>6, AnswerSilent DEF RefuseConfig, ReleaseClaim
  <2> QED
    BY <1>1, <1>3, <2>1, <2>2, ReleaseTells
<1>7. CASE CancelStub(h)
  <2>1. ~inv[i].known /\ i \in Invoices /\ UNCHANGED <<inv, sat, refresh>>
    BY <1>1, <1>7 DEF CancelStub
  <2>2. req'[h].inv = i /\ \A g \in Handlers \ {h} : req'[g] = req[g]
    BY <1>1, <1>7 DEF CancelStub, RequestsOK, Slot
  <2>3. ToldRequest(h)'
    BY <2>1, <2>2 DEF ToldRequest, Backed
  <2> QED
    BY <1>4, <2>1, <2>2, <2>3
<1>8. CASE SendToSat(h)
  <2>1. mine /\ UNCHANGED <<inv, sat, refresh>>
    BY <1>1, <1>8 DEF SendToSat, RequestsOK, Slot, ToldRequest
  <2> QED
    BY <1>4, <2>1
<1>9. CASE SatAnswers(h)
  <2>1. i \in Invoices /\ Reaches(i) /\ UNCHANGED <<inv, refresh>>
    BY <1>1, <1>9 DEF SatAnswers
  <2>2. SatGrows /\ CancelledAtSat'
    BY <1>1, <2>1, ReachesGrows, SatAlone, ToldStays
  <2>3. PICK s \in {sat'[i], "none"} :
           IF s = "none" THEN Answer(h, "error")
           ELSE req' = [req EXCEPT ![h].pc = "finish", ![h].kind = s]
    BY <1>9 DEF SatAnswers, Understood
  <2>4. CASE s = "none"
    BY <1>1, <1>3, <2>1, <2>2, <2>3, <2>4, AnswerSilent
  <2>5. CASE s # "none"
    <3>1. /\ req'[h].inv = i /\ req'[h].kind = sat'[i]
          /\ \A g \in Handlers \ {h} : req'[g] = req[g]
      BY <1>1, <2>3, <2>5 DEF RequestsOK, Slot
    <3>2. ToldRequest(h)'
      BY <3>1 DEF ToldRequest, Backed
    <3> QED
      BY <1>3, <2>1, <2>2, <3>1, <3>2
  <2> QED
    BY <2>4, <2>5
<1>10. CASE SatRefuses(h)
  <2>1. /\ i \in Invoices /\ UNCHANGED <<inv, refresh>>
        /\ UNCHANGED sat \/ Reaches(i)
        /\ GoTo(h, "release") \/ GoTo(h, "enqueue")
    BY <1>1, <1>10 DEF SatRefuses
  <2>2. SatGrows /\ CancelledAtSat'
    BY <1>1, <2>1, ReachesGrows, SatAlone, ToldStays
  <2> QED
    BY <1>1, <1>3, <2>1, <2>2, GoToSilent
<1>11. CASE TimeOut(h)
  <2>1. mine /\ UNCHANGED <<inv, sat, refresh>>
    BY <1>1, <1>11, AnswerSilent DEF TimeOut
  <2> QED
    BY <1>4, <2>1
<1>12. CASE (\E j \in Jobs : EnqueueRetry(h, j)) \/ EnqueueLost(h)
  <2>1. mine /\ UNCHANGED <<inv, sat, refresh>>
    BY <1>1, <1>12, GoToSilent DEF EnqueueRetry, EnqueueLost
  <2> QED
    BY <1>4, <2>1
<1>13. CASE FinishCancellation(h)
  <2>1. /\ i \in Invoices /\ UNCHANGED <<sat, refresh>>
        /\ req[h].kind = "accepted" => Backed(i)
    BY <1>1, <1>13 DEF FinishCancellation, ToldRequest
  <2>2. Record(i, req[h].kind) \/ UNCHANGED inv
    BY <1>13 DEF FinishCancellation
  <2>3. SatGrows /\ CancelledAtSat'
    BY <1>1, <1>2, <2>1, <2>2, RecordTells, ToldStays
  <2>4. mine
    BY <1>1, <1>13, AnswerSilent DEF FinishCancellation
  <2> QED
    BY <1>3, <2>1, <2>3, <2>4
<1>14. CASE CrashCancel(h)
  <2>1. mine /\ UNCHANGED <<inv, sat, refresh>>
    BY <1>1, <1>14 DEF CrashCancel, FreeSlot, RequestsOK, ToldRequest
  <2> QED
    BY <1>4, <2>1
<1> QED
  BY <1>5, <1>6, <1>7, <1>8, <1>9, <1>10, <1>11, <1>12, <1>13, <1>14 DEF CancelStep

\* A refresh that begins: the status it reads is backed by the invariant.
LEMMA QueryTells ==
    ASSUME DocInv, Told, NEW f \in Refreshers, NEW i \in Invoices, NEW job, NEW token,
           RefreshRequest(f, i, job, token)
    PROVE  ToldRefresh(f)' \/ inv' # inv \/ sat' # sat
<1> SUFFICES ASSUME UNCHANGED <<inv, sat>> PROVE ToldRefresh(f)'
  OBVIOUS
<1>1. inv[i].cancel = "accepted" => Backed(i)
  BY DEF Told, CancelledAtSat, Backed, RefreshRequest
<1>2. /\ refresh'[f].inv = i /\ refresh'[f].prior = inv[i].cancel
      /\ refresh'[f].next = "none"
  BY DEF DocInv, RefreshesOK, RefreshRequest
<1> QED
  BY <1>1, <1>2 DEF ToldRefresh, Backed

\* A request of refresh-cancellation-status.  However old the status it read, an
\* acceptance in it was true and is still.
LEMMA RefreshTells ==
    ASSUME DocInv, Told, NEW f \in Refreshers, RefreshStep(f)
    PROVE  Told'
<1> DEFINE r == refresh[f]
           mine == ToldRefresh(f)' /\ \A g \in Refreshers \ {f} : refresh'[g] = refresh[g]
<1>1. /\ RowsOK /\ RefreshesOK /\ CancelledAtSat /\ ToldRefresh(f)
      /\ r \in Query
      /\ r.pc # "idle" => r.inv \in Invoices
      /\ UNCHANGED <<req, sat>>
  BY DEF DocInv, Told, RefreshesOK, RefreshStep, AskSat, RefreshFails, WriteRefresh
<1>2. SatGrows /\ CancelledAtSat' /\ mine => Told'
  BY <1>1, ToldStays DEF Told
<1>3. UNCHANGED inv => SatGrows /\ CancelledAtSat'
  BY <1>1, ToldStays DEF SatGrows, Backed
<1>4. refresh'[f] = Resting => ToldRefresh(f)'
  BY DEF ToldRefresh, Resting
<1>5. CASE AskSat(f)
  <2> DEFINE next == Refreshed(r.prior, r.aged, sat[r.inv])
  <2>1. next = "accepted" => Backed(r.inv)
    BY <1>1, <1>5 DEF Refreshed, AskSat, ToldRefresh, Backed, Terminal
  <2>2. /\ refresh'[f] = Resting
             \/ (refresh'[f].inv = r.inv /\ refresh'[f].next = next
                                         /\ refresh'[f].prior = "none")
        /\ \A g \in Refreshers \ {f} : refresh'[g] = refresh[g]
        /\ UNCHANGED inv
    BY <1>1, <1>5 DEF AskSat, RefreshesOK, Resting
  <2>3. mine
    BY <1>1, <1>4, <2>1, <2>2 DEF ToldRefresh, Backed
  <2> QED
    BY <1>2, <1>3, <2>2, <2>3
<1>6. CASE RefreshFails(f)
  <2>1. mine /\ UNCHANGED inv
    BY <1>1, <1>4, <1>6 DEF RefreshFails, RefreshesOK
  <2> QED
    BY <1>2, <1>3, <2>1
<1>7. CASE WriteRefresh(f)
  <2>1. r.inv \in Invoices /\ (r.next = "accepted" => Backed(r.inv))
    BY <1>1, <1>7 DEF WriteRefresh, ToldRefresh
  <2>2. SatGrows /\ CancelledAtSat'
    BY <1>1, <1>3, <1>7, <2>1, RecordTells DEF WriteRefresh
  <2>3. mine
    BY <1>1, <1>4, <1>7 DEF WriteRefresh, RefreshesOK
  <2> QED
    BY <1>2, <2>2, <2>3
<1> QED
  BY <1>5, <1>6, <1>7 DEF RefreshStep

\* A request that begins has no outcome yet.
LEMMA RequestSilent ==
    ASSUME RequestsOK, NEW h \in Handlers, NEW i, NEW caller, NEW job, NEW token,
           CancelRequest(h, i, caller, job, token)
    PROVE  ToldRequest(h)' /\ \A g \in Handlers \ {h} : req'[g] = req[g]
<1>1. PICK v : req' = [req EXCEPT ![h] =
                   [pc |-> IF v = "none" THEN "claim" ELSE "answered", inv |-> i,
                    caller |-> caller, job |-> job, token |-> token, kind |-> v]]
  BY DEF CancelRequest
<1>2. req'[h].pc # "finish"
  BY <1>1 DEF RequestsOK
<1> QED
  BY <1>1, <1>2 DEF RequestsOK, ToldRequest

\* A run that lets its request go changes no outcome.
LEMMA DisownTells ==
    ASSUME DocInv, Told, UNCHANGED <<inv, sat>>, NEW c \in Consumers, Disown(c)
    PROVE  \A h \in Handlers : ToldRequest(h)'
<1> SUFFICES ASSUME NEW h \in Handlers PROVE ToldRequest(h)'
  OBVIOUS
<1>1. req[h] \in Slot /\ ToldRequest(h)
  BY DEF DocInv, RequestsOK, Told
<1>2. CASE req'[h] = FreeSlot
  BY <1>2 DEF ToldRequest, FreeSlot
<1>3. CASE req'[h] # FreeSlot
  <2>1. req'[h] = req[h] \/ req'[h] = [req[h] EXCEPT !.caller = User]
    BY <1>3 DEF Disown
  <2>2. req'[h].pc = req[h].pc /\ req'[h].kind = req[h].kind /\ req'[h].inv = req[h].inv
    BY <1>1, <2>1 DEF Slot
  <2> QED
    BY <1>1, <2>2 DEF ToldRequest, Backed
<1> QED
  BY <1>2, <1>3

\* A run of the queue.
LEMMA ConsumerTells ==
    ASSUME DocInv, QueueInv, Told, NEW c \in Consumers, ConsumerStep(c)
    PROVE  Told'
<1>1. UNCHANGED <<inv, sat>> => SatGrows /\ CancelledAtSat'
  BY ToldStays DEF SatGrows, Backed
<1>2. UNCHANGED <<inv, sat, refresh>> /\ (\A h \in Handlers : ToldRequest(h)') => Told'
  BY <1>1, ToldStays DEF Told
<1>3. UNCHANGED <<inv, sat, refresh, req>> => Told'
  BY <1>1, <1>2, ToldStays
<1>4. RequestsOK /\ RefreshesOK
  BY DEF DocInv
<1>5. CASE \/ \E j \in Jobs : SelectRow(c, j)
           \/ TakeRow(c) \/ SkipRow(c) \/ ReadDocument(c) \/ CheckCancelled(c)
  BY <1>3, <1>5 DEF SelectRow, TakeRow, SkipRow, ReadDocument, CheckCancelled, documentVars
<1>6. ASSUME NEW h \in Handlers, Invoke(c, h)
      PROVE  Told'
  <2>1. /\ UNCHANGED <<inv, sat, refresh>>
        /\ CancelRequest(h, SubjectOf(c), c, hold[c].job, hold[c].row.updatedAt)
    BY <1>6 DEF Invoke
  <2>2. ToldRequest(h)' /\ \A g \in Handlers \ {h} : req'[g] = req[g]
    BY <1>4, <2>1, RequestSilent
  <2> QED
    BY <1>1, <1>2, <2>1, <2>2, ToldStays
<1>7. CASE Collect(c)
  <2>1. UNCHANGED <<inv, sat, refresh>>
        /\ req' = [req EXCEPT ![work[c].handler] = FreeSlot]
    BY <1>7 DEF Collect
  <2>2. \A h \in Handlers : req'[h] = req[h] \/ req'[h] = FreeSlot
    BY <1>4, <2>1 DEF RequestsOK
  <2>3. \A h \in Handlers : req'[h] = FreeSlot => ToldRequest(h)'
    BY DEF ToldRequest, FreeSlot
  <2> QED
    BY <1>1, <1>2, <2>1, <2>2, <2>3, ToldStays
<1>8. CASE StopWaiting(c) \/ LoseRow(c)
  <2>1. UNCHANGED <<inv, sat, refresh>> /\ Disown(c)
    BY <1>8 DEF StopWaiting, LoseRow
  <2> QED
    BY <1>2, <2>1, DisownTells
<1>9. CASE AskRefresh(c)
  <2>1. UNCHANGED <<inv, sat, req>> /\ SubjectOf(c) \in Invoices
    BY <1>9, CancellationAssumption
       DEF AskRefresh, SubjectOf, QueueInv, Queue!Owns, Queue!TypeOK, Queue!Phase
  <2>2. \A f \in Refreshers : ToldRefresh(f)'
    <3>1. CASE UNCHANGED refresh
      BY <1>1, <2>1, <3>1, ToldStays
    <3>2. ASSUME NEW f \in Refreshers,
                 RefreshRequest(f, SubjectOf(c), hold[c].job, hold[c].row.updatedAt)
          PROVE  \A g \in Refreshers : ToldRefresh(g)'
      <4>1. ToldRefresh(f)'
        BY <2>1, <3>2, QueryTells
      <4>2. \A g \in Refreshers \ {f} : refresh'[g] = refresh[g]
        BY <1>4, <3>2 DEF RefreshRequest, RefreshesOK
      <4> QED
        BY <1>1, <2>1, <4>1, <4>2, ToldStays
    <3> QED
      BY <1>9, <3>1, <3>2 DEF AskRefresh
  <2> QED
    BY <1>1, <2>1, <2>2, ToldStays DEF Told
<1> QED
  BY <1>5, <1>6, <1>7, <1>8, <1>9 DEF ConsumerStep

LEMMA ToldStep ==
    ASSUME DocInv, QueueInv, Told, [Next]_vars
    PROVE  Told'
<1>1. CASE \E i \in Invoices : Documents(i)
  BY <1>1, DocumentsTell
<1>2. ASSUME NEW h \in Handlers, NEW i \in Invoices, UserCancels(h, i)
      PROVE  Told'
  <2>1. UNCHANGED <<inv, sat, refresh>> /\ CancelRequest(h, i, User, NoJob, 0)
    BY <1>2 DEF UserCancels
  <2>2. ToldRequest(h)' /\ \A g \in Handlers \ {h} : req'[g] = req[g]
    BY <2>1, RequestSilent DEF DocInv
  <2>3. SatGrows
    BY <2>1 DEF SatGrows, Backed
  <2> QED
    BY <2>1, <2>2, <2>3, ToldStays DEF Told
<1>3. ASSUME NEW f \in Refreshers, NEW i \in Invoices, UserRefreshes(f, i)
      PROVE  Told'
  <2>1. UNCHANGED <<inv, sat, req>> /\ RefreshRequest(f, i, NoJob, 0)
    BY <1>3 DEF UserRefreshes
  <2>2. ToldRefresh(f)'
    BY <2>1, QueryTells
  <2>3. \A g \in Refreshers \ {f} : refresh'[g] = refresh[g]
    BY <2>1 DEF RefreshRequest, DocInv, RefreshesOK
  <2>4. SatGrows
    BY <2>1 DEF SatGrows, Backed
  <2> QED
    BY <2>1, <2>2, <2>3, <2>4, ToldStays DEF Told
<1>4. CASE \E h \in Handlers : CancelStep(h) \/ CrashCancel(h)
  BY <1>4, CancelTells
<1>5. CASE \E f \in Refreshers : RefreshStep(f)
  BY <1>5, RefreshTells
<1>6. CASE \E c \in Consumers : ConsumerStep(c)
  BY <1>6, ConsumerTells
<1>7. CASE UNCHANGED vars
  <2>1. UNCHANGED <<inv, sat, req, refresh>>
    BY <1>7 DEF vars
  <2>2. SatGrows
    BY <2>1 DEF SatGrows, Backed
  <2> QED
    BY <2>1, <2>2, ToldStays DEF Told
<1> QED
  BY <1>1, <1>2, <1>3, <1>4, <1>5, <1>6, <1>7 DEF Next

\* The database never says of a document of the PAC that it is cancelled unless
\* the SAT accepted it: lost answers, refreshes that write what they read long
\* before and claims that change hands make no difference.
THEOREM CancelledOnlyAtSat == Spec => []CancelledAtSat
<1>1. Spec => []Told
  BY ToldInit, ToldStep, DocInvHolds, QueueInvHolds, PTL DEF Spec
<1>2. Told => CancelledAtSat
  BY DEF Told
<1> QED
  BY <1>1, <1>2, PTL
-----------------------------------------------------------------------------
(* A run and the request it waits for.                                     *)

\* A run with a document holds the row, and a request that answers to a run is the
\* one the run waits for, about the document of its row.
AwaitedBy(h, c) ==
    work[c].step = "await" /\ work[c].handler = h /\ req[h].inv = SubjectOf(c)

Paired ==
    /\ \A c \in Consumers : work[c].step # "none" => hold[c].phase = "owner"
    /\ \A c \in Consumers : work[c].step = "await" => work[c].handler \in Handlers
    /\ \A h \in Handlers, c \in Consumers : req[h].caller = c => AwaitedBy(h, c)

\* A request changes hands only when it ends.
LEMMA HandlerPaired ==
    ASSUME DocInv, NEW h \in Handlers, CancelStep(h) \/ CrashCancel(h), NEW g \in Handlers
    PROVE  \/ req'[g] = FreeSlot
           \/ req'[g].caller = req[g].caller /\ req'[g].inv = req[g].inv
<1> USE DEF Serves
<1>1. RequestsOK /\ req[h] \in Slot
  BY DEF DocInv, RequestsOK
<1>2. \A kind : Answer(h, kind) =>
         \/ req'[g] = FreeSlot
         \/ req'[g].caller = req[g].caller /\ req'[g].inv = req[g].inv
  BY <1>1 DEF RequestsOK, Answer, Slot
<1>3. \A pc : GoTo(h, pc) => req'[g].caller = req[g].caller /\ req'[g].inv = req[g].inv
  BY <1>1 DEF RequestsOK, GoTo, Slot
<1>4. CASE ClaimCancellation(h) \/ SatRefuses(h) \/ ReleaseClaim(h)
  BY <1>2, <1>3, <1>4 DEF ClaimCancellation, SatRefuses, ReleaseClaim
<1>5. CASE \/ RefuseConfig(h) \/ TimeOut(h) \/ FinishCancellation(h)
           \/ (\E j \in Jobs : EnqueueRetry(h, j)) \/ EnqueueLost(h)
  BY <1>2, <1>3, <1>5 DEF RefuseConfig, TimeOut, FinishCancellation, EnqueueRetry, EnqueueLost
<1>6. CASE CancelStub(h) \/ SendToSat(h)
  BY <1>1, <1>2, <1>6 DEF CancelStub, SendToSat, RequestsOK, Slot
<1>7. CASE SatAnswers(h)
  <2>1. PICK s : IF s = "none" THEN Answer(h, "error")
                 ELSE req' = [req EXCEPT ![h].pc = "finish", ![h].kind = s]
    BY <1>7 DEF SatAnswers, Understood
  <2>2. CASE s = "none"
    BY <1>2, <2>1, <2>2
  <2>3. CASE s # "none"
    BY <1>1, <2>1, <2>3 DEF RequestsOK, Slot
  <2> QED
    BY <2>2, <2>3
<1>8. CASE CrashCancel(h)
  BY <1>1, <1>8 DEF CrashCancel, RequestsOK
<1> QED
  BY <1>4, <1>5, <1>6, <1>7, <1>8 DEF CancelStep

\* Requests move, the runs do not.
LEMMA RequestsPaired ==
    ASSUME Paired, UNCHANGED <<hold, work>>,
           \A g \in Handlers :
              \/ req'[g].caller = User
              \/ req'[g].caller = req[g].caller /\ req'[g].inv = req[g].inv
    PROVE  Paired'
BY CancellationAssumption DEF Paired, AwaitedBy, SubjectOf

\* One run moves, and nobody answers to it who does not answer to its new state.
LEMMA RunPaired ==
    ASSUME Paired, NEW c \in Consumers,
           \A d \in Consumers \ {c} : hold'[d] = hold[d] /\ work'[d] = work[d],
           work'[c].step # "none" => hold'[c].phase = "owner",
           work'[c].step = "await" => work'[c].handler \in Handlers,
           \A h \in Handlers :
              \/ req'[h].caller = User
              \/ req'[h].caller # c /\ req'[h].caller = req[h].caller /\ req'[h].inv = req[h].inv
              \/ req'[h].caller = c /\ AwaitedBy(h, c)'
    PROVE  Paired'
<1>1. \A d \in Consumers :
         /\ work'[d].step # "none" => hold'[d].phase = "owner"
         /\ work'[d].step = "await" => work'[d].handler \in Handlers
  BY DEF Paired
<1>2. ASSUME NEW h \in Handlers, NEW d \in Consumers, req'[h].caller = d
      PROVE  AwaitedBy(h, d)'
  <2>1. d # User
    BY CancellationAssumption
  <2>2. CASE d = c
    BY <1>2, <2>1, <2>2
  <2>3. CASE d # c
    BY <1>2, <2>1, <2>3 DEF Paired, AwaitedBy, SubjectOf
  <2> QED
    BY <2>2, <2>3
<1> QED
  BY <1>1, <1>2 DEF Paired

\* How a step of the queue leaves what the runs hold.
LEMMA SettleHolds ==
    ASSUME QueueInv, NEW c \in Consumers, NEW status, NEW attempts, NEW deferrals,
           Queue!Settle(c, status, attempts, deferrals)
    PROVE  /\ hold[c].phase = "owner" /\ hold'[c].phase = "idle"
           /\ \A d \in Consumers \ {c} : hold'[d] = hold[d]
           /\ hold[c].job \in Jobs
           /\ queue'[hold[c].job].status = status
           /\ \A j \in Jobs \ {hold[c].job} : queue'[j] = queue[j]
<1>1. queue' = [queue EXCEPT ![hold[c].job] =
                   Queue!Touched(queue[hold[c].job], status, attempts, deferrals)]
  BY DEF Queue!Settle
<1> QED
  BY <1>1 DEF Queue!Settle, Queue!Owns, Queue!Idle, Queue!Touched, QueueInv, Queue!TypeOK

\* The outcomes that do not close a row as done.
Unsuccessful(c) ==
    \/ Queue!Defer(c) \/ Queue!GiveUpUncounted(c) \/ Queue!DeferConflict(c)
    \/ Queue!RefuseConflict(c) \/ Queue!RetryAnswered(c) \/ Queue!RetryThrown(c)

LEMMA UnsuccessfulHolds ==
    ASSUME QueueInv, NEW c \in Consumers, Unsuccessful(c)
    PROVE  /\ hold'[c].phase = "idle"
           /\ \A d \in Consumers \ {c} : hold'[d] = hold[d]
           /\ \A j \in Jobs : queue'[j].status = "succeeded" => queue[j].status = "succeeded"
<1>1. PICK status, attempts, deferrals :
         /\ status \in {"pending", "exhausted"}
         /\ Queue!Settle(c, status, attempts, deferrals)
  BY DEF Unsuccessful, Queue!Defer, Queue!GiveUpUncounted, Queue!DeferConflict,
     Queue!RefuseConflict, Queue!RetryAnswered, Queue!RetryThrown, Queue!TerminalStatus
<1> QED
  BY <1>1, SettleHolds

\* A row that is closed as done was closed by the run that owned it.
LEMMA SuccessHolds ==
    ASSUME QueueInv, NEW c \in Consumers,
           Queue!SucceedInvoked(c) \/ Queue!SucceedRefreshed(c)
    PROVE  /\ hold'[c].phase = "idle"
           /\ \A d \in Consumers \ {c} : hold'[d] = hold[d]
           /\ \A j \in Jobs : queue'[j].status = "succeeded" =>
                 queue[j].status = "succeeded" \/ DocOf[j] = SubjectOf(c)
<1>1. PICK attempts, deferrals : Queue!Settle(c, "succeeded", attempts, deferrals)
  BY DEF Queue!SucceedInvoked, Queue!SucceedRefreshed
<1> QED
  BY <1>1, SettleHolds DEF SubjectOf

\* What a run does to its own state.
LEMMA WorkMoves ==
    ASSUME DocInv, NEW c \in Consumers
    PROVE  /\ Done(c) => work'[c].step = "none" /\ \A d \in Consumers \ {c} : work'[d] = work[d]
           /\ \A step : StepTo(c, step) =>
                 /\ work'[c].step = step /\ work'[c].handler = work[c].handler
                 /\ \A d \in Consumers \ {c} : work'[d] = work[d]
<1>1. work[c] \in Work /\ work \in [Consumers -> Work]
  BY DEF DocInv, WorkOK
<1> QED
  BY <1>1 DEF Done, NoWork, StepTo, Work

\* A run that lets its request go leaves it where it is.
LEMMA DisownMoves ==
    ASSUME RequestsOK, NEW c \in Consumers, Disown(c), NEW h \in Handlers
    PROVE  \/ req'[h] = FreeSlot
           \/ /\ req'[h].pc = req[h].pc /\ req'[h].inv = req[h].inv
              /\ req'[h].kind = req[h].kind
              /\ req'[h].caller \in {req[h].caller, User} \ {c}
<1>1. req[h] \in Slot /\ c # User
  BY CancellationAssumption DEF RequestsOK
<1>2. CASE req[h].caller # c
  <2>1. req'[h] = req[h]
    BY <1>2 DEF Disown
  <2> QED
    BY <1>2, <2>1
<1>3. CASE req[h].caller = c /\ ~Serves(h, "answered")
  <2>1. req'[h] = [req[h] EXCEPT !.caller = User]
    BY <1>3 DEF Disown
  <2> QED
    BY <1>1, <2>1 DEF Slot
<1>4. CASE req[h].caller = c /\ Serves(h, "answered")
  BY <1>4 DEF Disown
<1> QED
  BY <1>2, <1>3, <1>4

LEMMA ConsumerPaired ==
    ASSUME DocInv, QueueInv, Paired, NEW c \in Consumers, ConsumerStep(c)
    PROVE  Paired'
<1> DEFINE alone == \A d \in Consumers \ {c} : hold'[d] = hold[d]
<1>1. RequestsOK /\ c # User /\ hold \in [Consumers -> [phase: Queue!Phase,
                                   job: Jobs \cup {NoJob}, row: Queue!Row]]
  BY CancellationAssumption DEF DocInv, QueueInv, Queue!TypeOK
<1>2. \A h \in Handlers : req[h].caller = c =>
         work[c].step = "await" /\ work[c].handler = h /\ req[h].inv = SubjectOf(c)
  BY DEF Paired, AwaitedBy
<1>3. CASE \E j \in Jobs : SelectRow(c, j)
  <2>1. hold[c].phase = "idle" /\ alone /\ UNCHANGED <<req, work>>
    BY <1>1, <1>3 DEF SelectRow, Queue!SelectRow, documentVars
  <2>2. work[c].step = "none"
    BY <2>1 DEF Paired
  <2> QED
    BY <1>2, <2>1, <2>2, RunPaired
<1>4. CASE TakeRow(c)
  <2>1. /\ hold[c].phase = "selected" /\ hold'[c].phase = "owner" /\ alone /\ UNCHANGED req
        /\ StepTo(c, "read")
    BY <1>1, <1>4 DEF TakeRow, Queue!Claim, documentVars
  <2>2. work[c].step = "none"
    BY <2>1 DEF Paired
  <2> QED
    BY <1>2, <2>1, <2>2, WorkMoves, RunPaired
<1>5. CASE SkipRow(c)
  <2>1. hold[c].phase = "selected" /\ alone /\ UNCHANGED <<req, work>>
    BY <1>1, <1>5 DEF SkipRow, Queue!ClaimSkipped, documentVars
  <2>2. work[c].step = "none"
    BY <2>1 DEF Paired
  <2> QED
    BY <1>2, <2>1, <2>2, RunPaired
<1>6. CASE ReadDocument(c) \/ CheckCancelled(c)
  <2>1. /\ work[c].step \in {"read", "check"} /\ UNCHANGED req
        /\ \/ Unsuccessful(c) /\ Done(c)
           \/ Queue!SucceedRefreshed(c) /\ Done(c)
           \/ StepTo(c, "invoke") /\ UNCHANGED hold
    BY <1>6 DEF ReadDocument, CheckCancelled, Step, Unsuccessful, documentVars
  <2>2. hold[c].phase = "owner" /\ \A h \in Handlers : req[h].caller # c
    BY <1>2, <2>1 DEF Paired
  <2>3. /\ alone /\ work'[c].step # "await"
        /\ work'[c].step # "none" => hold'[c].phase = "owner"
    BY <2>1, <2>2, UnsuccessfulHolds, SuccessHolds, WorkMoves
  <2>4. \A d \in Consumers \ {c} : work'[d] = work[d]
    BY <2>1, WorkMoves
  <2> QED
    BY <2>1, <2>2, <2>3, <2>4, RunPaired
<1>7. ASSUME NEW h \in Handlers, Invoke(c, h)
      PROVE  Paired'
  <2>1. /\ work[c].step = "invoke" /\ hold[c].phase = "owner" /\ UNCHANGED hold
        /\ CancelRequest(h, SubjectOf(c), c, hold[c].job, hold[c].row.updatedAt)
    BY <1>7 DEF Invoke, Step, Queue!Owns
  <2>2. /\ work'[c].step = "await" /\ work'[c].handler = h
        /\ \A d \in Consumers \ {c} : work'[d] = work[d]
    BY <1>7 DEF Invoke, DocInv, WorkOK, Work
  <2>3. PICK v : req' = [req EXCEPT ![h] =
                   [pc |-> IF v = "none" THEN "claim" ELSE "answered", inv |-> SubjectOf(c),
                    caller |-> c, job |-> hold[c].job, token |-> hold[c].row.updatedAt,
                    kind |-> v]]
    BY <2>1 DEF CancelRequest
  <2>4. /\ req'[h].caller = c /\ AwaitedBy(h, c)'
        /\ \A g \in Handlers \ {h} : req'[g] = req[g]
    BY <1>1, <2>1, <2>2, <2>3 DEF RequestsOK, AwaitedBy, SubjectOf
  <2>5. \A g \in Handlers : req[g].caller # c
    BY <1>2, <2>1
  <2>6. \A g \in Handlers :
           \/ req'[g].caller # c /\ req'[g].caller = req[g].caller /\ req'[g].inv = req[g].inv
           \/ req'[g].caller = c /\ AwaitedBy(g, c)'
    BY <2>4, <2>5
  <2> QED
    BY <2>1, <2>2, <2>6, RunPaired
<1>8. CASE Collect(c)
  <2>1. /\ work[c].step = "await" /\ req[work[c].handler].caller = c
        /\ req' = [req EXCEPT ![work[c].handler] = FreeSlot]
        /\ \/ Unsuccessful(c) /\ Done(c)
           \/ Queue!SucceedInvoked(c) /\ Done(c)
           \/ StepTo(c, "conflict") /\ UNCHANGED hold
    BY <1>8 DEF Collect, Step, Unsuccessful
  <2>2. /\ hold[c].phase = "owner"
        /\ \A h \in Handlers : req'[h] = FreeSlot \/ (req'[h] = req[h] /\ req[h].caller # c)
    BY <1>1, <1>2, <2>1 DEF Paired, RequestsOK
  <2>3. /\ alone /\ work'[c].step # "await"
        /\ work'[c].step # "none" => hold'[c].phase = "owner"
    BY <2>1, <2>2, UnsuccessfulHolds, SuccessHolds, WorkMoves
  <2>4. \A d \in Consumers \ {c} : work'[d] = work[d]
    BY <2>1, WorkMoves
  <2>5. \A h \in Handlers : \/ req'[h].caller = User
                            \/ /\ req'[h].caller # c /\ req'[h].caller = req[h].caller
                               /\ req'[h].inv = req[h].inv
    BY <2>2 DEF FreeSlot
  <2> QED
    BY <2>3, <2>4, <2>5, RunPaired
<1>9. CASE StopWaiting(c) \/ LoseRow(c)
  <2>1. /\ Disown(c) /\ Done(c)
        /\ Unsuccessful(c) \/ Queue!LeaseLost(c) \/ Queue!Abandon(c)
    BY <1>9 DEF StopWaiting, LoseRow, Unsuccessful
  <2>2. alone
    BY <1>1, <2>1, UnsuccessfulHolds DEF Queue!LeaseLost, Queue!Abandon
  <2>3. work'[c].step = "none" /\ \A d \in Consumers \ {c} : work'[d] = work[d]
    BY <2>1, WorkMoves
  <2>4. \A h \in Handlers : \/ req'[h].caller = User
                            \/ /\ req'[h].caller # c /\ req'[h].caller = req[h].caller
                               /\ req'[h].inv = req[h].inv
    BY <1>1, <2>1, DisownMoves DEF FreeSlot
  <2> QED
    BY <2>2, <2>3, <2>4, RunPaired
<1>10. CASE AskRefresh(c)
  <2>1. /\ work[c].step = "conflict" /\ hold[c].phase = "owner" /\ UNCHANGED <<hold, req>>
        /\ StepTo(c, "check")
    BY <1>10 DEF AskRefresh, Step, Queue!Owns
  <2> QED
    BY <1>2, <2>1, WorkMoves, RunPaired
<1> QED
  BY <1>3, <1>4, <1>5, <1>6, <1>7, <1>8, <1>9, <1>10 DEF ConsumerStep

LEMMA PairedStep ==
    ASSUME DocInv, QueueInv, Paired, [Next]_vars
    PROVE  Paired'
<1>1. CASE \/ \E i \in Invoices : Documents(i) /\ UNCHANGED work
           \/ \E f \in Refreshers, i \in Invoices : UserRefreshes(f, i) /\ UNCHANGED work
           \/ \E f \in Refreshers : RefreshStep(f) /\ UNCHANGED work
           \/ UNCHANGED vars
  <2>1. UNCHANGED <<hold, work, req>>
    BY <1>1 DEF Documents, RegisterPayment, DeletePayment, Age, SatDecides, SatServesLate,
       UserRefreshes, RefreshStep, AskSat, RefreshFails, WriteRefresh, vars
  <2> QED
    BY <2>1, RequestsPaired
<1>2. ASSUME NEW h \in Handlers, NEW i \in Invoices, UserCancels(h, i) /\ UNCHANGED work
      PROVE  Paired'
  <2>1. UNCHANGED <<hold, work>> /\ RequestsOK /\ CancelRequest(h, i, User, NoJob, 0)
    BY <1>2 DEF UserCancels, DocInv
  <2>2. PICK v : req' = [req EXCEPT ![h] =
                   [pc |-> IF v = "none" THEN "claim" ELSE "answered", inv |-> i,
                    caller |-> User, job |-> NoJob, token |-> 0, kind |-> v]]
    BY <2>1 DEF CancelRequest
  <2> QED
    BY <2>1, <2>2, RequestsPaired DEF RequestsOK
<1>3. ASSUME NEW h \in Handlers, (CancelStep(h) \/ CrashCancel(h)) /\ UNCHANGED work
      PROVE  Paired'
  <2>1. UNCHANGED <<hold, work>>
    BY <1>3 DEF CancelStep, CrashCancel, ClaimCancellation, RefuseConfig, CancelStub, SendToSat,
       SatAnswers, SatRefuses, TimeOut, ReleaseClaim, EnqueueRetry,
       EnqueueLost, FinishCancellation, Queue!Enqueue
  <2> QED
    BY <1>3, <2>1, HandlerPaired, RequestsPaired DEF FreeSlot
<1>4. CASE \E c \in Consumers : ConsumerStep(c)
  BY <1>4, ConsumerPaired
<1> QED
  BY <1>1, <1>2, <1>3, <1>4 DEF Next

LEMMA PairedHolds == Spec => []Paired
<1>1. Init => Paired
  BY CancellationAssumption DEF Init, InitDocuments, Paired, NoWork, FreeSlot
<1> QED
  BY <1>1, PairedStep, DocInvHolds, QueueInvHolds, PTL DEF Spec
-----------------------------------------------------------------------------
(* Rows of the queue that are closed as done.                              *)

\* A request for a document the PAC has that counts as made has reached the SAT.
Reached(i) == inv[i].known => sat[i] # "none"

HeardRequest(h) ==
    /\ req[h].pc = "finish" => Reached(req[h].inv)
    /\ req[h].pc = "answered" /\ req[h].kind = "ok" => Reached(req[h].inv)

Heard == DoneReachedSat /\ \A h \in Handlers : HeardRequest(h)

\* No step changes whether the PAC has a document, and the SAT forgets no request.
SatRemembers ==
    \A i \in Invoices : /\ inv'[i].known = inv[i].known
                        /\ sat[i] # "none" => sat'[i] # "none"

LEMMA RecordRemembers ==
    ASSUME RowsOK, NEW i \in Invoices, NEW status, Record(i, status), NEW k \in Invoices
    PROVE  inv'[k].known = inv[k].known
<1>1. CASE Refused(i, status)
  BY <1>1 DEF Record
<1>2. CASE ~Refused(i, status)
  <2>1. inv' = [inv EXCEPT ![i] = [inv[i] EXCEPT !.cancel = status,
                     !.status = IF status = "accepted" THEN "cancelled" ELSE @]]
    BY <1>2 DEF Record
  <2> QED
    BY <2>1 DEF RowsOK, Invoice
<1> QED
  BY <1>1, <1>2

LEMMA ReachesRemembers ==
    ASSUME SatOK, NEW i \in Invoices, Reaches(i)
    PROVE  sat'[i] # "none" /\ \A k \in Invoices : sat[k] # "none" => sat'[k] # "none"
BY DEF SatOK, Reaches, Served

LEMMA DocumentsRemember ==
    ASSUME DocInv, NEW i \in Invoices, Documents(i)
    PROVE  SatRemembers
<1>1. RowsOK /\ SatOK
  BY DEF DocInv
<1>2. CASE RegisterPayment(i) \/ DeletePayment(i) \/ Age(i)
  BY <1>1, <1>2 DEF RegisterPayment, DeletePayment, Age, RowsOK, Invoice, SatRemembers
<1>3. CASE SatDecides(i)
  BY <1>1, <1>3 DEF SatDecides, SatOK, SatRemembers
<1>4. CASE SatServesLate(i)
  BY <1>1, <1>4, ReachesRemembers DEF SatServesLate, SatRemembers
<1> QED
  BY <1>2, <1>3, <1>4 DEF Documents

LEMMA CancelRemembers ==
    ASSUME DocInv, NEW h \in Handlers, CancelStep(h) \/ CrashCancel(h)
    PROVE  SatRemembers
<1> USE DEF Serves
<1>1. /\ RowsOK /\ SatOK
      /\ req[h].pc # "idle" => req[h].inv \in Invoices
      /\ req[h].pc = "finish" => req[h].kind \in Cancellation
  BY DEF DocInv, RequestsOK
<1>2. CASE SatAnswers(h) \/ SatRefuses(h)
  <2>1. req[h].inv \in Invoices /\ UNCHANGED inv /\ (UNCHANGED sat \/ Reaches(req[h].inv))
    BY <1>1, <1>2 DEF SatAnswers, SatRefuses
  <2> QED
    BY <1>1, <2>1, ReachesRemembers DEF SatRemembers
<1>3. CASE FinishCancellation(h)
  <2>1. /\ req[h].inv \in Invoices /\ UNCHANGED sat
        /\ Record(req[h].inv, req[h].kind) \/ UNCHANGED inv
    BY <1>1, <1>3 DEF FinishCancellation
  <2> QED
    BY <1>1, <2>1, RecordRemembers DEF SatRemembers
<1>4. CASE ClaimCancellation(h) \/ RefuseConfig(h) \/ ReleaseClaim(h)
  <2>1. UNCHANGED sat /\ \A k \in Invoices : inv'[k].known = inv[k].known
    BY <1>1, <1>4 DEF ClaimCancellation, RefuseConfig, ReleaseClaim, Release, RowsOK, Invoice
  <2> QED
    BY <2>1 DEF SatRemembers
<1>5. CASE \/ CancelStub(h) \/ SendToSat(h) \/ TimeOut(h) \/ CrashCancel(h)
           \/ (\E j \in Jobs : EnqueueRetry(h, j)) \/ EnqueueLost(h)
  <2>1. UNCHANGED <<inv, sat>>
    BY <1>5 DEF CancelStub, SendToSat, TimeOut, CrashCancel, EnqueueRetry, EnqueueLost
  <2> QED
    BY <2>1 DEF SatRemembers
<1> QED
  BY <1>2, <1>3, <1>4, <1>5 DEF CancelStep

LEMMA RefreshRemembers ==
    ASSUME DocInv, NEW f \in Refreshers, RefreshStep(f)
    PROVE  SatRemembers
<1>1. RowsOK /\ UNCHANGED sat
  BY DEF DocInv, RefreshStep, AskSat, RefreshFails, WriteRefresh
<1>2. CASE AskSat(f) \/ RefreshFails(f)
  BY <1>1, <1>2 DEF AskSat, RefreshFails, SatRemembers
<1>3. CASE WriteRefresh(f)
  <2>1. /\ refresh[f].inv \in Invoices
        /\ Record(refresh[f].inv, refresh[f].next) \/ UNCHANGED inv
    BY <1>3 DEF WriteRefresh, DocInv, RefreshesOK
  <2> QED
    BY <1>1, <2>1, RecordRemembers DEF SatRemembers
<1> QED
  BY <1>2, <1>3 DEF RefreshStep

\* What is left alone stays true while the SAT goes on.
LEMMA HeardStays ==
    ASSUME DocInv, Heard, SatRemembers, NEW h \in Handlers,
           \/ req'[h] = FreeSlot
           \/ /\ req'[h].pc = req[h].pc /\ req'[h].inv = req[h].inv
              /\ req'[h].kind = req[h].kind
    PROVE  HeardRequest(h)'
<1>1. HeardRequest(h) /\ (req[h].pc # "idle" => req[h].inv \in Invoices)
  BY DEF DocInv, RequestsOK, Heard
<1>2. CASE req'[h] = FreeSlot
  BY <1>2 DEF HeardRequest, FreeSlot
<1>3. CASE req'[h] # FreeSlot
  <2>1. req'[h].pc = req[h].pc /\ req'[h].inv = req[h].inv /\ req'[h].kind = req[h].kind
    BY <1>3
  <2> QED
    BY <1>1, <2>1 DEF HeardRequest, Reached, SatRemembers
<1> QED
  BY <1>2, <1>3

\* A row is closed as done only where it was, or with the SAT asked.
LEMMA QueueHears ==
    ASSUME DoneReachedSat, SatRemembers,
           \A j \in Jobs : queue'[j].status = "succeeded" =>
              queue[j].status = "succeeded" \/ Reached(DocOf[j])
    PROVE  DoneReachedSat'
<1>1. \A j \in Jobs : DocOf[j] \in Invoices
  BY CancellationAssumption
<1> QED
  BY <1>1 DEF DoneReachedSat, SatRemembers, Reached

LEMMA AnswerHears ==
    ASSUME RequestsOK, NEW h \in Handlers, NEW kind, Answer(h, kind),
           kind = "ok" => (inv'[req[h].inv].known => sat'[req[h].inv] # "none")
    PROVE  HeardRequest(h)' /\ \A g \in Handlers \ {h} : req'[g] = req[g]
<1>1. req[h] \in Slot /\ \A g \in Handlers \ {h} : req'[g] = req[g]
  BY DEF RequestsOK, Answer
<1>2. CASE req[h].caller = User
  <2>1. req'[h] = FreeSlot
    BY <1>2 DEF RequestsOK, Answer
  <2> QED
    BY <1>1, <2>1 DEF HeardRequest, FreeSlot
<1>3. CASE req[h].caller # User
  <2>1. req'[h] = [req[h] EXCEPT !.pc = "answered", !.kind = kind]
    BY <1>3 DEF RequestsOK, Answer
  <2>2. req'[h].pc = "answered" /\ req'[h].kind = kind /\ req'[h].inv = req[h].inv
    BY <1>1, <2>1 DEF Slot
  <2> QED
    BY <1>1, <2>2 DEF HeardRequest, Reached
<1> QED
  BY <1>2, <1>3

\* A request of cancel-cfdi: its outcome is what the SAT said, and it reports
\* success only of an outcome.
LEMMA CancelHears ==
    ASSUME DocInv, QueueInv, Heard, NEW h \in Handlers, CancelStep(h) \/ CrashCancel(h)
    PROVE  Heard'
<1> DEFINE i == req[h].inv
           mine == HeardRequest(h)' /\ \A g \in Handlers \ {h} : req'[g] = req[g]
<1> USE DEF Serves
<1>1. /\ RequestsOK /\ SatOK /\ HeardRequest(h) /\ req[h] \in Slot /\ SatRemembers
      /\ req[h].pc # "idle" => i \in Invoices
  BY CancelRemembers DEF DocInv, RequestsOK, Heard
<1>2. \A j \in Jobs : queue'[j].status = "succeeded" => queue[j].status = "succeeded"
  <2>1. CASE \E j \in Jobs : EnqueueRetry(h, j)
    <3>1. PICK k \in Jobs : queue' = [queue EXCEPT ![k] = Queue!InsertedRow]
      BY <2>1 DEF EnqueueRetry, Queue!Enqueue
    <3> QED
      BY <3>1 DEF Queue!InsertedRow, QueueInv, Queue!TypeOK
  <2>2. CASE ~\E j \in Jobs : EnqueueRetry(h, j)
    <3>1. UNCHANGED queue
      BY <2>2 DEF CancelStep, CrashCancel, ClaimCancellation, RefuseConfig, CancelStub,
         SendToSat, SatAnswers, SatRefuses, TimeOut, EnqueueLost, ReleaseClaim,
         FinishCancellation
    <3> QED
      BY <3>1
  <2> QED
    BY <2>1, <2>2
<1>3. mine => Heard'
  BY <1>1, <1>2, HeardStays, QueueHears DEF Heard
<1>4. \A pc \in {"config", "enqueue", "release"} : GoTo(h, pc) => mine
  BY <1>1 DEF RequestsOK, Slot, GoTo, HeardRequest
<1>5. \A kind : kind # "ok" /\ Answer(h, kind) => mine
  BY <1>1, AnswerHears
<1>6. CASE \/ ClaimCancellation(h) \/ SatRefuses(h) \/ RefuseConfig(h) \/ ReleaseClaim(h)
           \/ TimeOut(h) \/ (\E j \in Jobs : EnqueueRetry(h, j)) \/ EnqueueLost(h)
  <2>1. \/ \E pc \in {"config", "enqueue", "release"} : GoTo(h, pc)
        \/ \E kind : kind # "ok" /\ Answer(h, kind)
    BY <1>6 DEF ClaimCancellation, SatRefuses, RefuseConfig, ReleaseClaim, TimeOut,
       EnqueueRetry, EnqueueLost
  <2> QED
    BY <1>3, <1>4, <1>5, <2>1
<1>7. CASE CancelStub(h)
  <2>1. ~inv[i].known /\ i \in Invoices /\ UNCHANGED inv
    BY <1>1, <1>7 DEF CancelStub
  <2>2. /\ req'[h].inv = i /\ req'[h].pc = "finish"
        /\ \A g \in Handlers \ {h} : req'[g] = req[g]
    BY <1>1, <1>7 DEF CancelStub, RequestsOK, Slot
  <2> QED
    BY <1>3, <2>1, <2>2 DEF HeardRequest, Reached
<1>8. CASE SendToSat(h)
  <2>1. req'[h].pc = "sent" /\ \A g \in Handlers \ {h} : req'[g] = req[g]
    BY <1>1, <1>8 DEF SendToSat, RequestsOK, Slot
  <2> QED
    BY <1>3, <2>1 DEF HeardRequest
<1>9. CASE SatAnswers(h)
  <2>1. i \in Invoices /\ Reaches(i) /\ sat'[i] # "none"
    BY <1>1, <1>9, ReachesRemembers DEF SatAnswers
  <2>2. PICK s \in {sat'[i], "none"} :
           IF s = "none" THEN Answer(h, "error")
           ELSE req' = [req EXCEPT ![h].pc = "finish", ![h].kind = s]
    BY <1>9 DEF SatAnswers, Understood
  <2>3. CASE s = "none"
    BY <1>3, <1>5, <2>2, <2>3
  <2>4. CASE s # "none"
    <3>1. /\ req'[h].inv = i /\ req'[h].pc = "finish"
          /\ \A g \in Handlers \ {h} : req'[g] = req[g]
      BY <1>1, <2>2, <2>4 DEF RequestsOK, Slot
    <3> QED
      BY <1>3, <2>1, <3>1 DEF HeardRequest, Reached
  <2> QED
    BY <2>3, <2>4
<1>10. CASE FinishCancellation(h)
  <2>1. i \in Invoices /\ Reached(i)
    BY <1>1, <1>10 DEF FinishCancellation, HeardRequest
  <2>2. inv'[i].known => sat'[i] # "none"
    BY <1>1, <2>1 DEF Reached, SatRemembers
  <2>3. mine
    BY <1>1, <1>10, <2>2, AnswerHears DEF FinishCancellation
  <2> QED
    BY <1>3, <2>3
<1>11. CASE CrashCancel(h)
  <2>1. req'[h] = FreeSlot /\ \A g \in Handlers \ {h} : req'[g] = req[g]
    BY <1>1, <1>11 DEF CrashCancel, RequestsOK
  <2> QED
    BY <1>3, <2>1 DEF HeardRequest, FreeSlot
<1> QED
  BY <1>6, <1>7, <1>8, <1>9, <1>10, <1>11 DEF CancelStep

\* A run of the queue.  It closes its row as done on the word of the request it
\* waited for, or when the invoice says so.
LEMMA ConsumerHears ==
    ASSUME DocInv, QueueInv, Paired, CancelledAtSat, Heard, NEW c \in Consumers,
           ConsumerStep(c)
    PROVE  Heard'
<1>1. RequestsOK /\ DoneReachedSat
  BY DEF DocInv, Heard
<1>2. SatRemembers
  BY DEF ConsumerStep, SelectRow, TakeRow, SkipRow, ReadDocument, Invoke, Collect,
     StopWaiting, AskRefresh, CheckCancelled, LoseRow, documentVars, SatRemembers
<1>3. UNCHANGED req => \A h \in Handlers : HeardRequest(h)'
  BY <1>2, HeardStays
<1>4. UNCHANGED queue \/ Unsuccessful(c) => DoneReachedSat'
  BY <1>1, <1>2, QueueHears, UnsuccessfulHolds
<1>5. (Queue!SucceedInvoked(c) \/ Queue!SucceedRefreshed(c)) /\ Reached(SubjectOf(c))
         => DoneReachedSat'
  BY <1>1, <1>2, QueueHears, SuccessHolds
<1>6. CASE \/ \E j \in Jobs : SelectRow(c, j)
           \/ SkipRow(c) \/ ReadDocument(c) \/ AskRefresh(c)
  <2>1. UNCHANGED req /\ (UNCHANGED queue \/ Unsuccessful(c))
    BY <1>6 DEF SelectRow, SkipRow, ReadDocument, AskRefresh, documentVars, Unsuccessful,
       Queue!SelectRow, Queue!ClaimSkipped
  <2> QED
    BY <1>3, <1>4, <2>1 DEF Heard
<1>7. CASE TakeRow(c)
  <2>1. UNCHANGED req /\ Queue!Claim(c) /\ hold[c].job \in Jobs
    BY <1>7 DEF TakeRow, documentVars, QueueInv, Queue!Claim
  <2>2. \A j \in Jobs : queue'[j].status = "succeeded" => queue[j].status = "succeeded"
    BY <2>1 DEF QueueInv, Queue!TypeOK, Queue!Claim, Queue!Touched
  <2> QED
    BY <1>1, <1>2, <1>3, <2>1, <2>2, QueueHears DEF Heard
<1>8. ASSUME NEW h \in Handlers, Invoke(c, h)
      PROVE  Heard'
  <2>1. UNCHANGED queue /\ CancelRequest(h, SubjectOf(c), c, hold[c].job, hold[c].row.updatedAt)
    BY <1>8 DEF Invoke
  <2>2. PICK v \in {"none", "error", "refused"} : req' = [req EXCEPT ![h] =
                   [pc |-> IF v = "none" THEN "claim" ELSE "answered", inv |-> SubjectOf(c),
                    caller |-> c, job |-> hold[c].job, token |-> hold[c].row.updatedAt,
                    kind |-> v]]
    BY <2>1 DEF CancelRequest
  <2>3. /\ req'[h].pc # "finish" /\ req'[h].kind # "ok"
        /\ \A g \in Handlers \ {h} : req'[g] = req[g]
    BY <1>1, <2>2 DEF RequestsOK
  <2>4. \A g \in Handlers : HeardRequest(g)'
    BY <1>2, <2>3, HeardStays DEF HeardRequest
  <2> QED
    BY <1>4, <2>1, <2>4 DEF Heard
<1>9. CASE Collect(c)
  <2> DEFINE h == work[c].handler
  <2>1. /\ Step(c, "await") /\ req[h].caller = c /\ Serves(h, "answered")
        /\ req' = [req EXCEPT ![h] = FreeSlot]
        /\ \/ UNCHANGED queue \/ Unsuccessful(c)
           \/ req[h].kind = "ok" /\ Queue!SucceedInvoked(c)
    BY <1>9 DEF Collect, Unsuccessful, Succeeded
  <2>2. \A g \in Handlers : HeardRequest(g)'
    BY <1>1, <1>2, <2>1, HeardStays DEF RequestsOK
  <2>3. CASE req[h].kind = "ok" /\ Queue!SucceedInvoked(c)
    <3>1. h \in Handlers /\ AwaitedBy(h, c)
      BY <2>1 DEF Step, Paired
    <3>2. Reached(SubjectOf(c))
      BY <2>1, <2>3, <3>1 DEF Heard, HeardRequest, Serves, AwaitedBy
    <3> QED
      BY <1>5, <2>2, <2>3, <3>2 DEF Heard
  <2> QED
    BY <1>4, <2>1, <2>2, <2>3 DEF Heard
<1>10. CASE StopWaiting(c) \/ LoseRow(c)
  <2>1. Disown(c) /\ (UNCHANGED queue \/ Unsuccessful(c))
    BY <1>10 DEF StopWaiting, LoseRow, Unsuccessful, Queue!LeaseLost, Queue!Abandon
  <2>2. \A h \in Handlers : HeardRequest(h)'
    BY <1>1, <1>2, <2>1, DisownMoves, HeardStays
  <2> QED
    BY <1>4, <2>1, <2>2 DEF Heard
<1>11. CASE CheckCancelled(c)
  <2>1. /\ UNCHANGED req
        /\ Unsuccessful(c) \/ (Confirmed(SubjectOf(c)) /\ Queue!SucceedRefreshed(c))
    BY <1>11 DEF CheckCancelled, documentVars, Unsuccessful
  <2>2. CASE Confirmed(SubjectOf(c)) /\ Queue!SucceedRefreshed(c)
    <3>1. SubjectOf(c) \in Invoices
      BY <2>2, CancellationAssumption
         DEF Queue!SucceedRefreshed, Queue!Settle, Queue!Owns, QueueInv, SubjectOf
    <3>2. Reached(SubjectOf(c))
      BY <2>2, <3>1 DEF Confirmed, CancelledAtSat, Reached
    <3> QED
      BY <1>3, <1>5, <2>1, <2>2, <3>2 DEF Heard
  <2> QED
    BY <1>3, <1>4, <2>1, <2>2 DEF Heard
<1> QED
  BY <1>6, <1>7, <1>8, <1>9, <1>10, <1>11 DEF ConsumerStep

LEMMA HeardStep ==
    ASSUME DocInv, QueueInv, Paired, CancelledAtSat, Heard, [Next]_vars
    PROVE  Heard'
<1>1. CASE \E i \in Invoices : Documents(i)
  <2>1. SatRemembers /\ UNCHANGED <<req, queue>>
    BY <1>1, DocumentsRemember
       DEF Documents, RegisterPayment, DeletePayment, Age, SatDecides, SatServesLate
  <2> QED
    BY <2>1, HeardStays, QueueHears DEF Heard
<1>2. CASE \/ \E f \in Refreshers : RefreshStep(f)
           \/ \E f \in Refreshers, i \in Invoices : UserRefreshes(f, i)
           \/ UNCHANGED vars
  <2>1. SatRemembers /\ UNCHANGED <<req, queue>>
    BY <1>2, RefreshRemembers DEF RefreshStep, AskSat, RefreshFails, WriteRefresh,
       UserRefreshes, vars, SatRemembers
  <2> QED
    BY <2>1, HeardStays, QueueHears DEF Heard
<1>3. ASSUME NEW h \in Handlers, NEW i \in Invoices, UserCancels(h, i)
      PROVE  Heard'
  <2>1. UNCHANGED <<inv, sat, queue>> /\ CancelRequest(h, i, User, NoJob, 0)
    BY <1>3 DEF UserCancels
  <2>2. PICK v \in {"none", "error", "refused"} : req' = [req EXCEPT ![h] =
                   [pc |-> IF v = "none" THEN "claim" ELSE "answered", inv |-> i,
                    caller |-> User, job |-> NoJob, token |-> 0, kind |-> v]]
    BY <2>1 DEF CancelRequest
  <2>3. /\ req'[h].pc # "finish" /\ req'[h].kind # "ok"
        /\ \A g \in Handlers \ {h} : req'[g] = req[g]
    BY <2>2 DEF DocInv, RequestsOK
  <2>4. SatRemembers
    BY <2>1 DEF SatRemembers
  <2>5. \A g \in Handlers : HeardRequest(g)'
    BY <2>3, <2>4, HeardStays DEF HeardRequest
  <2> QED
    BY <2>1, <2>4, <2>5, QueueHears DEF Heard
<1>4. CASE \E h \in Handlers : CancelStep(h) \/ CrashCancel(h)
  BY <1>4, CancelHears
<1>5. CASE \E c \in Consumers : ConsumerStep(c)
  BY <1>5, ConsumerHears
<1> QED
  BY <1>1, <1>2, <1>3, <1>4, <1>5 DEF Next

\* A row of the queue is closed as done only if its request has reached the SAT:
\* a 409 that another request or the payments caused, a row taken over by another
\* run and answers that nobody waits for any more do not close it.
THEOREM DoneCancellationsReachedSat == Spec => []DoneReachedSat
<1>1. Init => Heard
  BY DEF Init, InitDocuments, Heard, DoneReachedSat, HeardRequest, FreeSlot, Queue!Init,
     Queue!AbsentRow
<1>2. Heard => DoneReachedSat
  BY DEF Heard
<1> QED
  BY <1>1, <1>2, HeardStep, DocInvHolds, QueueInvHolds, PairedHolds, CancelledOnlyAtSat, PTL
     DEF Spec
=============================================================================
