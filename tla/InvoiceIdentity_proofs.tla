------------------------ MODULE InvoiceIdentity_proofs ------------------------
(***************************************************************************)
(* Proofs about the fiscal identity of an invoice, for any number of       *)
(* invoices, requests, rows, runs and documents, and any kinds of failure. *)
(*                                                                         *)
(* The PAC makes one document per invoice; whoever holds the id of a       *)
(* document holds one of the invoice it works on; and whoever writes a row *)
(* without conditions is alone with it, so that ids and stampings stay.    *)
(* With a prompt PAC and no failure but lost writes, a document hidden     *)
(* from its row has a row of the queue that leads to it, or a request      *)
(* about to write one: no document is forgotten.                           *)
(***************************************************************************)
EXTENDS InvoiceStamping_proofs, FiniteSetTheorems

-----------------------------------------------------------------------------
(* The documents of the PAC.                                               *)

OneDocument ==
    \A d, e \in Documents : pac[d].inv = pac[e].inv /\ pac[d].inv # NoInvoice => d = e

\* A request that has an answer to write down has a document of its invoice,
\* and one that goes on to stamp it has a valid one.
RequestDocs ==
    \A h \in Handlers : req[h].pc \in {"record", "persist", "finish"} =>
        /\ pac[req[h].doc].inv = req[h].inv
        /\ req[h].pc # "record" => pac[req[h].doc].state = "valid"

\* A run of the queue that recovered a document is about to save it on the row
\* of its invoice.
RunDocs ==
    \A c \in Consumers : work[c].step = "save" =>
        /\ pac[work[c].doc].inv = SubjectOf(c)
        /\ work[c].kind = "valid" => pac[work[c].doc].state = "valid"

OwnDocs == OneDocument /\ RequestDocs /\ RunDocs

\* A document keeps its invoice, and its state once it is valid or failed.
PacGrows ==
    \A d \in Documents : pac[d].inv # NoInvoice =>
        /\ pac'[d].inv = pac[d].inv
        /\ pac[d].state # "pending" => pac'[d].state = pac[d].state

\* A create call never gives an invoice a second document.
LEMMA CreatesGrow ==
    ASSUME PacOK, OneDocument, NEW i \in Invoices, NEW total \in 0..MaxEdits,
           NEW d \in Documents, NEW state \in PacState, Creates(i, total, d, state)
    PROVE  /\ OneDocument' /\ PacGrows
           /\ pac'[d].inv = i /\ pac'[d].state = state
<1>1. CASE SharesKey(i, d) /\ state = pac[d].state /\ UNCHANGED pac
  BY <1>1 DEF SharesKey, OneDocument, PacGrows
<1>2. CASE /\ \A e \in Documents : ~SharesKey(i, e)
           /\ d \in Unused
           /\ pac' = [pac EXCEPT ![d] = [inv |-> i, state |-> state, listed |-> PacIsPrompt,
                                         total |-> total]]
  <2>1. /\ pac[d].inv = NoInvoice /\ \A e \in Documents : pac[e].inv # i
        /\ pac'[d].inv = i /\ pac'[d].state = state
        /\ \A e \in Documents \ {d} : pac'[e] = pac[e]
    BY <1>2 DEF SharesKey, Unused, PacOK
  <2> QED
    BY <2>1 DEF OneDocument, PacGrows
<1> QED
  BY <1>1, <1>2 DEF Creates

LEMMA SameDocuments ==
    ASSUME OneDocument, UNCHANGED pac
    PROVE  OneDocument' /\ PacGrows
BY DEF OneDocument, PacGrows

\* What any step does to the documents.
LEMMA PacStepGrows ==
    ASSUME Typed, OneDocument, [Next]_vars
    PROVE  OneDocument' /\ PacGrows
<1>0. PacOK
  BY DEF Typed
<1>1. ASSUME NEW l \in late, PacServesLate(l)
      PROVE  OneDocument' /\ PacGrows
  <2>1. l.inv \in Invoices /\ l.total \in 0..MaxEdits
    BY <1>0 DEF PacOK, Aborted
  <2> QED
    BY <1>0, <1>1, <2>1, CreatesGrow, SameDocuments DEF PacServesLate
<1>2. ASSUME NEW d \in Documents, PacSettles(d) \/ PacLists(d)
      PROVE  OneDocument' /\ PacGrows
  <2>1. \A e \in Documents : /\ pac'[e].inv = pac[e].inv
                             /\ pac[e].state # "pending" => pac'[e].state = pac[e].state
    BY <1>0, <1>2 DEF PacSettles, PacLists, PacOK, PacDocument
  <2> QED
    BY <2>1 DEF OneDocument, PacGrows
<1>3. ASSUME NEW h \in Handlers, PacAnswers(h) \/ PacLosesAnswer(h)
      PROVE  OneDocument' /\ PacGrows
  <2>1. req[h].inv \in Invoices /\ req[h].total \in 0..MaxEdits
    BY <1>3 DEF PacAnswers, PacLosesAnswer, Serves, Typed, RequestsOK, Slot
  <2> QED
    BY <1>0, <1>3, <2>1, CreatesGrow DEF PacAnswers, PacLosesAnswer
<1>4. CASE UNCHANGED pac
  BY <1>4, SameDocuments
<1> QED
  <2>1. CASE UNCHANGED vars
    BY <1>4, <2>1 DEF vars
  <2>2. CASE \/ \E i \in Invoices : EditInvoice(i)
             \/ \E h \in Handlers, i \in Invoices : UserRequest(h, i)
    BY <1>4, <2>2 DEF EditInvoice, UserRequest
  <2>3. ASSUME NEW h \in Handlers, HandlerStep(h) \/ CrashRequest(h)
        PROVE  OneDocument' /\ PacGrows
    BY <1>3, <1>4, <2>3 DEF HandlerStep, CrashRequest, ClaimInvoice, RefuseConfig, StampStub,
       SendToPac, PacRefuses, TimeOut, RecordRefusal, EnqueueRetry, EnqueueLost,
       RecordIncomplete, PersistIds, FinishStamping
  <2>4. ASSUME NEW c \in Consumers, ConsumerStep(c)
        PROVE  UNCHANGED pac
    BY <2>4 DEF ConsumerStep, SelectRow, TakeRow, SkipRow, ReadInvoice, LookUp, SaveRecovered,
       CloseRecovered, Invoke, Collect, StopWaiting, LoseRow
  <2>5. ASSUME NEW r \in Reconcilers, ReconcilerStep(r) \/ CrashReconciler(r)
        PROVE  UNCHANGED pac
    BY <2>5 DEF ReconcilerStep, CrashReconciler, SelectStuck, ClaimStuck, SkipStuck,
       ResolveStuck, LookupFails, FetchStuck, FetchLost
  <2> QED
    BY <1>1, <1>2, <1>4, <2>1, <2>2, <2>3, <2>4, <2>5 DEF Next, PacStep

-----------------------------------------------------------------------------
(* Who holds a document.                                                   *)

\* A request that goes on with the document it has.
CarriesOn(h) ==
    /\ req[h].pc \in {"record", "persist", "finish"}
    /\ req'[h].inv = req[h].inv /\ req'[h].doc = req[h].doc
    /\ req'[h].pc # "record" => req[h].pc # "record"

\* A document somebody holds is still the same document.
LEMMA RequestDocsStay ==
    ASSUME Typed, RequestDocs, PacGrows,
           \A h \in Handlers : req'[h].pc \in {"record", "persist", "finish"} => CarriesOn(h)
    PROVE  RequestDocs'
<1> SUFFICES ASSUME NEW h \in Handlers, req'[h].pc \in {"record", "persist", "finish"}
             PROVE  /\ pac'[req'[h].doc].inv = req'[h].inv
                    /\ req'[h].pc # "record" => pac'[req'[h].doc].state = "valid"
  BY DEF RequestDocs
<1>1. CarriesOn(h)
  OBVIOUS
<1>2. req[h].doc \in Documents /\ req[h].inv \in Invoices
  BY <1>1 DEF CarriesOn, Typed, RequestsOK
<1>3. pac[req[h].doc].inv # NoInvoice
  BY <1>1, <1>2, StampingAssumption DEF CarriesOn, RequestDocs
<1> QED
  BY <1>1, <1>2, <1>3 DEF CarriesOn, RequestDocs, PacGrows

LEMMA RunDocsStay ==
    ASSUME Typed, QueueInv, RunDocs, PacGrows,
           \A c \in Consumers : work'[c].step = "save" =>
               work'[c] = work[c] /\ hold'[c].job = hold[c].job
    PROVE  RunDocs'
<1> SUFFICES ASSUME NEW c \in Consumers, work'[c].step = "save"
             PROVE  /\ pac'[work'[c].doc].inv = SubjectOf(c)'
                    /\ work'[c].kind = "valid" => pac'[work'[c].doc].state = "valid"
  BY DEF RunDocs
<1>1. work'[c] = work[c] /\ work[c].step = "save" /\ SubjectOf(c)' = SubjectOf(c)
  BY DEF SubjectOf
<1>2. work[c].doc \in Documents /\ SubjectOf(c) \in Invoices
  BY <1>1, SubjectIsInvoice DEF Typed, WorkOK
<1>3. pac[work[c].doc].inv # NoInvoice
  BY <1>1, <1>2, StampingAssumption DEF RunDocs
<1> QED
  BY <1>1, <1>2, <1>3 DEF RunDocs, PacGrows
\* A request that was not at work with a document, or is no more, moves none.
LEMMA AnswerDocs ==
    ASSUME RequestsOK, NEW h \in Handlers, NEW kind, Answer(h, kind)
    PROVE  \A g \in Handlers : req'[g].pc \in {"record", "persist", "finish"} =>
               g # h /\ req'[g] = req[g]
<1>1. ~Emitting(h)' /\ \A g \in Handlers \ {h} : req'[g] = req[g]
  BY AnswerEnds
<1> QED
  BY <1>1 DEF Emitting

LEMMA HandlerDocs ==
    ASSUME Typed, OwnDocs, PacGrows, NEW h \in Handlers, HandlerStep(h) \/ CrashRequest(h)
    PROVE  RequestDocs'
<1> USE DEF Serves, OwnDocs
<1>1. RequestsOK /\ PacOK /\ req[h] \in Slot /\ DOMAIN req = Handlers
  BY DEF Typed, RequestsOK
<1>2. (\E kind : Answer(h, kind)) => RequestDocs'
  BY <1>1, AnswerDocs, RequestDocsStay DEF CarriesOn
<1>3. ASSUME NEW pc \in {"config", "sent", "enqueue", "finish"}, GoTo(h, pc),
             pc = "finish" => req[h].pc = "persist"
      PROVE  RequestDocs'
  <2>1. /\ req'[h] = [req[h] EXCEPT !.pc = pc]
        /\ \A g \in Handlers \ {h} : req'[g] = req[g]
    BY <1>1, <1>3 DEF GoTo
  <2>2. req'[h].pc = pc /\ req'[h].inv = req[h].inv /\ req'[h].doc = req[h].doc
    BY <1>1, <2>1 DEF Slot
  <2> QED
    BY <1>3, <2>1, <2>2, RequestDocsStay DEF CarriesOn
<1>4. CASE PacAnswers(h)
  <2>1. PICK d \in Documents, state \in PacState :
           /\ Creates(req[h].inv, req[h].total, d, state)
           /\ req' = [req EXCEPT ![h].pc = AfterAnswer(state), ![h].doc = d, ![h].kind = state]
    BY <1>4 DEF PacAnswers
  <2>2. pac'[d].inv = req[h].inv /\ pac'[d].state = state
    BY <1>1, <1>4, <2>1, CreatesGrow DEF PacAnswers, RequestsOK, Slot
  <2>3. /\ req'[h].pc = AfterAnswer(state) /\ req'[h].doc = d /\ req'[h].inv = req[h].inv
        /\ \A g \in Handlers \ {h} : req'[g] = req[g]
    BY <1>1, <2>1 DEF Slot
  <2>4. ASSUME NEW g \in Handlers \ {h}, req'[g].pc \in {"record", "persist", "finish"}
        PROVE  /\ pac'[req'[g].doc].inv = req'[g].inv
               /\ req'[g].pc # "record" => pac'[req'[g].doc].state = "valid"
    <3>1. /\ req'[g] = req[g] /\ req[g].doc \in Documents
          /\ pac[req[g].doc].inv = req[g].inv /\ req[g].inv \in Invoices
      BY <1>1, <2>3, <2>4 DEF RequestsOK, RequestDocs
    <3>2. pac[req[g].doc].inv # NoInvoice
      BY <3>1, StampingAssumption
    <3> QED
      BY <2>4, <3>1, <3>2 DEF PacGrows, RequestDocs
  <2> QED
    BY <2>2, <2>3, <2>4 DEF RequestDocs, AfterAnswer
<1>5. CASE PacRefuses(h) \/ PacLosesAnswer(h)
  <2>1. PICK kind : req' = [req EXCEPT ![h].pc = "refused", ![h].kind = kind]
    BY <1>5 DEF PacRefuses, PacLosesAnswer
  <2>2. req'[h].pc = "refused" /\ \A g \in Handlers \ {h} : req'[g] = req[g]
    BY <1>1, <2>1 DEF Slot
  <2> QED
    BY <2>2, RequestDocsStay DEF CarriesOn
<1>6. CASE CrashRequest(h)
  <2>1. req'[h].pc = "idle" /\ \A g \in Handlers \ {h} : req'[g] = req[g]
    BY <1>1, <1>6, Records DEF CrashRequest
  <2> QED
    BY <2>1, RequestDocsStay DEF CarriesOn
<1>7. CASE ClaimInvoice(h) \/ SendToPac(h) \/ PersistIds(h) \/ RecordRefusal(h)
  BY <1>2, <1>3, <1>7 DEF ClaimInvoice, SendToPac, PersistIds, RecordRefusal
<1>8. CASE \/ RefuseConfig(h) \/ StampStub(h) \/ TimeOut(h) \/ RecordIncomplete(h)
           \/ FinishStamping(h) \/ (\E j \in Jobs : EnqueueRetry(h, j)) \/ EnqueueLost(h)
  BY <1>2, <1>8 DEF RefuseConfig, StampStub, TimeOut, RecordIncomplete, FinishStamping,
     EnqueueRetry, EnqueueLost
<1> QED
  BY <1>4, <1>5, <1>6, <1>7, <1>8 DEF HandlerStep

\* A request that begins, or that a run lets go, holds no other document.
LEMMA RequestDocsSilent ==
    ASSUME Typed, RequestDocs, PacGrows, NEW c,
           \/ \E h \in Handlers : \E i, caller, job, token, verdict :
                 StampRequest(h, i, caller, job, token, verdict)
           \/ Disown(c)
           \/ \E h : req' = [req EXCEPT ![h] = FreeSlot]
           \/ UNCHANGED req
    PROVE  RequestDocs'
<1> SUFFICES ASSUME NEW g \in Handlers, req'[g].pc \in {"record", "persist", "finish"}
             PROVE  CarriesOn(g)
  BY RequestDocsStay
<1>1. DOMAIN req = Handlers /\ req[g] \in Slot /\ FreeSlot.pc = "idle"
  BY Records DEF Typed, RequestsOK
<1>2. CASE Disown(c)
  <2>1. req'[g] = req[g] \/ req'[g] = [req[g] EXCEPT !.caller = User]
    BY <1>1, <1>2 DEF Disown
  <2> QED
    BY <1>1, <2>1 DEF Slot, CarriesOn
<1>3. CASE \E h \in Handlers : \E i, caller, job, token, verdict :
              StampRequest(h, i, caller, job, token, verdict)
  <2>1. PICK h \in Handlers : \E i, caller, job, token, verdict :
           StampRequest(h, i, caller, job, token, verdict)
    BY <1>3
  <2>2. g # h /\ req'[g] = req[g]
    BY <1>1, <2>1 DEF StampRequest
  <2> QED
    BY <2>2 DEF CarriesOn
<1>4. CASE (\E h : req' = [req EXCEPT ![h] = FreeSlot]) \/ UNCHANGED req
  BY <1>1, <1>4 DEF CarriesOn
<1> QED
  BY <1>2, <1>3, <1>4

\* A run saves what its lookup found among the documents of its invoice.
LEMMA ConsumerDocs ==
    ASSUME Typed, QueueInv, OwnDocs, NEW c \in Consumers, ConsumerStep(c)
    PROVE  RunDocs' /\ UNCHANGED pac
<1> USE DEF OwnDocs
<1>1. UNCHANGED pac
  BY DEF ConsumerStep, SelectRow, TakeRow, SkipRow, ReadInvoice, LookUp, SaveRecovered,
     CloseRecovered, Invoke, Collect, StopWaiting, LoseRow
<1>2. PacGrows /\ DOMAIN hold = Consumers /\ DOMAIN work = Consumers /\ work[c] \in Work
  BY <1>1, SameDocuments DEF Typed, WorkOK, QueueInv, Queue!TypeOK
<1>3. ASSUME \A b \in Consumers \ {c} : hold'[b] = hold[b] /\ work'[b] = work[b],
             work'[c].step # "save" \/ (work'[c] = work[c] /\ UNCHANGED hold)
      PROVE  RunDocs'
  BY <1>2, <1>3, RunDocsStay
<1>4. Leaves(c) /\ Done(c) => RunDocs'
  <2> SUFFICES ASSUME Leaves(c), Done(c) PROVE RunDocs'
    OBVIOUS
  <2>1. \A b \in Consumers \ {c} : hold'[b] = hold[b] /\ work'[b] = work[b]
    BY <1>2, LeavesRow DEF Done
  <2>2. work'[c].step = "none"
    BY <1>2, Records DEF Done
  <2> QED
    BY <1>3, <2>1, <2>2
<1>5. CASE (\E j \in Jobs : SelectRow(c, j)) \/ TakeRow(c) \/ SkipRow(c)
  <2>1. \A b \in Consumers \ {c} : hold'[b] = hold[b] /\ work'[b] = work[b]
    BY <1>2, <1>5 DEF SelectRow, TakeRow, SkipRow, Queue!SelectRow, Queue!Claim,
       Queue!ClaimSkipped
  <2>2. work[c].step = "none"
    BY <1>5 DEF SelectRow, TakeRow, SkipRow, Queue!SelectRow, Queue!Claim,
       Queue!ClaimSkipped, Typed, WorkOK
  <2>3. work'[c].step # "save"
    BY <1>2, <1>5, <2>2 DEF SelectRow, TakeRow, SkipRow, Work
  <2> QED
    BY <1>1, <1>3, <2>1, <2>3
<1>6. ASSUME NEW row, row.step # "save", UNCHANGED hold, work' = [work EXCEPT ![c] = row]
      PROVE  RunDocs'
  BY <1>2, <1>3, <1>6
<1>7. CASE ReadInvoice(c)
  <2>1. [work[c] EXCEPT !.step = "lookup"].step # "save"
    BY <1>2 DEF Work
  <2> QED
    BY <1>4, <1>6, <1>7, <2>1 DEF ReadInvoice, Leaves, Queue!Outcome
<1>8. CASE LookUp(c)
  <2>1. [work[c] EXCEPT !.step = "invoke"].step # "save"
    BY <1>2 DEF Work
  <2>2. ASSUME NEW d \in Found(SubjectOf(c), NoDoc), UNCHANGED hold,
               work' = [work EXCEPT ![c].step = "save", ![c].doc = d, ![c].kind = pac[d].state]
        PROVE  RunDocs'
    <3>1. d \in Documents /\ pac[d].inv = SubjectOf(c)
      BY <2>2 DEF Found, DocsOf
    <3>2. /\ work'[c].doc = d /\ work'[c].kind = pac[d].state
          /\ \A b \in Consumers \ {c} : work'[b] = work[b]
      BY <1>2, <2>2 DEF Work
    <3>3. RunDocs'
      <4> SUFFICES ASSUME NEW b \in Consumers, work'[b].step = "save"
                   PROVE  /\ pac'[work'[b].doc].inv = SubjectOf(b)'
                          /\ work'[b].kind = "valid" => pac'[work'[b].doc].state = "valid"
        BY DEF RunDocs
      <4>1. SubjectOf(b)' = SubjectOf(b)
        BY <2>2 DEF SubjectOf
      <4>2. CASE b = c
        BY <1>1, <3>1, <3>2, <4>1, <4>2
      <4>3. CASE b # c
        BY <1>1, <3>2, <4>1, <4>3 DEF RunDocs
      <4> QED
        BY <4>2, <4>3
    <3> QED
      BY <1>1, <3>3
  <2> QED
    BY <1>4, <1>6, <1>8, <2>1, <2>2 DEF LookUp, Leaves, Queue!Outcome
<1>9. CASE SaveRecovered(c)
  <2>1. [work[c] EXCEPT !.step = "close"].step # "save"
    BY <1>2 DEF Work
  <2> QED
    BY <1>4, <1>6, <1>9, <2>1 DEF SaveRecovered, Leaves, Queue!Outcome
<1>10. CASE \E h \in Handlers : Invoke(c, h)
  <2>1. PICK h \in Handlers : Invoke(c, h)
    BY <1>10
  <2>2. /\ work'[c].step = "await" /\ UNCHANGED hold
        /\ \A b \in Consumers \ {c} : work'[b] = work[b]
    BY <1>2, <2>1 DEF Invoke, Work
  <2> QED
    BY <1>1, <1>3, <2>2
<1>11. CASE CloseRecovered(c) \/ Collect(c) \/ StopWaiting(c) \/ LoseRow(c)
  BY <1>4, <1>11 DEF CloseRecovered, Collect, StopWaiting, LoseRow, Leaves, Queue!Outcome
<1> QED
  BY <1>1, <1>5, <1>7, <1>8, <1>9, <1>10, <1>11 DEF ConsumerStep

LEMMA OwnDocsInit == Init => OwnDocs
BY DEF Init, OwnDocs, OneDocument, RequestDocs, RunDocs, NoDocument, FreeSlot, NoWork

LEMMA OwnDocsStep ==
    ASSUME Typed, QueueInv, OwnDocs, [Next]_vars
    PROVE  OwnDocs'
<1>1. OneDocument' /\ PacGrows
  BY PacStepGrows DEF OwnDocs
<1>2. RequestDocs /\ RunDocs
  BY DEF OwnDocs
<1>3. UNCHANGED req => RequestDocs'
  BY <1>1, <1>2, RequestDocsSilent
<1>4. UNCHANGED work /\ (UNCHANGED hold) => RunDocs'
  BY <1>1, <1>2, RunDocsStay
<1>5. CASE (\E i \in Invoices : EditInvoice(i)) \/ PacStep \/ UNCHANGED vars
  <2>1. UNCHANGED <<hold, req, work>>
    BY <1>5 DEF EditInvoice, PacStep, PacServesLate, PacSettles, PacLists, vars
  <2> QED
    BY <1>1, <1>3, <1>4, <2>1 DEF OwnDocs
<1>6. ASSUME NEW h \in Handlers, NEW i \in Invoices, UserRequest(h, i)
      PROVE  OwnDocs'
  <2>1. RequestDocs'
    BY <1>1, <1>2, <1>6, RequestDocsSilent DEF UserRequest
  <2> QED
    BY <1>1, <1>4, <1>6, <2>1 DEF UserRequest, OwnDocs
<1>7. ASSUME NEW h \in Handlers, HandlerStep(h) \/ CrashRequest(h)
      PROVE  OwnDocs'
  <2>1. UNCHANGED <<hold, work>>
    BY <1>7 DEF HandlerStep, CrashRequest, ClaimInvoice, RefuseConfig, StampStub, SendToPac,
       PacAnswers, PacRefuses, PacLosesAnswer, TimeOut, RecordRefusal, EnqueueRetry,
       EnqueueLost, RecordIncomplete, PersistIds, FinishStamping, Queue!Enqueue
  <2> QED
    BY <1>1, <1>4, <1>7, <2>1, HandlerDocs DEF OwnDocs
<1>8. ASSUME NEW c \in Consumers, ConsumerStep(c)
      PROVE  OwnDocs'
  <2>1. CASE \E h \in Handlers : Invoke(c, h)
    <3>1. \E h \in Handlers : \E i, caller, job, token, verdict :
             StampRequest(h, i, caller, job, token, verdict)
      BY <2>1 DEF Invoke
    <3>2. RequestDocs'
      BY <1>1, <1>2, <3>1, RequestDocsSilent
    <3> QED
      BY <1>1, <1>8, <3>2, ConsumerDocs DEF OwnDocs
  <2>2. CASE Collect(c)
    <3>1. RequestDocs'
      BY <1>1, <1>2, <2>2, RequestDocsSilent DEF Collect
    <3> QED
      BY <1>1, <1>8, <3>1, ConsumerDocs DEF OwnDocs
  <2>3. CASE StopWaiting(c) \/ LoseRow(c)
    <3>1. RequestDocs'
      BY <1>1, <1>2, <2>3, RequestDocsSilent DEF StopWaiting, LoseRow
    <3> QED
      BY <1>1, <1>8, <3>1, ConsumerDocs DEF OwnDocs
  <2>4. CASE UNCHANGED req
    BY <1>1, <1>3, <1>8, <2>4, ConsumerDocs DEF OwnDocs
  <2> QED
    BY <1>8, <2>1, <2>2, <2>3, <2>4 DEF ConsumerStep, SelectRow, TakeRow, SkipRow, ReadInvoice,
       LookUp, SaveRecovered, CloseRecovered
<1>9. ASSUME NEW r \in Reconcilers, ReconcilerStep(r) \/ CrashReconciler(r)
      PROVE  OwnDocs'
  <2>1. UNCHANGED <<hold, req, work>>
    BY <1>9 DEF ReconcilerStep, CrashReconciler, SelectStuck, ClaimStuck, SkipStuck,
       ResolveStuck, LookupFails, FetchStuck, FetchLost
  <2> QED
    BY <1>1, <1>3, <1>4, <2>1 DEF OwnDocs
<1> QED
  BY <1>5, <1>6, <1>7, <1>8, <1>9 DEF Next

LEMMA OwnDocsHolds == Spec => []OwnDocs
  BY OwnDocsInit, OwnDocsStep, TypedHolds, QueueInvHolds, PTL DEF Spec

\* One document is one CFDI.
LEMMA OwnDocsCfdi == OwnDocs => OneCfdi
<1> SUFFICES ASSUME OneDocument, NEW i \in Invoices
             PROVE  Cardinality({d \in DocsOf(i) : pac[d].state # "failed"}) <= 1
  BY DEF OwnDocs, OneCfdi
<1> DEFINE live == {d \in DocsOf(i) : pac[d].state # "failed"}
<1>1. \A d, e \in live : d = e
  BY StampingAssumption DEF OneDocument, DocsOf
<1>2. live = {} \/ \E d \in live : live = {d}
  BY <1>1
<1>3. Cardinality({}) = 0 /\ \A d : Cardinality({d}) = 1
  BY FS_EmptySet, FS_Singleton
<1>4. Cardinality(live) = 0 \/ Cardinality(live) = 1
  BY <1>2, <1>3, Zenon
<1> QED
  BY <1>4

\* An invoice never has two CFDI, whatever is sent twice, timed out, served late,
\* reverted or retried, for any number of requests and runs.
THEOREM InvoiceHasOneCfdi == Spec => []OneCfdi
BY OwnDocsHolds, OwnDocsCfdi, PTL

-----------------------------------------------------------------------------
(* The row of an invoice.                                                  *)

\* What the ids of a row of invoice i say: they are of its one document, a uuid
\* belongs to a valid document or is that of a stub, and what is stamped has one.
Identified(row, i) ==
    /\ row.status = "stamped" => row.uuid # NoDoc
    /\ row.uuid = MockDoc => row.status = "stamped"
    /\ row.fid # NoDoc => row.fid \in DocsOf(i)
    /\ row.uuid \in Documents =>
          /\ row.fid \in {row.uuid, NoDoc}
          /\ row.uuid \in DocsOf(i)
          /\ pac[row.uuid].state = "valid"

RowsIdentified == \A i \in Invoices : Identified(inv[i], i)

\* What a write may never take from a row.
Keeps(old, row) ==
    /\ old.status = "stamped" => row.status = "stamped"
    /\ old.uuid # NoDoc => row.uuid = old.uuid
    /\ old.fid # NoDoc => row.fid = old.fid

AllKeep == \A i \in Invoices : Keeps(inv[i], inv'[i])

\* Who looked at a row knows it: a request that claimed it and may store a stub, a run
\* of the queue whose reading is current; and the ids that a run of the reconciliation
\* read are still those of the row, however old the reading.
ClaimedUnstamped ==
    "stub" \in Faults => \A h \in Handlers : req[h].pc = "config" => RowOf(h).uuid = NoDoc

ReadBlank ==
    \A c \in Consumers : c \in fresh =>
        inv[SubjectOf(c)].fid = NoDoc /\ inv[SubjectOf(c)].uuid = NoDoc

CycleSees ==
    \A r \in Reconcilers : rec[r].pc # "idle" =>
        /\ rec[r].fid \in {NoDoc, inv[rec[r].inv].fid}
        /\ rec[r].uuid \in {NoDoc, inv[rec[r].inv].uuid}

Observers == ClaimedUnstamped /\ ReadBlank /\ CycleSees

Identity == RowsIdentified /\ Observers

LEMMA Ids == NoDoc \notin Documents /\ MockDoc \notin Documents /\ MockDoc # NoDoc
BY StampingAssumption DEF NoDoc, MockDoc, Documents

\* A write that leaves the ids as they are.
LEMMA SameIds ==
    ASSUME NEW i, NEW old, NEW row, Identified(old, i),
           row.fid = old.fid, row.uuid = old.uuid,
           old.status = "stamped" => row.status = "stamped",
           row.status = "stamped" => row.uuid # NoDoc
    PROVE  Identified(row, i) /\ Keeps(old, row)
BY Ids DEF Identified, Keeps

\* A write of the ids of the invoice's document on a row that is not stamped: if
\* the row had ids, they were the same.
LEMMA DocumentIds ==
    ASSUME OneDocument, NEW i \in Invoices, NEW old \in Invoice, NEW row, NEW d \in DocsOf(i),
           Identified(old, i), old.status # "stamped",
           row.fid = d, row.uuid \in {old.uuid, d},
           row.uuid = d => pac[d].state = "valid" \/ old.uuid = d,
           row.status = "stamped" => row.uuid = d
    PROVE  Identified(row, i) /\ Keeps(old, row)
<1>1. \A e \in DocsOf(i) : e = d
  BY StampingAssumption DEF OneDocument, DocsOf
<1>2. d \in Documents /\ old.uuid \in {NoDoc, d} /\ old.fid \in {NoDoc, d}
  BY <1>1, Ids DEF Identified, Invoice, DocsOf
<1> QED
  BY <1>2, Ids DEF Identified, Keeps

\* A row that is left alone keeps its meaning while the PAC goes on.
LEMMA RowAlone ==
    ASSUME Typed, PacGrows, NEW i \in Invoices, NEW row, Identified(row, i)
    PROVE  Identified(row, i)'
<1>1. i # NoInvoice
  BY StampingAssumption
<1>2. \A d \in DocsOf(i) : d \in DocsOf(i)' /\ (pac[d].state = "valid" => pac'[d].state = "valid")
  BY <1>1 DEF DocsOf, PacGrows
<1> QED
  BY <1>2 DEF Identified

\* The write of a row, or its loss.
LEMMA RowWritten ==
    ASSUME Typed, RowsIdentified, PacGrows, NEW i \in Invoices, NEW row, WriteOrLose(i, row),
           Identified(row, i), Keeps(inv[i], row)
    PROVE  RowsIdentified' /\ AllKeep
<1>1. \A k \in Invoices : inv'[k] = inv[k] \/ (k = i /\ inv'[k] = row)
  BY DEF WriteOrLose, Write, UnchangedInvoices, Typed, RowsOK
<1>2. \A k \in Invoices : Identified(inv'[k], k) /\ Keeps(inv[k], inv'[k])
  BY <1>1 DEF RowsIdentified, Keeps
<1>3. ASSUME NEW k \in Invoices PROVE Identified(inv[k], k)'
  <2>1. PICK new : new = inv'[k]
    OBVIOUS
  <2>2. Identified(new, k)'
    BY <1>2, <2>1, RowAlone
  <2> QED
    BY <2>1, <2>2 DEF Identified
<1> QED
  BY <1>2, <1>3 DEF RowsIdentified, AllKeep

LEMMA RowsUntouched ==
    ASSUME Typed, RowsIdentified, PacGrows, UNCHANGED inv
    PROVE  RowsIdentified' /\ AllKeep
<1>1. ASSUME NEW k \in Invoices PROVE Identified(inv[k], k)'
  <2>1. PICK row : row = inv[k] /\ Identified(row, k)
    BY DEF RowsIdentified
  <2>2. Identified(row, k)'
    BY <2>1, RowAlone
  <2> QED
    BY <2>1, <2>2 DEF Identified
<1> QED
  BY <1>1 DEF RowsIdentified, AllKeep, Keeps

IdsSame(i) == inv'[i].fid = inv[i].fid /\ inv'[i].uuid = inv[i].uuid

\* No request has claimed i and not gone further.
NoClaim(i) == \A h \in Handlers : req[h].pc = "config" => req[h].inv # i

IdsKept(i) ==
    /\ inv[i].fid # NoDoc => inv'[i].fid = inv[i].fid
    /\ inv[i].uuid # NoDoc => inv'[i].uuid = inv[i].uuid

\* When an invoice gets ids, what a run of the queue read of it becomes stale, and no
\* request is about to store a stub.
LEMMA ObserversStay ==
    ASSUME Typed, QueueInv, Exclusive, Observers, Retreat,
           \A h \in Handlers : req'[h].pc = "config" => req[h].pc = "config",
           \A i \in Invoices :
              \/ IdsSame(i)
              \/ /\ IdsKept(i)
                 /\ fresh' \cap Readers(i) = {}
                 /\ "stub" \in Faults => NoClaim(i)'
    PROVE  Observers'
<1> USE DEF Observers
<1>1. ClaimedUnstamped'
  <2> SUFFICES ASSUME "stub" \in Faults, NEW h \in Handlers, req'[h].pc = "config"
               PROVE  inv'[req'[h].inv].uuid = NoDoc
    BY DEF ClaimedUnstamped, RowOf
  <2>1. req[h].pc = "config" /\ req'[h].inv = req[h].inv /\ req[h].inv \in Invoices
    BY DEF Retreat, Emitting, Typed, RequestsOK
  <2>2. IdsSame(req[h].inv)
    BY <2>1 DEF NoClaim
  <2> QED
    BY <2>1, <2>2 DEF ClaimedUnstamped, RowOf, IdsSame
<1>2. ReadBlank'
  <2> SUFFICES ASSUME NEW c \in Consumers, c \in fresh'
               PROVE  inv'[SubjectOf(c)'].fid = NoDoc /\ inv'[SubjectOf(c)'].uuid = NoDoc
    BY DEF ReadBlank
  <2>1. c \in fresh /\ SubjectOf(c)' = SubjectOf(c) /\ work[c].step # "none"
    BY DEF Retreat, SubjectOf, Exclusive, ReadersUnmarked
  <2>2. SubjectOf(c) \in Invoices /\ hold[c].job \in Jobs
    BY <2>1, SubjectIsInvoice DEF Typed
  <2>3. c \in Readers(SubjectOf(c))
    BY <2>2 DEF Readers, SubjectOf
  <2>4. IdsSame(SubjectOf(c))
    BY <2>2, <2>3
  <2> QED
    BY <2>1, <2>4 DEF ReadBlank, IdsSame
<1>3. CycleSees'
  <2> SUFFICES ASSUME NEW r \in Reconcilers, rec'[r].pc # "idle"
               PROVE  /\ rec'[r].fid \in {NoDoc, inv'[rec'[r].inv].fid}
                      /\ rec'[r].uuid \in {NoDoc, inv'[rec'[r].inv].uuid}
    BY DEF CycleSees
  <2>1. rec'[r] = rec[r] /\ rec[r].inv \in Invoices
    BY DEF Retreat, Typed, CyclesOK
  <2>2. IdsKept(rec[r].inv)
    BY <2>1 DEF IdsSame, IdsKept
  <2> QED
    BY <2>1, <2>2 DEF CycleSees, IdsKept
<1> QED
  BY <1>1, <1>2, <1>3

\* A write of the row by a request that has claimed it.
LEMMA EmitterObserved ==
    ASSUME Typed, QueueInv, Exclusive, Observers, NEW h \in Handlers, Emitting(h),
           OnlyHandler(h), req'[h].pc # "config", NEW row, WriteOrLose(req[h].inv, row),
           Keeps(inv[req[h].inv], row)
    PROVE  Observers'
<1>1. PICK i \in Invoices : i = req[h].inv
  BY DEF Typed, RequestsOK, Emitting
<1>2. fresh' \subseteq fresh /\ \A k \in Invoices \ {i} : inv'[k] = inv[k]
  BY <1>1 DEF WriteOrLose, Write, UnchangedInvoices, Typed, RowsOK
<1>3. Retreat
  BY <1>2, HandlerRetreats DEF Exclusive
<1>4. \A g \in Handlers : req'[g].pc = "config" => g # h /\ req'[g] = req[g]
  BY DEF OnlyHandler
<1>5. NoClaim(i)'
  BY <1>1, <1>4 DEF NoClaim, NoEmitter, OnlyHandler, Exclusive, SingleEmitter, Emitting
<1>6. IdsSame(i) \/ (IdsKept(i) /\ fresh' \cap Readers(i) = {})
  BY <1>1 DEF WriteOrLose, Write, UnchangedInvoices, IdsSame, IdsKept, Keeps, Typed, RowsOK
<1> QED
  BY <1>2, <1>3, <1>4, <1>5, <1>6, ObserversStay DEF IdsSame

\* A step of a request.
LEMMA HandlerIdentity ==
    ASSUME Typed, QueueInv, Exclusive, OwnDocs, PacGrows, Identity, NEW h \in Handlers,
           HandlerStep(h) \/ CrashRequest(h)
    PROVE  Identity' /\ AllKeep
<1> USE DEF Serves, Identity
<1> DEFINE i == req[h].inv
<1>1. /\ RequestsOK /\ RowsOK /\ req[h] \in Slot /\ DOMAIN req = Handlers
      /\ UNCHANGED <<hold, work, rec>>
  BY DEF Typed, RequestsOK, HandlerStep, CrashRequest, ClaimInvoice, RefuseConfig,
     StampStub, SendToPac, PacAnswers, PacRefuses, PacLosesAnswer, TimeOut, RecordRefusal,
     EnqueueRetry, EnqueueLost, RecordIncomplete, PersistIds, FinishStamping, Queue!Enqueue
<1>2. /\ req[h].pc # "idle" => i \in Invoices /\ inv[i] \in Invoice /\ Identified(inv[i], i)
      /\ Emitting(h) => inv[i].status = "stamping"
  BY <1>1 DEF RequestsOK, RowsOK, RowsIdentified, Exclusive, EmittersMark, Status
<1>3. \A kind : Answer(h, kind) => OnlyHandler(h) /\ req'[h].pc # "config"
  BY <1>1, AnswerEnds DEF OnlyHandler, Emitting
<1>4. \A pc \in {"sent", "enqueue", "finish"} : GoTo(h, pc) =>
         /\ req'[h].pc = pc /\ req'[h].inv = i
         /\ \A g \in Handlers \ {h} : req'[g] = req[g]
  BY <1>1 DEF GoTo, Slot
<1>5. OnlyHandler(h) /\ req'[h].pc # "config" /\ UNCHANGED <<inv, fresh>>
        => Identity' /\ AllKeep
  <2> SUFFICES ASSUME OnlyHandler(h), req'[h].pc # "config", UNCHANGED <<inv, fresh>>
               PROVE  Identity' /\ AllKeep
    OBVIOUS
  <2>1. Retreat
    BY HandlerRetreats DEF Exclusive
  <2>2. \A g \in Handlers : req'[g].pc = "config" => req[g].pc = "config"
    BY DEF OnlyHandler
  <2>3. Observers'
    BY <2>1, <2>2, ObserversStay DEF IdsSame
  <2> QED
    BY <2>3, RowsUntouched
\* The writes of a request at work.
<1>6. ASSUME NEW row, WriteOrLose(i, row), Emitting(h), OnlyHandler(h), req'[h].pc # "config",
             Identified(row, i), Keeps(inv[i], row)
      PROVE  Identity' /\ AllKeep
  <2>1. Observers'
    BY <1>6, EmitterObserved
  <2> QED
    BY <1>2, <1>6, <2>1, RowWritten DEF Emitting
<1>7. CASE ClaimInvoice(h)
  <2>1. CASE ~Claimable(RowOf(h))
    BY <1>3, <1>5, <1>7, <2>1 DEF ClaimInvoice, UnchangedInvoices
  <2>2. CASE Claimable(RowOf(h))
    <3> DEFINE row == [RowOf(h) EXCEPT !.status = "stamping"]
    <3>1. /\ Write(i, row) /\ GoTo(h, "config") /\ i \in Invoices /\ inv[i] \in Invoice
          /\ Identified(inv[i], i)
      BY <1>2, <1>7, <2>2 DEF ClaimInvoice
    <3>2. row.fid = inv[i].fid /\ row.uuid = inv[i].uuid /\ row.status = "stamping"
      BY <3>1 DEF RowOf, Invoice
    <3>3. inv[i].status # "stamped" /\ inv[i].uuid = NoDoc
      BY <2>2 DEF Claimable, RowOf
    <3>4. Identified(row, i) /\ Keeps(inv[i], row)
      BY <3>1, <3>2, <3>3, SameIds
    <3>5. RowsIdentified' /\ AllKeep
      BY <3>1, <3>4, RowWritten DEF WriteOrLose
    <3>6. \A k \in Invoices : IdsSame(k)
      BY <1>1, <3>1, <3>2 DEF Write, RowsOK, IdsSame
    <3>7. /\ req'[h].inv = i /\ \A g \in Handlers \ {h} : req'[g] = req[g]
      BY <1>1, <3>1 DEF GoTo, Slot
    <3>8. ClaimedUnstamped'
      <4> SUFFICES ASSUME "stub" \in Faults, NEW g \in Handlers, req'[g].pc = "config"
                   PROVE  inv'[req'[g].inv].uuid = NoDoc
        BY DEF ClaimedUnstamped, RowOf
      <4>1. CASE g = h
        BY <3>1, <3>3, <3>6, <3>7, <4>1 DEF IdsSame
      <4>2. CASE g # h
        BY <1>1, <3>6, <3>7, <4>2 DEF RequestsOK, IdsSame, Observers, ClaimedUnstamped, RowOf
      <4> QED
        BY <4>1, <4>2
    <3>9. fresh' \subseteq fresh
      BY <3>1 DEF Write
    <3>10. ReadBlank'
      BY <1>1, <3>6, <3>9, SubjectIsInvoice DEF IdsSame, Observers, ReadBlank, SubjectOf,
         Exclusive, ReadersUnmarked, Typed
    <3>11. CycleSees'
      BY <1>1, <3>6, <3>9 DEF IdsSame, Observers, CycleSees, Typed, CyclesOK
    <3> QED
      BY <3>5, <3>8, <3>10, <3>11 DEF Observers
  <2> QED
    BY <2>1, <2>2
<1>8. CASE RefuseConfig(h) \/ RecordRefusal(h)
  <2> DEFINE row == RefusedRow(RowOf(h))
  <2>1. WriteOrLose(i, row) /\ Emitting(h)
    BY <1>8 DEF RefuseConfig, RecordRefusal, Emitting
  <2>2. OnlyHandler(h) /\ req'[h].pc # "config"
    BY <1>3, <1>4, <1>8, <2>1 DEF RefuseConfig, RecordRefusal, OnlyHandler, Emitting
  <2>3. /\ row.fid = inv[i].fid /\ row.uuid = inv[i].uuid /\ row.status = "error"
        /\ Identified(inv[i], i) /\ inv[i].status # "stamped"
    BY <1>2, <2>1 DEF RefusedRow, RowOf, Invoice, Emitting
  <2>4. Identified(row, i) /\ Keeps(inv[i], row)
    BY <2>3, SameIds
  <2> QED
    BY <1>6, <2>1, <2>2, <2>4
<1>9. CASE StampStub(h)
  <2> DEFINE row == [RowOf(h) EXCEPT !.status = "stamped", !.uuid = MockDoc, !.xml = TRUE]
  <2>1. WriteOrLose(i, row) /\ Emitting(h) /\ OnlyHandler(h) /\ req'[h].pc # "config"
    BY <1>3, <1>9 DEF StampStub, Emitting
  <2>2. /\ row.fid = inv[i].fid /\ row.uuid = MockDoc /\ row.status = "stamped"
        /\ Identified(inv[i], i) /\ inv[i].status # "stamped"
    BY <1>2, <2>1 DEF RowOf, Invoice, Emitting
  <2>3. inv[i].uuid = NoDoc
    BY <1>9 DEF StampStub, Observers, ClaimedUnstamped, RowOf
  <2>4. Identified(row, i) /\ Keeps(inv[i], row)
    BY <2>2, <2>3, Ids DEF Identified, Keeps
  <2> QED
    BY <1>6, <2>1, <2>4
<1>10. CASE SendToPac(h) \/ PacAnswers(h) \/ PacRefuses(h) \/ PacLosesAnswer(h)
  <2>1. UNCHANGED <<inv, fresh>> /\ Emitting(h)
    BY <1>10 DEF SendToPac, PacAnswers, PacRefuses, PacLosesAnswer, Emitting
  <2>2. /\ req'[h].inv = i /\ req'[h].pc # "config"
        /\ \A g \in Handlers \ {h} : req'[g] = req[g]
    <3>1. CASE SendToPac(h)
      BY <1>4, <3>1 DEF SendToPac
    <3>2. CASE PacAnswers(h)
      <4>1. PICK d, state : req' = [req EXCEPT ![h].pc = AfterAnswer(state), ![h].doc = d,
                                               ![h].kind = state]
        BY <3>2 DEF PacAnswers
      <4> QED
        BY <1>1, <4>1 DEF Slot, AfterAnswer
    <3>3. CASE PacRefuses(h) \/ PacLosesAnswer(h)
      <4>1. PICK kind : req' = [req EXCEPT ![h].pc = "refused", ![h].kind = kind]
        BY <3>3 DEF PacRefuses, PacLosesAnswer
      <4> QED
        BY <1>1, <4>1 DEF Slot
    <3> QED
      BY <1>10, <3>1, <3>2, <3>3
  <2> QED
    BY <1>1, <1>5, <2>1, <2>2 DEF OnlyHandler
<1>11. CASE TimeOut(h) \/ (\E j \in Jobs : EnqueueRetry(h, j)) \/ EnqueueLost(h)
  BY <1>3, <1>5, <1>11 DEF TimeOut, EnqueueRetry, EnqueueLost
<1>12. CASE RecordIncomplete(h) \/ PersistIds(h) \/ FinishStamping(h)
  <2>1. Emitting(h) /\ OnlyHandler(h) /\ req'[h].pc # "config"
    BY <1>1, <1>3, <1>4, <1>12 DEF RecordIncomplete, PersistIds, FinishStamping, Emitting, OnlyHandler
  <2>2. /\ i \in Invoices /\ inv[i] \in Invoice /\ inv[i].status # "stamped"
        /\ Identified(inv[i], i)
    BY <1>2, <2>1 DEF Emitting
  <2>3. /\ req[h].doc \in DocsOf(i)
        /\ req[h].pc # "record" => pac[req[h].doc].state = "valid"
    BY <1>1, <1>12 DEF RecordIncomplete, PersistIds, FinishStamping, RequestsOK, DocsOf, OwnDocs,
       RequestDocs
  <2>4. ASSUME NEW row, WriteOrLose(i, row), row.fid = req[h].doc,
               \/ row.uuid = inv[i].uuid
               \/ row.uuid = req[h].doc /\ req[h].pc # "record",
               row.status = "stamped" => row.uuid = req[h].doc
        PROVE  Identity' /\ AllKeep
    BY <1>6, <2>1, <2>2, <2>3, <2>4, DocumentIds DEF OwnDocs
  <2>5. CASE UnchangedInvoices
    BY <1>5, <2>1, <2>5 DEF UnchangedInvoices
  <2>6. CASE RecordIncomplete(h)
    <3> DEFINE failed == req[h].kind = "failed"
               row == [RowOf(h) EXCEPT !.fid = req[h].doc,
                                       !.status = IF failed THEN "error" ELSE "stamping"]
    <3>1. WriteOrLose(i, row)
      BY <2>6 DEF RecordIncomplete
    <3>2. row.fid = req[h].doc /\ row.uuid = inv[i].uuid /\ row.status # "stamped"
      BY <2>2 DEF RowOf, Invoice
    <3> HIDE DEF row
    <3> QED
      BY <2>4, <3>1, <3>2
  <2>7. CASE PersistIds(h)
    <3> DEFINE row == [RowOf(h) EXCEPT !.fid = req[h].doc, !.uuid = req[h].doc]
    <3>1. WriteOrLose(i, row) /\ req[h].pc # "record"
      BY <2>7 DEF PersistIds
    <3>2. row.fid = req[h].doc /\ row.uuid = req[h].doc
      BY <2>2 DEF RowOf, Invoice
    <3> QED
      BY <2>4, <3>1, <3>2
  <2>8. ASSUME NEW downloaded, NEW status,
               Write(i, [RowOf(h) EXCEPT !.fid = req[h].doc, !.uuid = req[h].doc,
                                         !.xml = downloaded, !.status = status]),
               req[h].pc = "finish"
        PROVE  Identity' /\ AllKeep
    <3> DEFINE row == [RowOf(h) EXCEPT !.fid = req[h].doc, !.uuid = req[h].doc,
                                       !.xml = downloaded, !.status = status]
    <3>1. WriteOrLose(i, row)
      BY <2>8 DEF WriteOrLose
    <3>2. row.fid = req[h].doc /\ row.uuid = req[h].doc
      BY <2>2 DEF RowOf, Invoice
    <3> QED
      BY <2>4, <2>8, <3>1, <3>2
  <2> QED
    BY <1>12, <2>5, <2>6, <2>7, <2>8 DEF FinishStamping
<1>13. CASE CrashRequest(h)
  <2>1. OnlyHandler(h) /\ req'[h].pc # "config"
    BY <1>1, <1>13, Records DEF CrashRequest, OnlyHandler, Emitting
  <2> QED
    BY <1>5, <1>13, <2>1 DEF CrashRequest
<1> QED
  BY <1>7, <1>8, <1>9, <1>10, <1>11, <1>12, <1>13 DEF HandlerStep

-----------------------------------------------------------------------------
\* A request that begins, or that a run lets go, claims nothing.
LEMMA RequestsQuiet ==
    ASSUME Typed, NEW c,
           \/ \E h \in Handlers : \E i, caller, job, token, verdict :
                 StampRequest(h, i, caller, job, token, verdict)
           \/ Disown(c)
           \/ \E h : req' = [req EXCEPT ![h] = FreeSlot]
           \/ UNCHANGED req
    PROVE  /\ Silent
           /\ \A h \in Handlers : req'[h].pc = "config" => req[h].pc = "config"
<1> SUFFICES ASSUME NEW g \in Handlers
             PROVE  /\ Emitting(g)' => Emitting(g) /\ req'[g].inv = req[g].inv
                    /\ req'[g].pc = "config" => req[g].pc = "config"
  BY DEF Silent
<1>1. DOMAIN req = Handlers /\ req[g] \in Slot /\ FreeSlot.pc = "idle"
  BY Records DEF Typed, RequestsOK
<1>2. ASSUME req'[g] = req[g] \/ req'[g].pc \in {"idle", "claim", "answered"}
      PROVE  /\ Emitting(g)' => Emitting(g) /\ req'[g].inv = req[g].inv
             /\ req'[g].pc = "config" => req[g].pc = "config"
  BY <1>2 DEF Emitting
<1>3. CASE Disown(c)
  <2>1. CASE req'[g] = [req[g] EXCEPT !.caller = User]
    <3>1. req'[g].pc = req[g].pc /\ req'[g].inv = req[g].inv
      BY <1>1, <2>1 DEF Slot
    <3> QED
      BY <3>1 DEF Emitting
  <2>2. CASE req'[g] = FreeSlot \/ req'[g] = req[g]
    BY <1>1, <1>2, <2>2
  <2> QED
    BY <1>3, <2>1, <2>2 DEF Disown
<1>4. CASE \E h \in Handlers : \E i, caller, job, token, verdict :
              StampRequest(h, i, caller, job, token, verdict)
  <2>1. PICK h \in Handlers : \E i, caller, job, token, verdict :
           StampRequest(h, i, caller, job, token, verdict)
    BY <1>4
  <2>2. req'[g] = req[g] \/ req'[g].pc \in {"claim", "answered"}
    BY <1>1, <2>1 DEF StampRequest
  <2> QED
    BY <1>2, <2>2
<1>5. CASE (\E h : req' = [req EXCEPT ![h] = FreeSlot]) \/ UNCHANGED req
  BY <1>1, <1>2, <1>5
<1> QED
  BY <1>3, <1>4, <1>5

\* A step that writes no row and reads none.
LEMMA CalmIdentity ==
    ASSUME Typed, QueueInv, Exclusive, PacGrows, Identity, UNCHANGED inv, Retreat,
           \A h \in Handlers : req'[h].pc = "config" => req[h].pc = "config"
    PROVE  Identity' /\ AllKeep
BY ObserversStay, RowsUntouched DEF Identity, IdsSame

\* A run of the queue that saves what it recovered: its reading is current, so the
\* row has no ids and is not stamped.
LEMMA SaveIdentity ==
    ASSUME Typed, QueueInv, Exclusive, OwnDocs, PacGrows, Identity, NEW c \in Consumers,
           SaveRecovered(c), c \in fresh,
           work' = [work EXCEPT ![c].step = "close"], UNCHANGED <<hold, req, rec>>,
           NEW status \in {"error", "stamping"}, NEW uuid,
           uuid = IF work[c].kind = "valid" THEN work[c].doc ELSE inv[SubjectOf(c)].uuid,
           Write(SubjectOf(c), [inv[SubjectOf(c)] EXCEPT !.fid = work[c].doc, !.uuid = uuid,
                                                         !.status = status])
    PROVE  Identity' /\ AllKeep
<1> USE DEF Identity
<1>1. PICK i \in Invoices : i = SubjectOf(c) /\ hold[c].job \in Jobs
  BY SubjectIsInvoice DEF SaveRecovered, Step, Typed
<1>2. /\ inv[i] \in Invoice /\ Identified(inv[i], i)
      /\ inv[i].status \in {"pending", "error"}
      /\ work[c].step = "save" /\ DOMAIN work = Consumers
  BY <1>1 DEF Typed, RowsOK, WorkOK, RowsIdentified, Exclusive, ReadersUnmarked, Status,
     SaveRecovered, Step
<1>3. /\ work[c].doc \in DocsOf(i)
      /\ work[c].kind = "valid" => pac[work[c].doc].state = "valid"
  BY <1>1, <1>2 DEF OwnDocs, RunDocs, DocsOf, Typed, WorkOK
<1>4. PICK row : row = [inv[i] EXCEPT !.fid = work[c].doc, !.uuid = uuid, !.status = status]
  OBVIOUS
<1>5. row.fid = work[c].doc /\ row.uuid = uuid /\ row.status = status /\ Write(i, row)
  BY <1>1, <1>2, <1>4 DEF Invoice
<1>6. Identified(row, i) /\ Keeps(inv[i], row)
  <2>1. /\ row.uuid \in {inv[i].uuid, work[c].doc}
        /\ row.uuid = work[c].doc => pac[work[c].doc].state = "valid" \/ inv[i].uuid = work[c].doc
        /\ row.status # "stamped" /\ inv[i].status # "stamped"
    BY <1>1, <1>2, <1>3, <1>5
  <2> QED
    BY <1>2, <1>3, <1>5, <2>1, DocumentIds DEF OwnDocs
<1>7. RowsIdentified' /\ AllKeep
  BY <1>5, <1>6, RowWritten DEF WriteOrLose
<1>8. fresh' = fresh \ Readers(i) /\ \A k \in Invoices \ {i} : inv'[k] = inv[k]
  BY <1>5 DEF Write, Typed, RowsOK
<1>9. Retreat
  <2>1. c \notin fresh' /\ \A b \in Consumers \ {c} : work'[b] = work[b]
    BY <1>1, <1>2, <1>8 DEF Readers, SubjectOf
  <2> QED
    BY <1>8, <2>1 DEF Retreat, Emitting, Exclusive, ReadersUnmarked
<1>10. NoClaim(i)' /\ IdsKept(i)
  <2>1. inv[i].status # "stamping"
    BY <1>2
  <2> QED
    BY <1>1, <1>7, <2>1 DEF NoClaim, Exclusive, EmittersMark, Emitting, Status, AllKeep, Keeps,
       IdsKept
<1>11. Observers'
  BY <1>8, <1>9, <1>10, ObserversStay DEF IdsSame
<1> QED
  BY <1>7, <1>11

\* A step of a run of the queue.
LEMMA ConsumerIdentity ==
    ASSUME Typed, QueueInv, Exclusive, OwnDocs, PacGrows, Identity, NEW c \in Consumers,
           ConsumerStep(c)
    PROVE  Identity' /\ AllKeep
<1>1. /\ RequestsOK /\ RowsOK
      /\ DOMAIN hold = Consumers /\ DOMAIN work = Consumers /\ work[c] \in Work
      /\ c \in fresh => work[c].step \in {"lookup", "save"} /\ hold[c].phase = "owner"
  BY DEF Typed, RowsOK, WorkOK, QueueInv, Queue!TypeOK, Exclusive, ReadersUnmarked
<1>2. ASSUME OnlyRun(c), UNCHANGED inv, fresh' \subseteq fresh,
             c \in fresh' => hold'[c] = hold[c] /\ work'[c].step \in {"lookup", "save"},
             \/ \E h \in Handlers : \E i, caller, job, token, verdict :
                   StampRequest(h, i, caller, job, token, verdict)
             \/ Disown(c)
             \/ \E h : req' = [req EXCEPT ![h] = FreeSlot]
             \/ UNCHANGED req
      PROVE  Identity' /\ AllKeep
  <2>1. Silent /\ \A h \in Handlers : req'[h].pc = "config" => req[h].pc = "config"
    BY <1>2, RequestsQuiet
  <2>2. Retreat
    BY <1>2, <2>1 DEF Retreat, OnlyRun, Silent, Exclusive, ReadersUnmarked
  <2> QED
    BY <1>2, <2>1, <2>2, CalmIdentity
<1>3. Leaves(c) /\ Done(c) /\ UNCHANGED rec
        => OnlyRun(c) /\ fresh' \subseteq fresh /\ c \notin fresh'
  BY <1>1, LeavesRow DEF OnlyRun, Done
<1>4. CASE (\E j \in Jobs : SelectRow(c, j)) \/ TakeRow(c) \/ SkipRow(c)
  <2>1. c \notin fresh /\ UNCHANGED <<inv, fresh, req, rec>>
    BY <1>1, <1>4 DEF SelectRow, TakeRow, SkipRow, Queue!SelectRow, Queue!Claim, Queue!ClaimSkipped
  <2>2. OnlyRun(c)
    BY <1>1, <1>4 DEF SelectRow, TakeRow, SkipRow, Queue!SelectRow, Queue!Claim,
       Queue!ClaimSkipped, OnlyRun
  <2> QED
    BY <1>2, <2>1, <2>2
<1>5. CASE Leaves(c) /\ Done(c) /\ UNCHANGED <<inv, req, rec>>
  BY <1>2, <1>3, <1>5
<1>6. CASE ReadInvoice(c)
  <2>1. CASE Leaves(c) /\ Done(c)
    BY <1>5, <1>6, <2>1 DEF ReadInvoice
  <2>2. CASE /\ ~NoOp(inv[SubjectOf(c)])
             /\ work' = [work EXCEPT ![c].step = "lookup"]
             /\ fresh' = fresh \cup {c} /\ UNCHANGED <<queue, hold>>
    <3>1. UNCHANGED <<hold, inv, req, rec>> /\ c \notin Reconcilers
      BY <1>6, <2>2, StampingAssumption DEF ReadInvoice
    <3>2. inv[SubjectOf(c)].fid = NoDoc /\ inv[SubjectOf(c)].uuid = NoDoc
      BY <2>2 DEF NoOp
    <3>3. ClaimedUnstamped'
      BY <3>1 DEF ClaimedUnstamped, RowOf, Identity, Observers
    <3>4. ReadBlank'
      BY <2>2, <3>1, <3>2 DEF ReadBlank, SubjectOf, Identity, Observers
    <3>5. CycleSees'
      BY <2>2, <3>1 DEF CycleSees, Identity, Observers
    <3> QED
      BY <3>1, <3>3, <3>4, <3>5, RowsUntouched DEF Identity, Observers
  <2> QED
    BY <1>6, <2>1, <2>2 DEF ReadInvoice, Leaves, Queue!Outcome
<1>7. CASE LookUp(c)
  <2>1. CASE Leaves(c) /\ Done(c)
    BY <1>5, <1>7, <2>1 DEF LookUp
  <2>2. CASE /\ work' = [work EXCEPT ![c].step = "invoke"]
             /\ fresh' = fresh \ {c} /\ UNCHANGED <<queue, hold>>
    <3>1. OnlyRun(c)
      BY <1>1, <1>7, <2>2 DEF LookUp, OnlyRun
    <3> QED
      BY <1>2, <1>7, <2>2, <3>1 DEF LookUp
  <2>3. ASSUME NEW d, UNCHANGED <<queue, hold, fresh>>,
               work' = [work EXCEPT ![c].step = "save", ![c].doc = d, ![c].kind = pac[d].state]
        PROVE  Identity' /\ AllKeep
    <3>1. OnlyRun(c) /\ work'[c].step = "save"
      BY <1>1, <1>7, <2>3 DEF LookUp, OnlyRun, Work
    <3> QED
      BY <1>2, <1>7, <2>3, <3>1 DEF LookUp
  <2> QED
    BY <1>7, <2>1, <2>2, <2>3 DEF LookUp, Leaves, Queue!Outcome
<1>8. CASE SaveRecovered(c)
  <2>1. CASE Leaves(c) /\ Done(c) /\ UNCHANGED inv
    BY <1>5, <1>8, <2>1 DEF SaveRecovered
  <2>2. ASSUME StillAsRead(c), work' = [work EXCEPT ![c].step = "close"], UNCHANGED hold,
               Write(SubjectOf(c),
                  [inv[SubjectOf(c)] EXCEPT
                      !.fid = work[c].doc,
                      !.uuid = IF work[c].kind = "valid" THEN work[c].doc ELSE @,
                      !.status = IF work[c].kind = "failed" THEN "error" ELSE "stamping"])
        PROVE  Identity' /\ AllKeep
    BY <1>8, <2>2, SaveIdentity DEF SaveRecovered, StillAsRead
  <2> QED
    BY <1>8, <2>1, <2>2 DEF SaveRecovered, Leaves, Queue!Outcome
<1>9. CASE CloseRecovered(c)
  BY <1>5, <1>9 DEF CloseRecovered, Leaves, Queue!Outcome
<1>10. ASSUME NEW h \in Handlers, Invoke(c, h)
       PROVE  Identity' /\ AllKeep
  <2>1. c \notin fresh /\ UNCHANGED <<inv, fresh>> /\ OnlyRun(c)
    BY <1>1, <1>10 DEF Invoke, Step, OnlyRun
  <2>2. \E g \in Handlers : \E i, caller, job, token, verdict :
           StampRequest(g, i, caller, job, token, verdict)
    BY <1>10 DEF Invoke
  <2> QED
    BY <1>2, <2>1, <2>2
<1>11. CASE Collect(c) \/ StopWaiting(c) \/ LoseRow(c)
  <2>1. Leaves(c) /\ Done(c) /\ UNCHANGED <<inv, rec>>
    BY <1>11 DEF Collect, StopWaiting, LoseRow, Leaves, Queue!Outcome
  <2>2. Disown(c) \/ \E h : req' = [req EXCEPT ![h] = FreeSlot]
    BY <1>11 DEF Collect, StopWaiting, LoseRow
  <2> QED
    BY <1>2, <1>3, <2>1, <2>2
<1> QED
  BY <1>4, <1>6, <1>7, <1>8, <1>9, <1>10, <1>11 DEF ConsumerStep

-----------------------------------------------------------------------------
\* The write of a run of the reconciliation that has claimed the row.
LEMMA CycleIdentity ==
    ASSUME Typed, QueueInv, Exclusive, PacGrows, Identity, NEW r \in Reconcilers,
           rec[r].pc = "claimed", RestsAlone(r), NEW row, Write(rec[r].inv, row),
           Identified(row, rec[r].inv), Keeps(inv[rec[r].inv], row)
    PROVE  Identity' /\ AllKeep
<1>1. PICK i \in Invoices : i = rec[r].inv
  BY DEF Typed, CyclesOK
<1>2. /\ \A k \in Invoices \ {i} : inv'[k] = inv[k]
      /\ fresh' = fresh \ Readers(i)
  BY <1>1 DEF Write, Typed, RowsOK
<1>3. Retreat /\ rec'[r].pc = "idle" /\ \A q \in Reconcilers \ {r} : rec'[q] = rec[q]
  BY <1>2, RestRetreats DEF Typed, Exclusive
<1>4. NoClaim(i)'
  BY <1>1 DEF NoClaim, Exclusive, CyclesAlone, NoEmitter, RestsAlone, Emitting
<1>5. IdsKept(i)
  BY <1>1, <1>2 DEF Keeps, IdsKept, Write, Typed, RowsOK
<1>6. Observers'
  BY <1>2, <1>3, <1>4, <1>5, ObserversStay DEF IdsSame, RestsAlone, Identity
<1>7. RowsIdentified' /\ AllKeep
  BY <1>1, RowWritten DEF WriteOrLose, Identity
<1> QED
  BY <1>6, <1>7 DEF Identity

\* A step of a run of the reconciliation.
LEMMA ReconcilerIdentity ==
    ASSUME Typed, QueueInv, Exclusive, OwnDocs, PacGrows, Identity, NEW r \in Reconcilers,
           ReconcilerStep(r) \/ CrashReconciler(r)
    PROVE  Identity' /\ AllKeep
<1> USE DEF Identity
<1> DEFINE i == rec[r].inv
<1>1. /\ rec[r] \in Cycle /\ DOMAIN rec = Reconcilers
      /\ rec[r].pc # "idle" => i \in Invoices /\ inv[i] \in Invoice /\ Identified(inv[i], i)
      /\ rec[r].pc = "claimed" => /\ inv[i].status = "stamping"
                                  /\ rec[r].fid \in {NoDoc, inv[i].fid}
                                  /\ rec[r].uuid \in {NoDoc, inv[i].uuid}
  BY DEF Typed, CyclesOK, RowsOK, RowsIdentified, Exclusive, CyclesAlone, Status, Observers,
     CycleSees
<1>2. RestsAlone(r) /\ fresh' \subseteq fresh /\ UNCHANGED inv => Identity' /\ AllKeep
  BY RestRetreats, CalmIdentity DEF Typed, Exclusive, RestsAlone
<1>3. CASE SkipStuck(r) \/ LookupFails(r) \/ FetchLost(r) \/ CrashReconciler(r)
  BY <1>2, <1>3 DEF SkipStuck, LookupFails, FetchLost, CrashReconciler, RestsAlone
<1>4. ASSUME NEW s \in Invoices, SelectStuck(r, s)
      PROVE  Identity' /\ AllKeep
  <2>1. UNCHANGED <<hold, inv, req, work>> /\ fresh' = fresh \cup {r} /\ r \notin Consumers
    BY <1>4, StampingAssumption DEF SelectStuck
  <2>2. /\ rec'[r].inv = s /\ rec'[r].fid = inv[s].fid /\ rec'[r].uuid = inv[s].uuid
        /\ \A q \in Reconcilers \ {r} : rec'[q] = rec[q]
    BY <1>1, <1>4 DEF SelectStuck
  <2>3. ClaimedUnstamped' /\ ReadBlank'
    BY <2>1 DEF ClaimedUnstamped, RowOf, ReadBlank, SubjectOf, Observers
  <2>4. CycleSees'
    BY <2>1, <2>2 DEF CycleSees, Observers
  <2> QED
    BY <2>1, <2>3, <2>4, RowsUntouched DEF Observers
<1>5. CASE ClaimStuck(r)
  <2>1. /\ i \in Invoices /\ r \in fresh /\ rec[r].pc = "selected"
        /\ UNCHANGED <<hold, req, work>> /\ Write(i, inv[i])
    BY <1>1, <1>5 DEF ClaimStuck
  <2>2. fresh' \subseteq fresh /\ \A k \in Invoices : inv'[k] = inv[k]
    BY <2>1 DEF Write, Typed, RowsOK
  <2>3. /\ rec'[r].inv = i /\ rec'[r].fid = rec[r].fid /\ rec'[r].uuid = rec[r].uuid
        /\ \A q \in Reconcilers \ {r} : rec'[q] = rec[q]
    BY <1>1, <1>5 DEF ClaimStuck, Cycle
  <2>4. ClaimedUnstamped'
    BY <2>1, <2>2 DEF ClaimedUnstamped, RowOf, Observers, Typed, RequestsOK
  <2>5. ReadBlank'
    BY <2>1, <2>2, SubjectIsInvoice DEF Observers, ReadBlank, SubjectOf, Exclusive,
       ReadersUnmarked, Typed
  <2>6. CycleSees'
    BY <2>1, <2>2, <2>3 DEF CycleSees, Observers, Typed, CyclesOK
  <2>7. Identified(inv[i], i) /\ Keeps(inv[i], inv[i])
    BY <1>1, <2>1 DEF Keeps
  <2>8. RowsIdentified' /\ AllKeep
    <3>1. PICK row : row = inv[i]
      OBVIOUS
    <3> QED
      BY <2>1, <2>7, <3>1, RowWritten DEF WriteOrLose
  <2> QED
    BY <2>4, <2>5, <2>6, <2>8 DEF Observers
<1>6. ASSUME NEW row, Write(i, row), rec[r].pc = "claimed", RestsAlone(r),
             Identified(row, i), Keeps(inv[i], row)
      PROVE  Identity' /\ AllKeep
  BY <1>6, CycleIdentity
<1>7. CASE ResolveStuck(r)
  <2>1. RestsAlone(r) /\ rec[r].pc = "claimed"
    BY <1>7 DEF ResolveStuck, RestsAlone
  <2>2. ASSUME NEW d \in Found(i, rec[r].fid), Write(i, Resolved(inv[i], d))
        PROVE  Identity' /\ AllKeep
    <3>1. d \in DocsOf(i)
      BY <1>1, <2>1 DEF Found, Identified
    <3>2. PICK row : row = Resolved(inv[i], d)
      OBVIOUS
    <3>3. /\ row.fid = d /\ row.status # "stamped"
          /\ row.uuid = IF pac[d].state = "valid" THEN d ELSE inv[i].uuid
      BY <1>1, <2>1, <3>2 DEF Resolved, Invoice
    <3>4. Identified(row, i) /\ Keeps(inv[i], row)
      <4>1. /\ row.uuid \in {inv[i].uuid, d}
            /\ row.uuid = d => pac[d].state = "valid" \/ inv[i].uuid = d
            /\ i \in Invoices /\ inv[i] \in Invoice /\ inv[i].status # "stamped"
            /\ Identified(inv[i], i)
        BY <1>1, <2>1, <3>3
      <4> QED
        BY <3>1, <3>3, <4>1, DocumentIds DEF OwnDocs
    <3> QED
      BY <1>6, <2>1, <2>2, <3>2, <3>4
  <2>3. CASE Write(i, Missed(inv[i], rec[r].attempts))
    <3>1. PICK row : row = Missed(inv[i], rec[r].attempts)
      OBVIOUS
    <3>2. /\ row.fid = inv[i].fid /\ row.uuid = inv[i].uuid /\ row.status # "stamped"
          /\ Identified(inv[i], i) /\ inv[i].status # "stamped"
      BY <1>1, <2>1, <3>1 DEF Missed, Invoice
    <3>3. Identified(row, i) /\ Keeps(inv[i], row)
      BY <3>2, SameIds
    <3> QED
      BY <1>6, <2>1, <2>3, <3>1, <3>3
  <2> QED
    BY <1>7, <2>2, <2>3 DEF ResolveStuck
<1>8. CASE FetchStuck(r)
  <2>1. /\ RestsAlone(r) /\ rec[r].pc = "claimed"
        /\ rec[r].fid # NoDoc /\ rec[r].uuid # NoDoc
    BY <1>8 DEF FetchStuck, RestsAlone, LacksId
  <2>2. CASE UnchangedInvoices
    BY <1>2, <2>1, <2>2 DEF UnchangedInvoices
  <2>3. ASSUME NEW row, Write(i, row), row.fid = inv[i].fid, row.uuid = inv[i].uuid
        PROVE  Identity' /\ AllKeep
    <3>1. Identified(row, i) /\ Keeps(inv[i], row)
      BY <1>1, <2>1, <2>3, SameIds
    <3> QED
      BY <1>6, <2>1, <2>3, <3>1
  <2>4. CASE Write(i, Reconciled(inv[i], rec[r]))
    <3>1. PICK row : row = Reconciled(inv[i], rec[r])
      OBVIOUS
    <3>2. row.fid = inv[i].fid /\ row.uuid = inv[i].uuid
      BY <1>1, <2>1, <3>1 DEF Reconciled, Invoice
    <3> QED
      BY <2>3, <2>4, <3>1, <3>2
  <2>5. CASE GiveUpXml(i, rec[r])
    <3>1. PICK row :
             /\ row = [inv[i] EXCEPT
                          !.status = IF MissesExhausted(rec[r].attempts) THEN "stamped" ELSE @,
                          !.xmlPending = @ \/ MissesExhausted(rec[r].attempts),
                          !.attempts = Bumped(rec[r].attempts)]
             /\ Write(i, row)
      BY <2>5 DEF GiveUpXml
    <3>2. row.fid = inv[i].fid /\ row.uuid = inv[i].uuid
      BY <1>1, <2>1, <3>1 DEF Invoice
    <3> QED
      BY <2>3, <3>1, <3>2
  <2> QED
    BY <1>8, <2>2, <2>4, <2>5 DEF FetchStuck, ReconcileRow
<1> QED
  BY <1>3, <1>4, <1>5, <1>7, <1>8 DEF ReconcilerStep

-----------------------------------------------------------------------------
LEMMA IdentityInit == Init => Identity
<1> SUFFICES ASSUME Init PROVE Identity
  OBVIOUS
<1>1. RowsIdentified
  BY Ids DEF Init, Draft, RowsIdentified, Identified
<1>2. Observers
  BY DEF Init, FreeSlot, Resting, Observers, ClaimedUnstamped, ReadBlank, CycleSees
<1> QED
  BY <1>1, <1>2 DEF Identity

\* Every step keeps what the rows say and takes nothing back from them.
LEMMA IdentityStep ==
    ASSUME Typed, QueueInv, Exclusive, OwnDocs, Identity, [Next]_vars
    PROVE  Identity' /\ AllKeep
<1>1. PacGrows
  BY PacStepGrows DEF OwnDocs
<1>2. Exclusive => ReadersUnmarked
  BY DEF Exclusive
<1>3. CASE \E i \in Invoices : EditInvoice(i)
  <2>1. PICK i \in Invoices : EditInvoice(i)
    BY <1>3
  <2>2. PICK row : row = [inv[i] EXCEPT !.total = @ + 1]
    OBVIOUS
  <2>3. /\ inv[i] \in Invoice /\ Identified(inv[i], i)
        /\ row.fid = inv[i].fid /\ row.uuid = inv[i].uuid /\ row.status = inv[i].status
    BY <2>2 DEF Typed, RowsOK, Invoice, Identity, RowsIdentified
  <2>4. Identified(row, i) /\ Keeps(inv[i], row)
    BY <2>3, SameIds DEF Identified
  <2>5. RowsIdentified' /\ AllKeep
    BY <1>1, <2>1, <2>2, <2>4, RowWritten DEF EditInvoice, WriteOrLose, Identity
  <2>6. fresh' \subseteq fresh /\ \A k \in Invoices : IdsSame(k)
    BY <2>1, <2>2, <2>3 DEF EditInvoice, Write, Typed, RowsOK, IdsSame
  <2>7. Retreat
    BY <1>2, <2>1, <2>6 DEF EditInvoice, Retreat, Emitting, ReadersUnmarked
  <2>8. Observers'
    BY <2>1, <2>6, <2>7, ObserversStay DEF EditInvoice, Identity
  <2> QED
    BY <2>5, <2>8 DEF Identity
<1>4. ASSUME NEW h \in Handlers, NEW i \in Invoices, UserRequest(h, i)
      PROVE  Identity' /\ AllKeep
  <2>1. /\ UNCHANGED <<hold, inv, fresh, work, rec>>
        /\ Silent /\ \A g \in Handlers : req'[g].pc = "config" => req[g].pc = "config"
    BY <1>4, RequestsQuiet DEF UserRequest
  <2>2. Retreat
    BY <1>2, <2>1 DEF Retreat, Silent, ReadersUnmarked
  <2> QED
    BY <1>1, <2>1, <2>2, CalmIdentity
<1>5. CASE PacStep \/ UNCHANGED vars
  <2>1. UNCHANGED <<hold, inv, fresh, req, work, rec>>
    BY <1>5 DEF PacStep, PacServesLate, PacSettles, PacLists, vars
  <2>2. Retreat
    BY <1>2, <2>1 DEF Retreat, Emitting, ReadersUnmarked
  <2> QED
    BY <1>1, <2>1, <2>2, CalmIdentity
<1> QED
  BY <1>1, <1>3, <1>4, <1>5, HandlerIdentity, ConsumerIdentity, ReconcilerIdentity DEF Next

LEMMA IdentityHolds == Spec => []Identity
<1>1. Typed /\ QueueInv /\ Exclusive /\ OwnDocs /\ Identity /\ [Next]_vars => Identity'
  BY IdentityStep
<1> QED
  BY <1>1, IdentityInit, TypedHolds, QueueInvHolds, ExclusiveHolds, OwnDocsHolds, PTL DEF Spec

\* What the database calls stamped is a valid document of the PAC made for that
\* invoice, or a stub of the test mode, with every kind of failure: a late answer,
\* a recovered document and a reconciled one are never of another invoice.
THEOREM StampedInvoicesAreFiscal == Spec => []StampedIsFiscal
<1>1. Identity => StampedIsFiscal
  BY DEF Identity, RowsIdentified, Identified, StampedIsFiscal
<1> QED
  BY <1>1, IdentityHolds, PTL

\* No write takes a stamping or an id back, although most are unconditional.
THEOREM FiscalIdentityIsKept == Spec => FiscalIdentityStays
<1>1. /\ Typed /\ QueueInv /\ Exclusive /\ OwnDocs /\ Identity
      /\ [Next]_vars
      => [\A i \in Invoices :
            /\ inv[i].status = "stamped" => inv'[i].status = "stamped"
            /\ inv[i].uuid # NoDoc => inv'[i].uuid = inv[i].uuid
            /\ inv[i].fid # NoDoc => inv'[i].fid = inv[i].fid]_vars
  BY IdentityStep DEF AllKeep, Keeps
<1> QED
  BY <1>1, TypedHolds, QueueInvHolds, ExclusiveHolds, OwnDocsHolds, IdentityHolds, PTL
     DEF Spec, FiscalIdentityStays
-----------------------------------------------------------------------------
(* CFDI that are not forgotten, when no process dies, no write is lost and *)
(* the PAC has settled an aborted request before its row is stale.  First  *)
(* the lease: a request of the queue has it as long as it has not been     *)
(* sent, for a row is taken over only when it is stale.                    *)

\* What the tokens of the queue are good for.
Versions ==
    /\ Queue!SingleOwner
    /\ \A c \in Consumers : hold[c].phase # "idle" =>
          hold[c].row.updatedAt <= queue[hold[c].job].updatedAt

LEMMA VersionsHold == Spec => []Versions
<1>1. Lease!Spec => []Lease!LeaseInv
  BY QueueAssumed, Lease!LeaseInvariant
<1>2. Lease!LeaseInv => \A c \in Consumers : hold[c].phase # "idle" =>
          hold[c].row.updatedAt <= queue[hold[c].job].updatedAt
  BY DEF Lease!LeaseInv, Lease!Working, Lease!HoldsRealRow
<1> QED
  BY <1>1, <1>2, StampingImplementsQueue, StampingKeepsOwner, SameQueue, PTL DEF Versions

\* A request of the queue that has not been sent.
Bound(h) == req[h].job # NoJob /\ req[h].pc \in {"claim", "config"}

\* The run that waits for it still owns the row whose token the request carries.
Backs(c, h) ==
    /\ c \in Consumers /\ Queue!Owns(c)
    /\ work[c].step = "await" /\ work[c].handler = h
    /\ hold[c].job = req[h].job /\ hold[c].row.updatedAt = req[h].token

Leased == \A h \in Handlers : Bound(h) => Backs(req[h].caller, h)

\* Nobody is about to take over a row that has an owner.
Untaken ==
    \A c, d \in Consumers :
        /\ hold[d].phase = "selected" /\ Queue!AsRead(d)
        /\ hold[d].row.status = "processing" /\ Queue!Owns(c)
        => hold[c].job # hold[d].job

\* A step that changes one row, or none, and one run, or none.
Moves(j) == \A k \in Jobs \ {j} : queue'[k] = queue[k]
Only(c) == \A d \in Consumers \ {c} : hold'[d] = hold[d]

LEMMA OutcomeSettlesRow ==
    ASSUME QueueInv, NEW c \in Consumers, Queue!Outcome(c)
    PROVE  /\ Queue!Owns(c) /\ hold[c].job \in Jobs /\ hold'[c] = Queue!Idle /\ Only(c)
           /\ Moves(hold[c].job)
           /\ queue'[hold[c].job].updatedAt = queue[hold[c].job].updatedAt + 1
           /\ queue'[hold[c].job].status # "processing"
<1>1. PICK status, attempts, deferrals :
         /\ status \in {"pending", "succeeded", "exhausted"}
         /\ Queue!Settle(c, status, attempts, deferrals)
  BY DEF Queue!Outcome, Queue!SucceedRecovered, Queue!SucceedInvoked, Queue!SucceedRefreshed,
     Queue!Defer, Queue!GiveUp, Queue!GiveUpUncounted, Queue!DeferConflict,
     Queue!RefuseConflict, Queue!RetryAnswered, Queue!RetryThrown, Queue!TerminalStatus
<1>2. Queue!Owns(c) /\ hold[c].job \in Jobs /\ hold[c].phase = "owner"
  BY <1>1 DEF Queue!Settle, Queue!Owns, QueueInv
<1>3. /\ queue' = [queue EXCEPT ![hold[c].job] =
                      Queue!Touched(queue[hold[c].job], status, attempts, deferrals)]
      /\ hold' = [hold EXCEPT ![c] = Queue!Idle]
  BY <1>1 DEF Queue!Settle
<1>4. DOMAIN queue = Jobs /\ DOMAIN hold = Consumers
  BY DEF QueueInv, Queue!TypeOK
<1> QED
  BY <1>1, <1>2, <1>3, <1>4 DEF Only, Moves, Queue!Touched

LEMMA ClaimTakesRow ==
    ASSUME QueueInv, NEW c \in Consumers, Queue!Claim(c)
    PROVE  /\ hold[c].phase = "selected" /\ Queue!AsRead(c) /\ hold[c].job \in Jobs
           /\ hold'[c].phase = "owner" /\ hold'[c].job = hold[c].job /\ Only(c)
           /\ Moves(hold[c].job)
           /\ queue'[hold[c].job].updatedAt = queue[hold[c].job].updatedAt + 1
           /\ queue'[hold[c].job].status = "processing"
<1>1. DOMAIN queue = Jobs /\ DOMAIN hold = Consumers
  BY DEF QueueInv, Queue!TypeOK
<1>2. hold[c].phase = "selected" /\ Queue!AsRead(c) /\ hold[c].job \in Jobs
  BY DEF QueueInv, Queue!Claim
<1> QED
  BY <1>1, <1>2 DEF Only, Moves, Queue!Touched, Queue!Claim

\* What a step of the queue can be.
LEMMA QueueSteps ==
    ASSUME QueueInv, [Queue!Next]_<<queue, hold>>
    PROVE  \/ UNCHANGED <<queue, hold>>
           \/ \E j \in Jobs : Queue!Enqueue(j)
           \/ \E c \in Consumers, j \in Jobs : Queue!SelectRow(c, j)
           \/ \E c \in Consumers : Queue!Claim(c)
           \/ \E c \in Consumers : Queue!Outcome(c)
           \/ \E c \in Consumers : queue' = queue /\ hold'[c] = Queue!Idle /\ Only(c)
<1>1. DOMAIN hold = Consumers
  BY DEF QueueInv, Queue!TypeOK
<1>2. ASSUME NEW c \in Consumers, Queue!ClaimSkipped(c) \/ Queue!LeaseLost(c) \/ Queue!Abandon(c)
      PROVE  queue' = queue /\ hold'[c] = Queue!Idle /\ Only(c)
  BY <1>1, <1>2 DEF Queue!ClaimSkipped, Queue!LeaseLost, Queue!Abandon, Only
<1> QED
  BY <1>2 DEF Queue!Next

\* Rows have versions.
LEMMA VersionNumbers ==
    ASSUME QueueInv
    PROVE  /\ \A j \in Jobs : queue[j].updatedAt \in Nat
           /\ \A c \in Consumers : hold[c].row.updatedAt \in Nat
BY DEF QueueInv, Queue!TypeOK, Queue!Row

\* An owner that stands still keeps its row.
LEMMA OwnerStays ==
    ASSUME QueueInv, Versions, Untaken, [Queue!Next]_<<queue, hold>>,
           NEW c \in Consumers, Queue!Owns(c), hold'[c] = hold[c]
    PROVE  Queue!Owns(c)'
<1>1. hold[c].phase = "owner" /\ hold[c].job \in Jobs /\ queue[hold[c].job].status = "processing"
  BY DEF Queue!Owns, QueueInv
<1>2. queue'[hold[c].job] = queue[hold[c].job] => Queue!Owns(c)'
  BY DEF Queue!Owns
<1>3. ASSUME NEW j \in Jobs, Queue!Enqueue(j) PROVE Queue!Owns(c)'
  BY <1>1, <1>2, <1>3 DEF Queue!Enqueue, QueueInv, Queue!TypeOK
<1>4. ASSUME NEW d \in Consumers, Queue!Claim(d) PROVE Queue!Owns(c)'
  <2>1. hold[d].phase = "selected" /\ Queue!AsRead(d) /\ Moves(hold[d].job)
    BY <1>4, ClaimTakesRow
  <2>2. hold[c].job # hold[d].job
    BY <1>1, <2>1 DEF Untaken, Queue!AsRead
  <2> QED
    BY <1>1, <1>2, <2>1, <2>2 DEF Moves
<1>5. ASSUME NEW d \in Consumers, Queue!Outcome(d) PROVE Queue!Owns(c)'
  <2>1. Queue!Owns(d) /\ hold'[d] = Queue!Idle /\ Moves(hold[d].job)
    BY <1>5, OutcomeSettlesRow
  <2>2. d # c
    BY <1>1, <2>1 DEF Queue!Idle
  <2>3. hold[c].job # hold[d].job
    BY <2>1, <2>2 DEF Versions, Queue!SingleOwner
  <2> QED
    BY <1>1, <1>2, <2>1, <2>3 DEF Moves
<1> QED
  BY <1>2, <1>3, <1>4, <1>5, QueueSteps DEF Queue!SelectRow

\* A row with an owner is not selected, unless the owner is slow.
SelectsStale ==
    \A d \in Consumers, j \in Jobs :
        Queue!SelectRow(d, j) /\ queue[j].status = "processing" =>
            \A c \in Consumers : Queue!Owns(c) => hold[c].job # j

LEMMA UntakenStays ==
    ASSUME QueueInv, Versions, Untaken, [Queue!Next]_<<queue, hold>>, SelectsStale
    PROVE  Untaken'
<1> SUFFICES ASSUME NEW c \in Consumers, NEW d \in Consumers,
                    hold'[d].phase = "selected", Queue!AsRead(d)',
                    hold'[d].row.status = "processing", Queue!Owns(c)',
                    hold'[c].job = hold'[d].job
             PROVE  FALSE
  BY DEF Untaken
<1>0. DOMAIN queue = Jobs /\ DOMAIN hold = Consumers /\ c # d /\ hold'[c].phase = "owner"
  BY DEF QueueInv, Queue!TypeOK, Queue!Owns
<1>1. queue' = queue /\ hold'[d] = hold[d] /\ hold'[c] = hold[c] => FALSE
  BY DEF Untaken, Queue!Owns, Queue!AsRead
<1>2. CASE \E b \in Consumers : queue' = queue /\ hold'[b] = Queue!Idle /\ Only(b)
  BY <1>0, <1>1, <1>2 DEF Queue!Idle, Only
<1>3. ASSUME NEW j \in Jobs, Queue!Enqueue(j) PROVE FALSE
  <2>1. hold' = hold /\ \A k \in Jobs \ {j} : queue'[k] = queue[k]
    BY <1>0, <1>3 DEF Queue!Enqueue
  <2>2. queue'[j].status # "processing"
    BY <1>0, <1>3 DEF Queue!Enqueue, Queue!InsertedRow
  <2>3. hold[c].job \in Jobs /\ hold[c].job # j
    BY <1>0, <2>1, <2>2 DEF Queue!Owns, QueueInv
  <2> QED
    BY <2>1, <2>3 DEF Untaken, Queue!Owns, Queue!AsRead
<1>4. ASSUME NEW b \in Consumers, NEW j \in Jobs, Queue!SelectRow(b, j) PROVE FALSE
  <2>1. /\ queue' = queue /\ hold'[b].phase = "selected" /\ hold'[b].job = j
        /\ hold'[b].row = queue[j] /\ \A a \in Consumers \ {b} : hold'[a] = hold[a]
    BY <1>0, <1>4 DEF Queue!SelectRow
  <2>2. b = d /\ hold'[c] = hold[c]
    BY <1>0, <1>1, <2>1
  <2>3. Queue!Owns(c) /\ hold[c].job = j /\ queue[j].status = "processing"
    BY <2>1, <2>2 DEF Queue!Owns
  <2> QED
    BY <1>4, <2>3 DEF SelectsStale
<1>5. ASSUME NEW b \in Consumers, hold[b].job \in Jobs, Only(b), Moves(hold[b].job),
             queue'[hold[b].job].updatedAt = queue[hold[b].job].updatedAt + 1, d # b
      PROVE  hold[d].job # hold[b].job /\ hold'[d] = hold[d]
  <2>1. hold'[d] = hold[d] /\ hold[d].job \in Jobs
    BY <1>5 DEF Only, QueueInv
  <2>2. hold[d].row.updatedAt <= queue[hold[d].job].updatedAt
    BY <2>1 DEF Versions
  <2>3. hold[d].row.updatedAt = queue'[hold[d].job].updatedAt
    BY <2>1 DEF Queue!AsRead
  <2> QED
    BY <1>5, <2>1, <2>2, <2>3, VersionNumbers
<1>6. ASSUME NEW b \in Consumers, Queue!Claim(b) PROVE FALSE
  <2>1. /\ hold[b].job \in Jobs /\ hold'[b].phase = "owner" /\ hold'[b].job = hold[b].job
        /\ Only(b) /\ Moves(hold[b].job)
        /\ queue'[hold[b].job].updatedAt = queue[hold[b].job].updatedAt + 1
    BY <1>6, ClaimTakesRow
  <2>2. d # b
    BY <2>1
  <2>3. hold[d].job # hold[b].job /\ hold'[d] = hold[d] /\ hold[d].job \in Jobs
    BY <1>5, <2>1, <2>2 DEF QueueInv
  <2>4. c # b /\ hold'[c] = hold[c]
    BY <2>1, <2>3 DEF Only
  <2>5. queue'[hold[d].job] = queue[hold[d].job]
    BY <2>1, <2>3 DEF Moves
  <2> QED
    BY <2>3, <2>4, <2>5 DEF Untaken, Queue!Owns, Queue!AsRead
<1>7. ASSUME NEW b \in Consumers, Queue!Outcome(b) PROVE FALSE
  <2>1. /\ hold[b].job \in Jobs /\ hold'[b] = Queue!Idle
        /\ Only(b) /\ Moves(hold[b].job)
        /\ queue'[hold[b].job].updatedAt = queue[hold[b].job].updatedAt + 1
    BY <1>7, OutcomeSettlesRow
  <2>2. d # b /\ c # b
    BY <1>0, <2>1 DEF Queue!Idle
  <2>3. hold[d].job # hold[b].job /\ hold'[d] = hold[d] /\ hold[d].job \in Jobs
    BY <1>5, <2>1, <2>2 DEF QueueInv
  <2>4. hold'[c] = hold[c] /\ queue'[hold[d].job] = queue[hold[d].job]
    BY <2>1, <2>2, <2>3 DEF Moves, Only
  <2> QED
    BY <2>3, <2>4 DEF Untaken, Queue!Owns, Queue!AsRead
<1> QED
  BY <1>1, <1>2, <1>3, <1>4, <1>6, <1>7, QueueSteps

-----------------------------------------------------------------------------
(* The lease in the system: nothing fails.                                 *)

\* A bound request that was bound before, to the same row.
Rests(h) ==
    /\ Bound(h) /\ req'[h].caller = req[h].caller
    /\ req'[h].job = req[h].job /\ req'[h].token = req[h].token
    /\ \A c \in Consumers : Backs(c, h) =>
          hold'[c] = hold[c] /\ work'[c].step = "await" /\ work'[c].handler = h

LEMMA LeasedStays ==
    ASSUME QueueInv, Versions, Untaken, Leased, [Queue!Next]_<<queue, hold>>,
           \A h \in Handlers : Bound(h)' => Rests(h)
    PROVE  Leased'
<1> SUFFICES ASSUME NEW h \in Handlers, Bound(h)'
             PROVE  Backs(req[h].caller, h)'
  BY DEF Leased
<1>1. PICK c : c = req[h].caller
  OBVIOUS
<1>2. Rests(h) /\ c \in Consumers /\ Backs(c, h)
  BY <1>1 DEF Leased, Rests, Backs
<1>3. Queue!Owns(c)'
  BY <1>2, OwnerStays DEF Backs, Rests
<1>4. req'[h].caller = c
  BY <1>1, <1>2 DEF Rests
<1>5. Backs(c, h)'
  BY <1>2, <1>3 DEF Backs, Rests
<1> QED
  BY <1>4, <1>5

\* A request of stamp-cfdi.
LEMMA HandlerRests ==
    ASSUME Typed, NEW h \in Handlers, HandlerStep(h), NEW g \in Handlers, Bound(g)'
    PROVE  Rests(g)
<1> USE DEF Serves
<1>1. RequestsOK /\ req[h] \in Slot /\ DOMAIN req = Handlers /\ UNCHANGED <<hold, work>>
  BY DEF Typed, RequestsOK, HandlerStep, ClaimInvoice, RefuseConfig, StampStub, SendToPac,
     PacAnswers, PacRefuses, PacLosesAnswer, TimeOut, RecordRefusal, EnqueueRetry,
     EnqueueLost, RecordIncomplete, PersistIds, FinishStamping, Queue!Enqueue
<1>2. req'[g] = req[g] => Rests(g)
  BY <1>1 DEF Rests, Bound, Backs
<1>3. ASSUME NEW kind, Answer(h, kind) PROVE Rests(g)
  <2>1. /\ \A k \in Handlers \ {h} : req'[k] = req[k]
        /\ req'[h] = FreeSlot \/ req'[h].pc = "answered"
    BY <1>1, <1>3 DEF Answer, Slot
  <2>2. g # h
    BY <2>1 DEF FreeSlot, Bound
  <2> QED
    BY <1>2, <2>1, <2>2
<1>4. ASSUME NEW pc, GoTo(h, pc), pc = "config" => req[h].pc = "claim", pc # "claim"
      PROVE  Rests(g)
  <2>1. CASE g = h
    BY <1>1, <1>4, <2>1 DEF GoTo, Rests, Bound, Backs, Slot
  <2> QED
    BY <1>1, <1>2, <1>4, <2>1 DEF GoTo
<1>5. CASE PacAnswers(h) \/ PacRefuses(h) \/ PacLosesAnswer(h)
  <2>1. /\ \A k \in Handlers \ {h} : req'[k] = req[k]
        /\ req'[h].pc \in {"refused", "record", "persist"}
    <3>1. CASE PacAnswers(h)
      <4>1. PICK d, state : req' = [req EXCEPT ![h].pc = AfterAnswer(state), ![h].doc = d,
                                               ![h].kind = state]
        BY <3>1 DEF PacAnswers
      <4> QED
        BY <1>1, <4>1 DEF AfterAnswer, Slot
    <3>2. CASE PacRefuses(h) \/ PacLosesAnswer(h)
      <4>1. PICK kind : req' = [req EXCEPT ![h].pc = "refused", ![h].kind = kind]
        BY <3>2 DEF PacRefuses, PacLosesAnswer
      <4> QED
        BY <1>1, <4>1 DEF Slot
    <3> QED
      BY <1>5, <3>1, <3>2
  <2>2. g # h => req'[g] = req[g]
    BY <2>1
  <2>3. g = h => ~Bound(g)'
    BY <2>1 DEF Bound
  <2> QED
    BY <1>2, <2>2, <2>3
<1> QED
  BY <1>3, <1>4, <1>5 DEF HandlerStep, ClaimInvoice, RefuseConfig, StampStub, SendToPac,
     TimeOut, RecordRefusal, EnqueueRetry, EnqueueLost, RecordIncomplete, PersistIds,
     FinishStamping

\* A run of the queue moves, and backs no bound request.
LEMMA RunLeaves ==
    ASSUME Leased, NEW c \in Consumers, Only(c),
           \A d \in Consumers \ {c} : work'[d] = work[d],
           \A h \in Handlers : ~Backs(c, h) \/ ~Bound(h),
           NEW g \in Handlers, Bound(g)',
           req'[g] = req[g] \/ (req[g].caller = c /\ Bound(g))
    PROVE  Rests(g)
<1>1. Bound(g)
  BY DEF Bound
<1>2. req[g].caller # c /\ ~Backs(c, g)
  BY <1>1 DEF Leased
<1>3. req'[g] = req[g]
  BY <1>2
<1>4. \A d \in Consumers : Backs(d, g) => hold'[d] = hold[d] /\ work'[d] = work[d]
  BY <1>2 DEF Only
<1> QED
  BY <1>1, <1>3, <1>4 DEF Rests, Backs

LEMMA DisownBinds ==
    ASSUME Typed, NEW c \in Consumers, Disown(c), NEW g \in Handlers, Bound(g)'
    PROVE  req'[g] = req[g] \/ (req[g].caller = c /\ Bound(g))
<1>1. req[g] \in Slot /\ req'[g] = IF req[g].caller # c THEN req[g]
                                   ELSE IF req[g].pc = "answered" THEN FreeSlot
                                   ELSE [req[g] EXCEPT !.caller = User]
  BY DEF Typed, RequestsOK, Disown
<1> QED
  BY <1>1 DEF Bound, FreeSlot, Slot

LEMMA ConsumerLeased ==
    ASSUME Typed, QueueInv, Versions, Untaken, Leased, Faults \subseteq {"db"},
           [Queue!Next]_<<queue, hold>>,
           NEW c \in Consumers, ConsumerStep(c)
    PROVE  Leased'
<1>1. /\ DOMAIN work = Consumers /\ DOMAIN req = Handlers /\ DOMAIN hold = Consumers
      /\ \A h \in Handlers : Backs(c, h) =>
            hold[c].phase = "owner" /\ Queue!Owns(c) /\ work[c].step = "await"
            /\ work[c].handler = h
  BY DEF Typed, WorkOK, RequestsOK, QueueInv, Queue!TypeOK, Backs, Queue!Owns
<1>2. ASSUME Only(c), \A d \in Consumers \ {c} : work'[d] = work[d],
             \A h \in Handlers : ~Backs(c, h) \/ ~Bound(h),
             \A g \in Handlers : Bound(g)' =>
                 req'[g] = req[g] \/ (req[g].caller = c /\ Bound(g))
      PROVE  Leased'
  <2>1. \A g \in Handlers : Bound(g)' => Rests(g)
    BY <1>2, RunLeaves
  <2> QED
    BY <2>1, LeasedStays
<1>3. CASE \/ \E j \in Jobs : SelectRow(c, j)
           \/ TakeRow(c) \/ SkipRow(c)
  <2>1. hold[c].phase # "owner" /\ UNCHANGED req
    BY <1>3 DEF SelectRow, TakeRow, SkipRow, Queue!SelectRow, Queue!Claim, Queue!ClaimSkipped
  <2>2. Only(c)
    BY <1>1, <1>3 DEF SelectRow, TakeRow, SkipRow, Queue!SelectRow, Queue!Claim,
       Queue!ClaimSkipped, Only
  <2>3. \A d \in Consumers \ {c} : work'[d] = work[d]
    BY <1>1, <1>3 DEF SelectRow, TakeRow, SkipRow
  <2> QED
    BY <1>1, <1>2, <2>1, <2>2, <2>3
<1>4. Queue!Outcome(c) => Only(c)
  BY OutcomeSettlesRow
<1>5. CASE ReadInvoice(c) \/ LookUp(c) \/ SaveRecovered(c) \/ CloseRecovered(c)
  <2>1. UNCHANGED req /\ work[c].step # "await"
    BY <1>5 DEF ReadInvoice, LookUp, SaveRecovered, CloseRecovered, Step
  <2>2. \A d \in Consumers \ {c} : work'[d] = work[d]
    BY <1>1, <1>5 DEF ReadInvoice, LookUp, SaveRecovered, CloseRecovered, Done
  <2>3. Queue!Outcome(c) \/ UNCHANGED hold
    BY <1>5 DEF ReadInvoice, LookUp, SaveRecovered, CloseRecovered, Queue!Outcome
  <2> QED
    BY <1>1, <1>2, <1>4, <2>1, <2>2, <2>3 DEF Only
<1>6. ASSUME NEW h \in Handlers, Invoke(c, h)
      PROVE  Leased'
  <2>1. /\ work[c].step = "invoke" /\ Queue!Owns(c) /\ UNCHANGED <<queue, hold>>
        /\ work'[c].step = "await" /\ work'[c].handler = h
        /\ \A d \in Consumers \ {c} : work'[d] = work[d]
    BY <1>1, <1>6 DEF Invoke, Step, Typed, WorkOK, Work
  <2>2. /\ \A g \in Handlers \ {h} : req'[g] = req[g]
        /\ req'[h].caller = c /\ req'[h].job = hold[c].job
        /\ req'[h].token = hold[c].row.updatedAt
    BY <1>1, <1>6 DEF Invoke, StampRequest
  <2>3. Backs(c, h)'
    BY <2>1, <2>2 DEF Backs, Queue!Owns
  <2>4. ASSUME NEW g \in Handlers \ {h}, Bound(g)' PROVE Backs(req[g].caller, g)'
    <3>1. PICK d : d = req[g].caller
      OBVIOUS
    <3>2. Bound(g) /\ Backs(d, g) /\ req'[g] = req[g]
      BY <2>2, <2>4, <3>1 DEF Bound, Leased
    <3>3. d # c
      BY <2>1, <3>2 DEF Backs
    <3>4. Backs(d, g)'
      BY <2>1, <3>2, <3>3 DEF Backs, Queue!Owns
    <3> QED
      BY <3>1, <3>2, <3>4
  <2> QED
    BY <2>2, <2>3, <2>4 DEF Leased
<1>7. CASE Collect(c)
  <2>1. /\ req[work[c].handler].pc = "answered" /\ Only(c)
        /\ req' = [req EXCEPT ![work[c].handler] = FreeSlot]
        /\ work' = [work EXCEPT ![c] = NoWork]
    BY <1>4, <1>7 DEF Collect, Serves, Done, Queue!Outcome
  <2>2. \A h \in Handlers : ~Backs(c, h) \/ ~Bound(h)
    BY <1>1, <2>1 DEF Bound
  <2>3. \A g \in Handlers : Bound(g)' => req'[g] = req[g]
    BY <1>1, <2>1 DEF Bound, FreeSlot
  <2> QED
    BY <1>1, <1>2, <2>1, <2>2, <2>3
<1>8. CASE StopWaiting(c)
  <2>1. /\ req[work[c].handler].pc \notin {"claim", "config"} /\ Only(c) /\ Disown(c)
        /\ work' = [work EXCEPT ![c] = NoWork]
    BY <1>4, <1>8 DEF StopWaiting, Done, Queue!Outcome
  <2>2. \A h \in Handlers : ~Backs(c, h) \/ ~Bound(h)
    BY <1>1, <2>1 DEF Bound
  <2> QED
    BY <1>1, <1>2, <2>1, <2>2, DisownBinds
<1>9. CASE LoseRow(c)
  <2>1. ~Queue!Owns(c) /\ Disown(c) /\ work' = [work EXCEPT ![c] = NoWork]
    BY <1>9 DEF LoseRow, Done, Queue!LeaseLost, Queue!Owns
  <2>2. Only(c)
    BY <1>1, <1>9 DEF LoseRow, Queue!LeaseLost, Queue!Abandon, Only
  <2> QED
    BY <1>1, <1>2, <2>1, <2>2, DisownBinds
<1> QED
  BY <1>3, <1>5, <1>6, <1>7, <1>8, <1>9 DEF ConsumerStep

Leases == Versions /\ Untaken /\ Leased

LEMMA LeasesStep ==
    ASSUME Typed, QueueInv, Leases, Faults \subseteq {"db"}, [Next]_vars
    PROVE  Untaken' /\ Leased'
<1> USE DEF Leases
<1>1. [Queue!Next]_<<queue, hold>>
  BY StepIsQueueStep DEF vars
<1>2. SelectsStale
  <2> SUFFICES ASSUME NEW d \in Consumers, NEW j \in Jobs, Queue!SelectRow(d, j),
                      queue[j].status = "processing", NEW c \in Consumers, Queue!Owns(c)
               PROVE  hold[c].job # j
    BY DEF SelectsStale
  <2>1. hold[d].phase = "idle" /\ hold'[d].phase = "selected" /\ hold'[d].job = j
    BY DEF Queue!SelectRow, QueueInv, Queue!TypeOK
  <2>2. ~UNCHANGED hold /\ DOMAIN hold = Consumers
    BY <2>1 DEF QueueInv, Queue!TypeOK
  <2>3. PICK b \in Consumers : ConsumerStep(b)
    BY <2>2 DEF Next, vars, EditInvoice, UserRequest, HandlerStep, CrashRequest, ClaimInvoice,
       RefuseConfig, StampStub, SendToPac, PacAnswers, PacRefuses, PacLosesAnswer, TimeOut,
       RecordRefusal, EnqueueRetry, EnqueueLost, RecordIncomplete, PersistIds, FinishStamping,
       Queue!Enqueue, PacStep, PacServesLate, PacSettles, PacLists, ReconcilerStep,
       CrashReconciler, SelectStuck, ClaimStuck, SkipStuck, ResolveStuck, LookupFails,
       FetchStuck, FetchLost
  <2>4. Queue!Outcome(b) => hold'[b].phase = "idle" /\ Only(b)
    BY OutcomeSettlesRow DEF Queue!Idle
  <2>5. PICK k \in Jobs : SelectRow(b, k)
    BY <2>1, <2>2, <2>3, <2>4 DEF ConsumerStep, TakeRow, SkipRow, ReadInvoice, LookUp, SaveRecovered,
       CloseRecovered, Invoke, Collect, StopWaiting, LoseRow, Queue!Claim, Queue!ClaimSkipped,
       Queue!LeaseLost, Queue!Abandon, Queue!Idle, Queue!Outcome, Only
  <2>6. b = d /\ k = j
    BY <2>1, <2>2, <2>5 DEF SelectRow, Queue!SelectRow
  <2> QED
    BY <2>5, <2>6 DEF SelectRow, Stale, Queue!Owns
<1>3. Untaken'
  BY <1>1, <1>2, UntakenStays
<1>4. ASSUME UNCHANGED <<hold, work>>, \A g \in Handlers : Bound(g)' => req'[g] = req[g]
      PROVE  Leased'
  <2>1. \A h \in Handlers : Bound(h)' => Rests(h)
    BY <1>4 DEF Rests, Bound, Backs
  <2> QED
    BY <1>1, <2>1, LeasedStays
<1>5. UNCHANGED <<queue, hold, req, work>> => Leased'
  BY <1>4
<1>6. ASSUME NEW h \in Handlers, NEW i \in Invoices, UserRequest(h, i)
      PROVE  Leased'
  <2>1. UNCHANGED <<hold, work>> /\ req'[h].job = NoJob /\ \A g \in Handlers \ {h} : req'[g] = req[g]
    BY <1>6 DEF UserRequest, StampRequest, Typed, RequestsOK
  <2> QED
    BY <1>4, <2>1 DEF Bound
<1>7. ASSUME NEW h \in Handlers, HandlerStep(h)
      PROVE  Leased'
  BY <1>1, <1>7, HandlerRests, LeasedStays
<1>8. ASSUME NEW c \in Consumers, ConsumerStep(c)
      PROVE  Leased'
  BY <1>1, <1>8, ConsumerLeased
<1>9. Leased'
  <2>1. \A h \in Handlers : ~CrashRequest(h)
    BY DEF CrashRequest
  <2>2. CASE \E i \in Invoices : EditInvoice(i)
    BY <1>5, <2>2 DEF EditInvoice
  <2>3. CASE PacStep
    BY <1>5, <2>3 DEF PacStep, PacServesLate, PacSettles, PacLists
  <2>4. ASSUME NEW r \in Reconcilers, ReconcilerStep(r) \/ CrashReconciler(r)
        PROVE  UNCHANGED <<queue, hold, req, work>>
    BY <2>4 DEF ReconcilerStep, CrashReconciler, SelectStuck, ClaimStuck, SkipStuck,
       ResolveStuck, LookupFails, FetchStuck, FetchLost
  <2> QED
    BY <1>5, <1>6, <1>7, <1>8, <2>1, <2>2, <2>3, <2>4 DEF Next, vars
<1> QED
  BY <1>3, <1>9

LEMMA LeasesHold == Faults \subseteq {"db"} => (Spec => []Leases)
<1> SUFFICES ASSUME Faults \subseteq {"db"} PROVE Spec => []Leases
  OBVIOUS
<1>1. Init => Untaken /\ Leased
  BY DEF Init, Untaken, Leased, Bound, FreeSlot, Queue!Init, Queue!Idle
<1>2. Typed /\ QueueInv /\ Versions /\ Untaken /\ Leased /\ [Next]_vars => (Untaken /\ Leased)'
  BY LeasesStep DEF Leases
<1> QED
  BY <1>1, <1>2, TypedHolds, QueueInvHolds, VersionsHold, PTL DEF Spec, Leases

-----------------------------------------------------------------------------
(* Documents that may still appear, and ids that are saved.                *)

Unmarked == {"pending", "error"}

\* A run of the reconciliation that has claimed a row, or may.
Watches(r) == rec[r].pc = "claimed" \/ (rec[r].pc = "selected" /\ r \in fresh)

Indexed == \A d \in Documents : pac[d].inv # NoInvoice => pac[d].listed = TRUE

\* While the PAC may still serve an aborted request, its invoice is left alone.
LateWaits ==
    \A l \in late : /\ Status(l.inv) = "stamping" /\ NoEmitter(l.inv)
                    /\ \A r \in Reconcilers : Watches(r) => rec[r].inv # l.inv

\* A refusal for good leaves no document behind.
RefusedBlank ==
    \A h \in Handlers :
        req[h].pc = "refused" /\ req[h].kind # "transient" => DocsOf(req[h].inv) = {}

UuidHasId == \A i \in Invoices : inv[i].uuid # NoDoc => inv[i].fid # NoDoc

\* A run closes its row once the id of what it recovered is saved.
CloseSaved == \A c \in Consumers : work[c].step = "close" => inv[SubjectOf(c)].fid # NoDoc

DocFacts == Indexed /\ LateWaits /\ RefusedBlank /\ UuidHasId /\ CloseSaved

\* What is known of a state before a step.
Sound == Typed /\ QueueInv /\ Exclusive /\ OwnDocs /\ Identity

\* A document of i appears because of an aborted request, or of one under way.
Born(i) ==
    /\ UNCHANGED <<queue, hold, inv, work>>
    /\ \/ UNCHANGED req /\ \E l \in late : l.inv = i
       \/ \E h \in Handlers : /\ req[h].pc = "sent" /\ req[h].inv = i
                              /\ \A g \in Handlers \ {h} : req'[g] = req[g]
                              /\ req'[h].pc = "refused" => req'[h].kind = "transient"

SameDoc(d) == pac'[d].inv = pac[d].inv /\ (pac[d].listed => pac'[d].listed = TRUE)

LEMMA CreatesBorn ==
    ASSUME PacOK, PacIsPrompt, NEW i \in Invoices, NEW total, NEW d \in Documents,
           NEW state, Creates(i, total, d, state), NEW e \in Documents
    PROVE  \/ SameDoc(e)
           \/ pac[e].inv = NoInvoice /\ pac'[e].inv = i /\ pac'[e].listed = TRUE
<1>1. CASE UNCHANGED pac
  BY <1>1 DEF SameDoc, PacOK, PacDocument
<1>2. CASE /\ d \in Unused
           /\ pac' = [pac EXCEPT ![d] = [inv |-> i, state |-> state, listed |-> PacIsPrompt,
                                         total |-> total]]
  <2>1. /\ pac[d].inv = NoInvoice /\ pac'[d].inv = i /\ pac'[d].listed = TRUE
        /\ \A f \in Documents \ {d} : pac'[f] = pac[f]
    BY <1>2, StampingAssumption DEF Unused, PacOK
  <2> QED
    BY <2>1 DEF SameDoc, PacOK, PacDocument
<1> QED
  BY <1>1, <1>2 DEF Creates

\* What a step does to a document.
LEMMA DocumentStep ==
    ASSUME Typed, PacIsPrompt, [Next]_vars, NEW e \in Documents
    PROVE  \/ SameDoc(e)
           \/ /\ pac[e].inv = NoInvoice /\ pac'[e].listed = TRUE
              /\ pac'[e].inv \in Invoices /\ Born(pac'[e].inv)
<1>0. PacOK
  BY DEF Typed
<1>1. ASSUME NEW l \in late, PacServesLate(l)
      PROVE  \/ SameDoc(e)
             \/ /\ pac[e].inv = NoInvoice /\ pac'[e].listed = TRUE
                /\ pac'[e].inv \in Invoices /\ Born(pac'[e].inv)
  <2>1. l.inv \in Invoices
    BY <1>0 DEF PacOK, Aborted
  <2>2. CASE UNCHANGED pac
    BY <1>0, <2>2 DEF SameDoc, PacOK, PacDocument
  <2>3. ASSUME NEW d \in Documents, NEW state \in PacState, Creates(l.inv, l.total, d, state)
        PROVE  \/ SameDoc(e)
               \/ pac[e].inv = NoInvoice /\ pac'[e].inv = l.inv /\ pac'[e].listed = TRUE
    BY <1>0, <2>1, <2>3, CreatesBorn
  <2>4. Born(l.inv)
    BY <1>1 DEF PacServesLate, Born
  <2> QED
    BY <1>1, <2>1, <2>2, <2>3, <2>4 DEF PacServesLate
<1>2. ASSUME NEW h \in Handlers, PacAnswers(h) \/ PacLosesAnswer(h)
      PROVE  \/ SameDoc(e)
             \/ /\ pac[e].inv = NoInvoice /\ pac'[e].listed = TRUE
                /\ pac'[e].inv \in Invoices /\ Born(pac'[e].inv)
  <2>1. req[h].inv \in Invoices /\ req[h].pc = "sent" /\ req[h] \in Slot /\ DOMAIN req = Handlers
    BY <1>2 DEF PacAnswers, PacLosesAnswer, Serves, Typed, RequestsOK
  <2>2. PICK d \in Documents, state \in PacState : Creates(req[h].inv, req[h].total, d, state)
    BY <1>2 DEF PacAnswers, PacLosesAnswer
  <2>3. \/ SameDoc(e)
        \/ pac[e].inv = NoInvoice /\ pac'[e].inv = req[h].inv /\ pac'[e].listed = TRUE
    BY <1>0, <2>1, <2>2, CreatesBorn
  <2>4. /\ \A g \in Handlers \ {h} : req'[g] = req[g]
        /\ req'[h].pc = "refused" => req'[h].kind = "transient"
    <3>1. CASE PacAnswers(h)
      <4>1. PICK f, s : req' = [req EXCEPT ![h].pc = AfterAnswer(s), ![h].doc = f,
                                           ![h].kind = s]
        BY <3>1 DEF PacAnswers
      <4> QED
        BY <2>1, <4>1 DEF AfterAnswer, Slot
    <3>2. CASE PacLosesAnswer(h)
      BY <2>1, <3>2 DEF PacLosesAnswer, Slot
    <3> QED
      BY <1>2, <3>1, <3>2
  <2>5. UNCHANGED <<queue, hold, inv, work>>
    BY <1>2 DEF PacAnswers, PacLosesAnswer
  <2>6. Born(req[h].inv)
    BY <2>1, <2>4, <2>5 DEF Born
  <2> QED
    BY <2>1, <2>3, <2>6
<1>3. ASSUME NEW d \in Documents, PacSettles(d) \/ PacLists(d)
      PROVE  SameDoc(e)
  BY <1>0, <1>3 DEF PacSettles, PacLists, PacOK, PacDocument, SameDoc
<1>4. UNCHANGED pac => SameDoc(e)
  BY <1>0 DEF SameDoc, PacOK, PacDocument
<1>5. ASSUME NEW h \in Handlers, HandlerStep(h) \/ CrashRequest(h),
             ~(PacAnswers(h) \/ PacLosesAnswer(h))
      PROVE  UNCHANGED pac
  BY <1>5 DEF HandlerStep, CrashRequest, ClaimInvoice, RefuseConfig, StampStub,
     SendToPac, PacRefuses, TimeOut, RecordRefusal, EnqueueRetry, EnqueueLost,
     RecordIncomplete, PersistIds, FinishStamping
<1>6. ASSUME NEW c \in Consumers, ConsumerStep(c)
      PROVE  UNCHANGED pac
  BY <1>6 DEF ConsumerStep, SelectRow, TakeRow, SkipRow, ReadInvoice, LookUp, SaveRecovered,
     CloseRecovered, Invoke, Collect, StopWaiting, LoseRow
<1>7. ASSUME NEW r \in Reconcilers, ReconcilerStep(r) \/ CrashReconciler(r)
      PROVE  UNCHANGED pac
  BY <1>7 DEF ReconcilerStep, CrashReconciler, SelectStuck, ClaimStuck, SkipStuck,
     ResolveStuck, LookupFails, FetchStuck, FetchLost
<1>8. ASSUME \/ UNCHANGED vars
             \/ \E i \in Invoices : EditInvoice(i)
             \/ \E h \in Handlers, i \in Invoices : UserRequest(h, i)
      PROVE  UNCHANGED pac
  BY <1>8 DEF vars, EditInvoice, UserRequest
<1> QED
  BY <1>1, <1>2, <1>3, <1>4, <1>5, <1>6, <1>7, <1>8 DEF Next, PacStep

LEMMA IndexedStep ==
    ASSUME Typed, PacIsPrompt, Indexed, [Next]_vars
    PROVE  Indexed'
BY DocumentStep DEF Indexed, SameDoc

\* An invoice gets a document only while it is marked and nothing else happens.
LEMMA BirthMarked ==
    ASSUME Typed, Exclusive, LateWaits, PacIsPrompt, [Next]_vars, NEW i \in Invoices,
           DocsOf(i) = {}, DocsOf(i)' # {}
    PROVE  Born(i) /\ Status(i) = "stamping"
<1>1. PICK e \in Documents : pac[e].inv # i /\ pac'[e].inv = i
  BY DEF DocsOf
<1>2. Born(i)
  BY <1>1, DocumentStep DEF SameDoc
<1> QED
  BY <1>2 DEF Born, LateWaits, Exclusive, EmittersMark, Emitting

\* What a step may do to the row of i: a uuid comes with an id, and the mark goes
\* without an id only if there is no document or a retry is about to be enqueued.
Wrote(i) ==
    /\ inv'[i].uuid # NoDoc => inv'[i].fid # NoDoc
    /\ Status(i) = "stamping" /\ inv'[i].status \in Unmarked /\ inv'[i].fid = NoDoc =>
          \/ DocsOf(i) = {} /\ UNCHANGED pac
          \/ \E h \in Handlers : req'[h].pc = "enqueue" /\ req'[h].inv = i

LEMMA UnwrittenWrote ==
    ASSUME UuidHasId, NEW i \in Invoices, inv'[i] = inv[i]
    PROVE  Wrote(i)
BY DEF UuidHasId, Wrote, Status, Unmarked

\* A write of one row.
LEMMA WriteWrote ==
    ASSUME Typed, UuidHasId, NEW k \in Invoices, NEW row, Write(k, row), NEW i \in Invoices,
           row.uuid # NoDoc => row.fid # NoDoc,
           Status(k) = "stamping" /\ row.status \in Unmarked /\ row.fid = NoDoc =>
              \/ DocsOf(k) = {} /\ UNCHANGED pac
              \/ \E h \in Handlers : req'[h].pc = "enqueue" /\ req'[h].inv = k
    PROVE  Wrote(i)
<1>1. inv'[i] = IF i = k THEN row ELSE inv[i]
  BY DEF Write, Typed, RowsOK
<1> QED
  BY <1>1, UnwrittenWrote DEF Wrote

\* A write that saves an id, or leaves the ids and the mark as they are.
LEMMA SavesWrote ==
    ASSUME Typed, UuidHasId, NEW k \in Invoices, NEW row, Write(k, row), NEW i \in Invoices,
           \/ row.fid # NoDoc
           \/ /\ row.fid = inv[k].fid /\ row.uuid = inv[k].uuid
              /\ Status(k) = "stamping" => row.status \notin Unmarked
    PROVE  Wrote(i)
BY WriteWrote DEF UuidHasId

LEMMA HandlerWrote ==
    ASSUME Typed, Leased, RefusedBlank, UuidHasId, Faults \subseteq {"db"}, NEW h \in Handlers,
           HandlerStep(h), NEW i \in Invoices
    PROVE  Wrote(i)
<1> USE DEF Serves
<1> DEFINE k == req[h].inv
<1>1. /\ RequestsOK /\ req[h] \in Slot /\ DOMAIN req = Handlers
      /\ req[h].pc # "idle" => k \in Invoices /\ inv[k] \in Invoice
  BY DEF Typed, RequestsOK, RowsOK
<1>2. CASE UNCHANGED inv
  BY <1>2, UnwrittenWrote
<1>3. CASE ClaimInvoice(h)
  <2>1. CASE Claimable(RowOf(h))
    <3>1. PICK row : row = [inv[k] EXCEPT !.status = "stamping"]
      OBVIOUS
    <3>2. Write(k, row)
      BY <1>3, <2>1, <3>1 DEF ClaimInvoice, RowOf
    <3>3. row.fid = inv[k].fid /\ row.uuid = inv[k].uuid /\ row.status = "stamping"
      BY <1>1, <1>3, <3>1 DEF ClaimInvoice, Invoice
    <3>4. k \in Invoices /\ row.status \notin Unmarked
      BY <1>1, <1>3, <3>3 DEF ClaimInvoice, Unmarked
    <3> QED
      BY <3>2, <3>3, <3>4, SavesWrote
  <2> QED
    BY <1>2, <1>3, <2>1 DEF ClaimInvoice, UnchangedInvoices
<1>4. ~RefuseConfig(h) /\ ~StampStub(h) /\ ~EnqueueLost(h)
  <2>1. req[h].pc = "config" => LeaseCurrent(h)
    BY DEF LeaseCurrent, Leased, Bound, Backs, Queue!Owns
  <2> QED
    BY <2>1 DEF RefuseConfig, StampStub, EnqueueLost
<1>5. CASE RecordRefusal(h) /\ ~UNCHANGED inv
  <2>1. PICK row : row = [inv[k] EXCEPT !.status = "error"]
    OBVIOUS
  <2>2. Write(k, row) /\ k \in Invoices /\ UNCHANGED pac
    BY <1>1, <1>5, <2>1 DEF RecordRefusal, RefusedRow, RowOf, WriteOrLose, UnchangedInvoices
  <2>3. row.fid = inv[k].fid /\ row.uuid = inv[k].uuid
    BY <1>1, <1>5, <2>1 DEF RecordRefusal, Invoice
  <2>4. CASE req[h].kind = "transient"
    <3>1. req'[h].pc = "enqueue" /\ req'[h].inv = k
      BY <1>1, <1>5, <2>4 DEF RecordRefusal, GoTo, Slot
    <3> QED
      BY <2>2, <2>3, <3>1, WriteWrote DEF UuidHasId
  <2>5. CASE req[h].kind # "transient"
    <3>1. DocsOf(k) = {}
      BY <1>5, <2>5 DEF RecordRefusal, RefusedBlank
    <3> QED
      BY <2>2, <2>3, <3>1, WriteWrote DEF UuidHasId
  <2> QED
    BY <2>4, <2>5
<1>6. CASE (RecordIncomplete(h) \/ PersistIds(h) \/ FinishStamping(h)) /\ ~UNCHANGED inv
  <2>1. req[h].doc # NoDoc /\ k \in Invoices /\ inv[k] \in Invoice
    <3>1. req[h].pc \in {"record", "persist", "finish"}
      BY <1>6 DEF RecordIncomplete, PersistIds, FinishStamping
    <3>2. req[h].doc \in Documents
      BY <1>1, <3>1 DEF RequestsOK
    <3> QED
      BY <1>1, <3>1, <3>2, Ids
  <2>2. CASE RecordIncomplete(h)
    <3>1. PICK row : /\ row = [inv[k] EXCEPT !.fid = req[h].doc,
                                 !.status = IF req[h].kind = "failed" THEN "error"
                                            ELSE "stamping"]
                     /\ Write(k, row)
      BY <1>6, <2>2 DEF RecordIncomplete, RowOf, WriteOrLose, UnchangedInvoices
    <3>2. row.fid # NoDoc
      BY <2>1, <3>1 DEF Invoice
    <3> QED
      BY <2>1, <3>1, <3>2, SavesWrote
  <2>3. CASE PersistIds(h)
    <3>1. PICK row : /\ row = [inv[k] EXCEPT !.fid = req[h].doc, !.uuid = req[h].doc]
                     /\ Write(k, row)
      BY <1>6, <2>3 DEF PersistIds, RowOf, WriteOrLose, UnchangedInvoices
    <3>2. row.fid # NoDoc
      BY <2>1, <3>1 DEF Invoice
    <3> QED
      BY <2>1, <3>1, <3>2, SavesWrote
  <2>4. CASE FinishStamping(h)
    <3>1. PICK downloaded \in BOOLEAN :
             Write(k, [inv[k] EXCEPT !.fid = req[h].doc, !.uuid = req[h].doc,
                                     !.xml = downloaded,
                                     !.status = IF Variance(h) THEN "error" ELSE "stamped"])
      BY <1>6, <2>4 DEF FinishStamping, RowOf, UnchangedInvoices
    <3>2. PICK row : /\ row = [inv[k] EXCEPT !.fid = req[h].doc, !.uuid = req[h].doc,
                                 !.xml = downloaded,
                                 !.status = IF Variance(h) THEN "error" ELSE "stamped"]
                     /\ Write(k, row)
      BY <3>1
    <3>3. row.fid # NoDoc
      BY <2>1, <3>2 DEF Invoice
    <3> QED
      BY <2>1, <3>2, <3>3, SavesWrote
  <2> QED
    BY <1>6, <2>2, <2>3, <2>4
<1> QED
  BY <1>2, <1>3, <1>4, <1>5, <1>6 DEF HandlerStep, SendToPac, PacAnswers, PacRefuses,
     PacLosesAnswer, TimeOut, EnqueueRetry

LEMMA ConsumerWrote ==
    ASSUME Typed, QueueInv, UuidHasId, NEW c \in Consumers, ConsumerStep(c), NEW i \in Invoices
    PROVE  Wrote(i)
<1>1. CASE UNCHANGED inv
  BY <1>1, UnwrittenWrote
<1>2. CASE SaveRecovered(c) /\ ~UNCHANGED inv
  <2>1. PICK k : k = SubjectOf(c)
    OBVIOUS
  <2>2. work[c].step = "save" /\ work[c].doc # NoDoc
    BY <1>2 DEF SaveRecovered, Step, Typed, WorkOK, Documents, NoDoc
  <2>3. k \in Invoices /\ inv[k] \in Invoice
    BY <2>1, <2>2, SubjectIsInvoice DEF Typed, RowsOK
  <2>4. PICK row : /\ row = [inv[k] EXCEPT
                         !.fid = work[c].doc,
                         !.uuid = IF work[c].kind = "valid" THEN work[c].doc ELSE @,
                         !.status = IF work[c].kind = "failed" THEN "error" ELSE "stamping"]
                   /\ Write(k, row)
    BY <1>2, <2>1 DEF SaveRecovered
  <2>5. row.fid # NoDoc
    BY <2>2, <2>3, <2>4 DEF Invoice
  <2> QED
    BY <2>3, <2>4, <2>5, SavesWrote
<1> QED
  BY <1>1, <1>2 DEF ConsumerStep, SelectRow, TakeRow, SkipRow, ReadInvoice, LookUp,
     CloseRecovered, Invoke, Collect, StopWaiting, LoseRow

LEMMA ReconcilerWrote ==
    ASSUME Typed, Exclusive, Identity, Indexed, UuidHasId, NEW r \in Reconcilers,
           ReconcilerStep(r) \/ CrashReconciler(r), NEW i \in Invoices
    PROVE  Wrote(i)
<1> DEFINE k == rec[r].inv
<1>1. /\ rec[r] \in Cycle
      /\ rec[r].pc # "idle" => k \in Invoices /\ inv[k] \in Invoice
      /\ rec[r].pc = "claimed" => Status(k) = "stamping"
  BY DEF Typed, CyclesOK, RowsOK, Exclusive, CyclesAlone
<1>2. CASE UNCHANGED inv
  BY <1>2, UnwrittenWrote
<1>3. CASE ClaimStuck(r)
  <2>1. PICK row : row = inv[k]
    OBVIOUS
  <2>2. Write(k, row) /\ k \in Invoices
    BY <1>1, <1>3, <2>1 DEF ClaimStuck
  <2> QED
    BY <2>1, <2>2, SavesWrote DEF Status, Unmarked
<1>4. CASE ResolveStuck(r)
  <2>0. rec[r].pc = "claimed" /\ k \in Invoices /\ inv[k] \in Invoice /\ UNCHANGED pac
    BY <1>1, <1>4 DEF ResolveStuck
  <2>1. ASSUME NEW d \in Found(k, rec[r].fid), Write(k, Resolved(inv[k], d))
        PROVE  Wrote(i)
    <3>1. d # NoDoc
      BY DEF Found, DocsOf, Documents, NoDoc
    <3>2. PICK row : row = Resolved(inv[k], d)
      OBVIOUS
    <3>3. row.fid # NoDoc
      BY <2>0, <3>1, <3>2 DEF Resolved, Invoice
    <3> QED
      BY <2>0, <2>1, <3>2, <3>3, SavesWrote
  <2>2. CASE Found(k, rec[r].fid) = {} /\ Write(k, Missed(inv[k], rec[r].attempts))
    <3>1. DocsOf(k) = {}
      BY <2>0, <2>2, StampingAssumption DEF Found, DocsOf, Indexed
    <3>2. PICK row : row = Missed(inv[k], rec[r].attempts)
      OBVIOUS
    <3>3. row.fid = inv[k].fid /\ row.uuid = inv[k].uuid
      BY <2>0, <3>2 DEF Missed, Invoice
    <3> QED
      BY <2>0, <2>2, <3>1, <3>2, <3>3, WriteWrote DEF UuidHasId
  <2> QED
    BY <1>4, <2>1, <2>2 DEF ResolveStuck
<1>5. CASE FetchStuck(r)
  <2>0. /\ rec[r].pc = "claimed" /\ k \in Invoices /\ inv[k] \in Invoice
        /\ rec[r].fid # NoDoc
    BY <1>1, <1>5 DEF FetchStuck, LacksId
  <2>1. CASE Write(k, Reconciled(inv[k], rec[r]))
    <3>1. PICK row : row = Reconciled(inv[k], rec[r])
      OBVIOUS
    <3>2. row.fid # NoDoc
      BY <2>0, <3>1 DEF Reconciled, Invoice
    <3> QED
      BY <2>0, <2>1, <3>1, <3>2, SavesWrote
  <2>2. CASE GiveUpXml(k, rec[r])
    <3>1. PICK row :
             /\ row = [inv[k] EXCEPT
                          !.status = IF MissesExhausted(rec[r].attempts) THEN "stamped" ELSE @,
                          !.xmlPending = @ \/ MissesExhausted(rec[r].attempts),
                          !.attempts = Bumped(rec[r].attempts)]
             /\ Write(k, row)
      BY <2>2 DEF GiveUpXml
    <3>2. /\ row.fid = inv[k].fid /\ row.uuid = inv[k].uuid
          /\ row.status \in {"stamped", inv[k].status}
      BY <2>0, <3>1 DEF Invoice
    <3>3. Status(k) = "stamping" => row.status \notin Unmarked
      BY <3>2 DEF Status, Unmarked
    <3> QED
      BY <2>0, <3>1, <3>2, <3>3, SavesWrote
  <2> QED
    BY <1>2, <1>5, <2>1, <2>2 DEF FetchStuck, ReconcileRow, UnchangedInvoices
<1> QED
  BY <1>2, <1>3, <1>4, <1>5 DEF ReconcilerStep, CrashReconciler, SelectStuck, SkipStuck,
     LookupFails, FetchLost

LEMMA WroteStep ==
    ASSUME Sound, Leases, DocFacts, Faults \subseteq {"db"}, [Next]_vars, NEW i \in Invoices
    PROVE  Wrote(i)
<1> USE DEF Sound, Leases, DocFacts
<1>1. UNCHANGED inv => Wrote(i)
  BY UnwrittenWrote
<1>2. ASSUME NEW k \in Invoices, EditInvoice(k)
      PROVE  Wrote(i)
  <2>1. PICK row : row = [inv[k] EXCEPT !.total = @ + 1]
    OBVIOUS
  <2>2. /\ row.fid = inv[k].fid /\ row.uuid = inv[k].uuid /\ row.status = inv[k].status
        /\ Write(k, row)
    BY <1>2, <2>1 DEF EditInvoice, Typed, RowsOK, Invoice
  <2>3. Status(k) = "stamping" => row.status \notin Unmarked
    BY <2>2 DEF Status, Unmarked
  <2> QED
    BY <2>2, <2>3, SavesWrote
<1>3. CASE UNCHANGED vars \/ PacStep
           \/ \E h \in Handlers, k \in Invoices : UserRequest(h, k)
  <2>1. UNCHANGED inv
    BY <1>3 DEF vars, UserRequest, PacStep, PacServesLate, PacSettles, PacLists
  <2> QED
    BY <1>1, <2>1
<1>4. \A h \in Handlers : ~CrashRequest(h)
  BY DEF CrashRequest
<1> QED
  BY <1>2, <1>3, <1>4, HandlerWrote, ConsumerWrote, ReconcilerWrote DEF Next

\* An aborted request stays alone with its invoice.
LEMMA LateStays ==
    ASSUME LateWaits, NEW l \in late, inv'[l.inv].status = inv[l.inv].status,
           \A h \in Handlers : Emitting(h)' =>
               \/ Emitting(h) /\ req'[h].inv = req[h].inv
               \/ inv[req'[h].inv].status # "stamping",
           \A r \in Reconcilers : Watches(r)' =>
               \/ Watches(r) /\ rec'[r].inv = rec[r].inv
               \/ rec'[r].inv # l.inv
    PROVE  /\ Status(l.inv)' = "stamping" /\ NoEmitter(l.inv)'
           /\ \A r \in Reconcilers : Watches(r)' => rec'[r].inv # l.inv
BY DEF LateWaits, NoEmitter, Status

LEMMA HandlerLate ==
    ASSUME Typed, Exclusive, LateWaits, NEW h \in Handlers, HandlerStep(h)
    PROVE  LateWaits'
<1> USE DEF Serves
<1>1. /\ RequestsOK /\ RowsOK /\ req[h] \in Slot /\ DOMAIN req = Handlers
      /\ UNCHANGED rec
  BY DEF Typed, RequestsOK, HandlerStep, ClaimInvoice, RefuseConfig, StampStub, SendToPac,
     PacAnswers, PacRefuses, PacLosesAnswer, TimeOut, RecordRefusal, EnqueueRetry,
     EnqueueLost, RecordIncomplete, PersistIds, FinishStamping
<1>2. fresh' \subseteq fresh /\ \A k \in Invoices : k # req[h].inv => inv'[k] = inv[k]
  <2>1. ASSUME NEW row, WriteOrLose(req[h].inv, row)
        PROVE  fresh' \subseteq fresh /\ \A k \in Invoices : k # req[h].inv => inv'[k] = inv[k]
    BY <1>1, <2>1 DEF RowsOK, WriteOrLose, Write, UnchangedInvoices
  <2>2. CASE UnchangedInvoices
    BY <2>2 DEF UnchangedInvoices
  <2>3. CASE ClaimInvoice(h) \/ FinishStamping(h)
    BY <2>1, <2>2, <2>3 DEF ClaimInvoice, FinishStamping, WriteOrLose
  <2>4. CASE RefuseConfig(h) \/ StampStub(h) \/ RecordRefusal(h) \/ PersistIds(h)
    BY <2>1, <2>4 DEF RefuseConfig, StampStub, RecordRefusal, PersistIds
  <2>5. CASE RecordIncomplete(h)
    BY <2>1, <2>5 DEF RecordIncomplete
  <2> QED
    BY <2>2, <2>3, <2>4, <2>5 DEF HandlerStep, SendToPac, PacAnswers, PacRefuses,
       PacLosesAnswer, TimeOut, EnqueueRetry, EnqueueLost, UnchangedInvoices
<1>3. UNCHANGED inv \/ Emitting(h) \/ (req[h].pc = "claim" /\ Claimable(RowOf(h)))
  BY DEF HandlerStep, ClaimInvoice, RefuseConfig, StampStub, SendToPac,
     PacAnswers, PacRefuses, PacLosesAnswer, TimeOut, RecordRefusal, EnqueueRetry,
     EnqueueLost, RecordIncomplete, PersistIds, FinishStamping, Emitting, UnchangedInvoices
<1>4. /\ \A g \in Handlers \ {h} : req'[g] = req[g]
      /\ Emitting(h)' => \/ Emitting(h) /\ req'[h].inv = req[h].inv
                         \/ /\ req[h].pc = "claim" /\ Claimable(RowOf(h))
                            /\ req'[h].inv = req[h].inv
  <2>1. ASSUME NEW kind, Answer(h, kind)
        PROVE  ~Emitting(h)' /\ \A g \in Handlers \ {h} : req'[g] = req[g]
    BY <1>1, <2>1, AnswerEnds
  <2>2. ASSUME NEW pc, GoTo(h, pc)
        PROVE  req'[h].inv = req[h].inv /\ req'[h].pc = pc
               /\ \A g \in Handlers \ {h} : req'[g] = req[g]
    BY <1>1, <2>2 DEF GoTo, Slot
  <2>3. CASE PacAnswers(h) \/ PacRefuses(h) \/ PacLosesAnswer(h)
    <3>1. Emitting(h)
      BY <2>3 DEF PacAnswers, PacRefuses, PacLosesAnswer, Emitting
    <3>2. CASE PacAnswers(h)
      <4>1. PICK d, state : req' = [req EXCEPT ![h].pc = AfterAnswer(state), ![h].doc = d,
                                               ![h].kind = state]
        BY <3>2 DEF PacAnswers
      <4> QED
        BY <1>1, <3>1, <4>1 DEF Slot
    <3>3. CASE PacRefuses(h) \/ PacLosesAnswer(h)
      <4>1. PICK kind : req' = [req EXCEPT ![h].pc = "refused", ![h].kind = kind]
        BY <3>3 DEF PacRefuses, PacLosesAnswer
      <4> QED
        BY <1>1, <3>1, <4>1 DEF Slot
    <3> QED
      BY <2>3, <3>2, <3>3
  <2>4. CASE ClaimInvoice(h)
    BY <2>1, <2>2, <2>4 DEF ClaimInvoice
  <2>5. CASE SendToPac(h) \/ PersistIds(h) \/ RecordRefusal(h)
    BY <2>1, <2>2, <2>5 DEF SendToPac, PersistIds, RecordRefusal, Emitting
  <2> QED
    BY <2>1, <2>3, <2>4, <2>5 DEF HandlerStep, RefuseConfig, StampStub, TimeOut, EnqueueRetry,
       EnqueueLost, RecordIncomplete, FinishStamping
<1>5. Claimable(RowOf(h)) => inv[req[h].inv].status # "stamping"
  BY DEF Claimable, RowOf
<1>6. ASSUME NEW l \in late
      PROVE  /\ Status(l.inv)' = "stamping" /\ NoEmitter(l.inv)'
             /\ \A r \in Reconcilers : Watches(r)' => rec'[r].inv # l.inv
  <2>0. l.inv \in Invoices
    BY DEF Typed, PacOK, Aborted
  <2>1. inv'[l.inv].status = inv[l.inv].status
    BY <1>2, <1>3, <1>5, <2>0 DEF LateWaits, NoEmitter, Status
  <2>2. \A g \in Handlers : Emitting(g)' =>
           \/ Emitting(g) /\ req'[g].inv = req[g].inv
           \/ inv[req'[g].inv].status # "stamping"
    BY <1>4, <1>5 DEF Emitting
  <2>3. \A r \in Reconcilers : Watches(r)' => Watches(r) /\ rec'[r].inv = rec[r].inv
    BY <1>1, <1>2 DEF Watches
  <2> QED
    BY <2>1, <2>2, <2>3, LateStays
<1>7. CASE late' \subseteq late
  BY <1>6, <1>7 DEF LateWaits
<1>8. CASE TimeOut(h)
  <2>1. Emitting(h) /\ ~Emitting(h)' /\ UNCHANGED <<inv, fresh>>
    <3>1. PICK kind : Answer(h, kind)
      BY <1>8 DEF TimeOut
    <3> QED
      BY <1>1, <1>8, <3>1, AnswerEnds DEF TimeOut, Emitting
  <2>2. PICK i : i = req[h].inv
    OBVIOUS
  <2>3. Status(i)' = "stamping"
    BY <2>1, <2>2 DEF Exclusive, EmittersMark, Status
  <2>4. NoEmitter(i)'
    BY <1>4, <2>1, <2>2 DEF NoEmitter, Exclusive, SingleEmitter, Emitting
  <2>5. \A r \in Reconcilers : Watches(r)' => rec'[r].inv # i
    BY <1>1, <2>1, <2>2 DEF Watches, Exclusive, CyclesAlone, NoEmitter
  <2>6. \A l \in late' : l \in late \/ l.inv = i
    BY <1>8, <2>2 DEF TimeOut
  <2> QED
    BY <1>6, <2>3, <2>4, <2>5, <2>6 DEF LateWaits
<1> QED
  BY <1>7, <1>8 DEF HandlerStep, ClaimInvoice, RefuseConfig, StampStub, SendToPac,
     PacAnswers, PacRefuses, PacLosesAnswer, RecordRefusal, EnqueueRetry,
     EnqueueLost, RecordIncomplete, PersistIds, FinishStamping

\* A step that begins no request, and does not write the row of an invoice that waits.
LEMMA SilentLate ==
    ASSUME LateWaits, Silent, late' \subseteq late,
           \A l \in late : inv'[l.inv] = inv[l.inv],
           \A r \in Reconcilers : Watches(r)' =>
               \/ Watches(r) /\ rec'[r].inv = rec[r].inv
               \/ \A l \in late : rec'[r].inv # l.inv
    PROVE  LateWaits'
<1>1. ASSUME NEW l \in late
      PROVE  /\ Status(l.inv)' = "stamping" /\ NoEmitter(l.inv)'
             /\ \A r \in Reconcilers : Watches(r)' => rec'[r].inv # l.inv
  BY LateStays DEF Silent
<1> QED
  BY <1>1 DEF LateWaits

LEMMA ConsumerLate ==
    ASSUME Typed, QueueInv, Exclusive, LateWaits, NEW c \in Consumers, ConsumerStep(c)
    PROVE  LateWaits'
<1>1. UNCHANGED <<rec, late>>
  BY DEF ConsumerStep, SelectRow, TakeRow, SkipRow, ReadInvoice, LookUp, SaveRecovered,
     CloseRecovered, Invoke, Collect, StopWaiting, LoseRow
<1>2. fresh' \subseteq fresh \cup {c} /\ c \notin Reconcilers
  BY StampingAssumption DEF ConsumerStep, SelectRow, TakeRow, SkipRow, ReadInvoice, LookUp,
     SaveRecovered, CloseRecovered, Invoke, Collect, StopWaiting, LoseRow, Done, Write
<1>3. \A r \in Reconcilers : Watches(r)' => Watches(r) /\ rec'[r].inv = rec[r].inv
  BY <1>1, <1>2 DEF Watches
<1>4. Silent
  <2>1. CASE UNCHANGED req
    BY <2>1 DEF Silent, Emitting
  <2>2. CASE Disown(c)
    BY <2>2, DisownSilent DEF Typed
  <2>3. ASSUME NEW h \in Handlers, Invoke(c, h)
        PROVE  Silent
    <3>1. PICK verdict : StampRequest(h, SubjectOf(c), c, hold[c].job, hold[c].row.updatedAt,
                                      verdict)
      BY <2>3 DEF Invoke
    <3> QED
      BY <3>1, RequestSilent DEF Typed
  <2>4. CASE Collect(c)
    BY <2>4 DEF Collect, Silent, Emitting, FreeSlot, Typed, RequestsOK
  <2> QED
    BY <2>1, <2>2, <2>3, <2>4 DEF ConsumerStep, SelectRow, TakeRow, SkipRow, ReadInvoice,
       LookUp, SaveRecovered, CloseRecovered, StopWaiting, LoseRow
<1>5. \A l \in late : inv'[l.inv] = inv[l.inv]
  <2>1. CASE UNCHANGED inv
    BY <2>1
  <2>2. CASE SaveRecovered(c) /\ ~UNCHANGED inv
    <3>1. PICK i, row : i = SubjectOf(c) /\ c \in fresh /\ Write(i, row)
      BY <2>2 DEF SaveRecovered, StillAsRead
    <3>2. Status(i) # "stamping"
      BY <3>1 DEF Exclusive, ReadersUnmarked
    <3> QED
      BY <3>1, <3>2 DEF LateWaits, Write, Typed, RowsOK
  <2> QED
    BY <2>1, <2>2 DEF ConsumerStep, SelectRow, TakeRow, SkipRow, ReadInvoice, LookUp,
       CloseRecovered, Invoke, Collect, StopWaiting, LoseRow
<1> QED
  BY <1>1, <1>3, <1>4, <1>5, SilentLate

LEMMA ReconcilerLate ==
    ASSUME Typed, Exclusive, LateWaits, PacIsPrompt, NEW r \in Reconcilers,
           ReconcilerStep(r) \/ CrashReconciler(r)
    PROVE  LateWaits'
<1>1. /\ UNCHANGED <<req, late>> /\ DOMAIN rec = Reconcilers /\ rec[r] \in Cycle
      /\ \A q \in Reconcilers \ {r} : rec'[q] = rec[q]
  BY DEF Typed, CyclesOK, ReconcilerStep, CrashReconciler, SelectStuck, ClaimStuck, SkipStuck,
     ResolveStuck, LookupFails, FetchStuck, FetchLost, Rest
<1>2. Silent
  BY <1>1 DEF Silent, Emitting
<1>3. ASSUME fresh' \subseteq fresh \cup {r},
             rec'[r].pc = "idle" \/ (Watches(r) /\ rec'[r].inv = rec[r].inv)
                \/ (\A l \in late : rec'[r].inv # l.inv)
      PROVE  \A q \in Reconcilers : Watches(q)' =>
               \/ Watches(q) /\ rec'[q].inv = rec[q].inv
               \/ \A l \in late : rec'[q].inv # l.inv
  BY <1>1, <1>3 DEF Watches
<1>4. fresh' \subseteq fresh \cup {r}
  BY DEF ReconcilerStep, CrashReconciler, SelectStuck, ClaimStuck, SkipStuck,
     ResolveStuck, LookupFails, FetchStuck, FetchLost, Write, ReconcileRow, GiveUpXml,
     UnchangedInvoices
<1>5. \/ rec'[r].pc = "idle"
      \/ Watches(r) /\ rec'[r].inv = rec[r].inv
      \/ \A l \in late : rec'[r].inv # l.inv
  <2>1. Rest(r) => rec'[r].pc = "idle"
    BY <1>1 DEF Rest, Resting
  <2>2. CASE ClaimStuck(r)
    BY <1>1, <2>2 DEF ClaimStuck, Watches, Cycle
  <2>3. ASSUME NEW i \in Invoices, SelectStuck(r, i)
        PROVE  \A l \in late : rec'[r].inv # l.inv
    BY <1>1, <2>3 DEF SelectStuck, Quiet
  <2> QED
    BY <2>1, <2>2, <2>3 DEF ReconcilerStep, CrashReconciler, SkipStuck, ResolveStuck,
       LookupFails, FetchStuck, FetchLost
<1>6. \A l \in late : inv'[l.inv] = inv[l.inv]
  <2>1. CASE UNCHANGED inv
    BY <2>1
  <2>2. ASSUME NEW row, Write(rec[r].inv, row), Watches(r)
        PROVE  \A l \in late : inv'[l.inv] = inv[l.inv]
    BY <2>2 DEF LateWaits, Write, Typed, RowsOK
  <2> QED
    BY <2>1, <2>2 DEF ReconcilerStep, CrashReconciler, SelectStuck, ClaimStuck, SkipStuck,
       ResolveStuck, LookupFails, FetchStuck, FetchLost, ReconcileRow, GiveUpXml,
       UnchangedInvoices, Watches
<1> QED
  BY <1>1, <1>2, <1>3, <1>4, <1>5, <1>6, SilentLate

LEMMA LateStep ==
    ASSUME Sound, LateWaits, PacIsPrompt, Faults \subseteq {"db"}, [Next]_vars
    PROVE  LateWaits'
<1> USE DEF Sound
<1>1. ASSUME NEW i \in Invoices, EditInvoice(i)
      PROVE  LateWaits'
  <2>1. UNCHANGED <<req, rec, late>> /\ fresh' \subseteq fresh
    BY <1>1 DEF EditInvoice, Write
  <2>2. \A k \in Invoices : inv'[k].status = inv[k].status
    BY <1>1 DEF EditInvoice, Write, Typed, RowsOK, Invoice
  <2>3. \A l \in late : l.inv \in Invoices
    BY DEF Typed, PacOK, Aborted
  <2> QED
    BY <2>1, <2>2, <2>3 DEF LateWaits, NoEmitter, Emitting, Status, Watches
<1>2. ASSUME NEW h \in Handlers, NEW i \in Invoices, UserRequest(h, i)
      PROVE  LateWaits'
  <2>1. UNCHANGED <<inv, rec, late, fresh>> /\ Silent
    BY <1>2, RequestSilent DEF UserRequest, Typed
  <2> QED
    BY <2>1, SilentLate DEF Watches
<1>3. CASE PacStep \/ UNCHANGED vars
  <2>1. UNCHANGED <<inv, rec, req, fresh>> /\ late' \subseteq late
    BY <1>3 DEF PacStep, PacServesLate, PacSettles, PacLists, vars
  <2> QED
    BY <2>1, SilentLate DEF Watches, Silent, Emitting
<1>4. \A h \in Handlers : ~CrashRequest(h)
  BY DEF CrashRequest
<1> QED
  BY <1>1, <1>2, <1>3, <1>4, HandlerLate, ConsumerLate, ReconcilerLate DEF Next

\* A refusal for good was one before, or the PAC gives it and has no document.
LEMMA RefusalMade ==
    ASSUME Typed, Faults \subseteq {"db"}, [Next]_vars, NEW h \in Handlers,
           req'[h].pc = "refused", req'[h].kind # "transient"
    PROVE  /\ req'[h].inv = req[h].inv
           /\ \/ req[h].pc = "refused" /\ req[h].kind # "transient"
              \/ DocsOf(req[h].inv) = {} /\ UNCHANGED pac
<1> USE DEF Serves
<1> DEFINE Goal == /\ req'[h].inv = req[h].inv
                   /\ \/ req[h].pc = "refused" /\ req[h].kind # "transient"
                      \/ DocsOf(req[h].inv) = {} /\ UNCHANGED pac
<1>1. RequestsOK /\ DOMAIN req = Handlers /\ req[h] \in Slot /\ FreeSlot.pc = "idle"
  BY Records DEF Typed, RequestsOK
<1>2. req'[h] = req[h] => Goal
  OBVIOUS
<1>3. ASSUME NEW g \in Handlers, HandlerStep(g)
      PROVE  Goal
  <2>1. ASSUME NEW kind, Answer(g, kind) PROVE Goal
    <3>1. req'[h] = req[h] \/ req'[h] = FreeSlot
             \/ req'[h] = [req[h] EXCEPT !.pc = "answered", !.kind = kind]
      BY <1>1, <2>1 DEF Answer
    <3> QED
      BY <1>1, <1>2, <3>1 DEF Slot
  <2>2. ASSUME NEW pc, GoTo(g, pc), pc # "refused" PROVE Goal
    BY <1>1, <1>2, <2>2 DEF GoTo, Slot
  <2>3. CASE PacAnswers(g)
    <3>1. PICK d, state : req' = [req EXCEPT ![g].pc = AfterAnswer(state), ![g].doc = d,
                                             ![g].kind = state]
      BY <2>3 DEF PacAnswers
    <3> QED
      BY <1>1, <1>2, <3>1 DEF AfterAnswer, Slot
  <2>4. CASE PacRefuses(g)
    <3>1. PICK kind \in {"permanent", "transient"} :
             /\ kind = "permanent" => DocsOf(req[g].inv) = {}
             /\ req' = [req EXCEPT ![g].pc = "refused", ![g].kind = kind]
      BY <2>4 DEF PacRefuses
    <3>2. CASE g = h
      BY <1>1, <2>4, <3>1, <3>2 DEF PacRefuses, Slot
    <3>3. CASE g # h
      BY <1>1, <1>2, <3>1, <3>3
    <3> QED
      BY <3>2, <3>3
  <2>5. CASE PacLosesAnswer(g)
    BY <1>1, <1>2, <2>5 DEF PacLosesAnswer, Slot
  <2> QED
    BY <1>3, <2>1, <2>2, <2>3, <2>4, <2>5 DEF HandlerStep, ClaimInvoice, RefuseConfig,
       StampStub, SendToPac, TimeOut, RecordRefusal, EnqueueRetry, EnqueueLost,
       RecordIncomplete, PersistIds, FinishStamping
<1>4. ASSUME NEW g \in Handlers, NEW i, NEW caller, NEW job, NEW token, NEW verdict,
             StampRequest(g, i, caller, job, token, verdict)
      PROVE  Goal
  <2>1. req'[h] = req[h] \/ req'[h].pc \in {"claim", "answered"}
    BY <1>1, <1>4 DEF StampRequest
  <2> QED
    BY <1>2, <2>1
<1>5. ASSUME NEW c \in Consumers, Disown(c)
      PROVE  Goal
  <2>1. req'[h] = req[h] \/ req'[h] = FreeSlot \/ req'[h] = [req[h] EXCEPT !.caller = User]
    BY <1>5 DEF Disown
  <2> QED
    BY <1>1, <1>2, <2>1 DEF Slot
<1>6. ASSUME NEW c \in Consumers, ConsumerStep(c)
      PROVE  Goal
  <2>1. CASE Collect(c)
    BY <1>1, <1>2, <2>1 DEF Collect
  <2>2. ASSUME NEW g \in Handlers, Invoke(c, g)
        PROVE  Goal
    BY <1>4, <2>2 DEF Invoke
  <2> QED
    BY <1>2, <1>5, <1>6, <2>1, <2>2 DEF ConsumerStep, SelectRow, TakeRow, SkipRow, ReadInvoice,
       LookUp, SaveRecovered, CloseRecovered, StopWaiting, LoseRow
<1>7. ASSUME NEW g \in Handlers, NEW i \in Invoices, UserRequest(g, i)
      PROVE  Goal
  BY <1>4, <1>7 DEF UserRequest
<1>8. ASSUME NEW r \in Reconcilers, ReconcilerStep(r) \/ CrashReconciler(r)
      PROVE  UNCHANGED req
  BY <1>8 DEF ReconcilerStep, CrashReconciler, SelectStuck, ClaimStuck, SkipStuck,
     ResolveStuck, LookupFails, FetchStuck, FetchLost
<1>9. CASE PacStep \/ UNCHANGED vars \/ \E i \in Invoices : EditInvoice(i)
  BY <1>2, <1>9 DEF PacStep, PacServesLate, PacSettles, PacLists, vars, EditInvoice
<1>10. \A g \in Handlers : ~CrashRequest(g)
  BY DEF CrashRequest
<1> QED
  BY <1>2, <1>3, <1>6, <1>7, <1>8, <1>9, <1>10 DEF Next

LEMMA RefusedStep ==
    ASSUME Typed, Exclusive, LateWaits, RefusedBlank, PacIsPrompt,
           Faults \subseteq {"db"}, [Next]_vars
    PROVE  RefusedBlank'
<1> SUFFICES ASSUME NEW h \in Handlers, req'[h].pc = "refused", req'[h].kind # "transient"
             PROVE  DocsOf(req[h].inv)' = {}
  BY DEF RefusedBlank
<1>1. PICK i : i = req'[h].inv
  OBVIOUS
<1>2. /\ req[h].inv = i
      /\ \/ req[h].pc = "refused" /\ req[h].kind # "transient"
         \/ DocsOf(i) = {} /\ UNCHANGED pac
  BY <1>1, RefusalMade
<1>3. DocsOf(i) = {} /\ UNCHANGED pac => DocsOf(i)' = {}
  BY DEF DocsOf
<1>4. ASSUME req[h].pc = "refused", req[h].kind # "transient", DocsOf(i)' # {}
      PROVE  FALSE
  <2>1. DocsOf(i) = {} /\ i \in Invoices /\ Emitting(h)
    BY <1>2, <1>4 DEF RefusedBlank, Typed, RequestsOK, Emitting
  <2>2. Born(i)
    BY <1>4, <2>1, BirthMarked
  <2> QED
    BY <1>2, <1>4, <2>1, <2>2 DEF Born, LateWaits, NoEmitter, Exclusive, SingleEmitter, Emitting
<1>5. DocsOf(i)' = {}
  BY <1>2, <1>3, <1>4
<1> QED
  BY <1>1, <1>5 DEF DocsOf

\* One run moves, or none.
LEMMA RunsStand ==
    ASSUME Typed, QueueInv, Faults \subseteq {"db"}, [Next]_vars
    PROVE  \/ UNCHANGED <<hold, work>>
           \/ \E c \in Consumers : ConsumerStep(c) /\ OnlyRun(c)
<1>1. DOMAIN hold = Consumers /\ DOMAIN work = Consumers
  BY DEF QueueInv, Queue!TypeOK, Typed, WorkOK
<1>2. ASSUME NEW c \in Consumers, ConsumerStep(c)
      PROVE  OnlyRun(c)
  <2>1. UNCHANGED rec
    BY <1>2 DEF ConsumerStep, SelectRow, TakeRow, SkipRow, ReadInvoice, LookUp, SaveRecovered,
       CloseRecovered, Invoke, Collect, StopWaiting, LoseRow
  <2>2. Queue!Outcome(c) => Only(c)
    BY OutcomeSettlesRow
  <2>3. Only(c)
    BY <1>1, <1>2, <2>2 DEF ConsumerStep, SelectRow, TakeRow, SkipRow, ReadInvoice, LookUp,
       SaveRecovered, CloseRecovered, Invoke, Collect, StopWaiting, LoseRow, Only,
       Queue!SelectRow, Queue!Claim, Queue!ClaimSkipped, Queue!LeaseLost, Queue!Abandon,
       Queue!Outcome
  <2>4. \A b \in Consumers \ {c} : work'[b] = work[b]
    BY <1>1, <1>2 DEF ConsumerStep, SelectRow, TakeRow, SkipRow, ReadInvoice, LookUp,
       SaveRecovered, CloseRecovered, Invoke, Collect, StopWaiting, LoseRow, Done
  <2> QED
    BY <2>1, <2>3, <2>4 DEF OnlyRun, Only
<1>3. ASSUME NEW h \in Handlers, HandlerStep(h)
      PROVE  UNCHANGED <<hold, work>>
  BY <1>3 DEF HandlerStep, ClaimInvoice, RefuseConfig, StampStub, SendToPac,
     PacAnswers, PacRefuses, PacLosesAnswer, TimeOut, RecordRefusal, EnqueueRetry,
     EnqueueLost, RecordIncomplete, PersistIds, FinishStamping, Queue!Enqueue
<1>4. CASE \/ PacStep \/ UNCHANGED vars
           \/ \E i \in Invoices : EditInvoice(i)
           \/ \E h \in Handlers, i \in Invoices : UserRequest(h, i)
           \/ \E r \in Reconcilers : ReconcilerStep(r) \/ CrashReconciler(r)
  BY <1>4 DEF PacStep, PacServesLate, PacSettles, PacLists, vars, EditInvoice, UserRequest,
     ReconcilerStep, CrashReconciler, SelectStuck, ClaimStuck, SkipStuck, ResolveStuck,
     LookupFails, FetchStuck, FetchLost
<1>5. \A h \in Handlers : ~CrashRequest(h)
  BY DEF CrashRequest
<1> QED
  BY <1>2, <1>3, <1>4, <1>5 DEF Next

LEMMA CloseStep ==
    ASSUME Typed, QueueInv, CloseSaved, AllKeep, Faults \subseteq {"db"}, [Next]_vars
    PROVE  CloseSaved'
<1> SUFFICES ASSUME NEW c \in Consumers, work'[c].step = "close"
             PROVE  inv'[SubjectOf(c)'].fid # NoDoc
  BY DEF CloseSaved
<1>1. ASSUME hold'[c] = hold[c], work'[c] = work[c]
      PROVE  inv'[SubjectOf(c)'].fid # NoDoc
  <2>1. SubjectOf(c)' = SubjectOf(c) /\ SubjectOf(c) \in Invoices
    BY <1>1, SubjectIsInvoice DEF SubjectOf, Typed
  <2> QED
    BY <1>1, <2>1 DEF CloseSaved, AllKeep, Keeps
<1>2. ASSUME ConsumerStep(c)
      PROVE  inv'[SubjectOf(c)'].fid # NoDoc
  <2>1. /\ work[c] \in Work /\ DOMAIN work = Consumers /\ DOMAIN hold = Consumers
        /\ work[c].step = "close" => hold[c].phase = "owner"
    BY DEF Typed, WorkOK, QueueInv, Queue!TypeOK
  <2>2. CASE SaveRecovered(c) /\ UNCHANGED hold
    <3>1. PICK i, row :
             /\ i = SubjectOf(c) /\ Write(i, row) /\ work[c].step = "save"
             /\ row = [inv[i] EXCEPT
                          !.fid = work[c].doc,
                          !.uuid = IF work[c].kind = "valid" THEN work[c].doc ELSE @,
                          !.status = IF work[c].kind = "failed" THEN "error" ELSE "stamping"]
      <4>1. ~Done(c)
        BY <2>1 DEF Done, NoWork
      <4> QED
        BY <2>2, <4>1 DEF SaveRecovered, Step
    <3>2. i \in Invoices /\ inv[i] \in Invoice /\ work[c].doc # NoDoc /\ DOMAIN inv = Invoices
      <4>1. SubjectOf(c) \in Invoices
        BY <3>1, SubjectIsInvoice DEF Typed
      <4> QED
        BY <3>1, <4>1, Ids DEF Typed, RowsOK, WorkOK
    <3>3. inv'[i].fid = work[c].doc
      BY <3>1, <3>2 DEF Write, Invoice
    <3>4. SubjectOf(c)' = i
      BY <2>2, <3>1 DEF SubjectOf
    <3> QED
      BY <3>2, <3>3, <3>4
  <2>3. ~TakeRow(c) /\ ~ReadInvoice(c) /\ \A h \in Handlers : ~Invoke(c, h)
    BY <2>1 DEF TakeRow, ReadInvoice, Invoke, Done, NoWork, Work
  <2>6. ~LookUp(c)
    <3> SUFFICES ASSUME LookUp(c) PROVE FALSE
      OBVIOUS
    <3>1. work' # [work EXCEPT ![c].step = "invoke"] /\ ~Done(c)
      BY <2>1 DEF Work, Done, NoWork
    <3>2. PICK d : work' = [work EXCEPT ![c].step = "save", ![c].doc = d,
                                        ![c].kind = pac[d].state]
      BY <3>1 DEF LookUp
    <3> QED
      BY <2>1, <3>2 DEF Work
  <2>4. CASE (\E j \in Jobs : SelectRow(c, j)) \/ SkipRow(c)
    BY <2>1, <2>4 DEF SelectRow, SkipRow, Queue!SelectRow, Queue!ClaimSkipped
  <2>5. Done(c) => FALSE
    BY <2>1 DEF Done, NoWork
  <2> QED
    BY <1>2, <2>2, <2>3, <2>4, <2>5, <2>6 DEF ConsumerStep, SaveRecovered, CloseRecovered, Collect,
       StopWaiting, LoseRow
<1> QED
  BY <1>1, <1>2, RunsStand DEF OnlyRun

LEMMA DocFactsStep ==
    ASSUME Sound, Leases, DocFacts, PacIsPrompt, Faults \subseteq {"db"}, [Next]_vars
    PROVE  DocFacts'
<1>1. Indexed' /\ LateWaits' /\ RefusedBlank'
  BY IndexedStep, LateStep, RefusedStep DEF Sound, DocFacts
<1>2. AllKeep
  BY IdentityStep DEF Sound
<1>3. CloseSaved'
  BY <1>2, CloseStep DEF Sound, DocFacts
<1>4. UuidHasId'
  BY WroteStep DEF UuidHasId, Wrote
<1> QED
  BY <1>1, <1>3, <1>4 DEF DocFacts

LEMMA SoundHolds == Spec => []Sound
BY TypedHolds, QueueInvHolds, ExclusiveHolds, OwnDocsHolds, IdentityHolds, PTL DEF Sound

LEMMA DocFactsHold == PacIsPrompt /\ Faults \subseteq {"db"} => (Spec => []DocFacts)
<1> SUFFICES ASSUME PacIsPrompt, Faults \subseteq {"db"} PROVE Spec => []DocFacts
  OBVIOUS
<1>1. Init => DocFacts
  BY DEF Init, DocFacts, Indexed, LateWaits, RefusedBlank, UuidHasId, CloseSaved, NoDocument,
     FreeSlot, NoWork, Draft
<1>2. Sound /\ Leases /\ DocFacts /\ [Next]_vars => DocFacts'
  BY DocFactsStep
<1> QED
  BY <1>1, <1>2, SoundHolds, LeasesHold, PTL DEF Spec

-----------------------------------------------------------------------------
(* A document whose invoice does not show it has a carrier.                *)

Hidden(i) == Status(i) \in Unmarked /\ inv[i].fid = NoDoc /\ DocsOf(i) # {}

\* A request about to enqueue a retry of i.
Enqueues(h, i) == req[h].pc = "enqueue" /\ req[h].inv = i

\* An open row of the queue that is to be looked up before anything is sent.
Carrier(j) ==
    /\ queue[j].status \in {"pending", "processing"}
    /\ \A c \in Consumers :
          hold[c].job = j /\ Queue!Owns(c) => work[c].step \notin {"invoke", "await"}

Carried ==
    \A i \in Invoices : Hidden(i) =>
        \/ \E h \in Handlers : Enqueues(h, i)
        \/ \E j \in Jobs : DocOf[j] = i /\ Carrier(j)

\* A document is hidden by a refusal that is about to enqueue a retry, and by
\* nothing else.
LEMMA HiddenBefore ==
    ASSUME Sound, Leases, DocFacts, PacIsPrompt, Faults \subseteq {"db"}, [Next]_vars,
           NEW i \in Invoices, Hidden(i)', \A h \in Handlers : ~Enqueues(h, i)'
    PROVE  Hidden(i)
<1>1. /\ inv'[i].status \in Unmarked /\ inv'[i].fid = NoDoc /\ DocsOf(i)' # {}
      /\ inv[i] \in Invoice
  BY DEF Hidden, Status, Sound, Typed, RowsOK
<1>2. inv[i].fid = NoDoc /\ inv[i].status # "stamped"
  <2>1. AllKeep
    BY IdentityStep DEF Sound
  <2> QED
    BY <1>1, <2>1 DEF AllKeep, Keeps, Unmarked
<1>3. Status(i) # "stamping"
  <2>1. Wrote(i)
    BY WroteStep
  <2>2. DocsOf(i) = {} /\ UNCHANGED pac => DocsOf(i)' = {}
    BY DEF DocsOf
  <2> QED
    BY <1>1, <2>1, <2>2 DEF Wrote, Enqueues
<1>4. DocsOf(i) # {}
  BY <1>1, <1>3, BirthMarked DEF Sound, DocFacts
<1> QED
  BY <1>1, <1>2, <1>3, <1>4 DEF Hidden, Status, Unmarked, Invoice

\* A carrier whose row stands still.
LEMMA CarrierKept ==
    ASSUME NEW j \in Jobs, Carrier(j), queue'[j] = queue[j],
           \A d \in Consumers : hold'[d].phase = "owner" /\ hold'[d].job = j =>
               hold'[d] = hold[d]
               /\ (work'[d] = work[d] \/ work'[d].step \notin {"invoke", "await"})
    PROVE  Carrier(j)'
BY DEF Carrier, Queue!Owns

\* A row that is pending has no owner.
LEMMA PendingCarries ==
    ASSUME NEW j \in Jobs, queue'[j].status = "pending"
    PROVE  Carrier(j)'
BY DEF Carrier, Queue!Owns

\* A run looks the document up before it sends anything.
LEMMA CarrierRun ==
    ASSUME Sound, Leases, DocFacts, Faults \subseteq {"db"}, [Next]_vars,
           NEW c \in Consumers, ConsumerStep(c), OnlyRun(c),
           NEW j \in Jobs, Hidden(DocOf[j]), Hidden(DocOf[j])', Carrier(j)
    PROVE  Carrier(j)'
<1> USE DEF Sound
<1>1. /\ DOMAIN work = Consumers /\ DOMAIN hold = Consumers /\ DOMAIN queue = Jobs
      /\ work[c] \in Work /\ DocOf[j] \in Invoices
      /\ \A d \in Consumers \ {c} : hold'[d] = hold[d] /\ work'[d] = work[d]
      /\ (work[c].step = "none") <=> (hold[c].phase # "owner")
  BY StampingAssumption DEF Typed, WorkOK, QueueInv, Queue!TypeOK, OnlyRun
<1>2. ASSUME UNCHANGED queue,
             hold'[c].phase # "owner" \/ (hold'[c] = hold[c]
                                          /\ work'[c].step \notin {"invoke", "await"})
      PROVE  Carrier(j)'
  BY <1>1, <1>2, CarrierKept
<1>3. CASE hold[c].job # j /\ Queue!Outcome(c)
  <2>1. hold'[c] = Queue!Idle /\ queue'[j] = queue[j]
    BY <1>3, OutcomeSettlesRow DEF Moves
  <2> QED
    BY <1>1, <2>1, CarrierKept DEF Queue!Idle
<1>4. CASE Queue!Defer(c)
  <2>1. CASE hold[c].job = j
    <3>1. queue'[j].status = "pending"
      BY <1>1, <1>4, <2>1 DEF Queue!Defer, Queue!Settle, Queue!Touched
    <3> QED
      BY <3>1, PendingCarries
  <2> QED
    BY <1>3, <1>4, <2>1 DEF Queue!Outcome
<1>5. hold[c].job = j => SubjectOf(c) = DocOf[j]
  BY DEF SubjectOf
<1>6. CASE (\E k \in Jobs : SelectRow(c, k)) \/ SkipRow(c) \/ LoseRow(c)
  <2>1. UNCHANGED queue /\ hold'[c].phase # "owner"
    BY <1>1, <1>6 DEF SelectRow, SkipRow, LoseRow, Queue!SelectRow, Queue!ClaimSkipped,
       Queue!LeaseLost, Queue!Abandon, Queue!Idle
  <2> QED
    BY <1>2, <2>1
<1>7. CASE TakeRow(c)
  <2>1. /\ hold[c].job \in Jobs /\ hold'[c].job = hold[c].job /\ Moves(hold[c].job)
        /\ queue'[hold[c].job].updatedAt = queue[hold[c].job].updatedAt + 1
        /\ queue'[hold[c].job].status = "processing" /\ work'[c].step = "read"
    BY <1>1, <1>7, ClaimTakesRow DEF TakeRow, Work
  <2>2. CASE hold[c].job # j
    BY <1>1, <2>1, <2>2, CarrierKept DEF Moves
  <2>3. CASE hold[c].job = j
    <3>1. ASSUME NEW d \in Consumers \ {c}, hold'[d].job = j, Queue!Owns(d)' PROVE FALSE
      <4>1. hold[d].phase = "owner" /\ hold[d].job = j
            /\ hold[d].row.updatedAt = queue[j].updatedAt + 1
        BY <1>1, <2>1, <2>3, <3>1 DEF Queue!Owns
      <4>2. hold[d].row.updatedAt <= queue[j].updatedAt
        BY <4>1 DEF Leases, Versions
      <4> QED
        BY <4>1, <4>2, VersionNumbers
    <3> QED
      BY <2>1, <2>3, <3>1 DEF Carrier
  <2> QED
    BY <2>2, <2>3
<1>8. CASE ReadInvoice(c) /\ ~Queue!Defer(c)
  <2>1. CASE hold[c].job = j /\ ~NoOp(inv[SubjectOf(c)])
    <3>1. UNCHANGED <<queue, hold>> /\ work'[c].step = "lookup"
      BY <1>1, <1>8, <2>1 DEF ReadInvoice, Work
    <3> QED
      BY <1>2, <3>1
  <2>2. CASE hold[c].job = j /\ NoOp(inv[SubjectOf(c)])
    BY <1>1, <1>5, <2>2 DEF NoOp, Hidden, Status, Unmarked, DocFacts, UuidHasId
  <2>3. CASE hold[c].job # j
    <3>1. CASE UNCHANGED <<queue, hold>> /\ work' = [work EXCEPT ![c].step = "lookup"]
      BY <1>1, <1>2, <3>1 DEF Work
    <3>2. CASE Queue!Outcome(c)
      BY <1>3, <2>3, <3>2
    <3> QED
      BY <1>8, <3>1, <3>2 DEF ReadInvoice, Queue!Outcome
  <2> QED
    BY <2>1, <2>2, <2>3
<1>9. CASE LookUp(c)
  <2>1. CASE /\ Found(SubjectOf(c), NoDoc) = {} /\ UNCHANGED <<queue, hold>>
             /\ work' = [work EXCEPT ![c].step = "invoke"]
    <3>1. hold[c].job # j
      BY <1>1, <1>5, <2>1, StampingAssumption DEF Found, DocsOf, Hidden, DocFacts, Indexed
    <3> QED
      BY <1>1, <2>1, <3>1, CarrierKept
  <2>2. CASE /\ UNCHANGED <<queue, hold>>
             /\ \E d : work' = [work EXCEPT ![c].step = "save", ![c].doc = d,
                                            ![c].kind = pac[d].state]
    <3>1. work'[c].step = "save"
      BY <1>1, <2>2 DEF Work
    <3> QED
      BY <1>2, <2>2, <3>1
  <2> QED
    BY <1>4, <1>9, <2>1, <2>2 DEF LookUp
<1>10. CASE SaveRecovered(c)
  <2>1. CASE UNCHANGED <<queue, hold>> /\ work' = [work EXCEPT ![c].step = "close"]
    BY <1>1, <1>2, <2>1 DEF Work
  <2> QED
    BY <1>4, <1>10, <2>1 DEF SaveRecovered
<1>11. CASE CloseRecovered(c)
  <2>1. work[c].step = "close" /\ Queue!Outcome(c)
    BY <1>11 DEF CloseRecovered, Step, Queue!Outcome
  <2>2. hold[c].job # j
    BY <1>5, <2>1 DEF DocFacts, CloseSaved, Hidden
  <2> QED
    BY <1>3, <2>1, <2>2
<1>12. ASSUME work[c].step \in {"invoke", "await"}, Queue!Owns(c)
       PROVE  hold[c].job # j
  BY <1>12 DEF Carrier
<1>13. ASSUME NEW h \in Handlers, Invoke(c, h)
       PROVE  Carrier(j)'
  <2>1. hold[c].job # j /\ UNCHANGED <<queue, hold>>
    BY <1>12, <1>13 DEF Invoke, Step
  <2> QED
    BY <1>1, <2>1, CarrierKept
<1>14. CASE Collect(c) \/ StopWaiting(c)
  <2>1. Queue!Outcome(c) /\ work[c].step = "await"
    BY <1>14 DEF Collect, StopWaiting, Step, Queue!Outcome
  <2>2. Queue!Owns(c)
    BY <2>1, OutcomeSettlesRow
  <2> QED
    BY <1>3, <1>12, <2>1, <2>2
<1> QED
  BY <1>4, <1>6, <1>7, <1>8, <1>9, <1>10, <1>11, <1>13, <1>14 DEF ConsumerStep

LEMMA CarrierStays ==
    ASSUME Sound, Leases, DocFacts, Faults \subseteq {"db"}, [Next]_vars,
           NEW j \in Jobs, Hidden(DocOf[j]), Hidden(DocOf[j])', Carrier(j)
    PROVE  Carrier(j)'
<1>1. CASE UNCHANGED <<hold, work>>
  <2>1. QueueInv /\ [Queue!Next]_<<queue, hold>>
    BY StepIsQueueStep DEF Sound, vars
  <2>2. queue'[j] = queue[j]
    <3>1. \A c \in Consumers : ~Queue!Claim(c) /\ ~Queue!Outcome(c)
      BY <1>1, <2>1, ClaimTakesRow, OutcomeSettlesRow DEF Queue!Owns, Queue!Idle
    <3>2. \A k \in Jobs : Queue!Enqueue(k) => queue'[j] = queue[j]
      BY <2>1 DEF Queue!Enqueue, Carrier, QueueInv, Queue!TypeOK
    <3> QED
      BY <2>1, <3>1, <3>2, QueueSteps DEF Queue!SelectRow
  <2> QED
    BY <1>1, <2>2, CarrierKept
<1> QED
  BY <1>1, CarrierRun, RunsStand DEF Sound

\* A request about to enqueue a retry does so.
LEMMA EnqueueGoes ==
    ASSUME Typed, Faults \subseteq {"db"}, [Next]_vars, NEW h \in Handlers, NEW i \in Invoices,
           Enqueues(h, i), ~Enqueues(h, i)'
    PROVE  \E j \in Jobs : EnqueueRetry(h, j)
<1> USE DEF Serves
<1> SUFFICES ASSUME \A j \in Jobs : ~EnqueueRetry(h, j) PROVE FALSE
  OBVIOUS
<1>1. DOMAIN req = Handlers /\ req[h] \in Slot /\ req[h].pc = "enqueue" /\ req'[h] # req[h]
  BY DEF Typed, RequestsOK, Enqueues
<1>2. ASSUME NEW g \in Handlers, HandlerStep(g) PROVE FALSE
  <2>1. CASE g = h
    BY <1>1, <1>2, <2>1 DEF HandlerStep, ClaimInvoice, RefuseConfig, StampStub, SendToPac,
       PacAnswers, PacRefuses, PacLosesAnswer, TimeOut, RecordRefusal, EnqueueLost,
       RecordIncomplete, PersistIds, FinishStamping
  <2>2. CASE g # h
    BY <1>1, <1>2, <2>2 DEF HandlerStep, ClaimInvoice, RefuseConfig, StampStub, SendToPac,
       PacAnswers, PacRefuses, PacLosesAnswer, TimeOut, RecordRefusal, EnqueueRetry,
       EnqueueLost, RecordIncomplete, PersistIds, FinishStamping, Answer, GoTo
  <2> QED
    BY <2>1, <2>2
<1>3. ASSUME NEW g \in Handlers, NEW k, NEW caller, NEW job, NEW token, NEW verdict,
             StampRequest(g, k, caller, job, token, verdict)
      PROVE  FALSE
  BY <1>1, <1>3 DEF StampRequest
<1>4. ASSUME NEW c \in Consumers, Disown(c) PROVE FALSE
  <2>1. req'[h] = [req[h] EXCEPT !.caller = User]
    BY <1>1, <1>4 DEF Disown
  <2> QED
    BY <1>1, <2>1 DEF Enqueues, Slot
<1>5. ASSUME NEW c \in Consumers, ConsumerStep(c) PROVE FALSE
  <2>1. ~Collect(c)
    BY <1>1 DEF Collect
  <2>2. \A g \in Handlers : ~Invoke(c, g)
    BY <1>3 DEF Invoke
  <2> QED
    BY <1>1, <1>4, <1>5, <2>1, <2>2 DEF ConsumerStep, SelectRow, TakeRow, SkipRow, ReadInvoice,
       LookUp, SaveRecovered, CloseRecovered, StopWaiting, LoseRow
<1>6. \A g \in Handlers, k \in Invoices : ~UserRequest(g, k)
  BY <1>3 DEF UserRequest
<1>7. \A r \in Reconcilers : ~ReconcilerStep(r) /\ ~CrashReconciler(r)
  BY <1>1 DEF ReconcilerStep, CrashReconciler, SelectStuck, ClaimStuck, SkipStuck,
     ResolveStuck, LookupFails, FetchStuck, FetchLost
<1>8. ~PacStep /\ ~UNCHANGED vars /\ \A k \in Invoices : ~EditInvoice(k)
  BY <1>1 DEF PacStep, PacServesLate, PacSettles, PacLists, vars, EditInvoice
<1>9. \A g \in Handlers : ~CrashRequest(g)
  BY DEF CrashRequest
<1> QED
  BY <1>2, <1>5, <1>6, <1>7, <1>8, <1>9 DEF Next

LEMMA CarriedStep ==
    ASSUME Sound, Leases, DocFacts, Carried, PacIsPrompt,
           Faults \subseteq {"db"}, [Next]_vars
    PROVE  Carried'
<1> SUFFICES ASSUME NEW i \in Invoices, Hidden(i)', \A h \in Handlers : ~Enqueues(h, i)'
             PROVE  \E j \in Jobs : DocOf[j] = i /\ Carrier(j)'
  BY DEF Carried
<1>1. Hidden(i)
  BY HiddenBefore
<1>2. ASSUME NEW h \in Handlers, Enqueues(h, i)
      PROVE  \E j \in Jobs : DocOf[j] = i /\ Carrier(j)'
  <2>1. PICK j \in Jobs : EnqueueRetry(h, j)
    BY <1>2, EnqueueGoes DEF Sound
  <2>2. DocOf[j] = i /\ queue'[j].status = "pending"
    BY <1>2, <2>1 DEF EnqueueRetry, Enqueues, Queue!Enqueue, Queue!InsertedRow, Sound,
       QueueInv, Queue!TypeOK
  <2> QED
    BY <2>2, PendingCarries
<1>3. ASSUME NEW j \in Jobs, DocOf[j] = i, Carrier(j)
      PROVE  \E k \in Jobs : DocOf[k] = i /\ Carrier(k)'
  <2>1. Hidden(DocOf[j]) /\ Hidden(DocOf[j])'
    BY <1>1, <1>3
  <2> QED
    BY <1>3, <2>1, CarrierStays
<1> QED
  BY <1>1, <1>2, <1>3 DEF Carried

\* With a PAC that settles an aborted request before its row is stale, and while
\* nothing fails but reads and writes of invoices, no CFDI is forgotten: for any
\* number of invoices, requests, rows of the queue and runs, a document that the row
\* does not show is on its way to it.
THEOREM IssuedCfdiAreTracked ==
    PacIsPrompt /\ Faults \subseteq {"db"} => (Spec => []IssuedIsTracked)
<1> SUFFICES ASSUME PacIsPrompt, Faults \subseteq {"db"} PROVE Spec => []IssuedIsTracked
  OBVIOUS
<1>1. Init => Carried
  BY StampingAssumption DEF Init, Carried, Hidden, DocsOf, NoDocument
<1>2. Sound /\ Leases /\ DocFacts /\ Carried /\ [Next]_vars => Carried'
  BY CarriedStep
<1>3. Sound /\ DocFacts /\ Carried => IssuedIsTracked
  <2> SUFFICES ASSUME Sound, DocFacts, Carried, NEW d \in Documents, NEW i,
                      i = pac[d].inv, i # NoInvoice, inv[i].fid # d,
                      inv[i].status # "stamping",
                      \A h \in Handlers : ~Enqueues(h, i)
               PROVE  \E j \in Jobs : DocOf[j] = i /\ queue[j].status \in {"pending", "processing"}
    BY DEF IssuedIsTracked, Enqueues, Serves
  <2>1. i \in Invoices /\ d \in DocsOf(i) /\ inv[i] \in Invoice
    BY DEF Sound, Typed, PacOK, PacDocument, RowsOK, DocsOf
  <2>2. Identified(inv[i], i)
    BY <2>1 DEF Sound, Identity, RowsIdentified
  <2>3. inv[i].fid = NoDoc
    BY <2>1, <2>2 DEF Identified, DocsOf, Sound, OwnDocs, OneDocument
  <2>4. inv[i].status # "stamped"
    BY <2>1, <2>2, <2>3 DEF Identified, DocFacts, UuidHasId
  <2>5. Hidden(i)
    BY <2>1, <2>3, <2>4 DEF Hidden, Status, Unmarked, Invoice
  <2> QED
    BY <2>1, <2>5 DEF Carried, Carrier
<1> QED
  BY <1>1, <1>2, <1>3, SoundHolds, LeasesHold, DocFactsHold, PTL DEF Spec
=============================================================================
