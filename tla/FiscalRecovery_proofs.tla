------------------------ MODULE FiscalRecovery_proofs ------------------------
(***************************************************************************)
(* Proofs about the recovery of retry jobs by operators, for any number of *)
(* jobs, runs, operators and requests, any kinds of failure, and operators *)
(* that act while the invoice is being stamped, too.                       *)
(*                                                                         *)
(* The queue is no longer that of CfdiRetryQueue: operators write its rows *)
(* too, and a retry adds an attempt to the budget.  What is left of its    *)
(* invariant is the meaning of the token, which reservations share, and    *)
(* with it the budget, once the grants of operators are added to it.  What *)
(* keeps the requests of an invoice apart does not need the queue, and so  *)
(* holds with operators, too; a second part follows the id of a CFDI from  *)
(* the write that saves it to the row that is 'stamped', and a third asks  *)
(* whose ids an operator saves.  The last part shows that the rows still   *)
(* keep an ownership contract, OperatedLease.                              *)
(***************************************************************************)
EXTENDS RecoveryHistory, InvoiceIdentity_proofs

Owner(c) == hold[c].phase = "owner"
Token(c) == hold[c].row.updatedAt

\* A token that was handed out for j is no newer than the row, which exists.
Given(j, token) ==
    /\ j \in Jobs
    /\ queue[j].status # "absent"
    /\ token <= queue[j].updatedAt

\* Runs and pending reservations hold tokens of rows that exist ...
TokensGiven ==
    /\ \A c \in Consumers : hold[c].phase # "idle" => Given(hold[c].job, Token(c))
    /\ \A a \in Actions : Pending(a) => Given(act[a].job, act[a].token)

\* ... and no two of them the same token of the same row.
TokensDiffer ==
    /\ \A c, d \in Consumers :
          Owner(c) /\ Owner(d) /\ hold[c].job = hold[d].job /\ Token(c) = Token(d) => c = d
    /\ \A a, b \in Actions : Pending(a) /\ Pending(b) /\ act[a].job = act[b].job => a = b
    /\ \A a \in Actions, c \in Consumers :
          Pending(a) /\ Owner(c) /\ act[a].job = hold[c].job => act[a].token # Token(c)

\* An action that goes on is about a job.
ActionsOK ==
    /\ act \in [Actions -> Action] /\ asSeen \subseteq Actions
    /\ \A a \in Actions :
          /\ Pending(a) \/ ~At(a, "none") => act[a].job \in Jobs
          /\ Pending(a) => act[a].prev # "none"

RecoveryInv == QueueInv /\ Typed /\ ActionsOK /\ TokensGiven /\ TokensDiffer

-----------------------------------------------------------------------------
(* Steps of the queue.                                                     *)

\* Every outcome of a run is one guarded write of a well-typed row.
LEMMA OutcomeWrites ==
    ASSUME Queue!TypeOK, NEW c \in Consumers, Queue!Outcome(c)
    PROVE  \E s \in {"pending"} \cup Queue!Terminal, n \in Nat, d \in Nat :
              Queue!Settle(c, s, n, d)
<1> DEFINE n == Queue!Held(c).attempts
           d == Queue!Held(c).deferrals
<1>1. n \in Nat /\ d \in Nat /\ n + 1 \in Nat /\ d + 1 \in Nat /\ 0 \in Nat
  BY DEF Queue!TypeOK, Queue!Row, Queue!Held
<1>2. {"pending", "succeeded", "exhausted"} \subseteq {"pending"} \cup Queue!Terminal
  BY DEF Queue!Terminal
<1>3. \E s \in {"pending", "succeeded", "exhausted"}, m \in {n, n + 1}, e \in {0, d, d + 1} :
         Queue!Settle(c, s, m, e)
  BY DEF Queue!Outcome, Queue!SucceedRecovered, Queue!SucceedInvoked, Queue!SucceedRefreshed,
     Queue!Defer, Queue!GiveUp, Queue!GiveUpUncounted, Queue!DeferConflict,
     Queue!RefuseConflict, Queue!RetryAnswered, Queue!RetryThrown, Queue!TerminalStatus
<1> HIDE DEF n, d
<1> QED
  BY <1>1, <1>2, <1>3

\* A step that hands out no token: rows only grow, runs and actions go on with
\* what they hold or let go.
Grows ==
    \A j \in Jobs : queue[j].status # "absent" =>
        queue'[j].status # "absent" /\ queue'[j].updatedAt >= queue[j].updatedAt

RunsLetGo == \A c \in Consumers : hold'[c] = hold[c] \/ hold'[c].phase = "idle"

ActionsLetGo ==
    \A a \in Actions : Pending(a)' =>
        Pending(a) /\ act'[a].job = act[a].job /\ act'[a].token = act[a].token

LEMMA NoTokenGiven ==
    ASSUME RecoveryInv, Queue!TypeOK', Grows, RunsLetGo, ActionsLetGo
    PROVE  (TokensGiven /\ TokensDiffer)'
<1>1. TokensGiven'
  <2>1. ASSUME NEW j, NEW t \in Nat, Given(j, t)
        PROVE  j \in Jobs /\ queue'[j].status # "absent" /\ t <= queue'[j].updatedAt
    BY <2>1 DEF Given, Grows, RecoveryInv, QueueInv, Queue!TypeOK, Queue!Row
  <2>2. ASSUME NEW c \in Consumers, hold'[c].phase # "idle"
        PROVE  Given(hold[c].job, Token(c))'
    <3>1. hold'[c] = hold[c]
      BY <2>2 DEF RunsLetGo
    <3> QED
      BY <2>1, <2>2, <3>1
      DEF RecoveryInv, TokensGiven, Given, Token, QueueInv, Queue!TypeOK, Queue!Row
  <2>3. ASSUME NEW a \in Actions, Pending(a)'
        PROVE  Given(act[a].job, act[a].token)'
    <3>1. /\ Pending(a) /\ act[a].token \in Nat
          /\ act'[a].job = act[a].job /\ act'[a].token = act[a].token
      BY <2>3 DEF ActionsLetGo, RecoveryInv, ActionsOK, Action
    <3> QED
      BY <2>1, <3>1 DEF RecoveryInv, TokensGiven, Given
  <2> QED
    BY <2>2, <2>3 DEF TokensGiven, Token
<1>2. TokensDiffer'
  <2>1. \A c \in Consumers : Owner(c)' => Owner(c) /\ hold'[c] = hold[c] /\ Token(c)' = Token(c)
    BY DEF RunsLetGo, Owner, Token
  <2> QED
    BY <2>1 DEF RecoveryInv, TokensDiffer, ActionsLetGo
<1> QED
  BY <1>1, <1>2

\* A run that goes idle: what it held is let go.
LEMMA RunRests ==
    ASSUME Queue!TypeOK, NEW c \in Consumers, hold' = [hold EXCEPT ![c] = Queue!Idle]
    PROVE  /\ hold' \in [Consumers -> [phase: Queue!Phase, job: Jobs \cup {NoJob},
                                       row: Queue!Row]]
           /\ RunsLetGo
<1>1. Queue!Idle \in [phase: Queue!Phase, job: Jobs \cup {NoJob}, row: Queue!Row]
  BY DEF Queue!Idle, Queue!Phase, Queue!Row, Queue!AbsentRow, Queue!Status
<1> QED
  BY <1>1 DEF Queue!TypeOK, RunsLetGo, Queue!Idle

\* Writing a row moves its updated_at on.
LEMMA QueueRowWritten ==
    ASSUME Queue!TypeOK, NEW j \in Jobs, NEW s \in Queue!Status \ {"absent"}, NEW n \in Nat,
           NEW d \in Nat, queue' = [queue EXCEPT ![j] = Queue!Touched(@, s, n, d)]
    PROVE  /\ queue' \in [Jobs -> Queue!Row]
           /\ Grows
           /\ queue'[j].status = s /\ queue'[j].updatedAt = queue[j].updatedAt + 1
           /\ \A i \in Jobs \ {j} : queue'[i] = queue[i]
<1>1. queue[j] \in Queue!Row /\ queue[j].updatedAt + 1 \in Nat
  BY DEF Queue!TypeOK, Queue!Row
<1>2. Queue!Touched(queue[j], s, n, d) \in Queue!Row
  BY <1>1 DEF Queue!Touched, Queue!Row
<1>3. /\ queue'[j] = Queue!Touched(queue[j], s, n, d)
      /\ \A i \in Jobs \ {j} : queue'[i] = queue[i]
  BY DEF Queue!TypeOK
<1>4. Grows
  BY <1>1, <1>3 DEF Grows, Queue!Touched, Queue!TypeOK, Queue!Row
<1> QED
  BY <1>2, <1>3, <1>4 DEF Queue!TypeOK, Queue!Touched

\* The two steps of a run that take what they read into their hands: the reading
\* is as new as the row ...
LEMMA SelectKeeps ==
    ASSUME RecoveryInv, NEW c \in Consumers, NEW j \in Jobs, Queue!SelectRow(c, j),
           UNCHANGED act
    PROVE  (QueueInv /\ TokensGiven /\ TokensDiffer)'
<1> DEFINE seen == [phase |-> "selected", job |-> j, row |-> queue[j]]
<1>1. /\ queue' = queue /\ queue[j] \in Queue!Row /\ queue[j].status # "absent"
      /\ hold' = [hold EXCEPT ![c] = seen]
  BY DEF RecoveryInv, QueueInv, Queue!TypeOK, Queue!SelectRow
<1>2. /\ hold'[c] = seen
      /\ \A b \in Consumers \ {c} : hold'[b] = hold[b]
  BY <1>1 DEF RecoveryInv, QueueInv, Queue!TypeOK
<1>3. Queue!TypeOK'
  <2>1. seen \in [phase: Queue!Phase, job: Jobs \cup {NoJob}, row: Queue!Row]
    BY <1>1 DEF Queue!Phase
  <2> QED
    BY <1>1, <2>1 DEF RecoveryInv, QueueInv, Queue!TypeOK
<1>4. TokensGiven'
  <2>1. Given(hold[c].job, Token(c))'
    BY <1>1, <1>2 DEF Given, Token, Queue!Row
  <2> QED
    BY <1>1, <1>2, <2>1 DEF RecoveryInv, TokensGiven, Given, Token, Pending
<1>5. TokensDiffer'
  BY <1>2 DEF RecoveryInv, TokensDiffer, Owner, Token, Pending
<1> QED
  BY <1>3, <1>4, <1>5 DEF QueueInv, TokensGiven, Given

\* ... and the token of a claim is newer than every other.
LEMMA ClaimKeeps ==
    ASSUME RecoveryInv, NEW c \in Consumers, Queue!Claim(c), UNCHANGED act
    PROVE  (QueueInv /\ TokensGiven /\ TokensDiffer)'
<1> DEFINE j == hold[c].job
           row == hold'[c].row
<1>1. /\ j \in Jobs /\ queue[j] \in Queue!Row /\ hold[c].row \in Queue!Row
      /\ queue[j].status # "absent"
  BY DEF RecoveryInv, QueueInv, Queue!TypeOK, Queue!Claim, TokensGiven, Given
<1>2. queue' = [queue EXCEPT ![j] = Queue!Touched(@, "processing", @.attempts, @.deferrals)]
  BY DEF Queue!Claim
<1>3. /\ queue' \in [Jobs -> Queue!Row]
      /\ Grows
      /\ queue'[j].status = "processing" /\ queue'[j].updatedAt = queue[j].updatedAt + 1
      /\ \A i \in Jobs \ {j} : queue'[i] = queue[i]
  BY <1>1, <1>2, QueueRowWritten DEF RecoveryInv, QueueInv, Queue!Row, Queue!Status
<1>4. /\ hold'[c].phase = "owner" /\ hold'[c].job = j
      /\ row \in Queue!Row /\ row.updatedAt = queue[j].updatedAt + 1
      /\ hold'[c] \in [phase: Queue!Phase, job: Jobs \cup {NoJob}, row: Queue!Row]
      /\ \A b \in Consumers \ {c} : hold'[b] = hold[b]
  <2>1. queue[j].updatedAt + 1 \in Nat /\ "processing" \in Queue!Status
    BY <1>1 DEF Queue!Row, Queue!Status
  <2> QED
    BY <1>1, <2>1 DEF Queue!Claim, Queue!Touched, RecoveryInv, QueueInv, Queue!TypeOK,
       Queue!Row, Queue!Phase
<1>5. Queue!TypeOK'
  <2>1. hold' = [hold EXCEPT ![c] = hold'[c]]
    BY <1>4 DEF Queue!Claim, RecoveryInv, QueueInv, Queue!TypeOK
  <2> QED
    BY <1>3, <1>4, <2>1 DEF RecoveryInv, QueueInv, Queue!TypeOK
<1>6. TokensGiven'
  <2>1. Given(hold[c].job, Token(c))'
    BY <1>1, <1>3, <1>4 DEF Given, Token, Queue!Row
  <2>2. ASSUME NEW b \in Consumers \ {c}, hold'[b].phase # "idle"
        PROVE  Given(hold[b].job, Token(b))'
    <3>1. Given(hold[b].job, Token(b)) /\ Token(b) \in Nat /\ hold'[b] = hold[b]
      BY <1>4, <2>2 DEF RecoveryInv, TokensGiven, Token, QueueInv, Queue!TypeOK, Queue!Row
    <3> QED
      BY <1>3, <3>1 DEF Given, Token, Grows, RecoveryInv, QueueInv, Queue!TypeOK, Queue!Row
  <2>3. ASSUME NEW a \in Actions, Pending(a)'
        PROVE  Given(act[a].job, act[a].token)'
    <3>1. Given(act[a].job, act[a].token) /\ act[a].token \in Nat
      BY <2>3 DEF RecoveryInv, TokensGiven, ActionsOK, Action, Pending
    <3> QED
      BY <1>3, <3>1 DEF Given, Grows, RecoveryInv, QueueInv, Queue!TypeOK, Queue!Row
  <2> QED
    BY <2>1, <2>2, <2>3 DEF TokensGiven
<1>7. TokensDiffer'
  <2>1. \A b \in Consumers : Owner(b) /\ hold[b].job = j => Token(b) # queue[j].updatedAt + 1
    BY <1>1 DEF RecoveryInv, TokensGiven, Given, Owner, Token, QueueInv, Queue!TypeOK, Queue!Row
  <2>2. \A a \in Actions : Pending(a) /\ act[a].job = j => act[a].token # queue[j].updatedAt + 1
    BY <1>1 DEF RecoveryInv, TokensGiven, Given, ActionsOK, Action, Queue!Row
  <2> QED
    BY <1>4, <2>1, <2>2 DEF RecoveryInv, TokensDiffer, Owner, Token, Pending
<1> QED
  BY <1>5, <1>6, <1>7 DEF QueueInv, TokensGiven, Given

LEMMA QueueStepKeeps ==
    ASSUME RecoveryInv, [Queue!Next]_<<queue, hold>>, UNCHANGED act
    PROVE  (QueueInv /\ TokensGiven /\ TokensDiffer)'
<1> DEFINE Kept == (QueueInv /\ TokensGiven /\ TokensDiffer)'
<1>1. ActionsLetGo
  BY DEF ActionsLetGo, Pending
<1>2. Queue!TypeOK
  BY DEF RecoveryInv, QueueInv
<1>3. ASSUME Queue!TypeOK', Grows, RunsLetGo
      PROVE  Kept
  BY <1>1, <1>3, NoTokenGiven DEF QueueInv, TokensGiven, Given
<1>4. ASSUME NEW j \in Jobs, Queue!Enqueue(j)
      PROVE  Kept
  <2>1. Queue!InsertedRow \in Queue!Row
    BY DEF Queue!InsertedRow, Queue!Row, Queue!Status
  <2>2. Queue!TypeOK'
    BY <1>2, <1>4, <2>1 DEF Queue!TypeOK, Queue!Enqueue
  <2>3. Grows /\ RunsLetGo
    BY <1>2, <1>4 DEF Grows, RunsLetGo, Queue!TypeOK, Queue!Row, Queue!Enqueue
  <2> QED
    BY <1>3, <2>2, <2>3
<1>5. ASSUME NEW c \in Consumers, Queue!Outcome(c)
      PROVE  Kept
  <2>1. PICK s \in {"pending"} \cup Queue!Terminal, n \in Nat, d \in Nat :
           Queue!Settle(c, s, n, d)
    BY <1>2, <1>5, OutcomeWrites
  <2>2. hold[c].job \in Jobs /\ s \in Queue!Status \ {"absent"}
    BY <2>1 DEF RecoveryInv, QueueInv, Queue!Settle, Queue!Owns, Queue!Terminal, Queue!Status
  <2>3. queue' \in [Jobs -> Queue!Row] /\ Grows
    BY <1>2, <2>1, <2>2, QueueRowWritten DEF Queue!Settle
  <2> QED
    BY <1>2, <1>3, <2>1, <2>3, RunRests DEF Queue!Settle, Queue!TypeOK
<1>6. ASSUME NEW c \in Consumers,
             Queue!ClaimSkipped(c) \/ Queue!LeaseLost(c) \/ Queue!Abandon(c)
      PROVE  Kept
  <2>1. queue' = queue /\ hold' = [hold EXCEPT ![c] = Queue!Idle]
    BY <1>6 DEF Queue!ClaimSkipped, Queue!LeaseLost, Queue!Abandon
  <2>2. Grows
    BY <1>2, <2>1 DEF Grows, Queue!TypeOK, Queue!Row
  <2> QED
    BY <1>2, <1>3, <2>1, <2>2, RunRests DEF Queue!TypeOK
<1>7. CASE UNCHANGED <<queue, hold>>
  <2>1. Grows /\ RunsLetGo /\ Queue!TypeOK'
    BY <1>2, <1>7 DEF Grows, RunsLetGo, Queue!TypeOK, Queue!Row
  <2> QED
    BY <1>3, <2>1
<1> QED
  BY <1>4, <1>5, <1>6, <1>7, SelectKeeps, ClaimKeeps DEF Queue!Next

-----------------------------------------------------------------------------
(* Steps of the operators.                                                 *)

\* What an operator does to the queue: one row, and no run.
LEMMA RowSet ==
    ASSUME RecoveryInv, NEW j \in Jobs, NEW s \in Queue!Status \ {"absent"}, SetRow(j, s),
           UNCHANGED hold
    PROVE  /\ Queue!TypeOK' /\ Grows /\ RunsLetGo
           /\ queue'[j].status = s /\ queue'[j].updatedAt = queue[j].updatedAt + 1
           /\ \A i \in Jobs \ {j} : queue'[i] = queue[i]
<1>1. queue[j].attempts \in Nat /\ queue[j].deferrals \in Nat /\ Queue!TypeOK
  BY DEF RecoveryInv, QueueInv, Queue!TypeOK, Queue!Row
<1>2. queue' = [queue EXCEPT ![j] =
                   Queue!Touched(@, s, queue[j].attempts, queue[j].deferrals)]
  BY DEF SetRow
<1>3. hold' = hold /\ RunsLetGo
  BY DEF RunsLetGo
<1> QED
  BY <1>1, <1>2, <1>3, QueueRowWritten DEF Queue!TypeOK

LEMMA RowKept ==
    ASSUME RecoveryInv, UNCHANGED <<queue, hold>>
    PROVE  Queue!TypeOK' /\ Grows /\ RunsLetGo
BY DEF RecoveryInv, QueueInv, Grows, RunsLetGo, Queue!TypeOK, Queue!Row

\* The rest of the system is as it was.
LEMMA OthersUnmoved ==
    ASSUME Typed, UNCHANGED <<hold, inv, req, work, rec, pac, late>>,
           fresh' \subseteq fresh
    PROVE  Typed'
BY DEF Typed, RowsOK, RequestsOK, WorkOK, CyclesOK, PacOK

\* An action that ends, or goes on, without a new token.
LEMMA ActionKept ==
    ASSUME RecoveryInv, Queue!TypeOK', Grows, RunsLetGo, ActionsLetGo, ActionsOK', Typed'
    PROVE  RecoveryInv'
BY NoTokenGiven DEF RecoveryInv, QueueInv, TokensGiven, Given

\* Action a becomes next, well typed and without a new reservation.
LEMMA ActionBecomes ==
    ASSUME ActionsOK, NEW a \in Actions, NEW next \in Action, act' = [act EXCEPT ![a] = next],
           next.status = "pending" \/ next.step # "none" => next.job \in Jobs,
           next.status = "pending" =>
              Pending(a) /\ next.job = act[a].job /\ next.token = act[a].token
              /\ next.prev = act[a].prev,
           asSeen' \subseteq Actions
    PROVE  ActionsOK' /\ ActionsLetGo
BY DEF ActionsOK, ActionsLetGo, Pending, At

\* Finished actions are well typed, and no reservation any more.
LEMMA FinishedKept ==
    ASSUME ActionsOK, NEW a \in Actions, Pending(a) \/ ~At(a, "none"),
           NEW status \in {"unused"} \cup Settled
    PROVE  /\ Finished(a, status) \in Action
           /\ Finished(a, status).status = status /\ status # "pending"
           /\ Finished(a, status).step = "none"
<1>1. NoAction \in Action /\ act[a].job \in Jobs
  BY Records DEF NoAction, Action, Outcomes, NoDoc, ActionsOK
<1>2. [NoAction EXCEPT !.status = status, !.job = act[a].job] \in Action
  BY <1>1 DEF Action
<1> QED
  BY <1>1, <1>2 DEF Finished, NoAction, Settled

LEMMA BeginKeeps ==
    ASSUME RecoveryInv, NEW a \in Actions, NEW j \in Jobs,
           Begin(a, j)
    PROVE  RecoveryInv'
<1> DEFINE next == act'[a]
<1>1. /\ Queue!TypeOK' /\ Grows /\ RunsLetGo
      /\ queue'[j].status = "processing" /\ queue'[j].updatedAt = queue[j].updatedAt + 1
      /\ queue[j] \in Queue!Row
  <2>1. "processing" \in Queue!Status \ {"absent"}
    BY DEF Queue!Status
  <2> QED
    BY <2>1, RowSet DEF Begin, RecoveryInv, QueueInv, Queue!TypeOK
<1>2. /\ next.status = "pending" /\ next.job = j /\ next.token = queue[j].updatedAt + 1
      /\ next \in Action /\ next.prev # "none"
      /\ \A b \in Actions \ {a} : act'[b] = act[b]
      /\ act' \in [Actions -> Action]
  <2>1. inv[DocOf[j]] \in Invoice /\ queue[j].updatedAt + 1 \in Nat
    BY <1>1, StampingAssumption DEF RecoveryInv, Typed, RowsOK, Queue!Row
  <2>2. NoAction \in Action
    BY Records DEF NoAction, Action, Outcomes, NoDoc
  <2>3. queue[j].status \in {"pending", "succeeded", "exhausted"}
    BY DEF Begin
  <2>4. \A doc \in Invoice, token \in Nat,
          prev \in {"none", "pending", "succeeded", "exhausted"} :
          [NoAction EXCEPT !.status = "pending", !.step = "lookup", !.job = j,
                           !.token = token, !.prev = prev, !.doc = doc]
             \in Action
    BY <2>2 DEF Action
  <2>5. act' = [act EXCEPT ![a] =
          [NoAction EXCEPT !.status = "pending", !.step = "lookup", !.job = j,
                           !.token = queue[j].updatedAt + 1, !.prev = queue[j].status,
                           !.doc = inv[DocOf[j]]]]
    BY DEF Begin
  <2>6. next \in Action /\ act' = [act EXCEPT ![a] = next]
    BY <2>1, <2>3, <2>4, <2>5 DEF RecoveryInv, ActionsOK
  <2>7. next.status = "pending" /\ next.job = j /\ next.token = queue[j].updatedAt + 1
        /\ next.prev = queue[j].status
    BY <2>5 DEF RecoveryInv, ActionsOK, NoAction
  <2> QED
    BY <2>3, <2>6, <2>7 DEF RecoveryInv, ActionsOK
<1>3. ActionsOK'
  BY <1>2 DEF Begin, RecoveryInv, ActionsOK, Pending, At
<1>4. Typed'
  BY OthersUnmoved DEF Begin, RecoveryInv
<1>5. TokensGiven'
  <2>1. ASSUME NEW c \in Consumers, hold'[c].phase # "idle"
        PROVE  Given(hold[c].job, Token(c))'
    <3>1. Given(hold[c].job, Token(c)) /\ Token(c) \in Nat /\ hold' = hold
      BY <2>1 DEF Begin, RecoveryInv, TokensGiven, Token, QueueInv, Queue!TypeOK, Queue!Row
    <3> QED
      BY <1>1, <3>1 DEF Given, Token, Grows, RecoveryInv, QueueInv, Queue!TypeOK, Queue!Row
  <2>2. ASSUME NEW b \in Actions \ {a}, Pending(b)'
        PROVE  Given(act[b].job, act[b].token)'
    <3>1. Given(act[b].job, act[b].token) /\ act[b].token \in Nat /\ act'[b] = act[b]
      BY <1>2, <2>2 DEF RecoveryInv, TokensGiven, ActionsOK, Action, Pending
    <3> QED
      BY <1>1, <3>1 DEF Given, Grows, RecoveryInv, QueueInv, Queue!TypeOK, Queue!Row
  <2>3. Given(act[a].job, act[a].token)'
    BY <1>1, <1>2 DEF Given, Queue!Row
  <2> QED
    BY <2>1, <2>2, <2>3 DEF TokensGiven
<1>6. TokensDiffer'
  <2>1. \A c \in Consumers : Owner(c) /\ hold[c].job = j => Token(c) # queue[j].updatedAt + 1
    BY <1>1 DEF RecoveryInv, TokensGiven, Given, Owner, Token, QueueInv, Queue!TypeOK, Queue!Row
  <2>2. \A b \in Actions : Pending(b) => act[b].job # j
    BY DEF Begin
  <2>3. \A c \in Consumers : (Owner(c)' <=> Owner(c)) /\ hold'[c] = hold[c] /\ Token(c)' = Token(c)
    BY DEF Begin, Owner, Token
  <2> QED
    BY <1>2, <2>1, <2>2, <2>3 DEF RecoveryInv, TokensDiffer, Pending
<1> QED
  BY <1>1, <1>3, <1>4, <1>5, <1>6 DEF RecoveryInv, QueueInv, TokensGiven, Given

LEMMA AskPacKeeps ==
    ASSUME RecoveryInv, NEW a \in Actions, AskPac(a)
    PROVE  RecoveryInv'
<1>1. PICK outcome \in Outcomes, d \in Documents \cup {NoDoc} :
         act' = [act EXCEPT ![a].step = "complete", ![a].outcome = outcome, ![a].found = d]
  <2>1. Found(DocumentOf(a), act[a].doc.fid) \subseteq Documents
    BY DEF Found, DocsOf, RecoveryInv, ActionsOK, Action, Invoice
  <2>2. \A e \in Documents : pac[e].state \in PacState
    BY DEF RecoveryInv, Typed, PacOK, PacDocument
  <2> QED
    BY <2>1, <2>2 DEF AskPac, Outcomes
<1> DEFINE next == [act[a] EXCEPT !.step = "complete", !.outcome = outcome, !.found = d]
<1>2. act[a] \in Action /\ act[a].job \in Jobs
  BY DEF AskPac, At, RecoveryInv, ActionsOK
<1>3. /\ next \in Action
      /\ next.status = act[a].status /\ next.job = act[a].job
      /\ next.token = act[a].token /\ next.prev = act[a].prev
  BY <1>2 DEF Action
<1>4. ActionsOK' /\ ActionsLetGo
  <2>1. act' = [act EXCEPT ![a] = next]
    BY <1>1, <1>2 DEF RecoveryInv, ActionsOK, Action
  <2>2. asSeen' \subseteq Actions
    BY DEF AskPac, RecoveryInv, ActionsOK
  <2> HIDE DEF next
  <2> QED
    BY <1>2, <1>3, <2>1, <2>2, ActionBecomes DEF RecoveryInv, Pending
<1>5. Queue!TypeOK' /\ Grows /\ RunsLetGo
  BY RowKept DEF AskPac, vars
<1>6. Typed'
  BY OthersUnmoved DEF AskPac, vars, RecoveryInv
<1> QED
  BY <1>4, <1>5, <1>6, ActionKept

LEMMA CompleteKeeps ==
    ASSUME RecoveryInv, NEW a \in Actions, Complete(a)
    PROVE  RecoveryInv'
<1> DEFINE i == DocumentOf(a)
<1>1. /\ At(a, "complete") /\ Pending(a)
      /\ act[a] \in Action /\ act[a].job \in Jobs /\ i \in Invoices
  BY StampingAssumption DEF Complete, Reserves, RecoveryInv, ActionsOK, DocumentOf
<1>2. PICK status \in Verdicts(a) :
         /\ SetRow(act[a].job, RowAfter(a, status))
         /\ act' = [act EXCEPT ![a] = Finished(a, status)]
         /\ Write(i, Recovered(a, inv[i])) \/ UnchangedInvoices
  BY DEF Complete
<1>3. status \in Settled
  <2>1. \A retry \in BOOLEAN : Verdict(a, retry) \in Settled
    BY <1>1 DEF Verdict, Settled, Action, Outcomes, PacState
  <2> QED
    BY <2>1 DEF Verdicts, Settled
<1>4. RowAfter(a, status) \in Queue!Status \ {"absent"}
  <2>1. queue[act[a].job].status = "processing"
    BY DEF Complete, Reserves
  <2>2. act[a].prev \in {"pending", "succeeded", "exhausted"}
    BY <1>1 DEF RecoveryInv, ActionsOK, Action
  <2> QED
    BY <2>2 DEF RowAfter, GivenBack, Queue!Status
<1>5. Queue!TypeOK' /\ Grows /\ RunsLetGo
  BY <1>1, <1>2, <1>4, RowSet DEF Complete
<1>6. ActionsOK' /\ ActionsLetGo
  <2>1. /\ Finished(a, status) \in Action /\ Finished(a, status).status # "pending"
        /\ Finished(a, status).step = "none"
    BY <1>1, <1>3, FinishedKept DEF RecoveryInv
  <2>2. asSeen' \subseteq Actions
    BY DEF Complete, StillSeen, RecoveryInv, ActionsOK
  <2> QED
    BY <1>2, <2>1, <2>2, ActionBecomes DEF RecoveryInv
<1>7. Typed'
  <2>1. Recovered(a, inv[i]) \in Invoice
    <3>1. inv[i] \in Invoice /\ act[a].found \in Documents \cup {NoDoc}
      BY <1>1 DEF RecoveryInv, Typed, RowsOK, Action
    <3>2. \A u \in Documents \cup {NoDoc} :
             [inv[i] EXCEPT !.fid = act[a].found, !.status = "stamping", !.uuid = u] \in Invoice
      BY <3>1 DEF Invoice
    <3> QED
      BY <3>1, <3>2 DEF Recovered
  <2>2. RowsOK'
    BY <1>1, <1>2, <2>1, WriteKeeps DEF WriteOrLose, UnchangedInvoices, RecoveryInv, Typed, RowsOK
  <2> QED
    BY <2>2 DEF Complete, RecoveryInv, Typed, RequestsOK, WorkOK, CyclesOK, PacOK
<1> QED
  BY <1>5, <1>6, <1>7, ActionKept

LEMMA CompleteLostKeeps ==
    ASSUME RecoveryInv, NEW a \in Actions, CompleteLost(a)
    PROVE  RecoveryInv'
<1> DEFINE status == IF Pending(a) THEN "document_changed" ELSE act[a].status
<1>1. Pending(a) \/ ~At(a, "none")
  BY DEF CompleteLost, At
<1>2. act' = [act EXCEPT ![a] = Finished(a, status)]
  BY DEF CompleteLost, RecoveryInv, ActionsOK
<1>3. act[a] \in Action /\ act[a].job \in Jobs
  BY <1>1 DEF RecoveryInv, ActionsOK
<1>4. /\ Finished(a, status) \in Action /\ Finished(a, status).status # "pending"
      /\ Finished(a, status).step = "none"
  <2>1. status \in {"unused"} \cup Settled
    BY <1>3 DEF Pending, Action, Settled
  <2> QED
    BY <1>1, <2>1, FinishedKept DEF RecoveryInv
<1>5. ActionsOK' /\ ActionsLetGo
  <2>1. asSeen' \subseteq Actions
    BY DEF CompleteLost, RecoveryInv, ActionsOK
  <2> QED
    BY <1>2, <1>4, <2>1, ActionBecomes DEF RecoveryInv
<1>6. Queue!TypeOK' /\ Grows /\ RunsLetGo
  BY RowKept DEF CompleteLost, vars
<1>7. Typed'
  BY OthersUnmoved DEF CompleteLost, vars, RecoveryInv
<1> QED
  BY <1>5, <1>6, <1>7, ActionKept

LEMMA VanishKeeps ==
    ASSUME RecoveryInv, NEW a \in Actions, Vanish(a)
    PROVE  RecoveryInv'
<1> DEFINE next == IF Pending(a) THEN Unserved(a) ELSE Finished(a, act[a].status)
<1>1. act[a] \in Action /\ act[a].job \in Jobs /\ ~At(a, "none")
  BY DEF Vanish, RecoveryInv, ActionsOK
<1>2. act' = [act EXCEPT ![a] = next]
  BY DEF Vanish, RecoveryInv, ActionsOK
<1>3. /\ next \in Action /\ next.step = "none"
      /\ next.status = "pending" =>
            /\ Pending(a) /\ next.job = act[a].job /\ next.token = act[a].token
            /\ next.prev = act[a].prev
  <2>1. CASE Pending(a)
    <3>1. NoAction \in Action
      BY Records DEF NoAction, Action, Outcomes, NoDoc
    <3>2. Unserved(a) \in Action
      BY <1>1, <3>1 DEF Unserved, Action
    <3> QED
      BY <2>1, <3>2 DEF Unserved, NoAction
  <2>2. CASE ~Pending(a)
    <3>1. act[a].status \in {"unused"} \cup Settled
      BY <1>1, <2>2 DEF Pending, Action, Settled
    <3> QED
      BY <1>1, <2>2, <3>1, FinishedKept DEF RecoveryInv
  <2> QED
    BY <2>1, <2>2
<1>4. ActionsOK' /\ ActionsLetGo
  <2>1. asSeen' \subseteq Actions
    BY DEF Vanish, RecoveryInv, ActionsOK
  <2> HIDE DEF next
  <2> QED
    BY <1>1, <1>2, <1>3, <2>1, ActionBecomes DEF RecoveryInv
<1>5. Queue!TypeOK' /\ Grows /\ RunsLetGo
  BY RowKept DEF Vanish, vars
<1>6. Typed'
  BY OthersUnmoved DEF Vanish, vars, RecoveryInv
<1> QED
  BY <1>4, <1>5, <1>6, ActionKept

LEMMA ReleaseKeeps ==
    ASSUME RecoveryInv, NEW a \in Actions, Release(a)
    PROVE  RecoveryInv'
<1> DEFINE next == IF At(a, "none") THEN Finished(a, "expired")
                   ELSE [act[a] EXCEPT !.status = "expired"]
<1>1. act[a] \in Action /\ act[a].job \in Jobs /\ Pending(a) /\ act[a].prev # "none"
  BY DEF Release, RecoveryInv, ActionsOK
<1>2. act' = [act EXCEPT ![a] = next]
  BY DEF Release, RecoveryInv, ActionsOK
<1>3. next \in Action /\ next.status # "pending" /\ (next.step # "none" => next.job \in Jobs)
  <2>1. CASE At(a, "none")
    BY <1>1, <2>1, FinishedKept DEF RecoveryInv, Settled
  <2>2. CASE ~At(a, "none")
    BY <1>1, <2>2 DEF Action, Settled
  <2> QED
    BY <2>1, <2>2
<1>4. ActionsOK' /\ ActionsLetGo
  <2>1. asSeen' \subseteq Actions
    BY DEF Release, RecoveryInv, ActionsOK
  <2> HIDE DEF next
  <2> QED
    BY <1>2, <1>3, <2>1, ActionBecomes DEF RecoveryInv
<1>5. Queue!TypeOK' /\ Grows /\ RunsLetGo
  <2>1. act[a].prev \in Queue!Status \ {"absent"}
    BY <1>1 DEF Action, Queue!Status
  <2> QED
    BY <1>1, <2>1, RowSet, RowKept DEF Release
<1>6. Typed'
  BY OthersUnmoved DEF Release, RecoveryInv
<1> QED
  BY <1>4, <1>5, <1>6, ActionKept

-----------------------------------------------------------------------------
LEMMA RecoveryInvInit == RecoveryInit => RecoveryInv
<1> SUFFICES ASSUME RecoveryInit PROVE RecoveryInv
  OBVIOUS
<1>1. Typed
  BY TypedInit DEF RecoveryInit
<1>2. QueueInv /\ \A c \in Consumers : hold[c].phase = "idle"
  BY DEF RecoveryInit, Init, Queue!Init, QueueInv, Queue!TypeOK, Queue!Idle, Queue!AbsentRow,
     Queue!Row, Queue!Status, Queue!Phase
<1>3. ActionsOK /\ \A a \in Actions : ~Pending(a)
  <2>1. NoAction \in Action
    BY Records DEF NoAction, Action, Outcomes, NoDoc
  <2> QED
    BY <2>1 DEF RecoveryInit, ActionsOK, Pending, At, NoAction
<1> QED
  BY <1>1, <1>2, <1>3 DEF RecoveryInv, TokensGiven, TokensDiffer, Owner

LEMMA RecoveryInvStep ==
    ASSUME RecoveryInv, [RecoveryNext]_recoveryVars
    PROVE  RecoveryInv'
<1>1. CASE AutomaticStep
  <2>1. (QueueInv /\ TokensGiven /\ TokensDiffer)'
    BY <1>1, StepIsQueueStep, QueueStepKeeps DEF AutomaticStep
  <2>2. Typed'
    BY <1>1, TypedStep DEF AutomaticStep, RecoveryInv
  <2>3. ActionsOK'
    BY <1>1 DEF AutomaticStep, RecoveryInv, ActionsOK, StillSeen, Pending, At
  <2> QED
    BY <2>1, <2>2, <2>3 DEF RecoveryInv
<1>2. ASSUME NEW a \in Actions, OperatorStep(a)
      PROVE  RecoveryInv'
  BY <1>2, BeginKeeps, AskPacKeeps, CompleteKeeps, CompleteLostKeeps, VanishKeeps, ReleaseKeeps
  DEF OperatorStep
<1>3. CASE UNCHANGED recoveryVars
  <2>1. (QueueInv /\ TokensGiven /\ TokensDiffer)'
    BY <1>3, QueueStepKeeps DEF recoveryVars, vars
  <2>2. Typed'
    BY <1>3, TypedStep DEF recoveryVars, RecoveryInv
  <2>3. ActionsOK'
    BY <1>3 DEF recoveryVars, RecoveryInv, ActionsOK, Pending, At
  <2> QED
    BY <2>1, <2>2, <2>3 DEF RecoveryInv
<1> QED
  BY <1>1, <1>2, <1>3 DEF RecoveryNext

\* The inductive invariant of recovery: whatever runs and operators do to the queue,
\* two of them never hold the same token of the same row.
THEOREM RecoveryInvariant == RecoverySpec => []RecoveryInv
BY RecoveryInvInit, RecoveryInvStep, PTL DEF RecoverySpec

\* Every state is well typed: what an operator finds at the PAC and saves is what the
\* columns of the invoice admit, and the row gets a status of the queue.
THEOREM RecoveryTypeCorrect == RecoverySpec => []RecoveryTypeOK
<1>1. RecoveryInv => RecoveryTypeOK
  BY DEF RecoveryInv, RecoveryTypeOK, ActionsOK, Typed, QueueInv, TypeOK, RowsOK, RequestsOK,
     WorkOK, CyclesOK, PacOK
<1> QED
  BY <1>1, RecoveryInvariant, PTL

\* A row has one holder at most, run or reservation, also when servers are slow and
\* rows are taken from those who still work on them.
THEOREM RowHasOneHolder == RecoverySpec => []OneHolder
<1>1. RecoveryInv => OneHolder
  BY DEF RecoveryInv, TokensDiffer, OneHolder, Queue!SingleOwner, Queue!Owns, Reserves, Owner,
     Token
<1> QED
  BY <1>1, RecoveryInvariant, PTL
-----------------------------------------------------------------------------
(* The budget of real attempts.  A run takes a stale row over without      *)
(* asking what it was before, so a reservation that the queue may take     *)
(* over, or that was ended without an answer, can cost an attempt more.    *)

Granting == {"pending", "expired", "document_changed", "retry_scheduled"}

Granted(j) == {a \in Actions : act[a].job = j /\ act[a].status \in Granting}

\* The attempts that row j may count.
Budget(j) == MaxAttempts + Cardinality(Granted(j))

\* An open row has an attempt left, ...
RowsWithin ==
    \A j \in Jobs :
        /\ IsFiniteSet(Granted(j))
        /\ queue[j].attempts <= Budget(j)
        /\ queue[j].status \in {"pending", "processing"} => queue[j].attempts < Budget(j)

\* ... and a run whose reading is as new as the row knows its attempts.
CountersRead ==
    \A c \in Consumers :
        /\ hold[c].phase # "idle" /\ Token(c) = queue[hold[c].job].updatedAt
              => hold[c].row.attempts = queue[hold[c].job].attempts
        /\ hold[c].phase = "selected" => hold[c].row.status \in {"pending", "processing"}

BudgetInv == RowsWithin /\ CountersRead

LEMMA GrantedIs == \A j : Granted(j) = Scheduled(j) \cup Unanswered(j)
BY DEF Granted, Granting, Scheduled, Unanswered

\* Budgets are numbers.
LEMMA BudgetNumbers ==
    ASSUME RowsWithin
    PROVE  /\ MaxAttempts \in Nat \ {0}
           /\ \A j \in Jobs : Budget(j) \in Nat /\ MaxAttempts <= Budget(j)
<1>1. MaxAttempts \in Nat \ {0}
  BY StampingAssumption
<1>2. \A j \in Jobs : Cardinality(Granted(j)) \in Nat
  BY FS_CardinalityType DEF RowsWithin
<1> QED
  BY <1>1, <1>2 DEF Budget

\* Grants are counted by the job and the status of actions alone.
GrantsKept ==
    \A a \in Actions :
        act'[a].job = act[a].job /\ (act'[a].status \in Granting <=> act[a].status \in Granting)

LEMMA BudgetsKept ==
    ASSUME GrantsKept
    PROVE  \A j : Granted(j)' = Granted(j) /\ Budget(j)' = Budget(j)
<1>1. \A j : Granted(j)' = Granted(j)
  BY DEF GrantsKept, Granted
<1> QED
  BY <1>1 DEF Budget

\* A row that is written is newer than every reading of it.
LEMMA CountersKept ==
    ASSUME RecoveryInv, CountersRead, RunsLetGo, NEW j \in Jobs,
           queue'[j].updatedAt = queue[j].updatedAt + 1,
           \A i \in Jobs \ {j} : queue'[i] = queue[i]
    PROVE  CountersRead'
<1> SUFFICES ASSUME NEW c \in Consumers, hold'[c].phase # "idle"
             PROVE  /\ Token(c)' = queue'[hold'[c].job].updatedAt
                          => hold'[c].row.attempts = queue'[hold'[c].job].attempts
                    /\ hold'[c].phase = "selected"
                          => hold'[c].row.status \in {"pending", "processing"}
  BY DEF CountersRead
<1>1. hold'[c] = hold[c] /\ Token(c)' = Token(c)
  BY DEF RunsLetGo, Token
<1>2. /\ hold[c].job \in Jobs /\ Token(c) \in Nat /\ queue[j].updatedAt \in Nat
      /\ Token(c) <= queue[hold[c].job].updatedAt
  BY <1>1 DEF RecoveryInv, TokensGiven, Given, Token, QueueInv, Queue!TypeOK, Queue!Row
<1> QED
  BY <1>1, <1>2 DEF CountersRead

LEMMA CountersUnmoved ==
    ASSUME CountersRead, RunsLetGo, UNCHANGED queue
    PROVE  CountersRead'
BY DEF CountersRead, RunsLetGo, Token

-----------------------------------------------------------------------------
(* Steps of the queue keep the budget.                                     *)

\* An outcome counts one attempt at most, and leaves a row open only when it counted
\* none or attempts are left.
LEMMA OutcomeCharges ==
    ASSUME Queue!TypeOK, NEW c \in Consumers, Queue!Outcome(c)
    PROVE  \E s \in {"pending"} \cup Queue!Terminal,
              n \in {hold[c].row.attempts, hold[c].row.attempts + 1}, d \in Nat :
              /\ Queue!Settle(c, s, n, d)
              /\ s = "pending" => n = hold[c].row.attempts \/ n < MaxAttempts
<1> DEFINE m == Queue!Held(c).attempts
           d == Queue!Held(c).deferrals
           Charges(s, n, e) == /\ Queue!Settle(c, s, n, e)
                               /\ s = "pending" => n = m \/ n < MaxAttempts
<1>1. m \in Nat /\ d \in Nat /\ d + 1 \in Nat /\ 0 \in Nat /\ m = hold[c].row.attempts
  BY DEF Queue!TypeOK, Queue!Row, Queue!Held
<1>2. MaxAttempts \in Nat
  BY StampingAssumption
<1>3. \E s \in {"pending", "succeeded", "exhausted"}, n \in {m, m + 1}, e \in {0, d, d + 1} :
         Charges(s, n, e)
  <2>1. CASE Queue!RetryAnswered(c) \/ Queue!RetryThrown(c)
    <3>1. \E e \in {0, d} : Queue!Settle(c, Queue!TerminalStatus(m + 1), m + 1, e)
      BY <2>1 DEF Queue!RetryAnswered, Queue!RetryThrown
    <3>2. /\ Queue!TerminalStatus(m + 1) \in {"pending", "exhausted"}
          /\ Queue!TerminalStatus(m + 1) = "pending" => m + 1 < MaxAttempts
      BY <1>1, <1>2 DEF Queue!TerminalStatus
    <3> HIDE DEF m, d
    <3> QED
      BY <3>1, <3>2
  <2>2. CASE ~(Queue!RetryAnswered(c) \/ Queue!RetryThrown(c))
    <3>1. \E s \in {"pending", "succeeded", "exhausted"}, n \in {m, m + 1}, e \in {0, d, d + 1} :
             Queue!Settle(c, s, n, e) /\ (s = "pending" => n = m)
      BY <2>2 DEF Queue!Outcome, Queue!SucceedRecovered, Queue!SucceedInvoked,
         Queue!SucceedRefreshed, Queue!Defer, Queue!GiveUp, Queue!GiveUpUncounted,
         Queue!DeferConflict, Queue!RefuseConflict
    <3> HIDE DEF m, d
    <3> QED
      BY <3>1
  <2> QED
    BY <2>1, <2>2
<1>4. {"pending", "succeeded", "exhausted"} \subseteq {"pending"} \cup Queue!Terminal
  BY DEF Queue!Terminal
<1> HIDE DEF m, d
<1> QED
  BY <1>1, <1>3, <1>4

\* A row whose attempts and status fit its budget, while the grants are the same.
LEMMA RowFits ==
    ASSUME RowsWithin, GrantsKept, NEW j \in Jobs,
           \A i \in Jobs \ {j} : queue'[i] = queue[i],
           queue'[j].attempts <= Budget(j),
           queue'[j].status \in {"pending", "processing"} => queue'[j].attempts < Budget(j)
    PROVE  RowsWithin'
BY BudgetsKept DEF RowsWithin

LEMMA RowsStay ==
    ASSUME RowsWithin, GrantsKept, UNCHANGED queue
    PROVE  RowsWithin'
BY BudgetsKept DEF RowsWithin

LEMMA ActKept ==
    ASSUME UNCHANGED act
    PROVE  GrantsKept
BY DEF GrantsKept

LEMMA ClaimBudget ==
    ASSUME RecoveryInv, BudgetInv, NEW c \in Consumers, Queue!Claim(c), UNCHANGED act,
           Queue!TypeOK'
    PROVE  BudgetInv'
<1> DEFINE j == hold[c].job
<1>1. /\ j \in Jobs /\ queue[j] \in Queue!Row /\ hold[c].row \in Queue!Row
      /\ hold[c].phase = "selected" /\ Queue!AsRead(c)
  BY DEF RecoveryInv, QueueInv, Queue!TypeOK, Queue!Claim
<1>2. /\ queue' = [queue EXCEPT ![j] =
                      Queue!Touched(queue[j], "processing", queue[j].attempts, queue[j].deferrals)]
      /\ hold' = [hold EXCEPT ![c] =
            [phase |-> "owner", job |-> j,
             row |-> [status |-> "processing", attempts |-> hold[c].row.attempts,
                      deferrals |-> hold[c].row.deferrals, updatedAt |-> queue[j].updatedAt + 1]]]
  BY DEF Queue!Claim, Queue!Touched
<1>3. /\ queue'[j] = Queue!Touched(queue[j], "processing", queue[j].attempts, queue[j].deferrals)
      /\ \A i \in Jobs \ {j} : queue'[i] = queue[i]
  BY <1>1, <1>2 DEF RecoveryInv, QueueInv, Queue!TypeOK
<1>4. /\ queue'[j].attempts = queue[j].attempts /\ queue'[j].updatedAt = queue[j].updatedAt + 1
      /\ queue'[j].status = "processing"
  BY <1>3 DEF Queue!Touched
<1>5. queue[j].attempts = hold[c].row.attempts /\ queue[j].attempts < Budget(j)
  BY <1>1 DEF BudgetInv, CountersRead, RowsWithin, Queue!AsRead, Token
<1>6. RowsWithin'
  <2>1. queue'[j].attempts <= Budget(j)
    BY <1>1, <1>4, <1>5, BudgetNumbers DEF BudgetInv, Queue!Row
  <2> HIDE DEF j
  <2> QED
    BY <1>1, <1>3, <1>4, <1>5, <2>1, ActKept, RowFits DEF BudgetInv
<1>7. CountersRead'
  <2>1. /\ hold'[c].phase = "owner" /\ hold'[c].job = j
        /\ hold'[c].row.attempts = hold[c].row.attempts
        /\ \A b \in Consumers \ {c} : hold'[b] = hold[b]
    BY <1>1, <1>2 DEF RecoveryInv, QueueInv, Queue!TypeOK
  <2>2. ASSUME NEW b \in Consumers \ {c}, hold'[b].phase # "idle",
               Token(b)' = queue'[hold'[b].job].updatedAt
        PROVE  hold'[b].row.attempts = queue'[hold'[b].job].attempts
    <3>1. /\ hold'[b] = hold[b] /\ Token(b)' = Token(b) /\ hold[b].job \in Jobs
          /\ Token(b) \in Nat /\ Token(b) <= queue[hold[b].job].updatedAt
      BY <2>1, <2>2 DEF RecoveryInv, TokensGiven, Given, Token, QueueInv, Queue!TypeOK, Queue!Row
    <3>2. hold[b].job # j
      BY <1>1, <1>4, <2>2, <3>1 DEF Queue!Row
    <3> QED
      BY <1>3, <2>2, <3>1, <3>2 DEF BudgetInv, CountersRead
  <2>3. \A b \in Consumers \ {c} : hold'[b].phase = "selected"
           => hold'[b].row.status \in {"pending", "processing"}
    BY <2>1 DEF BudgetInv, CountersRead
  <2> QED
    BY <1>4, <1>5, <2>1, <2>2, <2>3 DEF CountersRead
<1> QED
  BY <1>6, <1>7 DEF BudgetInv

LEMMA OutcomeBudget ==
    ASSUME RecoveryInv, BudgetInv, NEW c \in Consumers, Queue!Outcome(c), UNCHANGED act,
           Queue!TypeOK'
    PROVE  BudgetInv'
<1> DEFINE j == hold[c].job
<1>1. Queue!TypeOK
  BY DEF RecoveryInv, QueueInv
<1>2. PICK s \in {"pending"} \cup Queue!Terminal,
           n \in {hold[c].row.attempts, hold[c].row.attempts + 1}, d \in Nat :
           /\ Queue!Settle(c, s, n, d)
           /\ s = "pending" => n = hold[c].row.attempts \/ n < MaxAttempts
  BY <1>1, OutcomeCharges
<1>3. /\ j \in Jobs /\ queue[j] \in Queue!Row /\ queue[j].status = "processing"
      /\ queue[j].attempts = hold[c].row.attempts /\ hold[c].row.attempts \in Nat
  BY <1>2 DEF Queue!Settle, Queue!Owns, RecoveryInv, QueueInv, BudgetInv, CountersRead, Token,
     Queue!TypeOK, Queue!Row
<1>4. queue[j].attempts < Budget(j) /\ Budget(j) \in Nat /\ MaxAttempts <= Budget(j)
      /\ MaxAttempts \in Nat
  BY <1>3, BudgetNumbers DEF BudgetInv, RowsWithin
<1>5. /\ queue'[j].status = s /\ queue'[j].attempts = n
      /\ queue'[j].updatedAt = queue[j].updatedAt + 1
      /\ \A i \in Jobs \ {j} : queue'[i] = queue[i]
      /\ RunsLetGo
  <2>1. /\ queue' = [queue EXCEPT ![j] = Queue!Touched(@, s, n, d)]
        /\ hold' = [hold EXCEPT ![c] = Queue!Idle]
    BY <1>2 DEF Queue!Settle
  <2>2. /\ queue'[j] = Queue!Touched(queue[j], s, n, d)
        /\ \A i \in Jobs \ {j} : queue'[i] = queue[i]
    BY <1>1, <1>3, <2>1 DEF Queue!TypeOK
  <2>3. RunsLetGo
    BY <1>1, <2>1, RunRests
  <2> QED
    BY <2>2, <2>3 DEF Queue!Touched
<1>6. n <= Budget(j) /\ (s \in {"pending", "processing"} => n < Budget(j))
  <2>1. s # "processing"
    BY DEF Queue!Terminal
  <2> HIDE DEF j
  <2> QED
    BY <1>2, <1>3, <1>4, <2>1 DEF Queue!Row
<1>7. RowsWithin'
  <2> HIDE DEF j
  <2> QED
    BY <1>3, <1>5, <1>6, ActKept, RowFits DEF BudgetInv
<1>8. CountersRead'
  <2> HIDE DEF j
  <2> QED
    BY <1>3, <1>5, CountersKept DEF BudgetInv
<1> QED
  BY <1>7, <1>8 DEF BudgetInv

LEMMA QueueStepBudget ==
    ASSUME RecoveryInv, BudgetInv, [Queue!Next]_<<queue, hold>>, UNCHANGED act
    PROVE  BudgetInv'
<1>1. Queue!TypeOK /\ Queue!TypeOK'
  BY QueueStepKeeps DEF RecoveryInv, QueueInv
<1>2. ASSUME NEW j \in Jobs, Queue!Enqueue(j)
      PROVE  BudgetInv'
  <2>1. /\ queue'[j] = Queue!InsertedRow /\ queue[j].updatedAt \in Nat
        /\ \A i \in Jobs \ {j} : queue'[i] = queue[i]
        /\ hold' = hold /\ queue[j].status = "absent"
    BY <1>1, <1>2 DEF Queue!Enqueue, Queue!TypeOK, Queue!Row
  <2>2. GrantsKept
    BY ActKept
  <2>3. /\ MaxAttempts \in Nat \ {0} /\ Budget(j) \in Nat /\ MaxAttempts <= Budget(j)
    BY BudgetNumbers DEF BudgetInv
  <2>4. RowsWithin'
    <3>1. queue'[j].attempts = 0 /\ 0 < Budget(j)
      BY <2>1, <2>3 DEF Queue!InsertedRow
    <3> QED
      BY <2>1, <2>2, <2>3, <3>1, BudgetsKept DEF BudgetInv, RowsWithin
  <2>5. CountersRead'
    <3>1. \A c \in Consumers : hold[c].phase # "idle" => hold[c].job # j /\ hold[c].job \in Jobs
      BY <2>1 DEF RecoveryInv, TokensGiven, Given
    <3> QED
      BY <2>1, <3>1 DEF BudgetInv, CountersRead, Token
  <2> QED
    BY <2>4, <2>5 DEF BudgetInv
<1>3. ASSUME NEW c \in Consumers, NEW j \in Jobs, Queue!SelectRow(c, j)
      PROVE  BudgetInv'
  <2>1. /\ queue' = queue /\ queue[j].status \in {"pending", "processing"}
        /\ hold'[c] = [phase |-> "selected", job |-> j, row |-> queue[j]]
        /\ \A b \in Consumers \ {c} : hold'[b] = hold[b]
    BY <1>1, <1>3 DEF Queue!SelectRow, Queue!TypeOK
  <2>2. CountersRead'
    BY <2>1 DEF BudgetInv, CountersRead, Token
  <2> QED
    BY <2>1, <2>2, ActKept, RowsStay DEF BudgetInv
<1>4. ASSUME NEW c \in Consumers,
             Queue!ClaimSkipped(c) \/ Queue!LeaseLost(c) \/ Queue!Abandon(c)
      PROVE  BudgetInv'
  <2>1. queue' = queue /\ hold' = [hold EXCEPT ![c] = Queue!Idle]
    BY <1>4 DEF Queue!ClaimSkipped, Queue!LeaseLost, Queue!Abandon
  <2>2. RunsLetGo
    BY <1>1, <2>1, RunRests
  <2> QED
    BY <2>1, <2>2, ActKept, RowsStay, CountersUnmoved DEF BudgetInv
<1>5. CASE UNCHANGED <<queue, hold>>
  <2>1. RunsLetGo
    BY <1>5 DEF RunsLetGo
  <2> QED
    BY <1>5, <2>1, ActKept, RowsStay, CountersUnmoved DEF BudgetInv
<1> QED
  BY <1>1, <1>2, <1>3, <1>4, <1>5, ClaimBudget, OutcomeBudget DEF Queue!Next

-----------------------------------------------------------------------------
(* Steps of the operators keep the budget.                                 *)

\* A row that an operator sets keeps its attempts.
LEMMA RowSetAttempts ==
    ASSUME RecoveryInv, NEW j \in Jobs, NEW s, SetRow(j, s)
    PROVE  queue'[j].attempts = queue[j].attempts
BY DEF SetRow, Queue!Touched, RecoveryInv, QueueInv, Queue!TypeOK

\* A new reservation adds one to the budget of its row.
LEMMA BeginBudget ==
    ASSUME RecoveryInv, BudgetInv, NEW a \in Actions, NEW j \in Jobs,
           Begin(a, j)
    PROVE  BudgetInv'
<1>1. /\ RunsLetGo
      /\ queue'[j].status = "processing" /\ queue'[j].updatedAt = queue[j].updatedAt + 1
      /\ queue'[j].attempts = queue[j].attempts /\ queue[j].attempts \in Nat
      /\ \A i \in Jobs \ {j} : queue'[i] = queue[i]
  <2>1. "processing" \in Queue!Status \ {"absent"}
    BY DEF Queue!Status
  <2> QED
    BY <2>1, RowSet, RowSetAttempts
    DEF Begin, RecoveryInv, QueueInv, Queue!TypeOK, Queue!Row
<1>2. /\ act'[a].status = "pending" /\ act'[a].job = j
      /\ \A b \in Actions \ {a} : act'[b] = act[b]
      /\ act[a].status = "unused"
  BY DEF Begin, RecoveryInv, ActionsOK, NoAction
<1>3. /\ Granted(j)' = Granted(j) \cup {a} /\ a \notin Granted(j)
      /\ \A i \in Jobs \ {j} : Granted(i)' = Granted(i)
  <2>1. act[a].job = NoJob /\ NoJob \notin Jobs
    BY StampingAssumption DEF Begin, NoAction
  <2> QED
    BY <1>2, <2>1 DEF Granted, Granting
<1>4. /\ IsFiniteSet(Granted(j)') /\ Budget(j)' = Budget(j) + 1
      /\ \A i \in Jobs \ {j} : Budget(i)' = Budget(i)
      /\ Budget(j) \in Nat
  <2>1. /\ IsFiniteSet(Granted(j)')
        /\ Cardinality(Granted(j)') = Cardinality(Granted(j)) + 1
        /\ Cardinality(Granted(j)) \in Nat
    BY <1>3, FS_AddElement, FS_CardinalityType DEF BudgetInv, RowsWithin
  <2>2. MaxAttempts \in Nat
    BY StampingAssumption
  <2> QED
    BY <1>3, <2>1, <2>2 DEF Budget
<1>5. RowsWithin'
  <2>1. queue[j].attempts <= Budget(j)
    BY DEF BudgetInv, RowsWithin
  <2>2. queue'[j].attempts <= Budget(j)' /\ queue'[j].attempts < Budget(j)'
    BY <1>1, <1>4, <2>1
  <2>3. \A i \in Jobs \ {j} :
           /\ IsFiniteSet(Granted(i)') /\ queue'[i].attempts <= Budget(i)'
           /\ queue'[i].status \in {"pending", "processing"} => queue'[i].attempts < Budget(i)'
    BY <1>1, <1>3, <1>4 DEF BudgetInv, RowsWithin
  <2> QED
    BY <1>4, <2>2, <2>3 DEF RowsWithin
<1> QED
  BY <1>1, <1>5, CountersKept DEF BudgetInv

\* An action that goes on, or ends without an answer, still counts.
LEMMA ActionBudget ==
    ASSUME RecoveryInv, BudgetInv, NEW a \in Actions,
           AskPac(a) \/ CompleteLost(a) \/ Vanish(a)
    PROVE  BudgetInv'
<1>1. UNCHANGED <<queue, hold>>
  BY DEF AskPac, CompleteLost, Vanish, vars
<1>2. GrantsKept
  <2>1. CASE AskPac(a)
    <3>1. /\ act'[a].status = act[a].status /\ act'[a].job = act[a].job
          /\ \A b \in Actions \ {a} : act'[b] = act[b]
      <4>1. PICK outcome, d :
               act' = [act EXCEPT ![a].step = "complete", ![a].outcome = outcome,
                                  ![a].found = d]
        BY <2>1 DEF AskPac
      <4>2. act'[a] = [act[a] EXCEPT !.step = "complete", !.outcome = outcome, !.found = d]
        BY <4>1 DEF RecoveryInv, ActionsOK, Action
      <4> QED
        BY <4>1, <4>2 DEF RecoveryInv, ActionsOK, Action
    <3> QED
      BY <3>1 DEF GrantsKept
  <2>2. CASE CompleteLost(a) \/ Vanish(a)
    <3>1. PICK status \in {"pending", act[a].status, "document_changed"} :
             /\ act'[a].status = status /\ act'[a].job = act[a].job
             /\ \A b \in Actions \ {a} : act'[b] = act[b]
             /\ status \in {"pending", "document_changed"} => Pending(a) \/ status = act[a].status
      <4>1. CASE CompleteLost(a)
        BY <4>1 DEF CompleteLost, Finished, NoAction, Pending, RecoveryInv, ActionsOK
      <4>2. CASE Vanish(a)
        BY <4>2 DEF Vanish, Unserved, Finished, NoAction, Pending, RecoveryInv, ActionsOK, Action
      <4> QED
        BY <2>2, <4>1, <4>2
    <3> QED
      BY <3>1 DEF GrantsKept, Granting, Pending
  <2> QED
    BY <2>1, <2>2
<1>3. RunsLetGo
  BY <1>1 DEF RunsLetGo
<1> QED
  BY <1>1, <1>2, <1>3, RowsStay, CountersUnmoved DEF BudgetInv

LEMMA ReleaseBudget ==
    ASSUME RecoveryInv, BudgetInv, NEW a \in Actions, Release(a)
    PROVE  BudgetInv'
<1> DEFINE j == act[a].job
<1>1. Pending(a) /\ j \in Jobs /\ act[a] \in Action /\ act[a].prev # "none"
  BY DEF Release, RecoveryInv, ActionsOK
<1>2. GrantsKept
  <2>1. /\ act'[a].status = "expired" /\ act'[a].job = act[a].job
        /\ \A b \in Actions \ {a} : act'[b] = act[b]
    <3>1. CASE At(a, "none")
      BY <3>1 DEF Release, Finished, NoAction, RecoveryInv, ActionsOK
    <3>2. CASE ~At(a, "none")
      BY <3>2 DEF Release, RecoveryInv, ActionsOK, Action
    <3> QED
      BY <3>1, <3>2
  <2> QED
    BY <1>1, <2>1 DEF GrantsKept, Granting, Pending
<1>3. CASE Reserves(a)
  <2>1. SetRow(j, act[a].prev) /\ UNCHANGED hold
    BY <1>3 DEF Release
  <2>2. act[a].prev \in Queue!Status \ {"absent"}
    BY <1>1 DEF Action, Queue!Status
  <2>3. /\ RunsLetGo /\ queue'[j].updatedAt = queue[j].updatedAt + 1
        /\ queue'[j].attempts = queue[j].attempts
        /\ \A i \in Jobs \ {j} : queue'[i] = queue[i]
    BY <1>1, <2>1, <2>2, RowSet, RowSetAttempts
  <2>4. queue[j].attempts <= Budget(j) /\ queue[j].attempts < Budget(j)
    BY <1>1, <1>3 DEF Reserves, BudgetInv, RowsWithin
  <2> HIDE DEF j
  <2> QED
    BY <1>1, <1>2, <2>3, <2>4, RowFits, CountersKept DEF BudgetInv
<1>4. CASE ~Reserves(a)
  <2>1. UNCHANGED <<queue, hold>> /\ RunsLetGo
    BY <1>4 DEF Release, RunsLetGo
  <2> QED
    BY <1>2, <2>1, RowsStay, CountersUnmoved DEF BudgetInv
<1> QED
  BY <1>3, <1>4

\* An answer closes the row, and takes back what the reservation could have cost,
\* unless it schedules a retry.
LEMMA CompleteBudget ==
    ASSUME RecoveryInv, BudgetInv, NEW a \in Actions, Complete(a)
    PROVE  BudgetInv'
<1>0. PICK j \in Jobs : j = act[a].job
  BY DEF Complete, Reserves, RecoveryInv, ActionsOK
<1>1. Pending(a) /\ act[a] \in Action /\ act[a].prev # "none"
      /\ queue[j].status = "processing" /\ queue[j].attempts \in Nat
  BY <1>0 DEF Complete, Reserves, RecoveryInv, ActionsOK, QueueInv, Queue!TypeOK, Queue!Row
<1>2. PICK status \in Verdicts(a) :
         /\ SetRow(j, RowAfter(a, status))
         /\ act' = [act EXCEPT ![a] = Finished(a, status)]
  BY <1>0 DEF Complete
<1>3. /\ RowAfter(a, status) \in Queue!Status \ {"absent"}
      /\ RowAfter(a, status) # "processing"
      /\ RowAfter(a, status) = "pending" => status = "retry_scheduled"
  <2>1. act[a].prev \in {"pending", "succeeded", "exhausted"}
    BY <1>1 DEF Action
  <2> QED
    BY <2>1 DEF RowAfter, GivenBack, Queue!Status
<1>4. /\ RunsLetGo /\ queue'[j].updatedAt = queue[j].updatedAt + 1
      /\ queue'[j].status = RowAfter(a, status)
      /\ queue'[j].attempts = queue[j].attempts
      /\ \A i \in Jobs \ {j} : queue'[i] = queue[i]
  BY <1>1, <1>2, <1>3, RowSet, RowSetAttempts DEF Complete
<1>5. queue[j].attempts <= Budget(j) /\ queue[j].attempts < Budget(j)
  BY <1>1 DEF BudgetInv, RowsWithin
<1>6. /\ act'[a].status = status /\ act'[a].job = j
      /\ \A b \in Actions \ {a} : act'[b] = act[b]
  BY <1>0, <1>2 DEF Finished, NoAction, RecoveryInv, ActionsOK
<1>7. CASE status \in Granting
  <2>1. GrantsKept
    BY <1>0, <1>1, <1>6, <1>7 DEF GrantsKept, Granting, Pending
  <2>2. RowsWithin'
    BY <1>1, <1>4, <1>5, <2>1, RowFits DEF BudgetInv
  <2> QED
    BY <1>1, <1>4, <2>2, CountersKept DEF BudgetInv
<1>8. CASE status \notin Granting
  <2>1. /\ Granted(j)' = Granted(j) \ {a} /\ a \in Granted(j)
        /\ \A i \in Jobs \ {j} : Granted(i)' = Granted(i)
    BY <1>0, <1>1, <1>6, <1>8 DEF Granted, Granting, Pending
  <2>2. /\ IsFiniteSet(Granted(j)') /\ Budget(j) = Budget(j)' + 1 /\ Budget(j)' \in Nat
        /\ \A i \in Jobs \ {j} : Budget(i)' = Budget(i)
    <3>1. /\ IsFiniteSet(Granted(j)')
          /\ Cardinality(Granted(j)') = Cardinality(Granted(j)) - 1
          /\ Cardinality(Granted(j)) \in Nat /\ Cardinality(Granted(j)') \in Nat
      BY <1>1, <2>1, FS_RemoveElement, FS_CardinalityType DEF BudgetInv, RowsWithin
    <3>2. MaxAttempts \in Nat
      BY StampingAssumption
    <3> QED
      BY <2>1, <3>1, <3>2 DEF Budget
  <2>3. RowsWithin'
    <3>1. queue'[j].attempts <= Budget(j)' /\ queue'[j].status \notin {"pending", "processing"}
      BY <1>1, <1>3, <1>4, <1>5, <1>8, <2>2 DEF Granting
    <3>2. \A i \in Jobs \ {j} :
             /\ IsFiniteSet(Granted(i)') /\ queue'[i].attempts <= Budget(i)'
             /\ queue'[i].status \in {"pending", "processing"} => queue'[i].attempts < Budget(i)'
      BY <1>4, <2>1, <2>2 DEF BudgetInv, RowsWithin
    <3> QED
      BY <2>2, <3>1, <3>2 DEF RowsWithin
  <2> QED
    BY <1>1, <1>4, <2>3, CountersKept DEF BudgetInv
<1> QED
  BY <1>7, <1>8

-----------------------------------------------------------------------------
LEMMA BudgetInvInit == RecoveryInit => BudgetInv
<1> SUFFICES ASSUME RecoveryInit PROVE BudgetInv
  OBVIOUS
<1>1. \A j \in Jobs : Granted(j) = {}
  BY StampingAssumption DEF RecoveryInit, Granted, Granting, NoAction
<1>2. MaxAttempts \in Nat \ {0}
  BY StampingAssumption
<1>3. \A j \in Jobs : IsFiniteSet(Granted(j)) /\ Budget(j) = MaxAttempts
  BY <1>1, <1>2, FS_EmptySet DEF Budget
<1>4. /\ \A j \in Jobs : queue[j].attempts = 0 /\ queue[j].status = "absent"
      /\ \A c \in Consumers : hold[c].phase = "idle"
  BY DEF RecoveryInit, Init, Queue!Init, Queue!AbsentRow, Queue!Idle
<1> QED
  BY <1>2, <1>3, <1>4 DEF BudgetInv, RowsWithin, CountersRead

LEMMA BudgetInvStep ==
    ASSUME RecoveryInv, BudgetInv, [RecoveryNext]_recoveryVars
    PROVE  BudgetInv'
<1>1. CASE AutomaticStep
  BY <1>1, StepIsQueueStep, QueueStepBudget DEF AutomaticStep
<1>2. ASSUME NEW a \in Actions, OperatorStep(a)
      PROVE  BudgetInv'
  BY <1>2, BeginBudget, ActionBudget, CompleteBudget, ReleaseBudget DEF OperatorStep
<1>3. CASE UNCHANGED recoveryVars
  BY <1>3, QueueStepBudget DEF recoveryVars, vars
<1> QED
  BY <1>1, <1>2, <1>3 DEF RecoveryNext

\* Attempts are granted: however runs die, are overtaken or write counters they read
\* before their claim, and however operators retry, a row never counts more attempts
\* than its budget, the retries scheduled for it and the reservations left open.
THEOREM AttemptsStayGranted == RecoverySpec => []AttemptsAreGranted
<1>1. BudgetInv => AttemptsAreGranted
  BY GrantedIs DEF BudgetInv, RowsWithin, AttemptsAreGranted, Budget
<1> QED
  BY <1>1, RecoveryInvInit, RecoveryInvStep, BudgetInvInit, BudgetInvStep, PTL DEF RecoverySpec
-----------------------------------------------------------------------------
(* What operators leave as it was: who works on an invoice, and the        *)
(* documents of the PAC.                                                   *)

\* The one write of an invoice that an operator makes: of a document that was found,
\* on a row that nobody has written since it was read.
Saves(a) ==
    LET i == DocumentOf(a)
    IN /\ At(a, "complete") /\ a \in asSeen
       /\ act[a].outcome \in {"valid", "pending"}
       /\ inv[i].uuid = NoDoc /\ act'[a].step = "none"
       /\ Write(i, Recovered(a, inv[i]))

LEMMA OperatorMoves ==
    ASSUME RecoveryInv, NEW a \in Actions, OperatorStep(a)
    PROVE  /\ UNCHANGED <<hold, req, work, rec, pac, late>>
           /\ (UNCHANGED inv /\ fresh' = fresh) \/ Saves(a)
<1>1. UNCHANGED <<hold, req, work, rec, pac, late>>
  BY DEF OperatorStep, Begin, AskPac, Complete, CompleteLost, Vanish, Release, vars
<1>2. ASSUME Complete(a)
      PROVE  (UNCHANGED inv /\ fresh' = fresh) \/ Saves(a)
  <2>1. PICK status \in Verdicts(a) :
           \/ UnchangedInvoices
           \/ /\ status \in {"recovered", "pac_pending"}
              /\ inv[DocumentOf(a)].uuid = NoDoc
              /\ Write(DocumentOf(a), Recovered(a, inv[DocumentOf(a)]))
    BY <1>2 DEF Complete
  <2>2. status \in {"recovered", "pac_pending"} =>
           a \in asSeen /\ \E retry \in BOOLEAN : status = Verdict(a, retry)
    BY DEF Verdicts
  <2>3. \A retry \in BOOLEAN : Verdict(a, retry) \in {"recovered", "pac_pending"} =>
           act[a].outcome \in {"valid", "pending"}
    <3>1. act[a].outcome \in Outcomes
      BY DEF RecoveryInv, ActionsOK, Action
    <3> QED
      BY <3>1 DEF Verdict, Outcomes, PacState
  <2>4. act'[a].step = "none"
    BY <1>2 DEF Complete, Finished, NoAction, RecoveryInv, ActionsOK
  <2> QED
    BY <1>2, <2>1, <2>2, <2>3, <2>4 DEF Saves, UnchangedInvoices, Complete
<1>3. ~Complete(a) => UNCHANGED inv /\ fresh' = fresh
  BY DEF OperatorStep, Begin, AskPac, CompleteLost, Vanish, Release, vars
<1> QED
  BY <1>1, <1>2, <1>3

\* What a save makes of a row: it is left to the reconciliation.
LEMMA SavedRow ==
    ASSUME RecoveryInv, NEW a \in Actions, Saves(a)
    PROVE  \E i \in Invoices :
              /\ i = DocumentOf(a)
              /\ Status(i)' = "stamping" /\ inv'[i].fid = act[a].found
              /\ \A k \in Invoices \ {i} : inv'[k] = inv[k]
              /\ fresh' = fresh \ Readers(i)
<1>1. PICK i \in Invoices : i = DocumentOf(a)
  BY StampingAssumption DEF Saves, RecoveryInv, ActionsOK, DocumentOf, At
<1>2. inv[i] \in Invoice /\ DOMAIN inv = Invoices
  BY DEF RecoveryInv, Typed, RowsOK
<1>3. Recovered(a, inv[i]).status = "stamping" /\ Recovered(a, inv[i]).fid = act[a].found
  BY <1>2 DEF Recovered, Invoice
<1>4. Write(i, Recovered(a, inv[i]))
  BY <1>1 DEF Saves
<1> QED
  BY <1>1, <1>2, <1>3, <1>4 DEF Write, Status

\* A row that is saved is marked, and what others read of it is stale.
LEMMA OperatorExclusive ==
    ASSUME RecoveryInv, Exclusive, NEW a \in Actions, OperatorStep(a)
    PROVE  Exclusive'
<1> USE DEF RecoveryInv, Exclusive
<1>1. UNCHANGED <<hold, req, work, rec>> /\ Silent
  BY OperatorMoves DEF Silent, Emitting
<1>2. CASE UNCHANGED inv /\ fresh' = fresh
  <2>1. Retreat
    BY <1>1, <1>2 DEF Retreat, Silent, ReadersUnmarked
  <2> QED
    BY <1>2, <2>1, CalmStep DEF Status
<1>3. CASE Saves(a)
  <2>1. PICK i \in Invoices :
           /\ Status(i)' = "stamping"
           /\ \A k \in Invoices \ {i} : Status(k)' = Status(k)
           /\ fresh' = fresh \ Readers(i)
    BY <1>3, SavedRow DEF Status
  <2>2. SingleEmitter' /\ OneReconciler'
    BY <1>1 DEF SingleEmitter, OneReconciler, Emitting
  <2>3. EmittersMark'
    BY <1>1, <2>1 DEF EmittersMark, Emitting, Status, Typed, RequestsOK
  <2>4. CyclesAlone'
    <3>1. \A k : NoEmitter(k)' = NoEmitter(k) /\ NoCycle(k)' = NoCycle(k)
      BY <1>1 DEF NoEmitter, NoCycle, Emitting
    <3>2. \A r \in Reconcilers : rec[r].pc # "idle" => rec[r].inv \in Invoices
      BY DEF Typed, CyclesOK
    <3> QED
      BY <1>1, <2>1, <3>1, <3>2 DEF CyclesAlone, Status
  <2>5. ReadersUnmarked'
    <3> SUFFICES ASSUME NEW c \in Consumers, c \in fresh'
                 PROVE  Status(SubjectOf(c))' \in {"pending", "error"}
      BY <1>1, <2>1 DEF ReadersUnmarked
    <3>1. SubjectOf(c)' = SubjectOf(c) /\ SubjectOf(c) \in Invoices /\ hold[c].job \in Jobs
      BY <1>1, <2>1, SubjectIsInvoice DEF SubjectOf, ReadersUnmarked, Typed
    <3>2. SubjectOf(c) # i
      BY <2>1, <3>1 DEF Readers, SubjectOf
    <3> QED
      BY <2>1, <3>1, <3>2 DEF ReadersUnmarked, Status
  <2> QED
    BY <2>2, <2>3, <2>4, <2>5
<1> QED
  BY <1>2, <1>3, OperatorMoves

LEMMA OperatorDocs ==
    ASSUME RecoveryInv, OwnDocs, NEW a \in Actions, OperatorStep(a)
    PROVE  OwnDocs'
<1>1. UNCHANGED <<hold, req, work, pac>>
  BY OperatorMoves
<1> QED
  BY <1>1 DEF OwnDocs, OneDocument, RequestDocs, RunDocs, SubjectOf

RecoveryAlone == RecoveryInv /\ Exclusive /\ OwnDocs

LEMMA RecoveryAloneStep ==
    ASSUME RecoveryAlone, [RecoveryNext]_recoveryVars
    PROVE  RecoveryAlone'
<1> USE DEF RecoveryAlone
<1>1. RecoveryInv'
  BY RecoveryInvStep
<1>2. CASE AutomaticStep
  BY <1>1, <1>2, ExclusiveStep, OwnDocsStep DEF AutomaticStep, RecoveryInv
<1>3. ASSUME NEW a \in Actions, OperatorStep(a)
      PROVE  RecoveryAlone'
  BY <1>1, <1>3, OperatorExclusive, OperatorDocs
<1>4. CASE UNCHANGED recoveryVars
  BY <1>1, <1>4, ExclusiveStep, OwnDocsStep DEF recoveryVars, RecoveryInv
<1> QED
  BY <1>2, <1>3, <1>4 DEF RecoveryNext

LEMMA RecoveryAloneHolds == RecoverySpec => []RecoveryAlone
<1>1. RecoveryInit => RecoveryAlone
  BY RecoveryInvInit, ExclusiveInit, OwnDocsInit DEF RecoveryInit, RecoveryAlone
<1> QED
  BY <1>1, RecoveryAloneStep, PTL DEF RecoverySpec

\* Operators that save documents and schedule retries, also while the invoice is being
\* stamped, never let a second request begin.
THEOREM RecoveryKeepsEmitter == RecoverySpec => []SingleEmitter
<1>1. RecoveryAlone => SingleEmitter
  BY DEF RecoveryAlone, Exclusive
<1> QED
  BY <1>1, RecoveryAloneHolds, PTL

\* No retry of an operator gives an invoice a second CFDI, whatever the lookup before
\* it missed (MayRetry on an outcome 'missing' that a late document belies).
THEOREM RecoveryKeepsOneCfdi == RecoverySpec => []OneCfdi
<1>1. RecoveryAlone => OneCfdi
  BY OwnDocsCfdi DEF RecoveryAlone
<1> QED
  BY <1>1, RecoveryAloneHolds, PTL

-----------------------------------------------------------------------------
(* A CFDI whose id is saved.  A row that nobody is going to finish has no  *)
(* id, or that of a document that failed: whoever makes a row 'error' knows *)
(* this, because it read the row, and nobody saved an id behind its back.  *)
(* Operators may have, for the invoices in crossed.                        *)

Dead(d) == d \in Documents /\ pac[d].state = "failed"

\* A row that hides no CFDI.
Blank(row) == row.fid = NoDoc \/ Dead(row.fid)

Open == {"pending", "error"}
Early == {"config", "sent", "refused", "record"}

RowsOpen ==
    \A i \in Invoices \ crossed : Status(i) \in Open => Blank(inv[i]) \/ SetAside(inv[i])

\* A request that may still refuse its invoice has claimed a row without a CFDI.
EmittersBlank ==
    \A h \in Handlers : req[h].pc \in Early => req[h].inv \in crossed \/ Blank(RowOf(h))

\* What a request or a run holds as failed has failed.
FailuresKnown ==
    /\ \A d \in Documents : pac[d].inv = NoInvoice => pac[d].state = "pending"
    /\ \A h \in Handlers : req[h].pc = "record" /\ req[h].kind = "failed" => Dead(req[h].doc)
    /\ \A c \in Consumers :
          work[c].step = "save" /\ work[c].kind = "failed" => Dead(work[c].doc)

Listed(i, d) == d \in DocsOf(i) /\ pac[d].listed

\* An id that was saved after a run of the reconciliation read the row is one that
\* its search finds.
CyclesInformed ==
    \A r \in Reconcilers : Watches(r) /\ rec[r].fid = NoDoc =>
        \/ inv[rec[r].inv].fid = NoDoc
        \/ Listed(rec[r].inv, inv[rec[r].inv].fid)

\* What was made for an invoice whose total was never edited has that total.
Untouched ==
    \A i \in Invoices : inv[i].total = 0 =>
        /\ \A h \in Handlers : req[h].inv = i => req[h].total = 0
        /\ \A d \in Documents : pac[d].inv = i => pac[d].total = 0
        /\ \A l \in late : l.inv = i => l.total = 0

Traced == RowsOpen /\ EmittersBlank /\ FailuresKnown /\ CyclesInformed

\* Nobody emits for the invoice of the action, unless somebody did when it was begun.
Apart(a) == NoEmitter(DocumentOf(a)) \/ act[a].doc.status = "stamping"

\* The snapshot of the action is current, which includes the id of the row.
Current(a) == Pending(a) /\ Apart(a) /\ act[a].doc.fid = inv[DocumentOf(a)].fid

\* An action knows the id of its row as long as nobody changes it; what it found is the
\* document of that id, or one that is listed.
Snapshots ==
    /\ \A a \in asSeen : Current(a)
    /\ \A a \in Actions : At(a, "complete") /\ act[a].outcome \in PacState =>
          \/ act[a].found = act[a].doc.fid
          \/ Listed(DocumentOf(a), act[a].found)

Finishing == Untouched /\ Traced /\ Snapshots

\* A total that somebody has read for an invoice, or can read.
ReadTotal(i, total) ==
    \/ total = inv[i].total
    \/ \E h \in Handlers : req[h].inv = i /\ req[h].total = total
    \/ \E d \in Documents : pac[d].inv = i /\ pac[d].total = total
    \/ \E l \in late : l.inv = i /\ l.total = total

TotalsKept == \A i \in Invoices : inv'[i].total = 0 => inv[i].total = 0

RequestsCarry ==
    \A h \in Handlers : req'[h].inv \in Invoices => ReadTotal(req'[h].inv, req'[h].total)

PacCarries ==
    /\ \A d \in Documents : pac'[d].inv \in Invoices => ReadTotal(pac'[d].inv, pac'[d].total)
    /\ \A l \in late' : l.inv \in Invoices => ReadTotal(l.inv, l.total)

LEMMA UntouchedStays ==
    ASSUME Untouched, TotalsKept, RequestsCarry, PacCarries
    PROVE  Untouched'
<1>1. \A i \in Invoices : inv[i].total = 0 => \A total : ReadTotal(i, total) => total = 0
  BY DEF Untouched, ReadTotal
<1> QED
  BY <1>1 DEF Untouched, TotalsKept, RequestsCarry, PacCarries

LEMMA RowTotals ==
    ASSUME RowsOK, NEW i \in Invoices, NEW row, row.total = inv[i].total,
           WriteOrLose(i, row)
    PROVE  TotalsKept
BY DEF RowsOK, WriteOrLose, Write, UnchangedInvoices, TotalsKept

LEMMA NothingCarried ==
    /\ UNCHANGED inv => TotalsKept
    /\ UNCHANGED req => RequestsCarry
    /\ UNCHANGED <<pac, late>> => PacCarries
BY DEF TotalsKept, RequestsCarry, PacCarries, ReadTotal

LEMMA CreatesCarry ==
    ASSUME PacOK, NEW i \in Invoices, NEW total, ReadTotal(i, total), NEW d \in Documents,
           NEW state, Creates(i, total, d, state), late' \subseteq late
    PROVE  PacCarries
<1>1. ASSUME NEW e \in Documents, pac'[e].inv \in Invoices
      PROVE  ReadTotal(pac'[e].inv, pac'[e].total)
  <2>1. pac'[e] = pac[e] \/ (pac'[e].inv = i /\ pac'[e].total = total)
    BY DEF Creates, PacOK
  <2> QED
    BY <1>1, <2>1 DEF ReadTotal
<1>2. \A l \in late' : l.inv \in Invoices => ReadTotal(l.inv, l.total)
  BY DEF ReadTotal
<1> QED
  BY <1>1, <1>2 DEF PacCarries

\* A step of a request: it carries on the total it read when it began.
LEMMA HandlerTotals ==
    ASSUME Typed, NEW h \in Handlers, HandlerStep(h) \/ CrashRequest(h)
    PROVE  TotalsKept /\ RequestsCarry /\ PacCarries
<1> USE DEF Serves
<1>1. /\ RequestsOK /\ RowsOK /\ PacOK /\ req[h] \in Slot /\ DOMAIN req = Handlers
      /\ FreeSlot.inv \notin Invoices
  BY StampingAssumption DEF Typed, RequestsOK, FreeSlot
<1>2. ASSUME \A g \in Handlers \ {h} : req'[g] = req[g],
             \/ req'[h].inv \notin Invoices
             \/ req'[h].inv = req[h].inv /\ req'[h].total = req[h].total
      PROVE  RequestsCarry
  BY <1>2 DEF RequestsCarry, ReadTotal
<1>3. ASSUME NEW pc, NEW kind, NEW doc,
             \/ req' = [req EXCEPT ![h].pc = pc]
             \/ req' = [req EXCEPT ![h].pc = pc, ![h].kind = kind]
             \/ req' = [req EXCEPT ![h].pc = pc, ![h].doc = doc, ![h].kind = kind]
             \/ req' = [req EXCEPT ![h] = FreeSlot]
      PROVE  RequestsCarry
  <2>1. \A g \in Handlers \ {h} : req'[g] = req[g]
    BY <1>1, <1>3
  <2>2. \/ req'[h] = FreeSlot
        \/ req'[h].inv = req[h].inv /\ req'[h].total = req[h].total
    BY <1>1, <1>3 DEF Slot
  <2> QED
    BY <1>1, <1>2, <2>1, <2>2
<1>4. ASSUME NEW kind, Answer(h, kind)
      PROVE  RequestsCarry
  <2>1. \/ req' = [req EXCEPT ![h] = FreeSlot]
        \/ req' = [req EXCEPT ![h].pc = "answered", ![h].kind = kind]
    BY <1>1, <1>4 DEF Answer
  <2> QED
    BY <1>3, <2>1
<1>5. ASSUME NEW pc, GoTo(h, pc)
      PROVE  RequestsCarry
  BY <1>3, <1>5 DEF GoTo
<1>6. req[h].pc # "idle" => req[h].inv \in Invoices /\ ReadTotal(req[h].inv, req[h].total)
  BY <1>1 DEF RequestsOK, ReadTotal
<1>7. RequestsCarry
  <2>1. CASE PacAnswers(h)
    BY <1>3, <2>1 DEF PacAnswers
  <2>2. CASE PacRefuses(h) \/ PacLosesAnswer(h)
    BY <1>3, <2>2 DEF PacRefuses, PacLosesAnswer
  <2>3. CASE CrashRequest(h)
    BY <1>3, <2>3 DEF CrashRequest
  <2>4. CASE \/ ClaimInvoice(h) \/ RefuseConfig(h) \/ StampStub(h) \/ SendToPac(h)
             \/ TimeOut(h) \/ RecordRefusal(h) \/ (\E j \in Jobs : EnqueueRetry(h, j))
             \/ EnqueueLost(h) \/ RecordIncomplete(h) \/ PersistIds(h) \/ FinishStamping(h)
    BY <1>4, <1>5, <2>4 DEF ClaimInvoice, RefuseConfig, StampStub, SendToPac, TimeOut,
       RecordRefusal, EnqueueRetry, EnqueueLost, RecordIncomplete, PersistIds, FinishStamping
  <2> QED
    BY <2>1, <2>2, <2>3, <2>4 DEF HandlerStep
<1>8. PacCarries
  <2>1. CASE PacAnswers(h) \/ PacLosesAnswer(h)
    BY <1>1, <1>6, <2>1, CreatesCarry DEF PacAnswers, PacLosesAnswer
  <2>2. ASSUME UNCHANGED pac, req[h].pc # "idle",
               late' \in {late, late \cup {[inv |-> req[h].inv, total |-> req[h].total]}}
        PROVE  PacCarries
    <3>1. \A l \in late' : l \in late \/ (l.inv = req[h].inv /\ l.total = req[h].total)
      BY <2>2
    <3>2. \A l \in late' : l.inv \in Invoices => ReadTotal(l.inv, l.total)
      BY <1>6, <2>2, <3>1 DEF ReadTotal
    <3> QED
      BY <2>2, <3>2 DEF PacCarries, ReadTotal
  <2>3. CASE TimeOut(h) \/ CrashRequest(h)
    BY <2>2, <2>3 DEF TimeOut, CrashRequest
  <2>4. CASE \/ ClaimInvoice(h) \/ RefuseConfig(h) \/ StampStub(h) \/ SendToPac(h)
             \/ PacRefuses(h) \/ RecordRefusal(h) \/ (\E j \in Jobs : EnqueueRetry(h, j))
             \/ EnqueueLost(h) \/ RecordIncomplete(h) \/ PersistIds(h) \/ FinishStamping(h)
    <3>1. UNCHANGED <<pac, late>>
      BY <2>4 DEF ClaimInvoice, RefuseConfig, StampStub, SendToPac, PacRefuses, RecordRefusal,
         EnqueueRetry, EnqueueLost, RecordIncomplete, PersistIds, FinishStamping
    <3> QED
      BY <3>1, NothingCarried
  <2> QED
    BY <2>1, <2>3, <2>4 DEF HandlerStep
<1>9. TotalsKept
  <2>1. CASE UNCHANGED inv
    BY <2>1, NothingCarried
  <2>2. ASSUME req[h].pc # "idle", NEW row, WriteOrLose(req[h].inv, row),
               row.total = RowOf(h).total
        PROVE  TotalsKept
    BY <1>1, <1>6, <2>2, RowTotals DEF RowOf
  <2>3. req[h].pc # "idle" => RowOf(h) \in Invoice
    BY <1>1, <1>6 DEF RowOf, RowsOK
  <2>4. CASE ClaimInvoice(h) \/ RefuseConfig(h) \/ RecordRefusal(h) \/ StampStub(h)
    <3>1. PICK row :
             /\ \/ row = [RowOf(h) EXCEPT !.status = "stamping"]
                \/ row = [RowOf(h) EXCEPT !.status = "error"]
                \/ row = [RowOf(h) EXCEPT !.status = "stamped", !.uuid = MockDoc, !.xml = TRUE]
             /\ WriteOrLose(req[h].inv, row) \/ UNCHANGED inv
      BY <2>4 DEF ClaimInvoice, RefuseConfig, RecordRefusal, StampStub, RefusedRow, WriteOrLose,
         UnchangedInvoices
    <3>2. req[h].pc # "idle"
      BY <2>4 DEF ClaimInvoice, RefuseConfig, RecordRefusal, StampStub
    <3>3. row.total = RowOf(h).total
      BY <2>3, <3>1, <3>2 DEF Invoice
    <3> QED
      BY <2>1, <2>2, <3>1, <3>2, <3>3
  <2>5. CASE RecordIncomplete(h) \/ PersistIds(h)
    <3>1. PICK row, status :
             /\ \/ row = [RowOf(h) EXCEPT !.fid = req[h].doc, !.status = status]
                \/ row = [RowOf(h) EXCEPT !.fid = req[h].doc, !.uuid = req[h].doc]
             /\ WriteOrLose(req[h].inv, row)
      BY <2>5 DEF RecordIncomplete, PersistIds
    <3>2. req[h].pc # "idle"
      BY <2>5 DEF RecordIncomplete, PersistIds
    <3>3. row.total = RowOf(h).total
      BY <2>3, <3>1, <3>2 DEF Invoice
    <3> QED
      BY <2>2, <3>1, <3>2, <3>3
  <2>6. CASE FinishStamping(h)
    <3>1. PICK row, downloaded, status :
             /\ row = [RowOf(h) EXCEPT !.fid = req[h].doc, !.uuid = req[h].doc,
                                       !.xml = downloaded, !.status = status]
             /\ WriteOrLose(req[h].inv, row) \/ UNCHANGED inv
      BY <2>6 DEF FinishStamping, WriteOrLose, UnchangedInvoices
    <3>2. req[h].pc # "idle"
      BY <2>6 DEF FinishStamping
    <3>3. row.total = RowOf(h).total
      BY <2>3, <3>1, <3>2 DEF Invoice
    <3> QED
      BY <2>1, <2>2, <3>1, <3>2, <3>3
  <2>7. CASE \/ SendToPac(h) \/ PacAnswers(h) \/ PacRefuses(h) \/ PacLosesAnswer(h)
             \/ TimeOut(h) \/ (\E j \in Jobs : EnqueueRetry(h, j)) \/ EnqueueLost(h)
             \/ CrashRequest(h)
    BY <2>1, <2>7 DEF SendToPac, PacAnswers, PacRefuses, PacLosesAnswer, TimeOut, EnqueueRetry,
       EnqueueLost, CrashRequest
  <2> QED
    BY <2>4, <2>5, <2>6, <2>7 DEF HandlerStep
<1> QED
  BY <1>7, <1>8, <1>9

\* A request that begins reads the total; the others go on.
LEMMA RequestsBring ==
    ASSUME RequestsOK, NEW c,
           \/ \E h \in Handlers : \E i, caller, job, token, verdict :
                 StampRequest(h, i, caller, job, token, verdict)
           \/ Disown(c)
           \/ \E h : req' = [req EXCEPT ![h] = FreeSlot]
           \/ UNCHANGED req
    PROVE  RequestsCarry
<1>1. DOMAIN req = Handlers /\ FreeSlot.inv \notin Invoices /\ \A h \in Handlers : req[h] \in Slot
  BY StampingAssumption DEF RequestsOK, FreeSlot
<1>2. ASSUME NEW g \in Handlers, req'[g].inv \in Invoices
      PROVE  ReadTotal(req'[g].inv, req'[g].total)
  <2>1. \/ req'[g].inv = req[g].inv /\ req'[g].total = req[g].total
        \/ req'[g].total = inv[req'[g].inv].total
    <3>1. CASE Disown(c)
      BY <1>1, <1>2, <3>1 DEF Disown, Slot
    <3>2. CASE \E h \in Handlers : \E i, caller, job, token, verdict :
                  StampRequest(h, i, caller, job, token, verdict)
      BY <1>1, <3>2 DEF StampRequest
    <3>3. CASE (\E h : req' = [req EXCEPT ![h] = FreeSlot]) \/ UNCHANGED req
      BY <1>1, <1>2, <3>3
    <3> QED
      BY <3>1, <3>2, <3>3
  <2> QED
    BY <2>1 DEF ReadTotal
<1> QED
  BY <1>2 DEF RequestsCarry

\* A step of a run, of the queue or of the reconciliation, rewrites no total.
LEMMA RunTotals ==
    ASSUME Typed, QueueInv,
           \/ \E c \in Consumers : ConsumerStep(c)
           \/ \E r \in Reconcilers : ReconcilerStep(r) \/ CrashReconciler(r)
    PROVE  TotalsKept /\ RequestsCarry /\ PacCarries
<1>1. ASSUME NEW c \in Consumers, ConsumerStep(c)
      PROVE  TotalsKept /\ RequestsCarry /\ PacCarries
  <2>1. UNCHANGED <<pac, late>>
    BY <1>1 DEF ConsumerStep, SelectRow, TakeRow, SkipRow, ReadInvoice, LookUp, SaveRecovered,
       CloseRecovered, Invoke, Collect, StopWaiting, LoseRow
  <2>2. \/ \E h \in Handlers : \E k, caller, job, token, verdict :
              StampRequest(h, k, caller, job, token, verdict)
        \/ Disown(c)
        \/ \E h : req' = [req EXCEPT ![h] = FreeSlot]
        \/ UNCHANGED req
    BY <1>1 DEF ConsumerStep, SelectRow, TakeRow, SkipRow, ReadInvoice, LookUp, SaveRecovered,
       CloseRecovered, Invoke, Collect, StopWaiting, LoseRow
  <2>3. TotalsKept
    <3>1. CASE UNCHANGED inv
      BY <3>1, NothingCarried
    <3>2. CASE SaveRecovered(c)
      <4>1. PICK row :
               row = [inv[SubjectOf(c)] EXCEPT
                        !.fid = work[c].doc,
                        !.uuid = IF work[c].kind = "valid" THEN work[c].doc ELSE @,
                        !.status = IF work[c].kind = "failed" THEN "error" ELSE "stamping"]
        OBVIOUS
      <4>2. Write(SubjectOf(c), row) \/ UNCHANGED inv
        BY <3>2, <4>1 DEF SaveRecovered
      <4>3. SubjectOf(c) \in Invoices
        <5>1. work[c].step # "none"
          BY <3>2 DEF SaveRecovered, Step
        <5> QED
          BY <5>1, SubjectIsInvoice DEF Typed
      <4>4. row.total = inv[SubjectOf(c)].total
        BY <4>1, <4>3 DEF Typed, RowsOK, Invoice
      <4> QED
        BY <4>2, <4>3, <4>4, NothingCarried, RowTotals DEF Typed, WriteOrLose
    <3>3. UNCHANGED inv \/ SaveRecovered(c)
      BY <1>1 DEF ConsumerStep, SelectRow, TakeRow, SkipRow, ReadInvoice, LookUp,
         CloseRecovered, Invoke, Collect, StopWaiting, LoseRow
    <3> QED
      BY <3>1, <3>2, <3>3
  <2> QED
    BY <2>1, <2>2, <2>3, NothingCarried, RequestsBring DEF Typed
<1>2. ASSUME NEW r \in Reconcilers, ReconcilerStep(r) \/ CrashReconciler(r)
      PROVE  TotalsKept /\ RequestsCarry /\ PacCarries
  <2>1. UNCHANGED <<req, pac, late>>
    BY <1>2 DEF ReconcilerStep, CrashReconciler, SelectStuck, ClaimStuck, SkipStuck,
       ResolveStuck, LookupFails, FetchStuck, FetchLost
  <2> SUFFICES TotalsKept
    BY <2>1, NothingCarried
  <2>2. ASSUME NEW i \in Invoices, NEW row, Write(i, row), row.total = inv[i].total
        PROVE  TotalsKept
    BY <2>2, RowTotals DEF Typed, WriteOrLose
  <2>3. rec[r].pc # "idle" => rec[r].inv \in Invoices /\ inv[rec[r].inv] \in Invoice
    BY DEF Typed, CyclesOK, RowsOK
  <2>4. CASE UNCHANGED inv
    BY <2>4, NothingCarried
  <2>5. CASE ClaimStuck(r)
    BY <2>2, <2>3, <2>5 DEF ClaimStuck
  <2>6. CASE ResolveStuck(r)
    <3>1. PICK i \in Invoices : i = rec[r].inv /\ inv[i] \in Invoice
      BY <2>3, <2>6 DEF ResolveStuck
    <3>2. \A d : Resolved(inv[i], d).total = inv[i].total
      BY <3>1 DEF Resolved, Invoice
    <3>3. \A n : Missed(inv[i], n).total = inv[i].total
      BY <3>1 DEF Missed, Invoice
    <3> QED
      BY <2>2, <2>6, <3>1, <3>2, <3>3 DEF ResolveStuck
  <2>7. CASE FetchStuck(r)
    <3>1. PICK i \in Invoices : i = rec[r].inv /\ inv[i] \in Invoice
      BY <2>3, <2>7 DEF FetchStuck
    <3>2. Reconciled(inv[i], rec[r]).total = inv[i].total
      BY <3>1 DEF Reconciled, Invoice
    <3>3. CASE ReconcileRow(i, rec[r])
      BY <2>2, <2>4, <3>1, <3>2, <3>3 DEF ReconcileRow, UnchangedInvoices
    <3>4. CASE GiveUpXml(i, rec[r])
      <4>1. PICK row, status, pending, n :
               /\ row = [inv[i] EXCEPT !.status = status, !.xmlPending = pending,
                                       !.attempts = n]
               /\ Write(i, row)
        BY <3>4 DEF GiveUpXml
      <4>2. row.total = inv[i].total
        BY <3>1, <4>1 DEF Invoice
      <4> QED
        BY <2>2, <4>1, <4>2
    <3> QED
      BY <2>7, <3>1, <3>3, <3>4 DEF FetchStuck
  <2>8. UNCHANGED inv \/ ClaimStuck(r) \/ ResolveStuck(r) \/ FetchStuck(r)
    BY <1>2 DEF ReconcilerStep, CrashReconciler, SelectStuck, SkipStuck, LookupFails, FetchLost
  <2> QED
    BY <2>4, <2>5, <2>6, <2>7, <2>8
<1> QED
  BY <1>1, <1>2

LEMMA UntouchedStep ==
    ASSUME Typed, QueueInv, Untouched, [Next]_vars
    PROVE  Untouched'
<1> SUFFICES TotalsKept /\ RequestsCarry /\ PacCarries
  BY UntouchedStays
<1>1. ASSUME NEW i \in Invoices, EditInvoice(i)
      PROVE  TotalsKept /\ RequestsCarry /\ PacCarries
  <2>1. UNCHANGED <<req, pac, late>>
    BY <1>1 DEF EditInvoice
  <2>2. /\ \A k \in Invoices \ {i} : inv'[k] = inv[k]
        /\ inv'[i].total = inv[i].total + 1 /\ inv[i].total \in Nat
    BY <1>1, StampingAssumption DEF EditInvoice, Write, Typed, RowsOK, Invoice
  <2> QED
    BY <2>1, <2>2, NothingCarried DEF TotalsKept
<1>2. ASSUME NEW h \in Handlers, NEW i \in Invoices, UserRequest(h, i)
      PROVE  TotalsKept /\ RequestsCarry /\ PacCarries
  BY <1>2, NothingCarried, RequestsBring DEF UserRequest, Typed
<1>3. ASSUME NEW l \in late, PacServesLate(l)
      PROVE  TotalsKept /\ RequestsCarry /\ PacCarries
  <2>1. l.inv \in Invoices /\ ReadTotal(l.inv, l.total) /\ late' \subseteq late
    BY <1>3 DEF Typed, PacOK, Aborted, ReadTotal, PacServesLate
  <2>2. UNCHANGED pac => PacCarries
    BY <2>1 DEF PacCarries, ReadTotal
  <2>3. PacCarries
    BY <1>3, <2>1, <2>2, CreatesCarry DEF PacServesLate, Typed
  <2> QED
    BY <1>3, <2>3, NothingCarried DEF PacServesLate
<1>4. ASSUME NEW d \in Documents, PacSettles(d) \/ PacLists(d)
      PROVE  TotalsKept /\ RequestsCarry /\ PacCarries
  <2>1. \A e \in Documents : pac'[e].inv = pac[e].inv /\ pac'[e].total = pac[e].total
    BY <1>4 DEF PacSettles, PacLists, Typed, PacOK, PacDocument
  <2>2. UNCHANGED <<inv, req, late>>
    BY <1>4 DEF PacSettles, PacLists
  <2>3. PacCarries
    BY <2>1, <2>2 DEF PacCarries, ReadTotal
  <2> QED
    BY <2>2, <2>3, NothingCarried
<1>5. CASE UNCHANGED vars
  BY <1>5, NothingCarried DEF vars
<1> QED
  BY <1>1, <1>2, <1>3, <1>4, <1>5, HandlerTotals, RunTotals DEF Next, PacStep

\* What is listed stays listed, and documents that do not exist have no state.
PacLasts ==
    /\ \A d \in Documents :
          pac[d].inv # NoInvoice /\ pac[d].listed => pac'[d].inv = pac[d].inv /\ pac'[d].listed
    /\ \A d \in Documents : pac'[d].inv = NoInvoice => pac'[d].state = "pending"

LEMMA CreatesLast ==
    ASSUME PacOK, FailuresKnown, NEW i \in Invoices, NEW total, NEW d \in Documents, NEW state,
           Creates(i, total, d, state)
    PROVE  PacLasts
<1>1. CASE UNCHANGED pac
  BY <1>1 DEF PacLasts, FailuresKnown
<1>2. CASE /\ d \in Unused
           /\ pac' = [pac EXCEPT ![d] = [inv |-> i, state |-> state, listed |-> PacIsPrompt,
                                         total |-> total]]
  <2>1. /\ pac[d].inv = NoInvoice /\ pac'[d].inv = i /\ i # NoInvoice
        /\ \A e \in Documents \ {d} : pac'[e] = pac[e]
    BY <1>2, StampingAssumption DEF Unused, PacOK
  <2> QED
    BY <2>1 DEF PacLasts, FailuresKnown
<1> QED
  BY <1>1, <1>2 DEF Creates

LEMMA PacStepLasts ==
    ASSUME Typed, FailuresKnown, [Next]_vars
    PROVE  PacLasts
<1>0. PacOK
  BY DEF Typed
<1>1. UNCHANGED pac => PacLasts
  BY DEF PacLasts, FailuresKnown
<1>2. ASSUME NEW l \in late, PacServesLate(l)
      PROVE  PacLasts
  <2>1. l.inv \in Invoices
    BY <1>0 DEF PacOK, Aborted
  <2> QED
    BY <1>0, <1>1, <1>2, <2>1, CreatesLast DEF PacServesLate
<1>3. ASSUME NEW d \in Documents, PacSettles(d) \/ PacLists(d)
      PROVE  PacLasts
  <2>1. /\ pac'[d].inv = pac[d].inv /\ pac[d].inv # NoInvoice
        /\ pac[d].listed => pac'[d].listed
        /\ \A e \in Documents \ {d} : pac'[e] = pac[e]
    BY <1>0, <1>3 DEF PacSettles, PacLists, PacOK, PacDocument
  <2> QED
    BY <2>1 DEF PacLasts, FailuresKnown
<1>4. ASSUME NEW h \in Handlers, PacAnswers(h) \/ PacLosesAnswer(h)
      PROVE  PacLasts
  <2>1. req[h].inv \in Invoices
    BY <1>4 DEF PacAnswers, PacLosesAnswer, Serves, Typed, RequestsOK
  <2> QED
    BY <1>0, <1>4, <2>1, CreatesLast DEF PacAnswers, PacLosesAnswer
<1> QED
  <2>1. CASE UNCHANGED vars
    BY <1>1, <2>1 DEF vars
  <2>2. CASE \/ \E i \in Invoices : EditInvoice(i)
             \/ \E h \in Handlers, i \in Invoices : UserRequest(h, i)
    BY <1>1, <2>2 DEF EditInvoice, UserRequest
  <2>3. ASSUME NEW h \in Handlers, HandlerStep(h) \/ CrashRequest(h)
        PROVE  PacLasts
    BY <1>1, <1>4, <2>3 DEF HandlerStep, CrashRequest, ClaimInvoice, RefuseConfig, StampStub,
       SendToPac, PacRefuses, TimeOut, RecordRefusal, EnqueueRetry, EnqueueLost,
       RecordIncomplete, PersistIds, FinishStamping
  <2>4. ASSUME NEW c \in Consumers, ConsumerStep(c)
        PROVE  UNCHANGED pac
    BY <2>4 DEF ConsumerStep, SelectRow, TakeRow, SkipRow, ReadInvoice, LookUp, SaveRecovered,
       CloseRecovered, Invoke, Collect, StopWaiting, LoseRow
  <2>5. ASSUME NEW r \in Reconcilers, ReconcilerStep(r) \/ CrashReconciler(r)
        PROVE  UNCHANGED pac
    BY <2>5 DEF ReconcilerStep, CrashReconciler, SelectStuck, ClaimStuck, SkipStuck,
       ResolveStuck, LookupFails, FetchStuck, FetchLost
  <2> QED
    BY <1>1, <1>2, <1>3, <2>1, <2>2, <2>3, <2>4, <2>5 DEF Next, PacStep

\* A row stays without a CFDI while it is left alone.
LEMMA BlankStays ==
    ASSUME FailuresKnown, PacGrows, NEW row, Blank(row)
    PROVE  Blank(row)'
BY DEF FailuresKnown, PacGrows, Blank, Dead

LEMMA DeadStays ==
    ASSUME FailuresKnown, PacGrows, NEW d, Dead(d)
    PROVE  Dead(d)'
BY DEF FailuresKnown, PacGrows, Dead

LEMMA ListedStays ==
    ASSUME PacLasts, NEW i \in Invoices, NEW d, Listed(i, d)
    PROVE  Listed(i, d)'
<1>1. i # NoInvoice
  BY StampingAssumption
<1> QED
  BY <1>1 DEF PacLasts, Listed, DocsOf

\* What has to be shown of a step: of the rows it makes open, of the requests it lets
\* claim a row, of the failures it learns and of the rows it reads or saves.
RowTraced(i) ==
    Status(i)' \in Open =>
        \/ /\ Status(i) \in Open /\ inv'[i].fid = inv[i].fid
           /\ SetAside(inv[i]) => SetAside(inv[i])'
        \/ Blank(inv[i])' \/ SetAside(inv[i])' \/ i \in crossed'

RequestTraced(h) ==
    /\ req'[h].pc \in Early =>
          \/ /\ req[h].pc \in Early /\ req'[h].inv = req[h].inv
             /\ inv'[req[h].inv].fid = inv[req[h].inv].fid
          \/ Blank(RowOf(h))' \/ req'[h].inv \in crossed'
    /\ req'[h].pc = "record" /\ req'[h].kind = "failed" =>
          \/ req[h].pc = "record" /\ req[h].kind = "failed" /\ req'[h].doc = req[h].doc
          \/ Dead(req[h].doc)'

RunTraced(c) ==
    work'[c].step = "save" /\ work'[c].kind = "failed" =>
        work'[c] = work[c] \/ Dead(work[c].doc)'

CycleTraced(r) ==
    Watches(r)' /\ rec'[r].fid = NoDoc =>
        \/ /\ Watches(r) /\ rec'[r].inv = rec[r].inv /\ rec[r].fid = NoDoc
           /\ inv'[rec[r].inv].fid = inv[rec[r].inv].fid
        \/ inv'[rec'[r].inv].fid = NoDoc
        \/ Listed(rec[r].inv, inv[rec[r].inv].fid)'

LEMMA StepTraced ==
    ASSUME Typed, Traced, PacGrows, PacLasts, crossed \subseteq crossed',
           \A i \in Invoices : RowTraced(i), \A h \in Handlers : RequestTraced(h),
           \A c \in Consumers : RunTraced(c), \A r \in Reconcilers : CycleTraced(r)
    PROVE  Traced'
<1> USE DEF Traced
<1>1. RowsOpen'
  <2> SUFFICES ASSUME NEW i \in Invoices, i \notin crossed', Status(i)' \in Open
               PROVE  Blank(inv[i])' \/ SetAside(inv[i])'
    BY DEF RowsOpen
  <2>1. CASE /\ Status(i) \in Open /\ inv'[i].fid = inv[i].fid
             /\ SetAside(inv[i]) => SetAside(inv[i])'
    <3>1. PICK row : row = inv[i]
      OBVIOUS
    <3>2. CASE Blank(row)
      <4>1. Blank(row)'
        BY <3>2, BlankStays
      <4> QED
        BY <2>1, <3>1, <4>1 DEF Blank, Dead
    <3>3. CASE SetAside(row)
      BY <2>1, <3>1, <3>3
    <3> QED
      BY <2>1, <3>1, <3>2, <3>3 DEF RowsOpen
  <2> QED
    BY <2>1 DEF RowTraced
<1>2. EmittersBlank'
  <2> SUFFICES ASSUME NEW h \in Handlers, req'[h].pc \in Early, req'[h].inv \notin crossed'
               PROVE  Blank(RowOf(h))'
    BY DEF EmittersBlank
  <2>1. CASE /\ req[h].pc \in Early /\ req'[h].inv = req[h].inv
             /\ inv'[req[h].inv].fid = inv[req[h].inv].fid
    <3>1. PICK row : row = RowOf(h)
      OBVIOUS
    <3>2. Blank(row)'
      BY <2>1, <3>1, BlankStays DEF EmittersBlank
    <3> QED
      BY <2>1, <3>1, <3>2 DEF Blank, Dead, RowOf
  <2> QED
    BY <2>1 DEF RequestTraced
<1>3. FailuresKnown'
  <2>1. \A d \in Documents : pac'[d].inv = NoInvoice => pac'[d].state = "pending"
    BY DEF PacLasts
  <2>2. ASSUME NEW h \in Handlers, req'[h].pc = "record", req'[h].kind = "failed"
        PROVE  Dead(req[h].doc)'
    <3>1. CASE req[h].pc = "record" /\ req[h].kind = "failed" /\ req'[h].doc = req[h].doc
      <4>1. PICK d : d = req[h].doc
        OBVIOUS
      <4>2. Dead(d)'
        BY <3>1, <4>1, DeadStays DEF FailuresKnown
      <4> QED
        BY <3>1, <4>1, <4>2 DEF Dead
    <3> QED
      BY <2>2, <3>1 DEF RequestTraced
  <2>3. ASSUME NEW c \in Consumers, work'[c].step = "save", work'[c].kind = "failed"
        PROVE  Dead(work[c].doc)'
    <3>1. CASE work'[c] = work[c]
      <4>1. PICK d : d = work[c].doc
        OBVIOUS
      <4>2. Dead(d)'
        BY <2>3, <3>1, <4>1, DeadStays DEF FailuresKnown
      <4> QED
        BY <3>1, <4>1, <4>2 DEF Dead
    <3> QED
      BY <2>3, <3>1 DEF RunTraced
  <2> QED
    BY <2>1, <2>2, <2>3 DEF FailuresKnown
<1>4. CyclesInformed'
  <2> SUFFICES ASSUME NEW r \in Reconcilers, Watches(r)', rec'[r].fid = NoDoc
               PROVE  \/ inv'[rec'[r].inv].fid = NoDoc
                      \/ Listed(rec[r].inv, inv[rec[r].inv].fid)'
    BY DEF CyclesInformed
  <2>1. CASE /\ Watches(r) /\ rec'[r].inv = rec[r].inv /\ rec[r].fid = NoDoc
             /\ inv'[rec[r].inv].fid = inv[rec[r].inv].fid
    <3>1. PICK i \in Invoices : i = rec[r].inv
      BY <2>1 DEF Watches, Typed, CyclesOK
    <3>2. PICK d : d = inv[i].fid
      OBVIOUS
    <3>3. d = NoDoc \/ Listed(i, d)
      BY <2>1, <3>1, <3>2 DEF CyclesInformed
    <3>4. d = NoDoc \/ Listed(i, d)'
      BY <3>3, ListedStays
    <3> QED
      BY <2>1, <3>1, <3>2, <3>4 DEF Listed, DocsOf
  <2> QED
    BY <2>1 DEF CycleTraced
<1> QED
  BY <1>1, <1>2, <1>3, <1>4

\* Steps that change no row: rows, runs that read nothing and requests that go on.
LEMMA RowsAsTheyWere ==
    ASSUME UNCHANGED inv
    PROVE  \A i \in Invoices : RowTraced(i)
BY DEF RowTraced, Status

LEMMA CyclesAsTheyWere ==
    ASSUME UNCHANGED inv, \A r \in Reconcilers : Watches(r)' => Watches(r) /\ rec'[r] = rec[r]
    PROVE  \A r \in Reconcilers : CycleTraced(r)
BY DEF CycleTraced

LEMMA RunsAsTheyWere ==
    ASSUME \A c \in Consumers : work'[c].step = "save" => work'[c] = work[c]
    PROVE  \A c \in Consumers : RunTraced(c)
BY DEF RunTraced

\* A request that begins, or that a run lets go.
LEMMA RequestsGoOn ==
    ASSUME Typed, UNCHANGED inv, NEW c,
           \/ \E h \in Handlers : \E i, caller, job, token, verdict :
                 StampRequest(h, i, caller, job, token, verdict)
           \/ Disown(c)
           \/ \E h : req' = [req EXCEPT ![h] = FreeSlot]
           \/ UNCHANGED req
    PROVE  \A h \in Handlers : RequestTraced(h)
<1> SUFFICES ASSUME NEW g \in Handlers PROVE RequestTraced(g)
  OBVIOUS
<1>1. DOMAIN req = Handlers /\ req[g] \in Slot /\ FreeSlot.pc = "idle"
  BY Records DEF Typed, RequestsOK
<1>2. ASSUME \/ req'[g].pc \in {"idle", "claim", "answered"}
             \/ req'[g] = req[g] \/ req'[g] = [req[g] EXCEPT !.caller = User]
      PROVE  RequestTraced(g)
  <2>1. CASE req'[g].pc \in {"idle", "claim", "answered"}
    BY <2>1 DEF RequestTraced, Early
  <2>2. CASE req'[g] = req[g] \/ req'[g] = [req[g] EXCEPT !.caller = User]
    <3>1. /\ req'[g].pc = req[g].pc /\ req'[g].inv = req[g].inv
          /\ req'[g].kind = req[g].kind /\ req'[g].doc = req[g].doc
      BY <1>1, <2>2 DEF Slot
    <3> QED
      BY <3>1 DEF RequestTraced
  <2> QED
    BY <1>2, <2>1, <2>2
<1>3. CASE Disown(c)
  BY <1>1, <1>2, <1>3 DEF Disown
<1>4. CASE \E h \in Handlers : \E i, caller, job, token, verdict :
              StampRequest(h, i, caller, job, token, verdict)
  <2>1. PICK h \in Handlers : \E i, caller, job, token, verdict :
           StampRequest(h, i, caller, job, token, verdict)
    BY <1>4
  <2>2. req'[g] = req[g] \/ req'[g].pc \in {"claim", "answered"}
    BY <1>1, <2>1 DEF StampRequest
  <2> QED
    BY <1>2, <2>2
<1>5. CASE (\E h : req' = [req EXCEPT ![h] = FreeSlot]) \/ UNCHANGED req
  BY <1>1, <1>2, <1>5
<1> QED
  BY <1>3, <1>4, <1>5

\* What the other processes see of a write of a row by the one that is at work on it.
LEMMA OthersTraced ==
    ASSUME Typed, NEW i \in Invoices, NEW row, WriteOrLose(i, row), NoCycle(i)',
           \A r \in Reconcilers : rec'[r] = rec[r] \/ rec'[r].pc = "idle", NEW h,
           \A g \in Handlers \ {h} : req'[g] = req[g] /\ (req[g].pc \in Early => req[g].inv # i)
    PROVE  /\ \A k \in Invoices \ {i} : RowTraced(k)
           /\ \A g \in Handlers \ {h} : RequestTraced(g)
           /\ \A r \in Reconcilers : CycleTraced(r)
<1>1. /\ \A k \in Invoices \ {i} : inv'[k] = inv[k]
      /\ fresh' \subseteq fresh
      /\ inv' = inv \/ fresh' \cap Readers(i) = {}
  BY DEF WriteOrLose, Write, UnchangedInvoices, Typed, RowsOK
<1>2. \A k \in Invoices \ {i} : RowTraced(k)
  BY <1>1 DEF RowTraced, Status
<1>3. ASSUME NEW g \in Handlers \ {h}
      PROVE  RequestTraced(g)
  <2>1. req'[g] = req[g] /\ (req[g].pc \in Early => req[g].inv \in Invoices \ {i})
    BY DEF Typed, RequestsOK, Early
  <2> QED
    BY <1>1, <2>1 DEF RequestTraced
<1>4. ASSUME NEW r \in Reconcilers, Watches(r)', rec'[r].fid = NoDoc
      PROVE  CycleTraced(r)
  <2>1. Watches(r) /\ rec'[r] = rec[r] /\ rec[r].inv \in Invoices
    BY <1>1, <1>4 DEF Watches, Typed, CyclesOK
  <2>2. inv'[rec[r].inv].fid = inv[rec[r].inv].fid
    BY <1>1, <1>4, <2>1 DEF Watches, Readers, NoCycle
  <2> QED
    BY <1>4, <2>1, <2>2 DEF CycleTraced
<1>5. \A r \in Reconcilers : CycleTraced(r)
  BY <1>4 DEF CycleTraced
<1> QED
  BY <1>2, <1>3, <1>5

\* A write of a row by the request that has claimed it: what it leaves open has no
\* CFDI, or differs from it.
LEMMA EmitterTraced ==
    ASSUME RecoveryAlone, Traced, PacGrows, PacLasts, crossed \subseteq crossed',
           NEW h \in Handlers, Emitting(h),
           OnlyHandler(h), UNCHANGED pac, req'[h].pc \notin Early,
           NEW row, WriteOrLose(req[h].inv, row),
           row.status \in Open => Blank(row) \/ SetAside(row) \/ req[h].inv \in crossed
    PROVE  Traced'
<1> USE DEF RecoveryAlone, RecoveryInv, Exclusive
<1>1. PICK i \in Invoices : i = req[h].inv /\ WriteOrLose(i, row) /\ NoCycle(i)
  <2>1. NoCycle(req[h].inv)
    BY DEF NoCycle, CyclesAlone, NoEmitter
  <2> QED
    BY <2>1 DEF Typed, RequestsOK, Emitting
<1>2. \A g \in Handlers \ {h} : req'[g] = req[g] /\ (req[g].pc \in Early => req[g].inv # i)
  BY <1>1 DEF OnlyHandler, SingleEmitter, Emitting, Early
<1>3. /\ \A k \in Invoices \ {i} : RowTraced(k)
      /\ \A g \in Handlers \ {h} : RequestTraced(g)
      /\ \A r \in Reconcilers : CycleTraced(r)
  BY <1>1, <1>2, OthersTraced DEF OnlyHandler, NoCycle
<1>4. RowTraced(i)
  <2>1. CASE inv' = inv
    BY <2>1 DEF RowTraced, Status
  <2>2. CASE inv'[i] = row
    BY <1>1, <2>2 DEF RowTraced, Status, Blank, Dead, SetAside
  <2> QED
    BY <1>1, <2>1, <2>2 DEF WriteOrLose, Write, UnchangedInvoices, Typed, RowsOK
<1>5. RequestTraced(h)
  BY DEF RequestTraced, Early
<1>6. \A c \in Consumers : RunTraced(c)
  BY RunsAsTheyWere DEF OnlyHandler
<1> QED
  BY <1>3, <1>4, <1>5, <1>6, StepTraced

\* A step of a request.
LEMMA HandlerTraced ==
    ASSUME RecoveryAlone, Untouched, Traced, PacGrows, PacLasts, crossed \subseteq crossed',
           NEW h \in Handlers,
           HandlerStep(h) \/ CrashRequest(h)
    PROVE  Traced'
<1> USE DEF RecoveryAlone, RecoveryInv, Serves
<1>1. /\ RequestsOK /\ RowsOK /\ req[h] \in Slot /\ DOMAIN req = Handlers
      /\ UNCHANGED <<hold, work, rec>> \/ \E j \in Jobs : EnqueueRetry(h, j)
  BY DEF Typed, RequestsOK, HandlerStep, CrashRequest, ClaimInvoice, RefuseConfig,
     StampStub, SendToPac, PacAnswers, PacRefuses, PacLosesAnswer, TimeOut, RecordRefusal,
     EnqueueLost, RecordIncomplete, PersistIds, FinishStamping
<1>2. UNCHANGED <<hold, work, rec>>
  BY <1>1 DEF EnqueueRetry, Queue!Enqueue
<1>3. \A c \in Consumers : RunTraced(c)
  BY <1>2, RunsAsTheyWere
<1>4. ASSUME UNCHANGED <<inv, fresh>>, \A g \in Handlers : RequestTraced(g)
      PROVE  Traced'
  <2>1. \A r \in Reconcilers : CycleTraced(r)
    BY <1>2, <1>4, CyclesAsTheyWere DEF Watches
  <2> QED
    BY <1>3, <1>4, <2>1, RowsAsTheyWere, StepTraced
<1>5. ASSUME UNCHANGED <<inv, fresh>>, \A g \in Handlers \ {h} : req'[g] = req[g],
             RequestTraced(h)
      PROVE  Traced'
  BY <1>4, <1>5 DEF RequestTraced
<1>6. ASSUME NEW kind, Answer(h, kind)
      PROVE  /\ req'[h].pc \in {"idle", "answered"} /\ ~Emitting(h)'
             /\ \A g \in Handlers \ {h} : req'[g] = req[g]
  <2>1. ~Emitting(h)' /\ \A g \in Handlers \ {h} : req'[g] = req[g]
    BY <1>1, <1>6, AnswerEnds
  <2>2. req'[h] = FreeSlot \/ req'[h] = [req[h] EXCEPT !.pc = "answered", !.kind = kind]
    BY <1>1, <1>6 DEF Answer
  <2> QED
    BY <1>1, <2>1, <2>2, Records DEF Slot
<1>7. ASSUME NEW pc, GoTo(h, pc)
      PROVE  /\ req'[h].pc = pc /\ req'[h].inv = req[h].inv
             /\ \A g \in Handlers \ {h} : req'[g] = req[g]
  BY <1>1, <1>7 DEF GoTo, Slot
<1>8. /\ req[h].inv \in Invoices => inv[req[h].inv] \in Invoice
      /\ RowOf(h) = inv[req[h].inv]
  BY <1>1 DEF RowsOK, RowOf
<1>9. ASSUME req[h].pc = "claim", Claimable(RowOf(h)),
             Write(req[h].inv, [RowOf(h) EXCEPT !.status = "stamping"]), GoTo(h, "config"),
             UNCHANGED pac
      PROVE  Traced'
  <2>1. PICK i \in Invoices : i = req[h].inv
    BY <1>9 DEF Typed, RequestsOK
  <2>2. PICK row : row = [RowOf(h) EXCEPT !.status = "stamping"]
    OBVIOUS
  <2>3. /\ inv[i] \in Invoice /\ Status(i) \in Open /\ inv[i].uuid = NoDoc
        /\ row.status = "stamping" /\ row.fid = inv[i].fid /\ Write(i, row)
    BY <1>1, <1>9, <2>1, <2>2 DEF RowsOK, RowOf, Claimable, Open, Status, Invoice
  <2>4. NoEmitter(i) /\ NoCycle(i)
    BY <2>3 DEF NoEmitter, NoCycle, Exclusive, EmittersMark, CyclesAlone, Open
  <2>5. \A g \in Handlers \ {h} : req'[g] = req[g] /\ (req[g].pc \in Early => req[g].inv # i)
    BY <1>7, <1>9, <2>4 DEF NoEmitter, Emitting, Early
  <2>6. /\ \A k \in Invoices \ {i} : RowTraced(k)
        /\ \A g \in Handlers \ {h} : RequestTraced(g)
        /\ \A r \in Reconcilers : CycleTraced(r)
    BY <1>2, <2>3, <2>4, <2>5, OthersTraced DEF WriteOrLose, NoCycle
  <2>7. inv'[i] = row
    BY <1>1, <2>3 DEF Write, RowsOK
  <2>8. RowTraced(i)
    BY <2>3, <2>7 DEF RowTraced, Status, Open
  <2>9. RequestTraced(h)
    <3>1. i \in crossed \/ Blank(inv[i])
      BY <2>3 DEF Traced, RowsOpen, SetAside
    <3>2. i \in crossed \/ Blank(RowOf(h))'
      BY <1>7, <1>9, <2>1, <2>3, <2>7, <3>1 DEF Blank, Dead, RowOf
    <3> QED
      BY <1>7, <1>9, <2>1, <3>2 DEF RequestTraced
  <2> QED
    BY <1>3, <2>6, <2>8, <2>9, StepTraced
<1>10. CASE ClaimInvoice(h)
  <2>1. CASE Claimable(RowOf(h))
    BY <1>9, <1>10, <2>1 DEF ClaimInvoice
  <2>2. CASE ~Claimable(RowOf(h))
    BY <1>5, <1>6, <1>10, <2>2 DEF ClaimInvoice, RequestTraced, Early, UnchangedInvoices
  <2> QED
    BY <2>1, <2>2
<1>11. CASE RefuseConfig(h) \/ RecordRefusal(h)
  <2>1. PICK row : row = RefusedRow(RowOf(h))
    OBVIOUS
  <2>2. req[h].pc \in Early /\ Emitting(h) /\ UNCHANGED pac /\ WriteOrLose(req[h].inv, row)
    BY <1>11, <2>1 DEF RefuseConfig, RecordRefusal, Early, Emitting
  <2>3. Blank(row) \/ req[h].inv \in crossed
    <3>1. row.fid = RowOf(h).fid
      BY <1>8, <2>1, <2>2 DEF RefusedRow, Invoice, Typed, RequestsOK, Early
    <3> QED
      BY <2>2, <3>1 DEF Traced, EmittersBlank, Blank
  <2>4. req'[h].pc \notin Early /\ OnlyHandler(h)
    BY <1>2, <1>6, <1>7, <1>11 DEF RefuseConfig, RecordRefusal, Early, OnlyHandler, Emitting
  <2> QED
    BY <2>2, <2>3, <2>4, EmitterTraced
<1>12. CASE StampStub(h)
  <2>1. PICK row : row = [RowOf(h) EXCEPT !.status = "stamped", !.uuid = MockDoc, !.xml = TRUE]
    OBVIOUS
  <2>2. /\ row.status = "stamped" /\ Emitting(h) /\ UNCHANGED pac
        /\ WriteOrLose(req[h].inv, row) /\ req'[h].pc \notin Early /\ OnlyHandler(h)
    BY <1>1, <1>2, <1>6, <1>8, <1>12, <2>1
    DEF StampStub, Emitting, Invoice, Early, OnlyHandler, RequestsOK
  <2> QED
    BY <2>2, EmitterTraced DEF Open
<1>13. CASE SendToPac(h)
  BY <1>5, <1>7, <1>13 DEF SendToPac, RequestTraced, Early
<1>14. CASE PacAnswers(h)
  <2>1. PICK d \in Documents, state \in PacState :
           /\ Creates(req[h].inv, req[h].total, d, state)
           /\ req' = [req EXCEPT ![h].pc = AfterAnswer(state), ![h].doc = d, ![h].kind = state]
           /\ UNCHANGED <<inv, fresh>> /\ req[h].pc = "sent"
    BY <1>14 DEF PacAnswers
  <2>2. pac'[d].state = state
    <3>1. req[h].inv \in Invoices /\ req[h].total \in 0..MaxEdits
      BY <1>1, <2>1 DEF RequestsOK, Slot
    <3> QED
      BY <2>1, <3>1, CreatesGrow DEF Typed, OwnDocs
  <2>3. /\ req'[h].pc \in {"record", "persist"} /\ req'[h].doc = d /\ req'[h].inv = req[h].inv
        /\ req'[h].kind = state /\ \A g \in Handlers \ {h} : req'[g] = req[g]
    BY <1>1, <2>1 DEF Slot, AfterAnswer
  <2>4. RequestTraced(h)
    BY <2>1, <2>2, <2>3 DEF RequestTraced, Early, Dead
  <2> QED
    BY <1>5, <2>1, <2>3, <2>4
<1>15. CASE PacRefuses(h) \/ PacLosesAnswer(h)
  <2>1. PICK kind : req' = [req EXCEPT ![h].pc = "refused", ![h].kind = kind]
    BY <1>15 DEF PacRefuses, PacLosesAnswer
  <2>2. /\ req'[h].pc = "refused" /\ req'[h].inv = req[h].inv
        /\ \A g \in Handlers \ {h} : req'[g] = req[g]
    BY <1>1, <2>1 DEF Slot
  <2> QED
    BY <1>5, <1>15, <2>2 DEF PacRefuses, PacLosesAnswer, RequestTraced, Early
<1>16. CASE \/ TimeOut(h) \/ (\E j \in Jobs : EnqueueRetry(h, j)) \/ EnqueueLost(h)
  <2>1. UNCHANGED <<inv, fresh>> /\ \E kind : Answer(h, kind)
    BY <1>16 DEF TimeOut, EnqueueRetry, EnqueueLost
  <2> QED
    BY <1>5, <1>6, <2>1 DEF RequestTraced, Early
<1>17. CASE RecordIncomplete(h)
  <2>1. PICK row : row = [RowOf(h) EXCEPT !.fid = req[h].doc,
                            !.status = IF req[h].kind = "failed" THEN "error" ELSE "stamping"]
    OBVIOUS
  <2>2. /\ row.fid = req[h].doc
        /\ row.status = IF req[h].kind = "failed" THEN "error" ELSE "stamping"
    BY <1>1, <1>8, <1>17, <2>1 DEF RecordIncomplete, Invoice, RequestsOK
  <2>3. row.status \in Open => Blank(row)
    BY <1>17, <2>2 DEF RecordIncomplete, Open, Blank, Traced, FailuresKnown
  <2>4. /\ Emitting(h) /\ UNCHANGED pac
        /\ WriteOrLose(req[h].inv, row) /\ req'[h].pc \notin Early /\ OnlyHandler(h)
    BY <1>2, <1>6, <1>17, <2>1 DEF RecordIncomplete, Emitting, Early, OnlyHandler
  <2> QED
    BY <2>3, <2>4, EmitterTraced
<1>18. CASE PersistIds(h)
  <2>1. PICK row : row = [RowOf(h) EXCEPT !.fid = req[h].doc, !.uuid = req[h].doc]
    OBVIOUS
  <2>2. row.status = RowOf(h).status /\ Emitting(h)
    BY <1>1, <1>8, <1>18, <2>1 DEF PersistIds, Invoice, RequestsOK, Emitting
  <2>3. row.status = "stamping"
    BY <2>2 DEF Exclusive, EmittersMark, Status, RowOf
  <2>4. /\ UNCHANGED pac
        /\ WriteOrLose(req[h].inv, row) /\ req'[h].pc \notin Early /\ OnlyHandler(h)
    BY <1>2, <1>7, <1>18, <2>1 DEF PersistIds, Emitting, Early, OnlyHandler
  <2> QED
    BY <2>2, <2>3, <2>4, EmitterTraced DEF Open
<1>19. CASE FinishStamping(h)
  <2>1. Emitting(h) /\ UNCHANGED pac /\ \E kind : Answer(h, kind)
    BY <1>19 DEF FinishStamping, Emitting
  <2>2. req'[h].pc \notin Early /\ OnlyHandler(h)
    BY <1>2, <1>6, <2>1 DEF Early, OnlyHandler
  <2>3. CASE UNCHANGED <<inv, fresh>>
    BY <1>5, <1>6, <2>1, <2>3 DEF RequestTraced, Early
  <2>4. ASSUME NEW downloaded \in BOOLEAN,
               Write(req[h].inv,
                   [RowOf(h) EXCEPT !.fid = req[h].doc, !.uuid = req[h].doc,
                                    !.xml = downloaded,
                                    !.status = IF Variance(h) THEN "error" ELSE "stamped"])
        PROVE  Traced'
    <3>1. PICK row : row = [RowOf(h) EXCEPT !.fid = req[h].doc, !.uuid = req[h].doc,
                                    !.xml = downloaded,
                                    !.status = IF Variance(h) THEN "error" ELSE "stamped"]
      OBVIOUS
    <3>2. /\ row.uuid = req[h].doc /\ row.total = RowOf(h).total
          /\ row.status = IF Variance(h) THEN "error" ELSE "stamped"
      BY <1>1, <1>8, <1>19, <3>1 DEF FinishStamping, Invoice, RequestsOK
    <3>3. Variance(h) => row.total > 0 /\ req[h].doc # NoDoc
      <4>1. PICK i \in Invoices : i = req[h].inv
        BY <1>1, <1>19 DEF FinishStamping, RequestsOK
      <4>2. req[h].doc \in Documents /\ pac[req[h].doc].inv = i
        BY <1>1, <1>19, <4>1 DEF FinishStamping, RequestsOK, OwnDocs, RequestDocs
      <4>3. inv[i].total = 0 => ~Variance(h)
        BY <4>1, <4>2 DEF Untouched, Variance
      <4>4. row.total = inv[i].total /\ inv[i].total \in Nat
        BY <1>8, <3>2, <4>1, StampingAssumption DEF Invoice
      <4> QED
        BY <4>2, <4>3, <4>4, Ids
    <3>4. row.status \in Open => SetAside(row)
      BY <3>2, <3>3 DEF Open, SetAside
    <3>5. WriteOrLose(req[h].inv, row)
      BY <2>4, <3>1 DEF WriteOrLose
    <3> QED
      BY <2>1, <2>2, <3>4, <3>5, EmitterTraced
  <2> QED
    BY <1>19, <2>3, <2>4 DEF FinishStamping, UnchangedInvoices
<1>20. CASE CrashRequest(h)
  <2>1. req'[h].pc = "idle" /\ \A g \in Handlers \ {h} : req'[g] = req[g]
    BY <1>1, <1>20, Records DEF CrashRequest
  <2> QED
    BY <1>5, <1>20, <2>1 DEF CrashRequest, RequestTraced, Early
<1> QED
  BY <1>10, <1>11, <1>12, <1>13, <1>14, <1>15, <1>16, <1>17, <1>18, <1>19, <1>20 DEF HandlerStep

\* Writes that leave the status and the ids of every row as they are.
LEMMA SameTraced ==
    ASSUME Typed, UNCHANGED req, \A i \in Invoices : Status(i)' = Status(i) /\ IdsSame(i),
           \A i \in Invoices : SetAside(inv[i]) => SetAside(inv[i])',
           \A r \in Reconcilers : Watches(r)' =>
               Watches(r) /\ rec'[r].inv = rec[r].inv /\ rec'[r].fid = rec[r].fid
    PROVE  /\ \A i \in Invoices : RowTraced(i)
           /\ \A h \in Handlers : RequestTraced(h)
           /\ \A r \in Reconcilers : CycleTraced(r)
<1>1. \A i \in Invoices : RowTraced(i)
  BY DEF RowTraced, IdsSame
<1>2. ASSUME NEW h \in Handlers
      PROVE  RequestTraced(h)
  <2>1. req[h].pc \in Early => req[h].inv \in Invoices
    BY DEF Typed, RequestsOK, Early
  <2> QED
    BY <2>1 DEF RequestTraced, IdsSame
<1>3. ASSUME NEW r \in Reconcilers, Watches(r)', rec'[r].fid = NoDoc
      PROVE  CycleTraced(r)
  <2>1. Watches(r) /\ rec'[r].inv = rec[r].inv /\ rec'[r].fid = rec[r].fid
    BY <1>3
  <2>2. rec[r].inv \in Invoices
    BY <2>1 DEF Typed, CyclesOK, Watches
  <2> QED
    BY <1>3, <2>1, <2>2 DEF CycleTraced, IdsSame
<1>4. \A r \in Reconcilers : CycleTraced(r)
  BY <1>3 DEF CycleTraced
<1> QED
  BY <1>1, <1>2, <1>4

\* A run of the queue saves what it recovered: the row is that which it read, so nobody
\* else works on it, and it becomes 'error' only if the document failed.
LEMMA SaveTraced ==
    ASSUME RecoveryAlone, Traced, PacGrows, PacLasts, crossed \subseteq crossed',
           NEW c \in Consumers, c \in fresh,
           work[c].step = "save", OnlyRun(c), work'[c].step # "save",
           UNCHANGED <<hold, req, rec, pac>>, NEW row, row.fid = work[c].doc,
           row.status = IF work[c].kind = "failed" THEN "error" ELSE "stamping",
           Write(SubjectOf(c), row)
    PROVE  Traced'
<1> USE DEF RecoveryAlone, RecoveryInv, Exclusive
<1>1. PICK i \in Invoices : i = SubjectOf(c)
  BY SubjectIsInvoice DEF Typed
<1>2. Status(i) # "stamping" /\ inv'[i] = row /\ WriteOrLose(i, row)
  BY <1>1 DEF ReadersUnmarked, Write, WriteOrLose, Typed, RowsOK
<1>3. NoEmitter(i) /\ NoCycle(i)
  BY <1>2 DEF NoEmitter, NoCycle, EmittersMark, CyclesAlone
<1>4. /\ \A k \in Invoices \ {i} : RowTraced(k)
      /\ \A g \in Handlers : RequestTraced(g)
      /\ \A r \in Reconcilers : CycleTraced(r)
  <2>1. \A g \in Handlers : req'[g] = req[g] /\ (req[g].pc \in Early => req[g].inv # i)
    BY <1>3 DEF NoEmitter, Emitting, Early
  <2>2. Handlers \ {NoHandler} = Handlers /\ NoCycle(i)' /\ Typed
    BY <1>3, StampingAssumption DEF NoCycle
  <2> HIDE DEF RecoveryAlone, RecoveryInv, Exclusive
  <2> QED
    BY <1>2, <2>1, <2>2, OthersTraced
<1>5. RowTraced(i)
  BY <1>2 DEF RowTraced, Status, Open, Traced, FailuresKnown, Blank, Dead
<1>6. \A b \in Consumers : RunTraced(b)
  BY DEF RunTraced, OnlyRun
<1> QED
  BY <1>4, <1>5, <1>6, StepTraced

\* A step of a run of the queue.
LEMMA ConsumerTraced ==
    ASSUME RecoveryAlone, Traced, PacGrows, PacLasts, crossed \subseteq crossed',
           NEW c \in Consumers, ConsumerStep(c)
    PROVE  Traced'
<1> USE DEF RecoveryAlone, RecoveryInv
<1>1. /\ DOMAIN hold = Consumers /\ DOMAIN work = Consumers /\ work[c] \in Work
      /\ c \notin Reconcilers /\ UNCHANGED <<rec, pac>>
  BY StampingAssumption DEF Typed, WorkOK, QueueInv, Queue!TypeOK,
     ConsumerStep, SelectRow, TakeRow, SkipRow, ReadInvoice, LookUp, SaveRecovered,
     CloseRecovered, Invoke, Collect, StopWaiting, LoseRow
<1>2. ASSUME OnlyRun(c), UNCHANGED inv, fresh' \subseteq fresh \cup {c}, RunTraced(c),
             \/ \E h \in Handlers : \E i, caller, job, token, verdict :
                   StampRequest(h, i, caller, job, token, verdict)
             \/ Disown(c)
             \/ \E h : req' = [req EXCEPT ![h] = FreeSlot]
             \/ UNCHANGED req
      PROVE  Traced'
  <2>1. \A h \in Handlers : RequestTraced(h)
    BY <1>2, RequestsGoOn
  <2>2. \A r \in Reconcilers : CycleTraced(r)
    BY <1>1, <1>2, CyclesAsTheyWere DEF Watches
  <2>3. \A b \in Consumers : RunTraced(b)
    BY <1>2 DEF OnlyRun, RunTraced
  <2> QED
    BY <1>2, <2>1, <2>2, <2>3, RowsAsTheyWere, StepTraced
<1>3. Leaves(c) /\ Done(c) => OnlyRun(c) /\ fresh' \subseteq fresh /\ RunTraced(c)
  <2> SUFFICES ASSUME Leaves(c), Done(c)
               PROVE  OnlyRun(c) /\ fresh' \subseteq fresh /\ RunTraced(c)
    OBVIOUS
  <2>1. hold' = [hold EXCEPT ![c] = Queue!Idle]
    BY LeavesRow
  <2>2. work'[c].step = "none" /\ \A b \in Consumers \ {c} : work'[b] = work[b]
    BY <1>1, Records DEF Done
  <2> QED
    BY <1>1, <2>1, <2>2 DEF OnlyRun, RunTraced, Done
<1>4. CASE Leaves(c) /\ Done(c) /\ UNCHANGED <<inv, req>>
  BY <1>2, <1>3, <1>4
<1>5. CASE (\E j \in Jobs : SelectRow(c, j)) \/ TakeRow(c) \/ SkipRow(c)
  <2>1. UNCHANGED <<inv, fresh, req>> /\ OnlyRun(c)
    BY <1>1, <1>5 DEF SelectRow, TakeRow, SkipRow, Queue!SelectRow, Queue!Claim,
       Queue!ClaimSkipped, OnlyRun
  <2>2. RunTraced(c)
    BY <1>1, <1>5 DEF SelectRow, TakeRow, SkipRow, RunTraced, Work
  <2> QED
    BY <1>2, <2>1, <2>2
<1>6. CASE ReadInvoice(c)
  <2>1. CASE Leaves(c) /\ Done(c)
    BY <1>4, <1>6, <2>1 DEF ReadInvoice
  <2>2. CASE /\ work' = [work EXCEPT ![c].step = "lookup"]
             /\ fresh' = fresh \cup {c} /\ UNCHANGED <<queue, hold>>
    <3>1. OnlyRun(c) /\ RunTraced(c)
      BY <1>1, <2>2 DEF OnlyRun, RunTraced, Work
    <3> QED
      BY <1>2, <1>6, <2>2, <3>1 DEF ReadInvoice
  <2> QED
    BY <1>6, <2>1, <2>2 DEF ReadInvoice, Leaves, Queue!Outcome
<1>7. CASE LookUp(c)
  <2>1. CASE Leaves(c) /\ Done(c)
    BY <1>4, <1>7, <2>1 DEF LookUp
  <2>2. CASE /\ work' = [work EXCEPT ![c].step = "invoke"]
             /\ fresh' = fresh \ {c} /\ UNCHANGED <<queue, hold>>
    <3>1. OnlyRun(c) /\ RunTraced(c)
      BY <1>1, <2>2 DEF OnlyRun, RunTraced, Work
    <3> QED
      BY <1>2, <1>7, <2>2, <3>1 DEF LookUp
  <2>3. ASSUME NEW d \in Found(SubjectOf(c), NoDoc), UNCHANGED <<queue, hold, fresh>>,
               work' = [work EXCEPT ![c].step = "save", ![c].doc = d, ![c].kind = pac[d].state]
        PROVE  Traced'
    <3>1. OnlyRun(c) /\ work'[c].doc = d /\ work'[c].kind = pac[d].state /\ d \in Documents
      BY <1>1, <2>3 DEF OnlyRun, Work, Found, DocsOf
    <3>2. RunTraced(c)
      BY <1>1, <3>1 DEF RunTraced, Dead
    <3> QED
      BY <1>2, <1>7, <2>3, <3>1, <3>2 DEF LookUp
  <2> QED
    BY <1>7, <2>1, <2>2, <2>3 DEF LookUp, Leaves, Queue!Outcome
<1>8. CASE SaveRecovered(c)
  <2>1. CASE Leaves(c) /\ Done(c) /\ UNCHANGED inv
    BY <1>4, <1>8, <2>1 DEF SaveRecovered
  <2>2. ASSUME StillAsRead(c), work' = [work EXCEPT ![c].step = "close"], UNCHANGED hold,
               Write(SubjectOf(c),
                  [inv[SubjectOf(c)] EXCEPT
                      !.fid = work[c].doc,
                      !.uuid = IF work[c].kind = "valid" THEN work[c].doc ELSE @,
                      !.status = IF work[c].kind = "failed" THEN "error" ELSE "stamping"])
        PROVE  Traced'
    <3>1. PICK row :
             row = [inv[SubjectOf(c)] EXCEPT
                      !.fid = work[c].doc,
                      !.uuid = IF work[c].kind = "valid" THEN work[c].doc ELSE @,
                      !.status = IF work[c].kind = "failed" THEN "error" ELSE "stamping"]
      OBVIOUS
    <3>2. /\ work[c].step = "save" /\ c \in fresh /\ UNCHANGED req
          /\ OnlyRun(c) /\ work'[c].step # "save"
      BY <1>1, <1>8, <2>2 DEF SaveRecovered, Step, StillAsRead, OnlyRun, Work
    <3>3. inv[SubjectOf(c)] \in Invoice
      BY <3>2, SubjectIsInvoice DEF Typed, RowsOK
    <3>4. /\ row.fid = work[c].doc
          /\ row.status = IF work[c].kind = "failed" THEN "error" ELSE "stamping"
      BY <3>1, <3>3 DEF Invoice
    <3>5. Write(SubjectOf(c), row)
      BY <2>2, <3>1
    <3> QED
      BY <1>1, <2>2, <3>2, <3>4, <3>5, SaveTraced
  <2> QED
    BY <1>8, <2>1, <2>2 DEF SaveRecovered, Leaves, Queue!Outcome
<1>9. CASE CloseRecovered(c)
  BY <1>4, <1>9 DEF CloseRecovered, Leaves, Queue!Outcome
<1>10. ASSUME NEW h \in Handlers, Invoke(c, h)
       PROVE  Traced'
  <2>1. UNCHANGED <<inv, fresh>> /\ OnlyRun(c) /\ RunTraced(c)
    BY <1>1, <1>10 DEF Invoke, OnlyRun, RunTraced, Work
  <2>2. \E g \in Handlers : \E i, caller, job, token, verdict :
           StampRequest(g, i, caller, job, token, verdict)
    BY <1>10 DEF Invoke
  <2> QED
    BY <1>2, <2>1, <2>2
<1>11. CASE Collect(c) \/ StopWaiting(c) \/ LoseRow(c)
  <2>1. Leaves(c) /\ Done(c) /\ UNCHANGED inv
    BY <1>11 DEF Collect, StopWaiting, LoseRow, Leaves, Queue!Outcome
  <2>2. Disown(c) \/ \E h : req' = [req EXCEPT ![h] = FreeSlot]
    BY <1>11 DEF Collect, StopWaiting, LoseRow
  <2> QED
    BY <1>2, <1>3, <2>1, <2>2
<1> QED
  BY <1>5, <1>6, <1>7, <1>8, <1>9, <1>10, <1>11 DEF ConsumerStep

\* The write of a run of the reconciliation that has claimed the row.
LEMMA CycleEndTraced ==
    ASSUME RecoveryAlone, Traced, PacGrows, PacLasts, crossed \subseteq crossed',
           NEW r \in Reconcilers,
           rec[r].pc = "claimed", RestsAlone(r), UNCHANGED pac, NEW row,
           Write(rec[r].inv, row), row.status \in Open => Blank(row)
    PROVE  Traced'
<1> USE DEF RecoveryAlone, RecoveryInv, Exclusive
<1>1. PICK i \in Invoices : i = rec[r].inv
  BY DEF Typed, CyclesOK
<1>2. inv'[i] = row /\ WriteOrLose(i, row) /\ fresh' \subseteq fresh
  BY <1>1 DEF Write, WriteOrLose, Typed, RowsOK
<1>3. NoEmitter(i)
  BY <1>1 DEF CyclesAlone
<1>4. rec'[r].pc = "idle" /\ \A q \in Reconcilers \ {r} : rec'[q] = rec[q]
  BY <1>2, RestRetreats DEF Typed
<1>5. NoCycle(i)'
  BY <1>1, <1>4 DEF NoCycle, OneReconciler
<1>6. /\ \A k \in Invoices \ {i} : RowTraced(k)
      /\ \A g \in Handlers : RequestTraced(g)
      /\ \A q \in Reconcilers : CycleTraced(q)
  <2>1. \A g \in Handlers : req'[g] = req[g] /\ (req[g].pc \in Early => req[g].inv # i)
    BY <1>3 DEF NoEmitter, Emitting, Early, RestsAlone
  <2>2. \A q \in Reconcilers : rec'[q] = rec[q] \/ rec'[q].pc = "idle"
    BY <1>4
  <2>3. Typed /\ Handlers \ {NoHandler} = Handlers
    BY StampingAssumption
  <2> HIDE DEF RecoveryAlone, RecoveryInv, Exclusive
  <2> QED
    BY <1>2, <1>5, <2>1, <2>2, <2>3, OthersTraced
<1>7. RowTraced(i)
  BY <1>2 DEF RowTraced, Status, Blank, Dead
<1>8. \A c \in Consumers : RunTraced(c)
  BY DEF RunTraced, RestsAlone
<1> QED
  BY <1>6, <1>7, <1>8, StepTraced

\* A step of a run of the reconciliation: it gives a document up only if it has
\* looked for every id that is saved.
LEMMA ReconcilerTraced ==
    ASSUME RecoveryAlone, Traced, PacGrows, PacLasts, crossed \subseteq crossed',
           NEW r \in Reconcilers,
           ReconcilerStep(r) \/ CrashReconciler(r)
    PROVE  Traced'
<1> USE DEF RecoveryAlone, RecoveryInv, Exclusive
<1>1. /\ rec[r] \in Cycle /\ DOMAIN rec = Reconcilers /\ UNCHANGED <<hold, req, work, pac>>
      /\ rec[r].pc # "idle" => rec[r].inv \in Invoices /\ inv[rec[r].inv] \in Invoice
      /\ rec[r].pc = "claimed" => inv[rec[r].inv].status = "stamping"
  BY DEF Typed, CyclesOK, RowsOK, CyclesAlone, Status, ReconcilerStep, CrashReconciler,
     SelectStuck, ClaimStuck, SkipStuck, ResolveStuck, LookupFails, FetchStuck, FetchLost
<1>2. ASSUME \A i \in Invoices : inv'[i] = inv[i],
             \A q \in Reconcilers : CycleTraced(q)
      PROVE  Traced'
  <2>1. /\ \A i \in Invoices : RowTraced(i)
        /\ \A c \in Consumers : RunTraced(c)
    BY <1>1, <1>2 DEF RowTraced, RunTraced, Status, SetAside
  <2>2. ASSUME NEW h \in Handlers
        PROVE  RequestTraced(h)
    <3>1. req[h].pc \in Early => req[h].inv \in Invoices
      BY DEF Typed, RequestsOK, Early
    <3> QED
      BY <1>1, <1>2, <3>1 DEF RequestTraced
  <2> QED
    BY <1>2, <2>1, <2>2, StepTraced
<1>3. ASSUME RestsAlone(r), fresh' \subseteq fresh, UNCHANGED inv
      PROVE  Traced'
  <2>1. rec'[r].pc = "idle" /\ \A q \in Reconcilers \ {r} : rec'[q] = rec[q]
    BY <1>3, RestRetreats DEF Typed
  <2>2. \A q \in Reconcilers : CycleTraced(q)
    BY <1>3, <2>1, CyclesAsTheyWere DEF Watches
  <2> QED
    BY <1>2, <1>3, <2>2
<1>4. CASE SkipStuck(r) \/ LookupFails(r) \/ FetchLost(r) \/ CrashReconciler(r)
  BY <1>3, <1>4 DEF SkipStuck, LookupFails, FetchLost, CrashReconciler, RestsAlone
<1>5. ASSUME NEW s \in Invoices, SelectStuck(r, s)
      PROVE  Traced'
  <2>1. UNCHANGED inv /\ fresh' = fresh \cup {r}
    BY <1>5 DEF SelectStuck
  <2>2. /\ rec'[r].inv = s /\ rec'[r].fid = inv[s].fid
        /\ \A q \in Reconcilers \ {r} : rec'[q] = rec[q]
    BY <1>1, <1>5 DEF SelectStuck
  <2>3. \A q \in Reconcilers : CycleTraced(q)
    BY <2>1, <2>2 DEF CycleTraced, Watches
  <2> QED
    BY <1>2, <2>1, <2>3
<1>6. CASE ClaimStuck(r)
  <2>1. /\ rec[r].inv \in Invoices /\ r \in fresh /\ rec[r].pc = "selected"
        /\ Write(rec[r].inv, inv[rec[r].inv])
    BY <1>1, <1>6 DEF ClaimStuck
  <2>2. fresh' \subseteq fresh /\ \A k \in Invoices : inv'[k] = inv[k]
    BY <2>1 DEF Write, Typed, RowsOK
  <2>3. /\ rec'[r].inv = rec[r].inv /\ rec'[r].fid = rec[r].fid
        /\ \A q \in Reconcilers \ {r} : rec'[q] = rec[q]
    BY <1>1, <1>6 DEF ClaimStuck, Cycle
  <2>4. ASSUME NEW q \in Reconcilers, Watches(q)'
        PROVE  Watches(q) /\ rec'[q].inv = rec[q].inv /\ rec'[q].fid = rec[q].fid
    BY <2>1, <2>2, <2>3, <2>4 DEF Watches
  <2>5. \A i \in Invoices : /\ Status(i)' = Status(i) /\ IdsSame(i)
                            /\ SetAside(inv[i]) => SetAside(inv[i])'
    BY <2>2 DEF Status, IdsSame, SetAside
  <2>6. \A q \in Reconcilers : CycleTraced(q)
    BY <1>1, <2>4, <2>5, SameTraced
  <2> QED
    BY <1>2, <2>2, <2>6
<1>7. ASSUME NEW row, Write(rec[r].inv, row), rec[r].pc = "claimed", RestsAlone(r),
             row.status \in Open => Blank(row)
      PROVE  Traced'
  BY <1>1, <1>7, CycleEndTraced
<1>8. CASE ResolveStuck(r)
  <2>1. PICK i \in Invoices : i = rec[r].inv
    BY <1>1, <1>8 DEF ResolveStuck
  <2>2. /\ RestsAlone(r) /\ rec[r].pc = "claimed"
        /\ inv[i] \in Invoice /\ inv[i].status = "stamping"
    BY <1>1, <1>8, <2>1 DEF ResolveStuck, RestsAlone
  <2>3. ASSUME NEW d \in Found(i, rec[r].fid), Write(i, Resolved(inv[i], d))
        PROVE  Traced'
    <3>1. PICK row : row = Resolved(inv[i], d)
      OBVIOUS
    <3>2. row.fid = d /\ row.status = IF pac[d].state = "failed" THEN "error" ELSE "stamping"
      BY <2>2, <3>1 DEF Resolved, Invoice
    <3>3. d \in Documents
      BY <1>1 DEF Found, DocsOf, Cycle
    <3>4. row.status \in Open => Blank(row)
      BY <3>2, <3>3 DEF Open, Blank, Dead
    <3>5. Write(rec[r].inv, row)
      BY <2>1, <2>3, <3>1
    <3> QED
      BY <1>7, <2>2, <3>4, <3>5
  <2>4. CASE Found(i, rec[r].fid) = {} /\ Write(i, Missed(inv[i], rec[r].attempts))
    <3>1. PICK row : row = Missed(inv[i], rec[r].attempts)
      OBVIOUS
    <3>2. row.fid = inv[i].fid
      BY <2>2, <3>1 DEF Missed, Invoice
    <3>3. rec[r].fid = NoDoc /\ ~Listed(i, inv[i].fid)
      BY <2>4 DEF Found, Listed
    <3>4. inv[i].fid = NoDoc
      BY <2>1, <2>2, <3>3 DEF Traced, CyclesInformed, Watches
    <3>5. Write(rec[r].inv, row)
      BY <2>1, <2>4, <3>1
    <3> QED
      BY <1>7, <2>2, <3>2, <3>4, <3>5 DEF Blank
  <2> QED
    BY <1>8, <2>1, <2>3, <2>4 DEF ResolveStuck
<1>9. CASE FetchStuck(r)
  <2>1. PICK i \in Invoices : i = rec[r].inv
    BY <1>1, <1>9 DEF FetchStuck
  <2>2. /\ RestsAlone(r) /\ rec[r].pc = "claimed"
        /\ inv[i] \in Invoice /\ inv[i].status = "stamping"
    BY <1>1, <1>9, <2>1 DEF FetchStuck, RestsAlone
  <2>3. ASSUME NEW row, Write(i, row), row.status \in {"stamping", "stamped"}
        PROVE  Traced'
    BY <1>7, <2>1, <2>2, <2>3 DEF Open
  <2>4. CASE ReconcileRow(i, rec[r])
    <3>1. PICK row : row = Reconciled(inv[i], rec[r])
      OBVIOUS
    <3>2. row.status = "stamped"
      BY <2>2, <3>1 DEF Reconciled, Invoice
    <3> QED
      BY <2>2, <2>3, <2>4, <3>1, <3>2 DEF ReconcileRow
  <2>5. CASE GiveUpXml(i, rec[r])
    <3>1. PICK row :
             /\ row = [inv[i] EXCEPT
                          !.status = IF MissesExhausted(rec[r].attempts) THEN "stamped" ELSE @,
                          !.xmlPending = @ \/ MissesExhausted(rec[r].attempts),
                          !.attempts = Bumped(rec[r].attempts)]
             /\ Write(i, row)
      BY <2>5 DEF GiveUpXml
    <3>2. row.status \in {"stamping", "stamped"}
      BY <2>2, <3>1 DEF Invoice
    <3> QED
      BY <2>3, <3>1, <3>2
  <2> QED
    BY <1>9, <2>1, <2>4, <2>5 DEF FetchStuck
<1> QED
  BY <1>4, <1>5, <1>6, <1>8, <1>9 DEF ReconcilerStep

\* Whatever requests, runs and the PAC do.
LEMMA StampingTraced ==
    ASSUME RecoveryAlone, Untouched, Traced, crossed \subseteq crossed', [Next]_vars
    PROVE  Traced' /\ PacLasts
<1> USE DEF RecoveryAlone, RecoveryInv
<1>1. PacGrows /\ PacLasts
  BY PacStepGrows, PacStepLasts DEF OwnDocs, Traced
<1>2. CASE \E i \in Invoices : EditInvoice(i)
  <2>1. PICK i \in Invoices : EditInvoice(i)
    BY <1>2
  <2>2. PICK row : row = [inv[i] EXCEPT !.total = @ + 1]
    OBVIOUS
  <2>3. /\ row.fid = inv[i].fid /\ row.uuid = inv[i].uuid /\ row.status = inv[i].status
        /\ SetAside(inv[i]) => SetAside(row)
        /\ Write(i, row) /\ UNCHANGED <<req, rec, work>>
    BY <2>1, <2>2 DEF EditInvoice, Typed, RowsOK, Invoice, SetAside
  <2>4. /\ fresh' \subseteq fresh
        /\ \A k \in Invoices : /\ Status(k)' = Status(k) /\ IdsSame(k)
                               /\ SetAside(inv[k]) => SetAside(inv[k])'
    BY <2>3 DEF Write, Typed, RowsOK, IdsSame, Status, SetAside
  <2>5. /\ \A k \in Invoices : RowTraced(k)
        /\ \A h \in Handlers : RequestTraced(h)
        /\ \A r \in Reconcilers : CycleTraced(r)
    <3>1. \A r \in Reconcilers : Watches(r)' =>
             Watches(r) /\ rec'[r].inv = rec[r].inv /\ rec'[r].fid = rec[r].fid
      BY <2>3, <2>4 DEF Watches
    <3> QED
      BY <2>3, <2>4, <3>1, SameTraced
  <2>6. \A c \in Consumers : RunTraced(c)
    BY <2>3 DEF RunTraced
  <2> QED
    BY <1>1, <2>5, <2>6, StepTraced
<1>3. ASSUME UNCHANGED <<inv, fresh, work, rec>>, \A h \in Handlers : RequestTraced(h)
      PROVE  Traced'
  <2>1. \A r \in Reconcilers : CycleTraced(r)
    BY <1>3, CyclesAsTheyWere DEF Watches
  <2>2. \A c \in Consumers : RunTraced(c)
    BY <1>3 DEF RunTraced
  <2> QED
    BY <1>1, <1>3, <2>1, <2>2, RowsAsTheyWere, StepTraced
<1>4. ASSUME NEW h \in Handlers, NEW i \in Invoices, UserRequest(h, i)
      PROVE  Traced'
  <2>1. \A g \in Handlers : RequestTraced(g)
    BY <1>4, RequestsGoOn DEF UserRequest
  <2> QED
    BY <1>3, <1>4, <2>1 DEF UserRequest
<1>5. CASE PacStep \/ UNCHANGED vars
  <2>1. UNCHANGED <<inv, fresh, req, work, rec>>
    BY <1>5 DEF PacStep, PacServesLate, PacSettles, PacLists, vars
  <2>2. \A g \in Handlers : RequestTraced(g)
    BY <2>1 DEF RequestTraced
  <2>3. UNCHANGED <<inv, fresh, work, rec>>
    BY <2>1
  <2> QED
    BY <1>1, <1>3, <2>2, <2>3
<1> QED
  BY <1>1, <1>2, <1>4, <1>5, HandlerTraced, ConsumerTraced, ReconcilerTraced DEF Next

-----------------------------------------------------------------------------
(* Snapshots.                                                              *)

\* A request that claims an invoice changes its row.
LEMMA EmitterWrites ==
    ASSUME RecoveryAlone, [Next]_vars, NEW i \in Invoices, NoEmitter(i), inv'[i] = inv[i]
    PROVE  NoEmitter(i)'
<1> USE DEF RecoveryAlone, RecoveryInv
<1>1. Silent => NoEmitter(i)'
  BY DEF Silent, NoEmitter
<1>2. UNCHANGED req => Silent
  BY DEF Silent, Emitting
<1>3. ASSUME NEW h \in Handlers, HandlerStep(h) \/ CrashRequest(h)
      PROVE  NoEmitter(i)'
  <2> USE DEF Serves
  <2>1. RequestsOK /\ req[h] \in Slot /\ DOMAIN req = Handlers
    BY DEF Typed, RequestsOK
  <2>2. ASSUME \A g \in Handlers \ {h} : req'[g] = req[g],
               Emitting(h)' => Emitting(h) /\ req'[h].inv = req[h].inv
        PROVE  NoEmitter(i)'
    BY <1>1, <2>2 DEF Silent, Emitting
  <2>3. (\E kind : Answer(h, kind)) => NoEmitter(i)'
    BY <2>1, <2>2, AnswerEnds
  <2>4. ASSUME NEW pc, GoTo(h, pc), Emitting(h)
        PROVE  NoEmitter(i)'
    <3>1. req'[h].inv = req[h].inv /\ \A g \in Handlers \ {h} : req'[g] = req[g]
      BY <2>1, <2>4 DEF GoTo, Slot
    <3> QED
      BY <2>2, <2>4, <3>1
  <2>5. CASE ClaimInvoice(h)
    <3>1. CASE Claimable(RowOf(h))
      <4>1. PICK k \in Invoices : k = req[h].inv
        BY <2>1, <2>5 DEF ClaimInvoice, RequestsOK
      <4>2. inv[k] \in Invoice /\ inv'[k].status = "stamping" /\ inv[k].status # "stamping"
        BY <2>5, <3>1, <4>1 DEF ClaimInvoice, Write, RowOf, Claimable, Typed, RowsOK, Invoice
      <4>3. req'[h].inv = k /\ \A g \in Handlers \ {h} : req'[g] = req[g]
        BY <2>1, <2>5, <3>1, <4>1 DEF ClaimInvoice, GoTo, Slot
      <4> QED
        BY <4>2, <4>3 DEF NoEmitter, Emitting
    <3>2. CASE ~Claimable(RowOf(h))
      BY <2>3, <2>5, <3>2 DEF ClaimInvoice
    <3> QED
      BY <3>1, <3>2
  <2>6. CASE SendToPac(h) \/ PersistIds(h) \/ RecordRefusal(h)
    BY <2>3, <2>4, <2>6 DEF SendToPac, PersistIds, RecordRefusal, Emitting
  <2>7. CASE PacAnswers(h) \/ PacRefuses(h) \/ PacLosesAnswer(h)
    <3>1. Emitting(h)
      BY <2>7 DEF PacAnswers, PacRefuses, PacLosesAnswer, Emitting
    <3>2. CASE PacAnswers(h)
      <4>1. PICK pc, doc, kind :
               req' = [req EXCEPT ![h].pc = pc, ![h].doc = doc, ![h].kind = kind]
        <5>1. PICK d \in Documents, state \in PacState :
                 req' = [req EXCEPT ![h].pc = AfterAnswer(state), ![h].doc = d,
                                    ![h].kind = state]
          BY <3>2 DEF PacAnswers
        <5> QED
          BY <5>1
      <4>2. req'[h].inv = req[h].inv /\ \A g \in Handlers \ {h} : req'[g] = req[g]
        BY <2>1, <4>1 DEF Slot
      <4> QED
        BY <2>2, <3>1, <4>2
    <3>3. CASE PacRefuses(h) \/ PacLosesAnswer(h)
      <4>1. PICK kind : req' = [req EXCEPT ![h].pc = "refused", ![h].kind = kind]
        BY <3>3 DEF PacRefuses, PacLosesAnswer
      <4>2. req'[h].inv = req[h].inv /\ \A g \in Handlers \ {h} : req'[g] = req[g]
        BY <2>1, <4>1 DEF Slot
      <4> QED
        BY <2>2, <3>1, <4>2
    <3> QED
      BY <2>7, <3>2, <3>3
  <2>8. CASE CrashRequest(h)
    <3>1. req'[h].pc = "idle" /\ \A g \in Handlers \ {h} : req'[g] = req[g]
      BY <2>1, <2>8, Records DEF CrashRequest
    <3> QED
      BY <2>2, <3>1 DEF Emitting
  <2>9. CASE \/ RefuseConfig(h) \/ StampStub(h) \/ TimeOut(h) \/ RecordIncomplete(h)
             \/ FinishStamping(h) \/ (\E j \in Jobs : EnqueueRetry(h, j)) \/ EnqueueLost(h)
    BY <2>3, <2>9 DEF RefuseConfig, StampStub, TimeOut, RecordIncomplete, FinishStamping,
       EnqueueRetry, EnqueueLost
  <2> QED
    BY <1>3, <2>5, <2>6, <2>7, <2>8, <2>9 DEF HandlerStep
<1>4. ASSUME NEW c \in Consumers, ConsumerStep(c)
      PROVE  NoEmitter(i)'
  <2>1. \/ \E h \in Handlers : \E k, caller, job, token, verdict :
              StampRequest(h, k, caller, job, token, verdict)
        \/ Disown(c)
        \/ \E h : req' = [req EXCEPT ![h] = FreeSlot]
        \/ UNCHANGED req
    BY <1>4 DEF ConsumerStep, SelectRow, TakeRow, SkipRow, ReadInvoice, LookUp, SaveRecovered,
       CloseRecovered, Invoke, Collect, StopWaiting, LoseRow
  <2> QED
    BY <1>1, <2>1, RequestsQuiet
<1>5. ASSUME NEW h \in Handlers, NEW k \in Invoices, UserRequest(h, k)
      PROVE  NoEmitter(i)'
  BY <1>1, <1>5, RequestsQuiet DEF UserRequest
<1>6. CASE \E k \in Invoices : EditInvoice(k)
  BY <1>1, <1>2, <1>6 DEF EditInvoice
<1>7. ASSUME NEW r \in Reconcilers, ReconcilerStep(r) \/ CrashReconciler(r)
      PROVE  NoEmitter(i)'
  <2>1. UNCHANGED req
    BY <1>7 DEF ReconcilerStep, CrashReconciler, SelectStuck, ClaimStuck, SkipStuck,
       ResolveStuck, LookupFails, FetchStuck, FetchLost
  <2> QED
    BY <1>1, <1>2, <2>1
<1>8. CASE PacStep \/ UNCHANGED vars
  BY <1>1, <1>2, <1>8 DEF PacStep, PacServesLate, PacSettles, PacLists, vars
<1> QED
  BY <1>3, <1>4, <1>5, <1>6, <1>7, <1>8 DEF Next

\* The snapshots that still count after a step of somebody else.
LEMMA StampingSnapshots ==
    ASSUME RecoveryAlone, Snapshots, PacLasts, AutomaticStep
    PROVE  Snapshots'
<1>1. act' = act /\ asSeen' = StillSeen /\ [Next]_vars
  BY DEF AutomaticStep
<1>2. ASSUME NEW a \in asSeen'
      PROVE  Current(a)'
  <2>1. PICK i \in Invoices : i = DocumentOf(a)
    BY <1>1, <1>2, StampingAssumption
    DEF StillSeen, Snapshots, Current, RecoveryAlone, RecoveryInv, ActionsOK, DocumentOf
  <2>2. inv'[i] = inv[i] /\ Current(a)
    BY <1>1, <1>2, <2>1 DEF StillSeen, Rewritten, Snapshots
  <2>3. NoEmitter(i) => NoEmitter(i)'
    BY <1>1, <2>2, EmitterWrites
  <2> QED
    BY <1>1, <2>1, <2>2, <2>3 DEF Current, Apart, Pending, DocumentOf, NoEmitter
<1>3. ASSUME NEW a \in Actions, At(a, "complete"), act[a].outcome \in PacState,
             Listed(DocumentOf(a), act[a].found)
      PROVE  Listed(DocumentOf(a), act[a].found)'
  <2>1. PICK i, d : i \in Invoices /\ i = DocumentOf(a) /\ d = act[a].found
    BY <1>3, StampingAssumption DEF RecoveryAlone, RecoveryInv, ActionsOK, DocumentOf, At
  <2>2. Listed(i, d)'
    BY <1>3, <2>1, ListedStays
  <2> QED
    BY <1>1, <2>1, <2>2 DEF DocumentOf, Listed, DocsOf
<1> QED
  BY <1>1, <1>2, <1>3 DEF Snapshots, At

\* Nothing moves for the others when action a does.
LEMMA ActionSnapshots ==
    ASSUME RecoveryInv, Snapshots, NEW a \in Actions, UNCHANGED <<req, pac>>,
           \A b \in Actions \ {a} : act'[b] = act[b],
           asSeen' \subseteq asSeen \cup {a},
           \A b \in asSeen' \ {a} : inv'[DocumentOf(b)].fid = inv[DocumentOf(b)].fid,
           a \in asSeen' => Current(a)',
           At(a, "complete")' /\ act'[a].outcome \in PacState =>
               \/ act'[a].found = act'[a].doc.fid
               \/ Listed(DocumentOf(a), act[a].found)'
    PROVE  Snapshots'
<1>1. ASSUME NEW b \in asSeen' \ {a}
      PROVE  Current(b)'
  <2>1. b \in asSeen /\ b \in Actions /\ act'[b] = act[b]
    BY DEF RecoveryInv, ActionsOK
  <2> QED
    BY <2>1 DEF Snapshots, Current, Apart, Pending, NoEmitter, DocumentOf, Emitting
<1>2. ASSUME NEW b \in Actions \ {a}, At(b, "complete")', act'[b].outcome \in PacState
      PROVE  \/ act'[b].found = act'[b].doc.fid
             \/ Listed(DocumentOf(b), act[b].found)'
  BY <1>2 DEF Snapshots, At, Listed, DocsOf, DocumentOf
<1> QED
  BY <1>1, <1>2 DEF Snapshots

\* An action that ends its work leaves the snapshots of the others.
LEMMA EndSnapshots ==
    ASSUME RecoveryInv, Snapshots, NEW a \in Actions, NEW next,
           act' = [act EXCEPT ![a] = next], next.step # "complete", a \notin asSeen',
           UNCHANGED <<req, pac>>, asSeen' \subseteq asSeen,
           \A b \in asSeen' \ {a} : inv'[DocumentOf(b)].fid = inv[DocumentOf(b)].fid
    PROVE  Snapshots'
<1>1. act'[a] = next /\ \A b \in Actions \ {a} : act'[b] = act[b]
  BY DEF RecoveryInv, ActionsOK
<1> QED
  BY <1>1, ActionSnapshots DEF At

\* The document of an action that has read or saved something.
LEMMA OperatorSnapshots ==
    ASSUME RecoveryInv, EmittersMark, Snapshots, NEW a \in Actions, OperatorStep(a)
    PROVE  Snapshots'
<1>1. UNCHANGED <<hold, req, work, rec, pac, late>>
  BY OperatorMoves
<1>2. DOMAIN act = Actions /\ act[a] \in Action
  BY DEF RecoveryInv, ActionsOK
<1>3. ASSUME NEW status
      PROVE  Finished(a, status).step = "none"
  BY DEF Finished, NoAction
<1>4. ASSUME NEW j \in Jobs, Begin(a, j)
      PROVE  Snapshots'
  <2>1. /\ UNCHANGED <<inv, req, pac>> /\ asSeen' = asSeen \cup {a}
        /\ \A b \in Actions \ {a} : act'[b] = act[b]
    BY <1>2, <1>4 DEF Begin
  <2>2. /\ act'[a].status = "pending" /\ act'[a].step = "lookup" /\ act'[a].job = j
        /\ act'[a].doc = inv[DocOf[j]]
    BY <1>2, <1>4 DEF Begin, NoAction
  <2>3. NoEmitter(DocOf[j]) \/ inv[DocOf[j]].status = "stamping"
    BY DEF EmittersMark, NoEmitter, Status
  <2>4. Current(a)'
    BY <2>1, <2>2, <2>3 DEF Current, Apart, Pending, NoEmitter, DocumentOf, Emitting
  <2>5. ~At(a, "complete")'
    BY <2>2 DEF At
  <2> QED
    BY <2>1, <2>4, <2>5, ActionSnapshots
<1>5. CASE AskPac(a)
  <2>1. PICK i \in Invoices : i = DocumentOf(a)
    BY <1>5, StampingAssumption DEF AskPac, At, RecoveryInv, ActionsOK, DocumentOf
  <2>2. PICK outcome, d :
           /\ act' = [act EXCEPT ![a].step = "complete", ![a].outcome = outcome,
                                 ![a].found = d]
           /\ outcome \in PacState => d \in Found(i, act[a].doc.fid)
    <3>1. "inconclusive" \notin PacState /\ "missing" \notin PacState
      BY DEF PacState
    <3> QED
      BY <1>5, <2>1, <3>1 DEF AskPac
  <2>3. act'[a] = [act[a] EXCEPT !.step = "complete", !.outcome = outcome, !.found = d]
        /\ \A b \in Actions \ {a} : act'[b] = act[b]
    BY <1>2, <2>2
  <2>4. /\ act'[a].status = act[a].status /\ act'[a].job = act[a].job
        /\ act'[a].doc = act[a].doc /\ act'[a].outcome = outcome /\ act'[a].found = d
    BY <1>2, <2>3 DEF Action
  <2>5. UNCHANGED <<inv, req, pac, asSeen>>
    BY <1>5 DEF AskPac, vars
  <2>6. a \in asSeen' => Current(a)'
    BY <2>4, <2>5 DEF Snapshots, Current, Apart, Pending, NoEmitter, DocumentOf, Emitting
  <2>7. outcome \in PacState => d = act[a].doc.fid \/ Listed(i, d)
    BY <2>2 DEF Found, Listed
  <2>8. act'[a].outcome \in PacState =>
           \/ act'[a].found = act'[a].doc.fid
           \/ Listed(DocumentOf(a), act[a].found)'
    BY <2>1, <2>4, <2>5, <2>7 DEF Listed, DocsOf, DocumentOf
  <2> QED
    BY <2>3, <2>5, <2>6, <2>8, ActionSnapshots
<1>6. CASE Complete(a)
  <2>1. PICK status : act' = [act EXCEPT ![a] = Finished(a, status)]
    BY <1>6 DEF Complete
  <2>2. asSeen' = StillSeen \ {a}
    BY <1>6 DEF Complete
  <2>3. \A b \in asSeen' \ {a} : inv'[DocumentOf(b)].fid = inv[DocumentOf(b)].fid
    BY <2>2 DEF StillSeen, Rewritten
  <2>4. PICK next : next = Finished(a, status)
    OBVIOUS
  <2>5. act' = [act EXCEPT ![a] = next] /\ next.step # "complete"
    BY <1>3, <2>1, <2>4
  <2> QED
    BY <1>1, <2>2, <2>3, <2>5, EndSnapshots DEF StillSeen
<1>7. CASE CompleteLost(a)
  <2>1. PICK next : /\ act' = [act EXCEPT ![a] = next]
                    /\ next = Finished(a, IF Pending(a) THEN "document_changed"
                                          ELSE act[a].status)
    BY <1>2, <1>7 DEF CompleteLost
  <2>2. next.step # "complete" /\ asSeen' = asSeen \ {a} /\ UNCHANGED inv
    BY <1>3, <1>7, <2>1 DEF CompleteLost, vars
  <2> QED
    BY <1>1, <2>1, <2>2, EndSnapshots
<1>8. CASE Vanish(a)
  <2>1. PICK next : /\ act' = [act EXCEPT ![a] = next]
                    /\ next = Unserved(a) \/ next = Finished(a, act[a].status)
    BY <1>2, <1>8 DEF Vanish
  <2>2. next.step # "complete" /\ asSeen' = asSeen \ {a} /\ UNCHANGED inv
    BY <1>3, <1>8, <2>1 DEF Vanish, Unserved, NoAction, vars
  <2> QED
    BY <1>1, <2>1, <2>2, EndSnapshots
<1>9. CASE Release(a)
  <2>1. UNCHANGED <<inv, req, pac>> /\ asSeen' = asSeen \ {a}
    BY <1>9 DEF Release
  <2>2. CASE At(a, "none")
    <3>1. PICK next : act' = [act EXCEPT ![a] = next] /\ next = Finished(a, "expired")
      BY <1>9, <2>2 DEF Release
    <3>2. next.step # "complete"
      BY <1>3, <3>1
    <3> QED
      BY <2>1, <3>1, <3>2, EndSnapshots
  <2>3. CASE ~At(a, "none")
    <3>1. act'[a] = [act[a] EXCEPT !.status = "expired"]
          /\ \A b \in Actions \ {a} : act'[b] = act[b]
      BY <1>2, <1>9, <2>3 DEF Release
    <3>2. /\ act'[a].step = act[a].step /\ act'[a].job = act[a].job
          /\ act'[a].doc = act[a].doc /\ act'[a].outcome = act[a].outcome
          /\ act'[a].found = act[a].found
      BY <1>2, <3>1 DEF Action
    <3>3. At(a, "complete")' /\ act'[a].outcome \in PacState =>
             \/ act'[a].found = act'[a].doc.fid
             \/ Listed(DocumentOf(a), act[a].found)'
      BY <2>1, <3>2 DEF Snapshots, At, Listed, DocsOf, DocumentOf
    <3> QED
      BY <2>1, <3>1, <3>3, ActionSnapshots
  <2> QED
    BY <2>2, <2>3
<1> QED
  BY <1>4, <1>5, <1>6, <1>7, <1>8, <1>9 DEF OperatorStep

\* The write of an operator: what it saves is the id the row had or one that is listed,
\* and no request is at work on the row, or else it crosses the request.
LEMMA OperatorTraced ==
    ASSUME RecoveryInv, Traced, Snapshots, NEW a \in Actions, OperatorStep(a),
           crossed \subseteq crossed', \A i \in Invoices : Crosses(a, i) => i \in crossed'
    PROVE  Traced'
<1>1. UNCHANGED <<hold, req, work, rec, pac, late>> /\ PacGrows /\ PacLasts /\ Typed
  BY OperatorMoves DEF PacGrows, PacLasts, Traced, FailuresKnown, RecoveryInv
<1>2. \A c \in Consumers : RunTraced(c)
  BY <1>1 DEF RunTraced
<1>3. CASE UNCHANGED inv /\ fresh' = fresh
  <2>1. /\ \A i \in Invoices : Status(i)' = Status(i) /\ IdsSame(i)
        /\ \A i \in Invoices : SetAside(inv[i]) => SetAside(inv[i])'
        /\ \A r \in Reconcilers : Watches(r)' =>
              Watches(r) /\ rec'[r].inv = rec[r].inv /\ rec'[r].fid = rec[r].fid
    BY <1>1, <1>3 DEF Status, IdsSame, Watches, SetAside
  <2> QED
    BY <1>1, <1>2, <2>1, SameTraced, StepTraced
<1>4. CASE Saves(a)
  <2>1. PICK i \in Invoices :
           /\ i = DocumentOf(a)
           /\ Status(i)' = "stamping" /\ inv'[i].fid = act[a].found
           /\ \A k \in Invoices \ {i} : inv'[k] = inv[k]
           /\ fresh' = fresh \ Readers(i)
    BY <1>4, SavedRow
  <2>2. /\ a \in asSeen /\ At(a, "complete") /\ act[a].outcome \in PacState
        /\ act'[a] # act[a]
    BY <1>4 DEF Saves, PacState, At
  <2>3. inv'[i].fid = inv[i].fid \/ Listed(i, inv'[i].fid)
    BY <2>1, <2>2 DEF Snapshots, Current
  <2>4. NoEmitter(i) \/ i \in crossed' \/ inv'[i] = inv[i]
    BY <2>1, <2>2 DEF Snapshots, Current, Apart, Crosses, NoEmitter
  <2>5. \A k \in Invoices : RowTraced(k)
    BY <2>1 DEF RowTraced, Status, Open, SetAside
  <2>6. ASSUME NEW h \in Handlers
        PROVE  RequestTraced(h)
    <3>1. req[h].pc \in Early =>
             /\ req[h].inv \in Invoices
             /\ req[h].inv # i \/ i \in crossed' \/ inv'[i] = inv[i]
      BY <1>1, <2>4 DEF NoEmitter, Emitting, Early, Typed, RequestsOK
    <3> QED
      BY <1>1, <2>1, <3>1 DEF RequestTraced
  <2>7. ASSUME NEW r \in Reconcilers, Watches(r)', rec'[r].fid = NoDoc
        PROVE  CycleTraced(r)
    <3>1. Watches(r) /\ rec[r].inv \in Invoices
      BY <1>1, <2>1, <2>7 DEF Watches, Typed, CyclesOK
    <3>2. CASE inv'[rec[r].inv].fid = inv[rec[r].inv].fid
      BY <1>1, <2>7, <3>1, <3>2 DEF CycleTraced
    <3>3. CASE rec[r].inv = i /\ Listed(i, inv'[i].fid)
      BY <1>1, <3>3 DEF CycleTraced, Listed, DocsOf
    <3> QED
      BY <2>1, <2>3, <3>1, <3>2, <3>3
  <2>8. \A r \in Reconcilers : CycleTraced(r)
    BY <2>7 DEF CycleTraced
  <2> QED
    BY <1>1, <1>2, <2>5, <2>6, <2>8, StepTraced
<1> QED
  BY <1>3, <1>4, OperatorMoves

\* No operator writes a total.
LEMMA OperatorUntouched ==
    ASSUME RecoveryInv, Untouched, NEW a \in Actions, OperatorStep(a)
    PROVE  Untouched'
<1>1. UNCHANGED <<req, pac, late>>
  BY OperatorMoves
<1>2. CASE UNCHANGED inv
  BY <1>1, <1>2, NothingCarried, UntouchedStays
<1>3. CASE Saves(a)
  <2>1. PICK i \in Invoices : i = DocumentOf(a)
    BY <1>3, SavedRow
  <2>2. PICK row, status, uuid :
           /\ row = [inv[i] EXCEPT !.fid = act[a].found, !.status = status, !.uuid = uuid]
           /\ Write(i, row)
    BY <1>3, <2>1 DEF Saves, Recovered
  <2>3. row.total = inv[i].total
    BY <2>2 DEF RecoveryInv, Typed, RowsOK, Invoice
  <2>4. TotalsKept
    BY <2>2, <2>3, RowTotals DEF RecoveryInv, Typed, WriteOrLose
  <2> QED
    BY <1>1, <2>4, NothingCarried, UntouchedStays
<1> QED
  BY <1>2, <1>3, OperatorMoves

\* The history variable only watches.
LEMMA HistoryOnlyWatches ==
    ASSUME [HistoryNext]_historyVars
    PROVE  /\ [RecoveryNext]_recoveryVars
           /\ crossed \subseteq crossed'
           /\ UNCHANGED recoveryVars
                 \/ \A i \in Invoices, a \in Actions : Crosses(a, i) => i \in crossed'
BY DEF HistoryNext, historyVars

LEMMA HistoryRefines == HistorySpec => RecoverySpec
<1>1. HistoryInit => RecoveryInit
  BY DEF HistoryInit
<1>2. [HistoryNext]_historyVars => [RecoveryNext]_recoveryVars
  BY HistoryOnlyWatches
<1> QED
  BY <1>1, <1>2, PTL DEF HistorySpec, RecoverySpec

LEMMA FinishingStep ==
    ASSUME RecoveryAlone, Finishing, [HistoryNext]_historyVars
    PROVE  Finishing'
<1> USE DEF Finishing
<1>1. [RecoveryNext]_recoveryVars /\ crossed \subseteq crossed'
  BY HistoryOnlyWatches
<1>2. CASE AutomaticStep
  <2>1. [Next]_vars /\ Typed /\ QueueInv
    BY <1>2 DEF AutomaticStep, RecoveryAlone, RecoveryInv
  <2> QED
    BY <1>1, <1>2, <2>1, UntouchedStep, StampingTraced, StampingSnapshots
<1>3. CASE UNCHANGED recoveryVars
  <2>1. UNCHANGED vars /\ UNCHANGED <<act, asSeen>>
    BY <1>3 DEF recoveryVars
  <2>2. Untouched' /\ Traced'
    BY <1>1, <2>1, UntouchedStep, StampingTraced DEF RecoveryAlone, RecoveryInv
  <2>3. UNCHANGED <<inv, req, pac>>
    BY <2>1 DEF vars
  <2>4. Snapshots'
    BY <2>1, <2>3 DEF Snapshots, Current, Apart, Pending, NoEmitter, DocumentOf, Emitting, At,
       Listed, DocsOf
  <2> QED
    BY <2>2, <2>4
<1>4. ASSUME NEW a \in Actions, OperatorStep(a), ~UNCHANGED recoveryVars
      PROVE  Finishing'
  <2>1. \A i \in Invoices : Crosses(a, i) => i \in crossed'
    BY <1>4, HistoryOnlyWatches
  <2> QED
    BY <1>1, <1>4, <2>1, OperatorUntouched, OperatorTraced, OperatorSnapshots
    DEF RecoveryAlone, Exclusive
<1> QED
  BY <1>1, <1>2, <1>3, <1>4 DEF RecoveryNext

LEMMA FinishingInit == HistoryInit => Finishing
<1> SUFFICES ASSUME HistoryInit PROVE Finishing
  OBVIOUS
<1>1. Init /\ asSeen = {} /\ \A a \in Actions : act[a] = NoAction
  BY DEF HistoryInit, RecoveryInit
<1>2. RowsOpen
  BY <1>1 DEF Init, Draft, RowsOpen, Blank
<1>3. EmittersBlank /\ FailuresKnown /\ CyclesInformed
  BY <1>1 DEF Init, FreeSlot, NoWork, Resting, NoDocument, EmittersBlank, FailuresKnown,
     CyclesInformed, Early, Watches
<1>4. Snapshots
  BY <1>1 DEF Snapshots, NoAction, At
<1>5. Untouched
  BY <1>1, StampingAssumption DEF Init, FreeSlot, NoDocument, Untouched
<1> QED
  BY <1>2, <1>3, <1>4, <1>5 DEF Finishing, Traced

\* A CFDI whose id is saved is never given up: the row is left open only when the
\* document failed, when its total was edited meanwhile and a person compares the two,
\* or when an operator has written it behind the back of the request that stamps it.
THEOREM IdentifiedIsTraced == HistorySpec => []Finishing
<1>1. RecoveryAlone /\ Finishing /\ [HistoryNext]_historyVars => Finishing'
  BY FinishingStep
<1> QED
  BY <1>1, FinishingInit, HistoryRefines, RecoveryAloneHolds, PTL DEF HistorySpec

\* A valid CFDI whose id is saved is finished by somebody: the invoice is stamped, or
\* 'stamping' for the reconciliation to find, or set aside for a person, unless an
\* operator crossed its request.  A takeover of the row, a late server or an operator
\* who began before the request did can do no such harm.
THEOREM UncrossedStaysFinished == HistorySpec => []UncrossedIsFinished
<1>1. RecoveryAlone /\ Finishing => UncrossedIsFinished
  <2> SUFFICES ASSUME RecoveryAlone, Finishing, NEW i \in Invoices \ crossed,
                      inv[i].fid # NoDoc, pac[inv[i].fid].state = "valid"
               PROVE  inv[i].status \in {"stamping", "stamped"} \/ SetAside(inv[i])
    BY DEF UncrossedIsFinished, Followed
  <2>1. inv[i].status \in {"pending", "stamping", "error", "stamped"}
    BY DEF RecoveryAlone, RecoveryInv, Typed, RowsOK, Invoice
  <2>2. inv[i].status \in Open => SetAside(inv[i])
    BY DEF Finishing, Traced, RowsOpen, Status, Blank, Dead
  <2> QED
    BY <2>1, <2>2 DEF Open
<1> QED
  BY <1>1, IdentifiedIsTraced, HistoryRefines, RecoveryAloneHolds, PTL

-----------------------------------------------------------------------------
(* The fiscal identity of an invoice.  What an operator saves is the one   *)
(* document of the invoice: its id comes from the row, or from a search by *)
(* external_id, and the uuid is saved when that document is valid.         *)

\* What an action at work has in its hands.
Knows(a) ==
    ~At(a, "none") =>
        /\ act[a].doc.fid # NoDoc => act[a].doc.fid \in DocsOf(DocumentOf(a))
        /\ At(a, "complete") /\ act[a].outcome \in PacState =>
              /\ act[a].found \in DocsOf(DocumentOf(a))
              /\ act[a].outcome = "valid" => pac[act[a].found].state = "valid"

Known == \A a \in Actions : Knows(a)

\* What is known stays true while the PAC goes on.
LEMMA KnowsOn ==
    ASSUME ActionsOK, PacGrows, NEW a \in Actions, Knows(a),
           At(a, "none")' \/ (/\ act'[a].step = act[a].step /\ act'[a].job = act[a].job
                              /\ act'[a].doc = act[a].doc /\ act'[a].found = act[a].found
                              /\ act'[a].outcome = act[a].outcome)
    PROVE  Knows(a)'
<1> SUFFICES ASSUME ~At(a, "none"), act'[a].step = act[a].step, act'[a].job = act[a].job,
                    act'[a].doc = act[a].doc, act'[a].found = act[a].found,
                    act'[a].outcome = act[a].outcome
             PROVE  Knows(a)'
  BY DEF At, Knows
<1>1. PICK i \in Invoices : i = DocumentOf(a) /\ i = DocumentOf(a)'
  BY StampingAssumption DEF ActionsOK, DocumentOf
<1>2. \A d \in DocsOf(i) : d \in DocsOf(i)' /\ (pac[d].state = "valid" => pac'[d].state = "valid")
  BY <1>1, StampingAssumption DEF DocsOf, PacGrows
<1> QED
  BY <1>1, <1>2 DEF Knows, At

\* A step of an operator: it reads the row, or asks about its document.
LEMMA OperatorKnows ==
    ASSUME RecoveryInv, RowsIdentified, Known, NEW a \in Actions, OperatorStep(a)
    PROVE  Known'
<1> USE DEF RecoveryInv
<1>1. UNCHANGED pac /\ PacGrows
  BY OperatorMoves DEF PacGrows
<1>2. DOMAIN act = Actions /\ act[a] \in Action /\ Knows(a)
  BY DEF ActionsOK, Known
<1>3. SUFFICES Knows(a)'
  <2>1. \A b \in Actions \ {a} : act'[b] = act[b]
    BY <1>2 DEF OperatorStep, Begin, AskPac, Complete, CompleteLost, Vanish, Release
  <2>2. \A b \in Actions \ {a} : Knows(b)'
    BY <1>1, <2>1, KnowsOn DEF Known
  <2> QED
    BY <1>3, <2>2 DEF Known
<1>4. \A status : Finished(a, status).step = "none"
  BY DEF Finished, NoAction
<1>5. ASSUME NEW j \in Jobs, Begin(a, j)
      PROVE  Knows(a)'
  <2>1. /\ act'[a].step = "lookup" /\ act'[a].job = j /\ act'[a].doc = inv[DocOf[j]]
    BY <1>2, <1>5 DEF Begin, NoAction
  <2>2. PICK i \in Invoices : i = DocOf[j] /\ (inv[i].fid # NoDoc => inv[i].fid \in DocsOf(i))
    BY StampingAssumption DEF RowsIdentified, Identified
  <2> QED
    BY <1>1, <2>1, <2>2 DEF Knows, At, DocumentOf, DocsOf
<1>6. CASE AskPac(a)
  <2>1. ~At(a, "none")
    BY <1>6 DEF AskPac, At
  <2>2. PICK i \in Invoices : i = DocumentOf(a)
    BY <2>1, StampingAssumption DEF ActionsOK, DocumentOf
  <2>3. PICK outcome, d :
           /\ act' = [act EXCEPT ![a].step = "complete", ![a].outcome = outcome,
                                 ![a].found = d]
           /\ outcome \in PacState => d \in Found(i, act[a].doc.fid) /\ outcome = pac[d].state
    <3>1. "inconclusive" \notin PacState /\ "missing" \notin PacState
      BY DEF PacState
    <3> QED
      BY <1>6, <2>2, <3>1 DEF AskPac
  <2>4. act'[a] = [act[a] EXCEPT !.step = "complete", !.outcome = outcome, !.found = d]
    BY <1>2, <2>3
  <2>5. /\ act'[a].job = act[a].job /\ act'[a].doc = act[a].doc
        /\ act'[a].outcome = outcome /\ act'[a].found = d
    BY <1>2, <2>4 DEF Action
  <2>6. Found(i, act[a].doc.fid) \subseteq DocsOf(i)
    BY <1>2, <2>1, <2>2 DEF Found, Knows
  <2> QED
    BY <1>1, <1>2, <2>1, <2>2, <2>3, <2>5, <2>6 DEF Knows, DocumentOf, DocsOf
<1>7. CASE Complete(a) \/ CompleteLost(a)
  <2>1. PICK status : act' = [act EXCEPT ![a] = Finished(a, status)]
    BY <1>2, <1>7 DEF Complete, CompleteLost
  <2> QED
    BY <1>1, <1>2, <1>4, <2>1, KnowsOn DEF At
<1>8. CASE Vanish(a)
  <2>1. act'[a].step = "none"
    BY <1>2, <1>4, <1>8 DEF Vanish, Unserved, NoAction
  <2> QED
    BY <1>1, <1>2, <2>1, KnowsOn DEF At
<1>9. CASE Release(a)
  <2>1. CASE At(a, "none")
    BY <1>1, <1>2, <1>4, <1>9, <2>1, KnowsOn DEF Release, At
  <2>2. CASE ~At(a, "none")
    <3>1. act'[a] = [act[a] EXCEPT !.status = "expired"]
      BY <1>2, <1>9, <2>2 DEF Release
    <3> QED
      BY <1>1, <1>2, <3>1, KnowsOn DEF Action
  <2> QED
    BY <2>1, <2>2
<1> QED
  BY <1>5, <1>6, <1>7, <1>8, <1>9 DEF OperatorStep

\* The write of an operator gives the row the ids of its own document, and none if the
\* row had others.
LEMMA OperatorIdentity ==
    ASSUME RecoveryAlone, Identity, Known, "stub" \notin Faults,
           NEW a \in Actions, OperatorStep(a)
    PROVE  Identity' /\ AllKeep
<1> USE DEF RecoveryAlone, RecoveryInv, Identity
<1>1. UNCHANGED <<hold, req, work, rec, pac, late>> /\ PacGrows
  BY OperatorMoves DEF PacGrows
<1>2. Exclusive => ReadersUnmarked
  BY DEF Exclusive
<1>3. fresh' \subseteq fresh => Retreat
  BY <1>1, <1>2 DEF Retreat, Emitting, ReadersUnmarked
<1>4. CASE UNCHANGED inv /\ fresh' = fresh
  BY <1>1, <1>3, <1>4, CalmIdentity
<1>5. CASE Saves(a)
  <2>1. PICK i \in Invoices : /\ i = DocumentOf(a)
                              /\ \A k \in Invoices \ {i} : inv'[k] = inv[k]
                              /\ fresh' = fresh \ Readers(i)
    BY <1>5, SavedRow
  <2>2. PICK row : row = Recovered(a, inv[i]) /\ Write(i, row)
    BY <1>5, <2>1 DEF Saves
  <2>3. PICK d \in DocsOf(i) : d = act[a].found /\ (act[a].outcome = "valid" => pac[d].state = "valid")
    BY <1>5, <2>1 DEF Saves, Known, Knows, At, PacState
  <2>4. /\ inv[i] \in Invoice /\ Identified(inv[i], i) /\ inv[i].uuid = NoDoc
        /\ inv[i].status # "stamped"
    BY <1>5, <2>1 DEF Saves, Typed, RowsOK, RowsIdentified, Identified
  <2>5. /\ row.status = "stamping" /\ row.fid = d
        /\ row.uuid = IF act[a].outcome = "valid" THEN d ELSE NoDoc
    BY <2>2, <2>3, <2>4 DEF Recovered, Invoice
  <2>6. Identified(row, i) /\ Keeps(inv[i], row)
    BY <2>3, <2>4, <2>5, DocumentIds DEF OwnDocs
  <2>7. RowsIdentified' /\ AllKeep
    BY <1>1, <2>2, <2>6, RowWritten DEF WriteOrLose
  <2>8. IdsKept(i) /\ fresh' \cap Readers(i) = {}
    BY <2>1, <2>2, <2>6 DEF Write, Keeps, IdsKept, Typed, RowsOK
  <2>9. Retreat /\ \A h \in Handlers : req'[h].pc = "config" => req[h].pc = "config"
    BY <1>1, <1>3, <2>1
  <2>10. \A k \in Invoices \ {i} : IdsSame(k)
    BY <2>1 DEF IdsSame
  <2>11. Observers'
    BY <2>8, <2>9, <2>10, ObserversStay
  <2> QED
    BY <2>7, <2>11
<1> QED
  BY <1>4, <1>5, OperatorMoves

LEMMA RecoveryIdentityStep ==
    ASSUME RecoveryAlone, "stub" \notin Faults, Identity, Known, [RecoveryNext]_recoveryVars
    PROVE  Identity' /\ Known' /\ AllKeep
<1> USE DEF RecoveryAlone, RecoveryInv
<1>1. ASSUME [Next]_vars, UNCHANGED act
      PROVE  Identity' /\ Known' /\ AllKeep
  <2>1. PacGrows
    BY <1>1, PacStepGrows DEF OwnDocs
  <2>2. Known'
    BY <1>1, <2>1, KnowsOn DEF Known
  <2> QED
    BY <1>1, <2>2, IdentityStep
<1>2. ASSUME NEW a \in Actions, OperatorStep(a)
      PROVE  Identity' /\ Known' /\ AllKeep
  BY <1>2, OperatorKnows, OperatorIdentity DEF Identity
<1> QED
  BY <1>1, <1>2 DEF RecoveryNext, AutomaticStep, recoveryVars

LEMMA RecoveryIdentityHolds ==
    "stub" \notin Faults => (RecoverySpec => [](Identity /\ Known))
<1> SUFFICES ASSUME "stub" \notin Faults
             PROVE  RecoverySpec => [](Identity /\ Known)
  OBVIOUS
<1>1. RecoveryInit => Identity /\ Known
  BY IdentityInit DEF RecoveryInit, Known, Knows, NoAction, At
<1>2. RecoveryAlone /\ Identity /\ Known /\ [RecoveryNext]_recoveryVars => Identity' /\ Known'
  BY RecoveryIdentityStep
<1> QED
  BY <1>1, <1>2, RecoveryAloneHolds, PTL DEF RecoverySpec

\* What the database calls stamped is a valid document of that invoice, also when
\* operators save documents while it is being stamped.  No request is answered by the
\* test mode, whose stub is written on whatever an operator has saved.
THEOREM RecoveryKeepsFiscal == "stub" \notin Faults => (RecoverySpec => []StampedIsFiscal)
<1>1. Identity => StampedIsFiscal
  BY DEF Identity, RowsIdentified, Identified, StampedIsFiscal
<1> QED
  BY <1>1, RecoveryIdentityHolds, PTL

\* No write of an operator, or behind an operator's back, takes a stamping or an id
\* back, without the test mode.
THEOREM RecoveryKeepsIdentity == "stub" \notin Faults => (RecoverySpec => FiscalIdentityStays)
<1> SUFFICES ASSUME "stub" \notin Faults
             PROVE  RecoverySpec => FiscalIdentityStays
  OBVIOUS
<1>1. RecoveryAlone /\ Identity /\ Known /\ [RecoveryNext]_recoveryVars
      => [\A i \in Invoices :
            /\ inv[i].status = "stamped" => inv'[i].status = "stamped"
            /\ inv[i].uuid # NoDoc => inv'[i].uuid = inv[i].uuid
            /\ inv[i].fid # NoDoc => inv'[i].fid = inv[i].fid]_vars
  BY RecoveryIdentityStep DEF AllKeep, Keeps
<1> QED
  BY <1>1, RecoveryIdentityHolds, RecoveryAloneHolds, PTL DEF RecoverySpec, FiscalIdentityStays

-----------------------------------------------------------------------------
(* The ownership contract with operators.  A row that operators and runs   *)
(* share is still a job of JobLease, once reservations are among its       *)
(* owners and may open what was closed: OperatedLease.  The holder of a    *)
(* row is the run or the reservation whose token is current.               *)

HasRow(c, j) == Queue!Owns(c) /\ hold[c].job = j
Reserved(a, j) == Reserves(a) /\ act[a].job = j

HolderOf(j) ==
    IF \E c \in Consumers : HasRow(c, j)
    THEN <<"run", CHOOSE c \in Consumers : HasRow(c, j)>>
    ELSE IF \E a \in Actions : Reserved(a, j)
         THEN <<"operator", CHOOSE a \in Actions : Reserved(a, j)>>
         ELSE <<"nobody">>

Contract == INSTANCE OperatedLease WITH
    Consumers <- {"run"} \X Consumers,
    Operators <- {"operator"} \X Actions,
    Nobody <- <<"nobody">>,
    life <- [j \in Jobs |-> Queue!Life(queue[j].status)],
    owner <- [j \in Jobs |-> HolderOf(j)]

Unheld(j) ==
    /\ \A c \in Consumers : ~HasRow(c, j)
    /\ \A a \in Actions : ~Reserved(a, j)

HolderFacts ==
    \A j \in Jobs :
        /\ \A c \in Consumers : HasRow(c, j) => HolderOf(j) = <<"run", c>>
        /\ \A a \in Actions : Reserved(a, j) => HolderOf(j) = <<"operator", a>>
        /\ Unheld(j) => HolderOf(j) = <<"nobody">>

\* A run selects rows that are open.
SelectedOpen ==
    \A c \in Consumers :
        hold[c].phase = "selected" => hold[c].row.status \in {"pending", "processing"}

LEMMA HolderFactsHold == RecoveryInv => HolderFacts
<1> SUFFICES ASSUME RecoveryInv, NEW j \in Jobs
             PROVE  /\ \A c \in Consumers : HasRow(c, j) => HolderOf(j) = <<"run", c>>
                    /\ \A a \in Actions : Reserved(a, j) => HolderOf(j) = <<"operator", a>>
                    /\ Unheld(j) => HolderOf(j) = <<"nobody">>
  BY DEF HolderFacts
<1>1. ASSUME NEW c \in Consumers, HasRow(c, j)
      PROVE  HolderOf(j) = <<"run", c>>
  <2>1. \A d \in Consumers : HasRow(d, j) => d = c
    BY <1>1 DEF HasRow, Queue!Owns, RecoveryInv, TokensDiffer, Owner, Token
  <2>2. (CHOOSE d \in Consumers : HasRow(d, j)) = c
    BY <1>1, <2>1
  <2> QED
    BY <1>1, <2>2 DEF HolderOf
<1>2. ASSUME NEW a \in Actions, Reserved(a, j)
      PROVE  HolderOf(j) = <<"operator", a>>
  <2>1. \A b \in Actions : Reserved(b, j) => b = a
    BY <1>2 DEF Reserved, Reserves, RecoveryInv, TokensDiffer
  <2>2. \A c \in Consumers : ~HasRow(c, j)
    BY <1>2 DEF HasRow, Queue!Owns, Reserved, Reserves, RecoveryInv, TokensDiffer, Owner, Token
  <2>3. (CHOOSE b \in Actions : Reserved(b, j)) = a
    BY <1>2, <2>1
  <2> QED
    BY <1>2, <2>2, <2>3 DEF HolderOf
<1>3. Unheld(j) => HolderOf(j) = <<"nobody">>
  BY DEF Unheld, HolderOf
<1> QED
  BY <1>1, <1>2, <1>3

LEMMA HolderFactsStep == RecoveryInv /\ [RecoveryNext]_recoveryVars => HolderFacts'
<1>1. RecoveryInv /\ [RecoveryNext]_recoveryVars => RecoveryInv'
  BY RecoveryInvStep
<1> QED
  BY <1>1, HolderFactsHold, PTL

\* Who holds j is as it was.
SameHolder(j) ==
    /\ \A c \in Consumers : HasRow(c, j)' <=> HasRow(c, j)
    /\ \A a \in Actions : Reserved(a, j)' <=> Reserved(a, j)

LEMMA SameHolderStays ==
    ASSUME HolderFacts, HolderFacts', NEW j \in Jobs, SameHolder(j)
    PROVE  HolderOf(j)' = HolderOf(j)
<1>1. CASE \E c \in Consumers : HasRow(c, j)
  BY <1>1 DEF HolderFacts, SameHolder
<1>2. CASE \E a \in Actions : Reserved(a, j)
  BY <1>2 DEF HolderFacts, SameHolder
<1>3. CASE Unheld(j)
  BY <1>3 DEF HolderFacts, SameHolder, Unheld
<1> QED
  BY <1>1, <1>2, <1>3 DEF Unheld

\* A step that changes no holder and no life is invisible in the contract.
LEMMA ContractStutters ==
    ASSUME HolderFacts, HolderFacts', \A j \in Jobs : SameHolder(j),
           \A j \in Jobs : Queue!Life(queue[j].status)' = Queue!Life(queue[j].status)
    PROVE  UNCHANGED Contract!vars
<1>1. \A j \in Jobs : HolderOf(j)' = HolderOf(j)
  BY SameHolderStays
<1>2. [j \in Jobs |-> HolderOf(j)]' = [j \in Jobs |-> HolderOf(j)]
  BY <1>1
<1>3. [j \in Jobs |-> Queue!Life(queue[j].status)]' =
          [j \in Jobs |-> Queue!Life(queue[j].status)]
  OBVIOUS
<1> QED
  BY <1>2, <1>3 DEF Contract!vars

\* How a step that changes the holder of one row moves the contract.
LEMMA OneJobMoves ==
    ASSUME HolderFacts, HolderFacts', NEW i \in Jobs,
           \A j \in Jobs \ {i} : SameHolder(j),
           \A j \in Jobs \ {i} : queue'[j] = queue[j]
    PROVE  /\ [j \in Jobs |-> HolderOf(j)]' =
                  [[j \in Jobs |-> HolderOf(j)] EXCEPT ![i] = HolderOf(i)']
           /\ [j \in Jobs |-> Queue!Life(queue[j].status)]' =
                  [[j \in Jobs |-> Queue!Life(queue[j].status)]
                      EXCEPT ![i] = Queue!Life(queue'[i].status)]
<1>1. \A j \in Jobs \ {i} : HolderOf(j)' = HolderOf(j)
  BY SameHolderStays
<1>2. [j \in Jobs |-> HolderOf(j)]' =
          [[j \in Jobs |-> HolderOf(j)] EXCEPT ![i] = HolderOf(i)']
  BY <1>1
<1>3. [j \in Jobs |-> Queue!Life(queue[j].status)]' =
          [[j \in Jobs |-> Queue!Life(queue[j].status)]
              EXCEPT ![i] = Queue!Life(queue'[i].status)]
  BY DEF Queue!Life
<1> QED
  BY <1>2, <1>3

\* A row that was written is nobody's, except whose token the write gave.
LEMMA WrittenLetsGo ==
    ASSUME RecoveryInv, NEW i \in Jobs, queue'[i].updatedAt = queue[i].updatedAt + 1
    PROVE  /\ \A c \in Consumers : hold'[c] = hold[c] => ~HasRow(c, i)'
           /\ \A a \in Actions : act'[a].token = act[a].token /\ act'[a].job = act[a].job
                                 /\ (Pending(a)' => Pending(a)) => ~Reserved(a, i)'
<1>1. queue[i].updatedAt \in Nat
  BY DEF RecoveryInv, QueueInv, Queue!TypeOK, Queue!Row
<1>2. ASSUME NEW c \in Consumers, hold'[c] = hold[c], HasRow(c, i)'
      PROVE  FALSE
  <2>1. hold[c].phase = "owner" /\ hold[c].job = i /\ Token(c) = queue[i].updatedAt + 1
    BY <1>2 DEF HasRow, Queue!Owns, Token
  <2>2. Token(c) <= queue[i].updatedAt
    BY <2>1 DEF RecoveryInv, TokensGiven, Given
  <2> QED
    BY <1>1, <2>1, <2>2
<1>3. ASSUME NEW a \in Actions, act'[a].token = act[a].token, act'[a].job = act[a].job,
             Pending(a)' => Pending(a), Reserved(a, i)'
      PROVE  FALSE
  <2>1. Pending(a) /\ act[a].job = i /\ act[a].token = queue[i].updatedAt + 1
    BY <1>3 DEF Reserved, Reserves
  <2>2. act[a].token <= queue[i].updatedAt
    BY <2>1 DEF RecoveryInv, TokensGiven, Given
  <2> QED
    BY <1>1, <2>1, <2>2
<1> QED
  BY <1>2, <1>3

LEMMA ContractInit == RecoveryInit => Contract!Init
<1> SUFFICES ASSUME RecoveryInit PROVE Contract!Init
  OBVIOUS
<1>1. \A j \in Jobs : Unheld(j)
  BY DEF RecoveryInit, Init, Queue!Init, Queue!Idle, NoAction, Unheld, HasRow, Queue!Owns,
     Reserved, Reserves, Pending
<1>2. \A j \in Jobs : HolderOf(j) = <<"nobody">>
  BY <1>1 DEF Unheld, HolderOf
<1>3. \A j \in Jobs : Queue!Life(queue[j].status) = "none"
  BY DEF RecoveryInit, Init, Queue!Init, Queue!Life, Queue!AbsentRow
<1> QED
  BY <1>2, <1>3 DEF Contract!Init

LEMMA SelectedOpenHolds == RecoverySpec => []SelectedOpen
<1>1. RecoveryInit => SelectedOpen
  BY DEF RecoveryInit, Init, Queue!Init, Queue!Idle, SelectedOpen
<1>2. ASSUME RecoveryInv, SelectedOpen, [RecoveryNext]_recoveryVars
      PROVE  SelectedOpen'
  <2>1. CASE [Queue!Next]_<<queue, hold>>
    <3>1. ASSUME NEW c \in Consumers, Queue!Outcome(c)
          PROVE  hold' = [hold EXCEPT ![c] = Queue!Idle]
      BY <1>2, <3>1, OutcomeWrites DEF RecoveryInv, QueueInv, Queue!Settle
    <3>2. ASSUME NEW c \in Consumers, hold' = [hold EXCEPT ![c] = hold'[c]],
                 hold'[c].phase = "selected" => hold'[c].row.status \in {"pending", "processing"}
          PROVE  SelectedOpen'
      BY <1>2, <3>2 DEF RecoveryInv, QueueInv, Queue!TypeOK, SelectedOpen
    <3>3. ASSUME NEW c \in Consumers, hold' = [hold EXCEPT ![c] = Queue!Idle]
          PROVE  SelectedOpen'
      BY <1>2, <3>3 DEF RecoveryInv, QueueInv, Queue!TypeOK, SelectedOpen, Queue!Idle
    <3>4. ASSUME NEW c \in Consumers, NEW j \in Jobs, Queue!SelectRow(c, j)
          PROVE  SelectedOpen'
      BY <1>2, <3>2, <3>4 DEF Queue!SelectRow, RecoveryInv, QueueInv, Queue!TypeOK
    <3>5. ASSUME NEW c \in Consumers, Queue!Claim(c)
          PROVE  SelectedOpen'
      BY <1>2, <3>2, <3>5 DEF Queue!Claim, RecoveryInv, QueueInv, Queue!TypeOK
    <3>6. CASE hold' = hold
      BY <1>2, <3>6 DEF SelectedOpen
    <3> QED
      BY <2>1, <3>1, <3>3, <3>4, <3>5, <3>6
      DEF Queue!Next, Queue!Enqueue, Queue!ClaimSkipped, Queue!LeaseLost, Queue!Abandon
  <2>2. CASE hold' = hold
    BY <1>2, <2>2 DEF SelectedOpen
  <2>3. CASE AutomaticStep
    BY <2>1, <2>3, StepIsQueueStep DEF AutomaticStep
  <2>4. ASSUME NEW a \in Actions, OperatorStep(a)
        PROVE  hold' = hold
    BY <2>4 DEF OperatorStep, Begin, AskPac, Complete, CompleteLost, Vanish, Release, vars
  <2> QED
    BY <1>2, <2>1, <2>2, <2>3, <2>4 DEF RecoveryNext, recoveryVars, vars
<1> QED
  BY <1>1, <1>2, RecoveryInvariant, PTL DEF RecoverySpec

\* A step of a run, or of a handler that inserts a row, is one of the contract.
LEMMA RunsKeepContract ==
    ASSUME RecoveryInv, SelectedOpen, HolderFacts, HolderFacts',
           [Queue!Next]_<<queue, hold>>, UNCHANGED act
    PROVE  [Contract!OperatedNext]_(Contract!vars)
<1> USE DEF RecoveryInv, QueueInv
<1>1. CASE UNCHANGED <<queue, hold>>
  <2>1. \A j \in Jobs : SameHolder(j)
    BY <1>1 DEF SameHolder, HasRow, Queue!Owns, Reserved, Reserves, Pending
  <2> QED
    BY <1>1, <2>1, ContractStutters
<1>2. ASSUME NEW i \in Jobs, Queue!Enqueue(i)
      PROVE  Contract!Create(i)
  <2>1. /\ \A j \in Jobs \ {i} : queue'[j] = queue[j]
        /\ queue[i].status = "absent" /\ queue'[i].status = "pending" /\ hold' = hold
    BY <1>2 DEF Queue!Enqueue, Queue!TypeOK, Queue!InsertedRow
  <2>2. Unheld(i) /\ Unheld(i)'
    BY <2>1 DEF Unheld, HasRow, Queue!Owns, Reserved, Reserves
  <2>3. \A j \in Jobs \ {i} : SameHolder(j)
    BY <2>1 DEF SameHolder, HasRow, Queue!Owns, Reserved, Reserves, Pending
  <2>4. HolderOf(i) = <<"nobody">> /\ HolderOf(i)' = <<"nobody">>
    BY <2>2 DEF HolderFacts
  <2>5. /\ \A j \in Jobs : HolderOf(j)' = HolderOf(j)
        /\ Queue!Life(queue[i].status) = "none" /\ Queue!Life(queue'[i].status) = "open"
    BY <2>1, <2>3, <2>4, SameHolderStays DEF Queue!Life, Queue!Terminal
  <2>6. [j \in Jobs |-> HolderOf(j)]' = [j \in Jobs |-> HolderOf(j)]
    BY <2>5
  <2> QED
    BY <2>1, <2>3, <2>5, <2>6, OneJobMoves DEF Contract!Create
<1>3. ASSUME NEW c \in Consumers, NEW i \in Jobs, Queue!SelectRow(c, i)
      PROVE  UNCHANGED Contract!vars
  <2>1. \A j \in Jobs : SameHolder(j)
    BY <1>3 DEF Queue!SelectRow, SameHolder, HasRow, Queue!Owns, Reserved, Reserves, Pending,
       Queue!TypeOK
  <2> QED
    BY <1>3, <2>1, ContractStutters DEF Queue!SelectRow
<1>4. ASSUME NEW c \in Consumers, Queue!Claim(c)
      PROVE  \E i \in Jobs : Contract!Take(<<"run", c>>, i)
  <2>1. PICK i \in Jobs : i = hold[c].job
    BY <1>4 DEF Queue!Claim
  <2>2. /\ queue[i].status \in {"pending", "processing"} /\ queue'[i].status = "processing"
        /\ queue'[i].updatedAt = queue[i].updatedAt + 1
        /\ \A j \in Jobs \ {i} : queue'[j] = queue[j]
        /\ hold'[c].phase = "owner" /\ hold'[c].job = i
        /\ hold'[c].row.updatedAt = queue[i].updatedAt + 1
        /\ \A b \in Consumers \ {c} : hold'[b] = hold[b]
        /\ hold[c].phase = "selected"
    BY <1>4, <2>1 DEF Queue!Claim, Queue!AsRead, Queue!Touched, Queue!TypeOK, SelectedOpen
  <2>3. HasRow(c, i)'
    BY <2>2 DEF HasRow, Queue!Owns
  <2>4. \A j \in Jobs \ {i} : SameHolder(j)
    BY <2>1, <2>2 DEF SameHolder, HasRow, Queue!Owns, Reserved, Reserves, Pending
  <2>5. HolderOf(i)' = <<"run", c>>
    BY <2>3 DEF HolderFacts
  <2>6. [j \in Jobs |-> Queue!Life(queue[j].status)]' =
            [j \in Jobs |-> Queue!Life(queue[j].status)]
    BY <2>2 DEF Queue!Life, Queue!Terminal
  <2>7. Queue!Life(queue[i].status) = "open"
    BY <2>2 DEF Queue!Life, Queue!Terminal
  <2>8. Contract!Take(<<"run", c>>, i)
    BY <2>2, <2>4, <2>5, <2>6, <2>7, OneJobMoves DEF Contract!Take
  <2> QED
    BY <2>8
<1>5. ASSUME NEW c \in Consumers, Queue!Outcome(c)
      PROVE  \E i \in Jobs : Contract!Finish(<<"run", c>>, i)
  <2>1. PICK s \in {"pending"} \cup Queue!Terminal, n \in Nat, d \in Nat :
           Queue!Settle(c, s, n, d)
    BY <1>5, OutcomeWrites
  <2>2. PICK i \in Jobs : i = hold[c].job /\ HasRow(c, i) /\ queue[i].status = "processing"
    BY <2>1 DEF Queue!Settle, HasRow, Queue!Owns
  <2>3. /\ queue'[i].status = s /\ queue'[i].updatedAt = queue[i].updatedAt + 1
        /\ \A j \in Jobs \ {i} : queue'[j] = queue[j]
        /\ hold'[c] = Queue!Idle
        /\ \A b \in Consumers \ {c} : hold'[b] = hold[b]
    BY <2>1, <2>2 DEF Queue!Settle, Queue!Touched, Queue!TypeOK
  <2>4. Unheld(i)'
    <3>1. s # "processing"
      BY DEF Queue!Terminal
    <3> QED
      BY <2>3, <3>1 DEF Unheld, HasRow, Queue!Owns, Reserved, Reserves
  <2>5. \A j \in Jobs \ {i} : SameHolder(j)
    BY <2>2, <2>3 DEF SameHolder, HasRow, Queue!Owns, Queue!Idle, Reserved, Reserves, Pending
  <2>6. HolderOf(i) = <<"run", c>> /\ HolderOf(i)' = <<"nobody">>
    BY <2>2, <2>4 DEF HolderFacts
  <2>7. Queue!Life(queue[i].status) = "open" /\ Queue!Life(queue'[i].status) \in {"open", "closed"}
    BY <2>2, <2>3 DEF Queue!Life, Queue!Terminal
  <2>8. Contract!Finish(<<"run", c>>, i)
    BY <2>5, <2>3, <2>6, <2>7, OneJobMoves DEF Contract!Finish
  <2> QED
    BY <2>8
<1>6. ASSUME NEW c \in Consumers,
             Queue!ClaimSkipped(c) \/ Queue!LeaseLost(c) \/ Queue!Abandon(c)
      PROVE  UNCHANGED Contract!vars \/ \E i \in Jobs : Contract!Vanish(<<"run", c>>, i)
  <2>1. /\ queue' = queue /\ hold'[c] = Queue!Idle
        /\ \A b \in Consumers \ {c} : hold'[b] = hold[b]
    BY <1>6 DEF Queue!ClaimSkipped, Queue!LeaseLost, Queue!Abandon, Queue!TypeOK
  <2>2. \A j \in Jobs : \A b \in Consumers \ {c} : HasRow(b, j)' <=> HasRow(b, j)
    BY <2>1 DEF HasRow, Queue!Owns
  <2>3. \A j \in Jobs : ~HasRow(c, j)' /\ \A a \in Actions : Reserved(a, j)' <=> Reserved(a, j)
    BY <2>1 DEF HasRow, Queue!Owns, Queue!Idle, Reserved, Reserves, Pending
  <2>4. CASE \A j \in Jobs : ~HasRow(c, j)
    <3>1. \A j \in Jobs : SameHolder(j)
      BY <2>2, <2>3, <2>4 DEF SameHolder
    <3> QED
      BY <2>1, <3>1, ContractStutters
  <2>5. ASSUME NEW i \in Jobs, HasRow(c, i)
        PROVE  Contract!Vanish(<<"run", c>>, i)
    <3>1. HolderOf(i) = <<"run", c>>
      BY <2>5 DEF HolderFacts
    <3>2. \A b \in Consumers \ {c} : ~HasRow(b, i)
      BY <2>5 DEF HasRow, Queue!Owns, TokensDiffer, Owner, Token
    <3>3. \A a \in Actions : ~Reserved(a, i)
      BY <2>5 DEF HasRow, Queue!Owns, Reserved, Reserves, TokensDiffer, Owner, Token
    <3>4. Unheld(i)'
      BY <2>2, <2>3, <3>2, <3>3 DEF Unheld
    <3>5. HolderOf(i)' = <<"nobody">>
      BY <3>4 DEF HolderFacts
    <3>6. \A j \in Jobs \ {i} : SameHolder(j)
      BY <2>2, <2>3, <2>5 DEF SameHolder, HasRow
    <3>7. [j \in Jobs |-> Queue!Life(queue[j].status)]' =
              [j \in Jobs |-> Queue!Life(queue[j].status)]
      BY <2>1
    <3> QED
      BY <2>1, <3>1, <3>5, <3>6, <3>7, OneJobMoves DEF Contract!Vanish
  <2> QED
    BY <2>4, <2>5
<1>7. ASSUME NEW c \in Consumers PROVE <<"run", c>> \in {"run"} \X Consumers
  OBVIOUS
<1> QED
  BY <1>1, <1>2, <1>3, <1>4, <1>5, <1>6, <1>7
  DEF Queue!Next, Contract!OperatedNext, Contract!Next

\* A step of an operator is one of the contract: a reservation opens the row, the end
\* of an action whose token is current closes it or gives it back.
LEMMA OperatorsKeepContract ==
    ASSUME RecoveryInv, HolderFacts, HolderFacts', NEW a \in Actions, OperatorStep(a)
    PROVE  [Contract!OperatedNext]_(Contract!vars)
<1> USE DEF RecoveryInv
<1>1. hold' = hold /\ \A b \in Actions \ {a} : act'[b] = act[b]
  BY DEF OperatorStep, Begin, AskPac, Complete, CompleteLost, Vanish, Release, vars, ActionsOK
\* The two ends of a step that writes row i.
<1>2. ASSUME NEW i \in Jobs, NEW s \in Queue!Status \ {"absent"}, SetRow(i, s)
      PROVE  /\ queue'[i].status = s /\ queue'[i].updatedAt = queue[i].updatedAt + 1
             /\ \A j \in Jobs \ {i} : queue'[j] = queue[j]
             /\ \A c \in Consumers : ~HasRow(c, i)'
             /\ \A b \in Actions \ {a} : ~Reserved(b, i)'
  <2>1. /\ queue'[i].status = s /\ queue'[i].updatedAt = queue[i].updatedAt + 1
        /\ \A j \in Jobs \ {i} : queue'[j] = queue[j]
    BY <1>1, <1>2, RowSet
  <2> QED
    BY <1>1, <2>1, WrittenLetsGo DEF Pending
\* A step that leaves the queue alone and no reservation that counts.
<1>3. ASSUME queue' = queue, \A j \in Jobs : Reserved(a, j)' <=> Reserved(a, j)
      PROVE  UNCHANGED Contract!vars
  <2>1. \A j \in Jobs : SameHolder(j)
    BY <1>1, <1>3 DEF SameHolder, HasRow, Queue!Owns, Reserved, Reserves, Pending
  <2> QED
    BY <1>3, <2>1, ContractStutters
\* The end of a reservation that counts.
<1>4. ASSUME NEW i \in Jobs, Reserved(a, i), ~Pending(a)',
             NEW s \in {"pending"} \cup Queue!Terminal, SetRow(i, s)
      PROVE  Contract!Finish(<<"operator", a>>, i)
  <2>1. s \in Queue!Status \ {"absent"}
    BY DEF Queue!Status, Queue!Terminal
  <2>2. /\ queue'[i].status = s /\ queue[i].status = "processing"
        /\ \A j \in Jobs \ {i} : queue'[j] = queue[j]
        /\ Unheld(i)'
    BY <1>2, <1>4, <2>1 DEF Unheld, Reserved, Reserves
  <2>3. \A j \in Jobs \ {i} : SameHolder(j)
    BY <1>1, <1>4, <2>2 DEF SameHolder, HasRow, Queue!Owns, Reserved, Reserves, Pending
  <2>4. HolderOf(i) = <<"operator", a>> /\ HolderOf(i)' = <<"nobody">>
    BY <1>4, <2>2 DEF HolderFacts
  <2>5. Queue!Life(queue[i].status) = "open" /\ Queue!Life(queue'[i].status) \in {"open", "closed"}
    BY <2>2 DEF Queue!Life, Queue!Terminal
  <2> QED
    BY <2>2, <2>3, <2>4, <2>5, OneJobMoves DEF Contract!Finish
<1>5. ASSUME NEW i \in Jobs, Begin(a, i)
      PROVE  Contract!Reserve(<<"operator", a>>, i)
  <2>1. /\ queue[i].status \in {"pending", "succeeded", "exhausted"}
        /\ SetRow(i, "processing") /\ act[a] = NoAction
        /\ act'[a].status = "pending" /\ act'[a].job = i
        /\ act'[a].token = queue[i].updatedAt + 1
    BY <1>5 DEF Begin, ActionsOK, NoAction
  <2>2. /\ queue'[i].status = "processing" /\ queue'[i].updatedAt = queue[i].updatedAt + 1
        /\ \A j \in Jobs \ {i} : queue'[j] = queue[j]
    BY <1>2, <2>1 DEF Queue!Status
  <2>3. Reserved(a, i)' /\ Unheld(i)
    BY <2>1, <2>2 DEF Reserved, Reserves, Pending, Unheld, HasRow, Queue!Owns
  <2>4. \A j \in Jobs \ {i} : SameHolder(j)
    BY <1>1, <2>1, <2>2 DEF SameHolder, HasRow, Queue!Owns, Reserved, Reserves, Pending, NoAction
  <2>5. HolderOf(i) = <<"nobody">> /\ HolderOf(i)' = <<"operator", a>>
    BY <2>3 DEF HolderFacts
  <2>6. Queue!Life(queue[i].status) # "none" /\ Queue!Life(queue'[i].status) = "open"
    BY <2>1, <2>2 DEF Queue!Life, Queue!Terminal
  <2> QED
    BY <2>2, <2>4, <2>5, <2>6, OneJobMoves DEF Contract!Reserve
<1>6. CASE AskPac(a)
  <2>1. /\ queue' = queue /\ act'[a].status = act[a].status
        /\ act'[a].job = act[a].job /\ act'[a].token = act[a].token
    <3>1. PICK outcome, d :
             act' = [act EXCEPT ![a].step = "complete", ![a].outcome = outcome, ![a].found = d]
      BY <1>6 DEF AskPac
    <3>2. act'[a] = [act[a] EXCEPT !.step = "complete", !.outcome = outcome, !.found = d]
      BY <3>1 DEF ActionsOK
    <3>3. act[a] \in Action /\ queue' = queue
      BY <1>6 DEF AskPac, vars, ActionsOK
    <3> QED
      BY <3>2, <3>3 DEF Action
  <2> QED
    BY <1>3, <2>1 DEF Reserved, Reserves, Pending
<1>7. CASE Complete(a)
  <2>1. PICK i \in Jobs : i = act[a].job
    BY <1>7 DEF Complete, Reserves, ActionsOK
  <2>2. PICK status \in Verdicts(a) :
           SetRow(i, RowAfter(a, status)) /\ act' = [act EXCEPT ![a] = Finished(a, status)]
    BY <1>7, <2>1 DEF Complete
  <2>3. Reserved(a, i)
    BY <1>7, <2>1 DEF Complete, Reserved
  <2>4. RowAfter(a, status) \in {"pending"} \cup Queue!Terminal
    <3>1. act[a].prev \in {"pending", "succeeded", "exhausted"}
      BY <1>7 DEF Complete, Reserves, ActionsOK, Action
    <3> QED
      BY <3>1 DEF RowAfter, GivenBack, Queue!Terminal
  <2>5. ~Pending(a)'
    <3>1. act[a].status = "pending" /\ act[a] \in Action
      BY <1>7 DEF Complete, Reserves, Pending, ActionsOK
    <3>2. status # "pending"
      BY <3>1 DEF Verdicts, Verdict, Action, Outcomes, PacState
    <3> QED
      BY <2>2, <3>2 DEF Finished, NoAction, Pending, ActionsOK
  <2>6. Contract!Finish(<<"operator", a>>, i)
    BY <1>4, <2>2, <2>3, <2>4, <2>5
  <2> QED
    BY <2>6 DEF Contract!OperatedNext
<1>8. CASE CompleteLost(a)
  <2>1. queue' = queue /\ ~Reserves(a) /\ act'[a].status # "pending"
    BY <1>8 DEF CompleteLost, vars, Finished, NoAction, ActionsOK, Pending
  <2> QED
    BY <1>3, <2>1 DEF Reserved, Reserves, Pending
<1>9. CASE Vanish(a)
  <2>1. /\ queue' = queue /\ (Pending(a)' <=> Pending(a))
        /\ Pending(a) => act'[a].job = act[a].job /\ act'[a].token = act[a].token
    BY <1>9 DEF Vanish, vars, Unserved, Finished, NoAction, ActionsOK, Action, Pending
  <2> QED
    BY <1>3, <2>1 DEF Reserved, Reserves
<1>10. CASE Release(a)
  <2>1. ~Pending(a)' /\ Pending(a) /\ act[a].job \in Jobs
    BY <1>10 DEF Release, Finished, NoAction, ActionsOK, Action, Pending
  <2>2. CASE Reserves(a)
    <3>1. PICK i \in Jobs : i = act[a].job
      BY <2>1
    <3>2. act[a].prev \in {"pending"} \cup Queue!Terminal
      BY <2>1 DEF ActionsOK, Action, Queue!Terminal
    <3>3. Reserved(a, i) /\ SetRow(i, act[a].prev)
      BY <1>10, <2>2, <3>1 DEF Release, Reserved
    <3>4. Contract!Finish(<<"operator", a>>, i)
      BY <1>4, <2>1, <3>2, <3>3
    <3> QED
      BY <3>4 DEF Contract!OperatedNext
  <2>3. CASE ~Reserves(a)
    BY <1>3, <1>10, <2>1, <2>3 DEF Release, Reserved, Reserves
  <2> QED
    BY <2>2, <2>3
<1> QED
  BY <1>5, <1>6, <1>7, <1>8, <1>9, <1>10 DEF OperatorStep, Contract!OperatedNext

\* Runs and operators share the rows of the queue as the contract promises: only the
\* holder of a row gives it back or closes it, a run may take it from a holder of either
\* kind, an operator only one that nobody holds, and nothing else opens a closed row
\* (claimQueueLease, platform_begin_fiscal_action, platform_complete_fiscal_action).
THEOREM RecoveryKeepsLease == RecoverySpec => Contract!OperatedSpec
<1>1. ASSUME RecoveryInv, SelectedOpen, [RecoveryNext]_recoveryVars
      PROVE  [Contract!OperatedNext]_(Contract!vars)
  <2>1. HolderFacts /\ HolderFacts'
    BY <1>1, HolderFactsHold, HolderFactsStep
  <2>2. CASE AutomaticStep
    BY <1>1, <2>1, <2>2, StepIsQueueStep, RunsKeepContract DEF AutomaticStep
  <2>3. ASSUME NEW a \in Actions, OperatorStep(a)
        PROVE  [Contract!OperatedNext]_(Contract!vars)
    BY <1>1, <2>1, <2>3, OperatorsKeepContract
  <2>4. CASE UNCHANGED recoveryVars
    BY <1>1, <2>1, <2>4, RunsKeepContract DEF recoveryVars, vars
  <2> QED
    BY <1>1, <2>2, <2>3, <2>4 DEF RecoveryNext
<1> QED
  BY <1>1, ContractInit, RecoveryInvariant, SelectedOpenHolds, PTL
  DEF RecoverySpec, Contract!OperatedSpec
=============================================================================
