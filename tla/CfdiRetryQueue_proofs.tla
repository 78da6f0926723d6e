----------------------- MODULE CfdiRetryQueue_proofs -----------------------
(***************************************************************************)
(* Proofs about the lease protocol of the fiscal retry queue, for every    *)
(* number of rows, runs, attempts and deferrals.                           *)
(*                                                                         *)
(* The safety properties are not inductive by themselves.  What makes them *)
(* so is the meaning of the token: updated_at only grows, so a run that    *)
(* still sees the updated_at it read also sees the row it read, and the    *)
(* token a claim returns is newer than every token handed out before.      *)
(***************************************************************************)
EXTENDS CfdiRetryQueue, TLAPS

Working(c) == hold[c].phase # "idle"

\* A run works on a row that exists and was open when the run read it, and
\* knows it no newer than it is.
HoldsRealRow(c) ==
    /\ hold[c].job \in Jobs
    /\ hold[c].row.status \in {"pending", "processing"}
    /\ queue[hold[c].job].status # "absent"
    /\ hold[c].row.updatedAt <= queue[hold[c].job].updatedAt

\* The token names a version of the row: same token, same row.
TokenNamesVersion(c) ==
    hold[c].row.updatedAt = queue[hold[c].job].updatedAt => hold[c].row = queue[hold[c].job]

TokensUnique ==
    \A c, d \in Consumers :
        /\ hold[c].phase = "owner"
        /\ hold[d].phase = "owner"
        /\ hold[c].job = hold[d].job
        /\ hold[c].row.updatedAt = hold[d].row.updatedAt
        => c = d

AbsentUntouched ==
    \A j \in Jobs : queue[j].status = "absent" => queue[j] = AbsentRow

LeaseInv ==
    /\ TypeOK
    /\ AbsentUntouched
    /\ \A c \in Consumers : Working(c) => HoldsRealRow(c) /\ TokenNamesVersion(c)
    /\ TokensUnique
    /\ AttemptBudget

\* What a settled row may look like, whichever outcome the run reports.
GoodPatch(c, status, attempts, deferrals) ==
    /\ status \in {"pending"} \cup Terminal
    /\ attempts \in {Held(c).attempts, Held(c).attempts + 1}
    /\ attempts <= MaxAttempts
    /\ status = "pending" => attempts < MaxAttempts
    /\ deferrals \in Nat

-----------------------------------------------------------------------------
\* The row an owner settles is the row it claimed (the token has not moved).
LEMMA OwnerKnowsRow ==
    ASSUME LeaseInv, NEW c \in Consumers, Owns(c)
    PROVE  /\ hold[c].job \in Jobs
           /\ Held(c) = queue[hold[c].job]
           /\ Held(c) \in Row
           /\ Held(c).attempts < MaxAttempts
<1>1. Working(c) /\ hold[c].job \in Jobs
  BY DEF LeaseInv, Owns, Working, HoldsRealRow
<1>2. Held(c) = queue[hold[c].job]
  BY <1>1 DEF LeaseInv, Owns, TokenNamesVersion, Held
<1>3. queue[hold[c].job] \in Row
  BY <1>1 DEF LeaseInv, TypeOK
<1>4. queue[hold[c].job].attempts < MaxAttempts
  BY <1>1 DEF LeaseInv, AttemptBudget, Owns
<1> QED
  BY <1>1, <1>2, <1>3, <1>4

\* Every outcome of a run is one guarded write, and a good patch.
LEMMA OutcomeSettles ==
    ASSUME LeaseInv, NEW c \in Consumers, Outcome(c)
    PROVE  \E s \in Status, n \in Nat, d \in Nat :
              Settle(c, s, n, d) /\ GoodPatch(c, s, n, d)
<1>1. Owns(c)
  BY DEF Outcome, SucceedRecovered, SucceedInvoked, SucceedRefreshed, Defer, GiveUp,
         GiveUpUncounted, DeferConflict, RefuseConflict, RetryAnswered, RetryThrown, Settle
<1>2. /\ Held(c).attempts \in Nat
      /\ Held(c).deferrals \in Nat
      /\ Held(c).attempts < MaxAttempts
  BY <1>1, OwnerKnowsRow DEF Row
<1>3. MaxAttempts \in Nat /\ MaxDeferrals \in Nat
  BY QueueAssumption
<1> DEFINE n == Held(c).attempts
           d == Held(c).deferrals
           good(s, m, e) == Settle(c, s, m, e) /\ GoodPatch(c, s, m, e)
<1>4. CASE SucceedRecovered(c)
  <2>1. good("succeeded", n + 1, d)
    BY <1>2, <1>3, <1>4 DEF SucceedRecovered, GoodPatch, Terminal
  <2> QED
    BY <1>2, <2>1 DEF Status
<1>5. CASE SucceedInvoked(c)
  <2>1. good("succeeded", n + 1, 0)
    BY <1>2, <1>3, <1>5 DEF SucceedInvoked, GoodPatch, Terminal
  <2> QED
    BY <1>2, <2>1 DEF Status
<1>6. CASE SucceedRefreshed(c)
  <2>1. good("succeeded", n, 0)
    BY <1>2, <1>3, <1>6 DEF SucceedRefreshed, GoodPatch, Terminal
  <2> QED
    BY <1>2, <2>1 DEF Status
<1>7. CASE Defer(c)
  <2>1. good("pending", n, d)
    BY <1>2, <1>3, <1>7 DEF Defer, GoodPatch, Terminal
  <2> QED
    BY <1>2, <2>1 DEF Status
<1>8. CASE GiveUp(c)
  <2>1. good("exhausted", n + 1, d)
    BY <1>2, <1>3, <1>8 DEF GiveUp, GoodPatch, Terminal
  <2> QED
    BY <1>2, <2>1 DEF Status
<1>9. CASE GiveUpUncounted(c)
  <2>1. good("exhausted", n, d)
    BY <1>2, <1>3, <1>9 DEF GiveUpUncounted, GoodPatch, Terminal
  <2> QED
    BY <1>2, <2>1 DEF Status
<1>10. CASE DeferConflict(c)
  <2>1. good(IF d + 1 > MaxDeferrals THEN "exhausted" ELSE "pending", n, d + 1)
    BY <1>2, <1>3, <1>10 DEF DeferConflict, GoodPatch, Terminal
  <2> QED
    BY <1>2, <2>1 DEF Status
<1>11. CASE RefuseConflict(c)
  <2>1. good("exhausted", n + 1, 0)
    BY <1>2, <1>3, <1>11 DEF RefuseConflict, GoodPatch, Terminal
  <2> QED
    BY <1>2, <2>1 DEF Status
<1>12. CASE RetryAnswered(c)
  <2>1. good(TerminalStatus(n + 1), n + 1, 0)
    BY <1>2, <1>3, <1>12 DEF RetryAnswered, TerminalStatus, GoodPatch, Terminal
  <2> QED
    BY <1>2, <2>1 DEF Status, TerminalStatus
<1>13. CASE RetryThrown(c)
  <2>1. good(TerminalStatus(n + 1), n + 1, d)
    BY <1>2, <1>3, <1>13 DEF RetryThrown, TerminalStatus, GoodPatch, Terminal
  <2> QED
    BY <1>2, <2>1 DEF Status, TerminalStatus
<1> QED
  BY <1>4, <1>5, <1>6, <1>7, <1>8, <1>9, <1>10, <1>11, <1>12, <1>13 DEF Outcome
-----------------------------------------------------------------------------
\* The three steps that make LeaseInv inductive: writing a row ...
LEMMA SettlePreserves ==
    ASSUME LeaseInv, NEW c \in Consumers,
           NEW s \in Status, NEW n \in Nat, NEW d \in Nat,
           Settle(c, s, n, d), GoodPatch(c, s, n, d)
    PROVE  LeaseInv'
<1> DEFINE j == hold[c].job
           new == Touched(queue[j], s, n, d)
<1>1. /\ Owns(c)
      /\ queue' = [queue EXCEPT ![j] = new]
      /\ hold' = [hold EXCEPT ![c] = Idle]
  BY DEF Settle
<1>2. j \in Jobs /\ queue[j] \in Row
  BY <1>1, OwnerKnowsRow
<1>3. /\ new \in Row
      /\ new.status = s
      /\ new.attempts = n
      /\ new.updatedAt = queue[j].updatedAt + 1
  BY <1>2 DEF Touched, Row
<1>4. s # "absent"
  BY DEF GoodPatch, Terminal
<1>5. TypeOK'
  <2>1. queue' \in [Jobs -> Row]
    BY <1>1, <1>3 DEF LeaseInv, TypeOK
  <2>2. Idle \in [phase: Phase, job: Jobs \cup {NoJob}, row: Row]
    BY DEF Idle, Phase, Row, AbsentRow, Status
  <2> QED
    BY <1>1, <2>1, <2>2 DEF LeaseInv, TypeOK
<1>6. \A b \in Consumers : Working(b)' => b # c /\ hold'[b] = hold[b] /\ Working(b)
  BY <1>1 DEF Working, Idle, LeaseInv, TypeOK
<1>7. \A i \in Jobs : /\ i = j => queue'[i] = new
                      /\ i # j => queue'[i] = queue[i]
  BY <1>1, <1>2 DEF LeaseInv, TypeOK
<1>8. ASSUME NEW b \in Consumers, Working(b)'
      PROVE  HoldsRealRow(b)' /\ TokenNamesVersion(b)'
  <2>1. /\ hold'[b] = hold[b] /\ HoldsRealRow(b) /\ TokenNamesVersion(b)
        /\ hold[b].row \in Row
    BY <1>6, <1>8 DEF LeaseInv, TypeOK
  <2>2. CASE hold[b].job = j
    BY <1>2, <1>3, <1>4, <1>7, <2>1, <2>2 DEF HoldsRealRow, TokenNamesVersion, Row
  <2>3. CASE hold[b].job # j
    BY <1>7, <2>1, <2>3 DEF HoldsRealRow, TokenNamesVersion
  <2> QED
    BY <2>2, <2>3
<1>9. TokensUnique'
  BY <1>6 DEF LeaseInv, TokensUnique, Working
<1>10. AttemptBudget'
  BY <1>3, <1>7 DEF LeaseInv, AttemptBudget, GoodPatch, Terminal
<1>11. AbsentUntouched'
  BY <1>3, <1>4, <1>7 DEF LeaseInv, AbsentUntouched
<1> QED
  BY <1>5, <1>8, <1>9, <1>10, <1>11 DEF LeaseInv

\* ... claiming a row, where the token must be fresh ...
LEMMA ClaimPreserves ==
    ASSUME LeaseInv, NEW c \in Consumers, Claim(c)
    PROVE  LeaseInv'
<1> DEFINE j == hold[c].job
           new == Touched(queue[j], "processing", queue[j].attempts, queue[j].deferrals)
           known == [status |-> new.status, attempts |-> hold[c].row.attempts,
                     deferrals |-> hold[c].row.deferrals, updatedAt |-> new.updatedAt]
           mine == [phase |-> "owner", job |-> j, row |-> new]
<1>1. /\ hold[c].phase = "selected"
      /\ AsRead(c)
      /\ queue' = [queue EXCEPT ![j] = new]
      /\ hold' = [hold EXCEPT ![c] = mine]
  <2>1. hold[c].row = queue[j]
    BY DEF Claim, AsRead, LeaseInv, Working, TokenNamesVersion
  <2>2. known = new
    BY <2>1 DEF Touched
  <2> QED
    BY <2>2 DEF Claim
<1>2. Working(c) /\ j \in Jobs /\ queue[j] \in Row /\ queue[j].status # "absent"
  BY <1>1 DEF LeaseInv, TypeOK, Working, HoldsRealRow
<1>3. /\ new \in Row
      /\ new.status = "processing"
      /\ new.attempts = queue[j].attempts
      /\ new.updatedAt = queue[j].updatedAt + 1
  BY <1>2 DEF Touched, Row, Status
<1>4. /\ mine \in [phase: Phase, job: Jobs \cup {NoJob}, row: Row]
      /\ mine.phase = "owner" /\ mine.job = j /\ mine.row = new
  BY <1>2, <1>3 DEF Phase
<1>5. TypeOK'
  BY <1>1, <1>3, <1>4 DEF LeaseInv, TypeOK
<1> HIDE DEF new, mine
<1>6. \A i \in Jobs : /\ i = j => queue'[i] = new
                      /\ i # j => queue'[i] = queue[i]
  BY <1>1, <1>2 DEF LeaseInv, TypeOK
<1>7. \A b \in Consumers : /\ b = c => hold'[b] = mine
                           /\ b # c => hold'[b] = hold[b]
  BY <1>1 DEF LeaseInv, TypeOK
<1>12. /\ queue[j].updatedAt \in Nat /\ new.updatedAt \in Nat
       /\ \A n \in Nat : n <= queue[j].updatedAt => n # new.updatedAt /\ n <= new.updatedAt
  BY <1>2, <1>3 DEF Row
<1>8. ASSUME NEW b \in Consumers, Working(b)'
      PROVE  HoldsRealRow(b)' /\ TokenNamesVersion(b)'
  <2>1. CASE b = c
    BY <1>2, <1>3, <1>4, <1>6, <1>7, <1>12, <2>1 DEF HoldsRealRow, TokenNamesVersion
  <2>2. CASE b # c
    <3>1. /\ hold'[b] = hold[b] /\ HoldsRealRow(b) /\ TokenNamesVersion(b)
          /\ hold[b].row \in Row
      BY <1>7, <1>8, <2>2 DEF LeaseInv, TypeOK, Working
    <3>2. CASE hold[b].job = j
      <4>1. hold[b].row.updatedAt \in Nat
        BY <3>1 DEF Row
      <4> QED
        BY <1>2, <1>3, <1>6, <1>12, <3>1, <3>2, <4>1 DEF HoldsRealRow, TokenNamesVersion
    <3>3. CASE hold[b].job # j
      BY <1>6, <3>1, <3>3 DEF HoldsRealRow, TokenNamesVersion
    <3> QED
      BY <3>2, <3>3
  <2> QED
    BY <2>1, <2>2
<1>9. TokensUnique'
  <2> SUFFICES ASSUME NEW a \in Consumers, NEW b \in Consumers,
                      hold'[a].phase = "owner", hold'[b].phase = "owner",
                      hold'[a].job = hold'[b].job,
                      hold'[a].row.updatedAt = hold'[b].row.updatedAt
               PROVE  a = b
    BY DEF TokensUnique
  <2>1. ASSUME NEW x \in Consumers, x # c, hold[x].phase = "owner", hold[x].job = j
        PROVE  hold[x].row.updatedAt # new.updatedAt
    <3>1. hold[x].row.updatedAt <= queue[j].updatedAt /\ hold[x].row.updatedAt \in Nat
      BY <2>1 DEF LeaseInv, TypeOK, Working, HoldsRealRow, Row
    <3> QED
      BY <1>12, <3>1
  <2>2. CASE a = c /\ b # c
    BY <1>4, <1>7, <2>1, <2>2
  <2>3. CASE a # c /\ b = c
    BY <1>4, <1>7, <2>1, <2>3
  <2>4. CASE a # c /\ b # c
    BY <1>7, <2>4 DEF LeaseInv, TokensUnique
  <2> QED
    BY <2>2, <2>3, <2>4
<1>10. AttemptBudget'
  <2>1. queue[j].attempts < MaxAttempts
    BY <1>1, <1>2 DEF LeaseInv, AttemptBudget, AsRead, HoldsRealRow
  <2> QED
    BY <1>3, <1>6, <2>1 DEF LeaseInv, AttemptBudget
<1>11. AbsentUntouched'
  BY <1>3, <1>6 DEF LeaseInv, AbsentUntouched
<1> QED
  BY <1>5, <1>8, <1>9, <1>10, <1>11 DEF LeaseInv

\* ... and reading, inserting or letting go of one.
LEMMA QuietPreserves ==
    ASSUME LeaseInv,
           \/ \E j \in Jobs : Enqueue(j)
           \/ \E c \in Consumers, j \in Jobs : SelectRow(c, j)
           \/ \E c \in Consumers : ClaimSkipped(c) \/ LeaseLost(c) \/ Abandon(c)
    PROVE  LeaseInv'
<1>1. ASSUME NEW j \in Jobs, Enqueue(j)
      PROVE  LeaseInv'
  <2>1. InsertedRow \in Row /\ InsertedRow.attempts = 0
    BY DEF InsertedRow, Row, Status
  <2>2. TypeOK'
    BY <1>1, <2>1 DEF LeaseInv, TypeOK, Enqueue
  <2>3. \A i \in Jobs : /\ i = j => queue'[i] = InsertedRow
                        /\ i # j => queue'[i] = queue[i]
    BY <1>1 DEF LeaseInv, TypeOK, Enqueue
  <2>4. \A b \in Consumers : Working(b) => hold[b].job # j
    BY <1>1 DEF LeaseInv, HoldsRealRow, Enqueue
  <2>5. \A b \in Consumers : Working(b)' => HoldsRealRow(b)' /\ TokenNamesVersion(b)'
    BY <1>1, <2>3, <2>4 DEF LeaseInv, HoldsRealRow, TokenNamesVersion, Working, Enqueue
  <2>6. TokensUnique'
    BY <1>1 DEF LeaseInv, TokensUnique, Enqueue
  <2>7. AttemptBudget'
    BY <2>1, <2>3, QueueAssumption DEF LeaseInv, AttemptBudget
  <2>8. AbsentUntouched'
    BY <2>3 DEF LeaseInv, AbsentUntouched, InsertedRow
  <2> QED
    BY <2>2, <2>5, <2>6, <2>7, <2>8 DEF LeaseInv
<1>2. ASSUME NEW c \in Consumers, NEW j \in Jobs, SelectRow(c, j)
      PROVE  LeaseInv'
  <2> DEFINE seen == [phase |-> "selected", job |-> j, row |-> queue[j]]
  <2>1. queue[j] \in Row /\ queue' = queue /\ hold' = [hold EXCEPT ![c] = seen]
    BY <1>2 DEF LeaseInv, TypeOK, SelectRow
  <2>2. seen \in [phase: Phase, job: Jobs \cup {NoJob}, row: Row]
    BY <2>1 DEF Phase
  <2>3. TypeOK'
    BY <2>1, <2>2 DEF LeaseInv, TypeOK
  <2>4. \A b \in Consumers : /\ b = c => hold'[b] = seen
                             /\ b # c => hold'[b] = hold[b]
    BY <2>1 DEF LeaseInv, TypeOK
  <2>5. ASSUME NEW b \in Consumers, Working(b)'
        PROVE  HoldsRealRow(b)' /\ TokenNamesVersion(b)'
    <3>1. CASE b = c
      BY <1>2, <2>1, <2>4, <3>1 DEF HoldsRealRow, TokenNamesVersion, SelectRow, Row
    <3>2. CASE b # c
      BY <2>1, <2>4, <2>5, <3>2 DEF LeaseInv, HoldsRealRow, TokenNamesVersion, Working
    <3> QED
      BY <3>1, <3>2
  <2>6. TokensUnique'
    BY <2>4 DEF LeaseInv, TokensUnique
  <2>7. AttemptBudget'
    BY <2>1 DEF LeaseInv, AttemptBudget
  <2>8. AbsentUntouched'
    BY <2>1 DEF LeaseInv, AbsentUntouched
  <2> QED
    BY <2>3, <2>5, <2>6, <2>7, <2>8 DEF LeaseInv
<1>3. ASSUME NEW c \in Consumers, ClaimSkipped(c) \/ LeaseLost(c) \/ Abandon(c)
      PROVE  LeaseInv'
  <2>1. queue' = queue /\ hold' = [hold EXCEPT ![c] = Idle]
    BY <1>3 DEF ClaimSkipped, LeaseLost, Abandon
  <2>2. Idle \in [phase: Phase, job: Jobs \cup {NoJob}, row: Row]
    BY DEF Idle, Phase, Row, AbsentRow, Status
  <2>3. TypeOK'
    BY <2>1, <2>2 DEF LeaseInv, TypeOK
  <2>4. \A b \in Consumers : Working(b)' => b # c /\ hold'[b] = hold[b] /\ Working(b)
    BY <2>1 DEF Working, Idle, LeaseInv, TypeOK
  <2>5. \A b \in Consumers : Working(b)' => HoldsRealRow(b)' /\ TokenNamesVersion(b)'
    BY <2>1, <2>4 DEF LeaseInv, HoldsRealRow, TokenNamesVersion
  <2>6. TokensUnique'
    BY <2>4 DEF LeaseInv, TokensUnique, Working
  <2>7. AttemptBudget'
    BY <2>1 DEF LeaseInv, AttemptBudget
  <2>8. AbsentUntouched'
    BY <2>1 DEF LeaseInv, AbsentUntouched
  <2> QED
    BY <2>3, <2>5, <2>6, <2>7, <2>8 DEF LeaseInv
<1> QED
  BY <1>1, <1>2, <1>3
-----------------------------------------------------------------------------
\* The inductive invariant holds initially ...
LEMMA LeaseInvInit ==
    Init => LeaseInv
<1> SUFFICES ASSUME Init
             PROVE  LeaseInv
  OBVIOUS
<1>1. AbsentRow \in Row
  BY DEF AbsentRow, Row, Status
<1>2. Idle \in [phase: Phase, job: Jobs \cup {NoJob}, row: Row]
  BY <1>1 DEF Idle, Phase
<1>3. TypeOK
  BY <1>1, <1>2 DEF Init, TypeOK
<1>4. AttemptBudget
  BY QueueAssumption DEF Init, AttemptBudget, AbsentRow
<1> QED
  BY <1>3, <1>4 DEF LeaseInv, Init, Idle, Working, TokensUnique, AbsentUntouched

\* ... and every step of the queue keeps it.
LEMMA LeaseInvStep ==
    LeaseInv /\ [Next]_queueVars => LeaseInv'
<1> SUFFICES ASSUME LeaseInv, [Next]_queueVars
             PROVE  LeaseInv'
  OBVIOUS
<1>1. CASE UNCHANGED queueVars
  BY <1>1 DEF queueVars, LeaseInv, TypeOK, Working, HoldsRealRow, TokenNamesVersion,
              TokensUnique, AttemptBudget, AbsentUntouched
<1>2. ASSUME NEW c \in Consumers, Outcome(c)
      PROVE  LeaseInv'
  BY <1>2, OutcomeSettles, SettlePreserves
<1>3. ASSUME NEW c \in Consumers, Claim(c)
      PROVE  LeaseInv'
  BY <1>3, ClaimPreserves
<1> QED
  BY <1>1, <1>2, <1>3, QuietPreserves DEF Next

THEOREM LeaseInvariant == Spec => []LeaseInv
  BY LeaseInvInit, LeaseInvStep, PTL DEF Spec

\* Every reachable state is well typed.
THEOREM TypeCorrect == Spec => []TypeOK
<1>1. LeaseInv => TypeOK
  BY DEF LeaseInv
<1> QED
  BY <1>1, LeaseInvariant, PTL

\* Of any number of runs that believe they hold a row, one can write it.
THEOREM QueueHasSingleOwner == Spec => []SingleOwner
<1>1. LeaseInv => SingleOwner
  BY DEF LeaseInv, TokensUnique, SingleOwner, Owns
<1> QED
  BY <1>1, LeaseInvariant, PTL

\* No interleaving of runs charges a row more than max_attempts attempts.
THEOREM AttemptsStayInBudget == Spec => []AttemptBudget
<1>1. LeaseInv => AttemptBudget
  BY DEF LeaseInv
<1> QED
  BY <1>1, LeaseInvariant, PTL
-----------------------------------------------------------------------------
\* What one step may do to a row: nothing, insert it, or write an open row with
\* the attempts it has or one more.
RowStep(j) ==
    \/ queue'[j] = queue[j]
    \/ queue[j] = AbsentRow /\ queue'[j] = InsertedRow
    \/ /\ queue[j].status \in {"pending", "processing"}
       /\ queue'[j].attempts \in {queue[j].attempts, queue[j].attempts + 1}

LEMMA StepShape ==
    ASSUME LeaseInv, [Next]_queueVars, NEW j \in Jobs
    PROVE  RowStep(j)
<1>1. CASE UNCHANGED queueVars
  BY <1>1 DEF queueVars, RowStep
<1>2. ASSUME NEW i \in Jobs, Enqueue(i)
      PROVE  RowStep(j)
  BY <1>2 DEF Enqueue, RowStep, LeaseInv, TypeOK, AbsentUntouched
<1>3. ASSUME NEW c \in Consumers, NEW i \in Jobs, SelectRow(c, i)
      PROVE  RowStep(j)
  BY <1>3 DEF SelectRow, RowStep
<1>4. ASSUME NEW c \in Consumers, Claim(c)
      PROVE  RowStep(j)
  <2>1. /\ hold[c].job \in Jobs
        /\ queue[hold[c].job].status \in {"pending", "processing"}
    BY <1>4 DEF Claim, AsRead, LeaseInv, Working, HoldsRealRow
  <2> QED
    BY <1>4, <2>1 DEF Claim, Touched, RowStep, LeaseInv, TypeOK
<1>5. ASSUME NEW c \in Consumers, ClaimSkipped(c) \/ LeaseLost(c) \/ Abandon(c)
      PROVE  RowStep(j)
  BY <1>5 DEF ClaimSkipped, LeaseLost, Abandon, RowStep
<1>6. ASSUME NEW c \in Consumers, Outcome(c)
      PROVE  RowStep(j)
  <2>1. PICK s \in Status, n \in Nat, d \in Nat :
           Settle(c, s, n, d) /\ GoodPatch(c, s, n, d)
    BY <1>6, OutcomeSettles
  <2>2. Owns(c) /\ hold[c].job \in Jobs /\ Held(c) = queue[hold[c].job]
    BY <2>1, OwnerKnowsRow DEF Settle
  <2> QED
    BY <2>1, <2>2 DEF Settle, Owns, Touched, GoodPatch, RowStep, LeaseInv, TypeOK
<1> QED
  BY <1>1, <1>2, <1>3, <1>4, <1>5, <1>6 DEF Next

\* Nobody writes a closed row, a run that lost it least of all.
THEOREM ClosedStayClosed == Spec => ClosedRowsStay
<1>1. LeaseInv /\ [Next]_queueVars =>
         [\A j \in Jobs : queue[j].status \in Terminal => queue'[j] = queue[j]]_queueVars
  <2> SUFFICES ASSUME LeaseInv, [Next]_queueVars, NEW j \in Jobs,
                      queue[j].status \in Terminal
               PROVE  queue'[j] = queue[j]
    OBVIOUS
  <2> QED
    BY StepShape DEF RowStep, Terminal, AbsentRow
<1> QED
  BY <1>1, LeaseInvariant, PTL DEF Spec, ClosedRowsStay

\* Counters read before the claim are still right when they are written.
THEOREM NoAttemptIsLost == Spec => AttemptsNeverLost
<1>1. LeaseInv /\ [Next]_queueVars =>
         [\A j \in Jobs : queue'[j].attempts >= queue[j].attempts]_queueVars
  <2> SUFFICES ASSUME LeaseInv, [Next]_queueVars, NEW j \in Jobs
               PROVE  queue'[j].attempts >= queue[j].attempts
    OBVIOUS
  <2>1. queue[j].attempts \in Nat
    BY DEF LeaseInv, TypeOK, Row
  <2> QED
    BY <2>1, StepShape DEF RowStep, AbsentRow, InsertedRow
<1> QED
  BY <1>1, LeaseInvariant, PTL DEF Spec, AttemptsNeverLost
-----------------------------------------------------------------------------
(* The queue implements the ownership contract: OwnerOf is the run that     *)
(* can still write the row, and every step of the protocol is a step of     *)
(* JobLease or leaves ownership and life of every row as they were.         *)

Holder(c, j) == Owns(c) /\ hold[c].job = j

OwnerFacts ==
    \A j \in Jobs :
        /\ \A c \in Consumers : Holder(c, j) => OwnerOf(j) = c
        /\ (\A c \in Consumers : ~Holder(c, j)) => OwnerOf(j) = NoJob

LEMMA OwnerFactsHold == LeaseInv => OwnerFacts
<1> SUFFICES ASSUME LeaseInv, NEW j \in Jobs
             PROVE  /\ \A c \in Consumers : Holder(c, j) => OwnerOf(j) = c
                    /\ (\A c \in Consumers : ~Holder(c, j)) => OwnerOf(j) = NoJob
  BY DEF OwnerFacts
<1>1. ASSUME NEW c \in Consumers, Holder(c, j)
      PROVE  OwnerOf(j) = c
  <2>1. \A d \in Consumers : Owns(d) /\ hold[d].job = j => d = c
    BY <1>1 DEF Holder, Owns, LeaseInv, TokensUnique
  <2>2. Owns(c) /\ hold[c].job = j
    BY <1>1 DEF Holder
  <2> QED
    BY <2>1, <2>2 DEF OwnerOf
<1>2. ASSUME \A c \in Consumers : ~Holder(c, j)
      PROVE  OwnerOf(j) = NoJob
  BY <1>2 DEF Holder, OwnerOf
<1> QED
  BY <1>1, <1>2

LEMMA OwnerFactsStep == LeaseInv /\ [Next]_queueVars => OwnerFacts'
  BY LeaseInvStep, OwnerFactsHold, PTL

\* A step that changes no holder and no life is invisible in the contract.
LEMMA SameHoldersStutter ==
    ASSUME OwnerFacts, OwnerFacts',
           \A j \in Jobs, c \in Consumers : Holder(c, j)' <=> Holder(c, j),
           \A j \in Jobs : Life(queue[j].status)' = Life(queue[j].status)
    PROVE  UNCHANGED Lease!vars
<1>1. ASSUME NEW j \in Jobs
      PROVE  OwnerOf(j)' = OwnerOf(j)
  BY DEF OwnerFacts
<1>2. [j \in Jobs |-> OwnerOf(j)]' = [j \in Jobs |-> OwnerOf(j)]
  BY <1>1
<1>3. [j \in Jobs |-> Life(queue[j].status)]' = [j \in Jobs |-> Life(queue[j].status)]
  OBVIOUS
<1> QED
  BY <1>2, <1>3 DEF Lease!vars

\* How a step that changes the holder of one row moves the contract.
LEMMA OneRowMoves ==
    ASSUME OwnerFacts, OwnerFacts', NEW i \in Jobs,
           \A j \in Jobs \ {i}, c \in Consumers : Holder(c, j)' <=> Holder(c, j),
           \A j \in Jobs \ {i} : queue'[j] = queue[j]
    PROVE  /\ [j \in Jobs |-> OwnerOf(j)]' =
                  [[j \in Jobs |-> OwnerOf(j)] EXCEPT ![i] = OwnerOf(i)']
           /\ [j \in Jobs |-> Life(queue[j].status)]' =
                  [[j \in Jobs |-> Life(queue[j].status)] EXCEPT ![i] = Life(queue'[i].status)]
<1>1. ASSUME NEW j \in Jobs, j # i
      PROVE  OwnerOf(j)' = OwnerOf(j)
  BY <1>1 DEF OwnerFacts
<1>2. [j \in Jobs |-> OwnerOf(j)]' =
          [[j \in Jobs |-> OwnerOf(j)] EXCEPT ![i] = OwnerOf(i)']
  BY <1>1
<1>3. [j \in Jobs |-> Life(queue[j].status)]' =
          [[j \in Jobs |-> Life(queue[j].status)] EXCEPT ![i] = Life(queue'[i].status)]
  BY DEF Life
<1> QED
  BY <1>2, <1>3

LEMMA LeaseInit == Init => Lease!Init
<1> SUFFICES ASSUME Init
             PROVE  Lease!Init
  OBVIOUS
<1>1. \A j \in Jobs : OwnerOf(j) = NoJob
  BY DEF Init, OwnerOf, Owns, Idle
<1>2. \A j \in Jobs : Life(queue[j].status) = "none"
  BY DEF Init, Life, AbsentRow
<1> QED
  BY <1>1, <1>2 DEF Lease!Init

LEMMA LeaseStep ==
    LeaseInv /\ [Next]_queueVars => [Lease!Next]_(Lease!vars)
<1> SUFFICES ASSUME LeaseInv, [Next]_queueVars
             PROVE  [Lease!Next]_(Lease!vars)
  OBVIOUS
<1>1. OwnerFacts /\ OwnerFacts'
  BY OwnerFactsHold, OwnerFactsStep
<1>2. CASE UNCHANGED queueVars
  <2>1. \A j \in Jobs, c \in Consumers : Holder(c, j)' <=> Holder(c, j)
    BY <1>2 DEF queueVars, Holder, Owns
  <2> QED
    BY <1>1, <1>2, <2>1, SameHoldersStutter DEF queueVars
<1>3. ASSUME NEW i \in Jobs, Enqueue(i)
      PROVE  Lease!Create(i)
  <2>1. \A c \in Consumers : ~Holder(c, i) /\ ~Holder(c, i)'
    BY <1>3 DEF Enqueue, Holder, Owns, LeaseInv, Working, HoldsRealRow
  <2>2. \A j \in Jobs \ {i} : queue'[j] = queue[j]
    BY <1>3 DEF Enqueue, LeaseInv, TypeOK
  <2>3. \A j \in Jobs \ {i}, c \in Consumers : Holder(c, j)' <=> Holder(c, j)
    BY <1>3, <2>2 DEF Enqueue, Holder, Owns
  <2>4. queue[i].status = "absent" /\ queue'[i].status = "pending"
    BY <1>3 DEF Enqueue, InsertedRow, LeaseInv, TypeOK
  <2>5. OwnerOf(i)' = OwnerOf(i)
    BY <1>1, <2>1 DEF OwnerFacts
  <2> QED
    BY <1>1, <2>2, <2>3, <2>4, <2>5, OneRowMoves DEF Lease!Create, Life, Terminal
<1>4. ASSUME NEW c \in Consumers, NEW i \in Jobs, SelectRow(c, i)
      PROVE  UNCHANGED Lease!vars
  <2>1. \A j \in Jobs, b \in Consumers : Holder(b, j)' <=> Holder(b, j)
    BY <1>4 DEF SelectRow, Holder, Owns, LeaseInv, TypeOK
  <2> QED
    BY <1>1, <1>4, <2>1, SameHoldersStutter DEF SelectRow
<1>5. ASSUME NEW c \in Consumers, Claim(c)
      PROVE  \E i \in Jobs : Lease!Take(c, i)
  <2>1. PICK i \in Jobs : i = hold[c].job /\ queue[i].status \in {"pending", "processing"}
    BY <1>5 DEF Claim, AsRead, LeaseInv, Working, HoldsRealRow
  <2>2. /\ queue'[i].status = "processing"
        /\ \A j \in Jobs \ {i} : queue'[j] = queue[j]
        /\ hold'[c].phase = "owner" /\ hold'[c].job = i /\ hold'[c].row = queue'[i]
        /\ \A b \in Consumers \ {c} : hold'[b] = hold[b]
        /\ hold[c].phase = "selected"
    <3>1. hold[c].row = queue[i] /\ queue[i] \in Row
      BY <1>5, <2>1 DEF Claim, AsRead, LeaseInv, TypeOK, Working, TokenNamesVersion
    <3> QED
      BY <1>5, <2>1, <3>1 DEF Claim, Touched, LeaseInv, TypeOK, Row
  <2>3. Holder(c, i)'
    BY <2>2 DEF Holder, Owns
  <2>4. \A j \in Jobs \ {i}, b \in Consumers : Holder(b, j)' <=> Holder(b, j)
    BY <2>1, <2>2 DEF Holder, Owns
  <2>5. OwnerOf(i)' = c
    BY <1>1, <2>1, <2>3 DEF OwnerFacts
  <2>6. [j \in Jobs |-> Life(queue[j].status)]' = [j \in Jobs |-> Life(queue[j].status)]
    BY <2>1, <2>2 DEF Life, Terminal
  <2>7. Lease!Take(c, i)
    BY <1>1, <2>1, <2>2, <2>4, <2>5, <2>6, OneRowMoves DEF Lease!Take, Life, Terminal
  <2> QED
    BY <2>1, <2>7
<1>6. ASSUME NEW c \in Consumers, Outcome(c)
      PROVE  \E i \in Jobs : Lease!Finish(c, i)
  <2>1. PICK s \in Status, n \in Nat, d \in Nat :
           Settle(c, s, n, d) /\ GoodPatch(c, s, n, d)
    BY <1>6, OutcomeSettles
  <2>2. PICK i \in Jobs : i = hold[c].job /\ Holder(c, i) /\ queue[i].status = "processing"
    BY <2>1, OwnerKnowsRow DEF Settle, Holder, Owns
  <2>3. /\ queue'[i].status = s
        /\ \A j \in Jobs \ {i} : queue'[j] = queue[j]
        /\ hold'[c] = Idle
        /\ \A b \in Consumers \ {c} : hold'[b] = hold[b]
    BY <2>1, <2>2 DEF Settle, Touched, LeaseInv, TypeOK
  <2>4. s \in {"pending", "succeeded", "exhausted"}
    BY <2>1 DEF GoodPatch, Terminal
  <2>5. \A b \in Consumers : ~Holder(b, i)'
    <3>1. \A b \in Consumers \ {c} : ~Holder(b, i)
      BY <2>2 DEF Holder, Owns, LeaseInv, TokensUnique
    <3>2. \A b \in Consumers \ {c} : hold[b].phase = "owner" /\ hold[b].job = i
             => hold[b].row.updatedAt # queue'[i].updatedAt
      BY <2>1, <2>2 DEF Settle, Touched, LeaseInv, TypeOK, Row, Working, HoldsRealRow
    <3> QED
      BY <2>3, <3>2 DEF Holder, Owns, Idle
  <2>6. \A j \in Jobs \ {i}, b \in Consumers : Holder(b, j)' <=> Holder(b, j)
    BY <2>2, <2>3 DEF Holder, Owns, Idle
  <2>7. OwnerOf(i) = c /\ OwnerOf(i)' = NoJob
    BY <1>1, <2>2, <2>5 DEF OwnerFacts
  <2>8. Life(queue[i].status) = "open" /\ Life(queue'[i].status) \in {"open", "closed"}
    BY <2>2, <2>3, <2>4 DEF Life, Terminal
  <2>9. Lease!Finish(c, i)
    BY <1>1, <2>2, <2>3, <2>6, <2>7, <2>8, OneRowMoves DEF Lease!Finish
  <2> QED
    BY <2>2, <2>9
<1>7. ASSUME NEW c \in Consumers, ClaimSkipped(c) \/ LeaseLost(c) \/ Abandon(c)
      PROVE  UNCHANGED Lease!vars \/ \E i \in Jobs : Lease!Vanish(c, i)
  <2>1. /\ queue' = queue
        /\ hold'[c] = Idle
        /\ \A b \in Consumers \ {c} : hold'[b] = hold[b]
    BY <1>7 DEF ClaimSkipped, LeaseLost, Abandon, LeaseInv, TypeOK
  <2>2. \A j \in Jobs, b \in Consumers \ {c} : Holder(b, j)' <=> Holder(b, j)
    BY <2>1 DEF Holder, Owns
  <2>3. \A j \in Jobs : ~Holder(c, j)'
    BY <2>1 DEF Holder, Owns, Idle
  <2>4. CASE ~Owns(c)
    <3>1. \A j \in Jobs, b \in Consumers : Holder(b, j)' <=> Holder(b, j)
      BY <2>2, <2>3, <2>4 DEF Holder
    <3> QED
      BY <1>1, <2>1, <3>1, SameHoldersStutter
  <2>5. CASE Owns(c)
    <3>1. PICK i \in Jobs : Holder(c, i)
      BY <2>5, OwnerKnowsRow DEF Holder
    <3>2. \A b \in Consumers \ {c} : ~Holder(b, i)
      BY <3>1 DEF Holder, Owns, LeaseInv, TokensUnique
    <3>3. OwnerOf(i) = c /\ OwnerOf(i)' = NoJob
      BY <1>1, <2>2, <2>3, <3>1, <3>2 DEF OwnerFacts
    <3>4. \A j \in Jobs \ {i}, b \in Consumers : Holder(b, j)' <=> Holder(b, j)
      BY <2>2, <2>3, <3>1 DEF Holder
    <3>5. Lease!Vanish(c, i)
      BY <1>1, <2>1, <3>1, <3>3, <3>4, OneRowMoves DEF Lease!Vanish
    <3> QED
      BY <3>1, <3>5
  <2> QED
    BY <2>4, <2>5
<1> QED
  BY <1>2, <1>3, <1>4, <1>5, <1>6, <1>7 DEF Next, Lease!Next

\* The compare-and-set protocol keeps the ownership promise of JobLease.
THEOREM QueueImplementsLease == Spec => ImplementsLease
<1>1. Init => Lease!Init
  BY LeaseInit
<1>2. LeaseInv /\ [Next]_queueVars => [Lease!Next]_(Lease!vars)
  BY LeaseStep
<1> QED
  BY <1>1, <1>2, LeaseInvariant, PTL DEF Spec, ImplementsLease, Lease!Spec
=============================================================================
