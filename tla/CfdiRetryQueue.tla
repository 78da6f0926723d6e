--------------------------- MODULE CfdiRetryQueue ---------------------------
(***************************************************************************)
(* The table cfdi_retry_queue and the lease protocol its consumer follows  *)
(* (supabase/functions/process-cfdi-retry-queue).  A run reads due rows,   *)
(* claims each with an UPDATE conditioned on the status and the updated_at *)
(* it read, works on the document, and ends the row with an UPDATE         *)
(* conditioned on the token its claim returned.  Runs overlap, die between *)
(* any two steps and are overtaken.  What the work on the document decides *)
(* is left open here; InvoiceStamping composes these actions with it.      *)
(*                                                                         *)
(* Time is not modelled: a pending row may be due, and a processing row    *)
(* may be older than fifteen minutes, at any moment.                       *)
(***************************************************************************)
EXTENDS Integers, FiniteSets

CONSTANTS Jobs,          \* rows of the queue that may ever be inserted
          Consumers,     \* runs of the consumer
          NoJob,         \* a run that holds no row
          OpOf,          \* the operation column of each row
          MaxAttempts,   \* max_attempts, 5 by default in the table
          MaxDeferrals,  \* MAX_DEFERRALS
          MaxVersion     \* bound: how far the updated_at of a row advances

CancelOps == {"cancel", "cancel_nc", "cancel_rep"}
Operations == {"stamp"} \cup CancelOps

ASSUME QueueAssumption ==
    /\ NoJob \notin Jobs \cup Consumers
    /\ OpOf \in [Jobs -> Operations]
    /\ MaxAttempts \in Nat \ {0}
    /\ MaxDeferrals \in Nat
    /\ MaxVersion \in Nat

VARIABLES queue,  \* queue[j]: the columns of row j that the protocol uses
          hold    \* hold[c]: what run c knows of the row it is working on

queueVars == <<queue, hold>>

Status == {"absent", "pending", "processing", "succeeded", "exhausted"}
Terminal == {"succeeded", "exhausted"}

\* updatedAt is the trigger's strictly increasing timestamp: the lease token.
Row == [status: Status, attempts: Nat, deferrals: Nat, updatedAt: Nat]

AbsentRow == [status |-> "absent", attempts |-> 0, deferrals |-> 0, updatedAt |-> 0]
InsertedRow == [status |-> "pending", attempts |-> 0, deferrals |-> 0, updatedAt |-> 1]

Phase == {"idle", "selected", "owner"}
Idle == [phase |-> "idle", job |-> NoJob, row |-> AbsentRow]

TypeOK ==
    /\ queue \in [Jobs -> Row]
    /\ hold \in [Consumers -> [phase: Phase, job: Jobs \cup {NoJob}, row: Row]]

Init ==
    /\ queue = [j \in Jobs |-> AbsentRow]
    /\ hold = [c \in Consumers |-> Idle]

-----------------------------------------------------------------------------
\* enqueueCfdiRetry: a fiscal handler inserts a row after a transient error.
Enqueue(j) ==
    /\ queue[j].status = "absent"
    /\ queue' = [queue EXCEPT ![j] = InsertedRow]
    /\ UNCHANGED hold

\* The two SELECTs of a run: due pending rows and stale processing rows.
SelectRow(c, j) ==
    /\ hold[c].phase = "idle"
    /\ queue[j].status \in {"pending", "processing"}
    /\ hold' = [hold EXCEPT ![c] = [phase |-> "selected", job |-> j, row |-> queue[j]]]
    /\ UNCHANGED queue

\* Mutant of AsRead: the claim compares the status alone.
AsReadByStatus(c) == queue[hold[c].job].status = hold[c].row.status

\* The predicate of the claim's UPDATE: the row is still the one that was read.
AsRead(c) ==
    /\ queue[hold[c].job].status = hold[c].row.status
    /\ queue[hold[c].job].updatedAt = hold[c].row.updatedAt

\* The trigger moves updated_at on every update of a row.
Touched(row, status, attempts, deferrals) ==
    [status |-> status, attempts |-> attempts, deferrals |-> deferrals,
     updatedAt |-> row.updatedAt + 1]

\* claimQueueLease: the token is the updated_at the UPDATE returns.  The run
\* keeps the counters of the row as it read it before the claim.
Claim(c) ==
    LET j == hold[c].job
        claimed == Touched(queue[j], "processing", queue[j].attempts, queue[j].deferrals)
        known == [status |-> claimed.status, attempts |-> hold[c].row.attempts,
                  deferrals |-> hold[c].row.deferrals, updatedAt |-> claimed.updatedAt]
    IN /\ hold[c].phase = "selected"
       /\ AsRead(c)
       /\ queue[j].updatedAt < MaxVersion
       /\ queue' = [queue EXCEPT ![j] = claimed]
       /\ hold' = [hold EXCEPT ![c] = [phase |-> "owner", job |-> j, row |-> known]]

\* The row changed since it was read: the run skips it (claim_skipped).
ClaimSkipped(c) ==
    /\ hold[c].phase = "selected"
    /\ ~AsRead(c)
    /\ hold' = [hold EXCEPT ![c] = Idle]
    /\ UNCHANGED queue

\* Mutants of Owns: the write of the outcome is not tied to the claim's token,
\* or is not conditioned at all.
OwnsByStatus(c) == hold[c].phase = "owner" /\ queue[hold[c].job].status = "processing"
OwnsBlindly(c) == hold[c].phase = "owner"

\* assertOwnedQueue, and the predicate of markOwnedQueueRow's UPDATE.
Owns(c) ==
    /\ hold[c].phase = "owner"
    /\ queue[hold[c].job].status = "processing"
    /\ queue[hold[c].job].updatedAt = hold[c].row.updatedAt

\* markOwnedQueueRow: the owner ends its work on the row with a patch.
Settle(c, status, attempts, deferrals) ==
    LET j == hold[c].job
    IN /\ Owns(c)
       /\ queue' = [queue EXCEPT ![j] = Touched(@, status, attempts, deferrals)]
       /\ hold' = [hold EXCEPT ![c] = Idle]

\* QueueMutationError("lease_lost"): another run took the row; nothing is written.
LeaseLost(c) ==
    /\ hold[c].phase = "owner"
    /\ ~Owns(c)
    /\ hold' = [hold EXCEPT ![c] = Idle]
    /\ UNCHANGED queue

\* The isolate dies, its budget ends, or the write of the queue fails.
Abandon(c) ==
    /\ hold[c].phase # "idle"
    /\ hold' = [hold EXCEPT ![c] = Idle]
    /\ UNCHANGED queue

-----------------------------------------------------------------------------
(* The patches the consumer writes, by what happened to the document.  The *)
(* counters come from the row as it was read before the claim.             *)

Held(c) == hold[c].row
IsCancel(c) == hold[c].job \in {j \in Jobs : OpOf[j] \in CancelOps}

\* Mutants of TerminalStatus: one attempt too many; a status the table forbids.
TerminalStatusLate(attempts) == IF attempts > MaxAttempts THEN "exhausted" ELSE "pending"
TerminalStatusUnknown(attempts) == IF attempts >= MaxAttempts THEN "failed" ELSE "pending"

\* decideTerminalStatus
TerminalStatus(attempts) == IF attempts >= MaxAttempts THEN "exhausted" ELSE "pending"

\* A no-op state, or a CFDI recovered from the PAC: the attempt is counted.
SucceedRecovered(c) == Settle(c, "succeeded", Held(c).attempts + 1, Held(c).deferrals)

\* The fiscal function answered 2xx (or 409 for stamp).
SucceedInvoked(c) == Settle(c, "succeeded", Held(c).attempts + 1, 0)

\* The refresh after a 409 found the document cancelled.
SucceedRefreshed(c) == IsCancel(c) /\ Settle(c, "succeeded", Held(c).attempts, 0)

\* No attempt was made: unreadable document, PAC unreachable, no key,
\* provider configuration unavailable, or a recovery that could not be saved.
Defer(c) == Settle(c, "pending", Held(c).attempts, Held(c).deferrals)

\* The row can never be worked on: unknown document, PAC-confirmed failure.
GiveUp(c) == Settle(c, "exhausted", Held(c).attempts + 1, Held(c).deferrals)

\* The same without counting: the fiscal configuration changed since the row
\* was enqueued, or a cancellation whose document is gone.
GiveUpUncounted(c) == Settle(c, "exhausted", Held(c).attempts, Held(c).deferrals)

\* A 409 that means "a cancellation is already in progress".
DeferConflict(c) ==
    LET d == Held(c).deferrals + 1
    IN /\ IsCancel(c)
       /\ Settle(c, IF d > MaxDeferrals THEN "exhausted" ELSE "pending",
                 Held(c).attempts, d)

\* Any other 409 of a cancellation is final.
RefuseConflict(c) ==
    /\ IsCancel(c)
    /\ Settle(c, "exhausted", Held(c).attempts + 1, 0)

\* The function answered with another error: one real attempt is spent.
RetryAnswered(c) ==
    LET n == Held(c).attempts + 1 IN Settle(c, TerminalStatus(n), n, 0)

\* The invocation threw, in particular at its fifteen-second timeout.
RetryThrown(c) ==
    LET n == Held(c).attempts + 1 IN Settle(c, TerminalStatus(n), n, Held(c).deferrals)

Outcome(c) ==
    \/ SucceedRecovered(c)
    \/ SucceedInvoked(c)
    \/ SucceedRefreshed(c)
    \/ Defer(c)
    \/ GiveUp(c)
    \/ GiveUpUncounted(c)
    \/ DeferConflict(c)
    \/ RefuseConflict(c)
    \/ RetryAnswered(c)
    \/ RetryThrown(c)

Next ==
    \/ \E j \in Jobs : Enqueue(j)
    \/ \E c \in Consumers, j \in Jobs : SelectRow(c, j)
    \/ \E c \in Consumers :
        \/ Claim(c)
        \/ ClaimSkipped(c)
        \/ Outcome(c)
        \/ LeaseLost(c)
        \/ Abandon(c)

Spec == Init /\ [][Next]_queueVars
-----------------------------------------------------------------------------
(* Properties                                                              *)

\* A row never has two owners: of the runs that believe they hold a row, at
\* most one can still write it (claimQueueLease and the token of RETURNING).
SingleOwner ==
    \A c, d \in Consumers :
        Owns(c) /\ Owns(d) /\ hold[c].job = hold[d].job => c = d

\* A row that was closed is never written again, although a run that lost it
\* may still be working on its document (markOwnedQueueRow's predicate).
ClosedRowsStay ==
    [][\A j \in Jobs : queue[j].status \in Terminal => queue'[j] = queue[j]]_queueVars

\* No update is lost: the consumer writes counters it read before the claim,
\* and yet no write ever takes back an attempt another run has counted.
AttemptsNeverLost ==
    [][\A j \in Jobs : queue'[j].attempts >= queue[j].attempts]_queueVars

\* The budget of real attempts holds for every interleaving: an open row has
\* attempts left, and a row is never charged beyond max_attempts.
AttemptBudget ==
    \A j \in Jobs :
        /\ queue[j].attempts <= MaxAttempts
        /\ queue[j].status \in {"pending", "processing"} => queue[j].attempts < MaxAttempts

\* A row is taken from a run only by another run's claim, never by a write of
\* somebody who does not own it: the ownership promise of JobLease.
OwnerOf(j) ==
    IF \E c \in Consumers : Owns(c) /\ hold[c].job = j
    THEN CHOOSE c \in Consumers : Owns(c) /\ hold[c].job = j
    ELSE NoJob

Life(status) ==
    IF status = "absent" THEN "none" ELSE IF status \in Terminal THEN "closed" ELSE "open"

Lease == INSTANCE JobLease WITH
    Nobody <- NoJob,
    life <- [j \in Jobs |-> Life(queue[j].status)],
    owner <- [j \in Jobs |-> OwnerOf(j)]

\* The queue implements the ownership contract of JobLease.
ImplementsLease == Lease!Spec
=============================================================================
