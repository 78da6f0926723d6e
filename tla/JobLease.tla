------------------------------ MODULE JobLease ------------------------------
(***************************************************************************)
(* What docs/cfdi-queue-ownership.md promises about a fiscal retry job,    *)
(* without the columns that implement it: a job that is open has at most   *)
(* one owner, a new owner may take over from one that died, and only the   *)
(* present owner can give the job back or close it.  A closed job stays    *)
(* closed.  CfdiRetryQueue implements this with compare-and-set updates on *)
(* cfdi_retry_queue.status and cfdi_retry_queue.updated_at.                *)
(***************************************************************************)
CONSTANTS Jobs,       \* rows of the retry queue
          Consumers,  \* runs of process-cfdi-retry-queue
          Nobody      \* "this job has no owner", not in Consumers

VARIABLES life,   \* life[j]: has the job been created, is it open, is it closed
          owner   \* owner[j]: the run that may finish the job

vars == <<life, owner>>

TypeOK ==
    /\ life \in [Jobs -> {"none", "open", "closed"}]
    /\ owner \in [Jobs -> Consumers \cup {Nobody}]

Init ==
    /\ life = [j \in Jobs |-> "none"]
    /\ owner = [j \in Jobs |-> Nobody]

Create(j) ==
    /\ life[j] = "none"
    /\ life' = [life EXCEPT ![j] = "open"]
    /\ UNCHANGED owner

\* An open job is taken, also from an owner that has not finished it.
Take(c, j) ==
    /\ life[j] = "open"
    /\ owner' = [owner EXCEPT ![j] = c]
    /\ UNCHANGED life

\* The owner gives the job back for a later run, or closes it for good.
Finish(c, j) ==
    /\ owner[j] = c
    /\ life[j] = "open"
    /\ \E l \in {"open", "closed"} : life' = [life EXCEPT ![j] = l]
    /\ owner' = [owner EXCEPT ![j] = Nobody]

\* The owner dies.
Vanish(c, j) ==
    /\ owner[j] = c
    /\ owner' = [owner EXCEPT ![j] = Nobody]
    /\ UNCHANGED life

Next ==
    \E j \in Jobs :
        \/ Create(j)
        \/ \E c \in Consumers : Take(c, j) \/ Finish(c, j) \/ Vanish(c, j)

Spec == Init /\ [][Next]_vars
=============================================================================
