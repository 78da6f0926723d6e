---------------------------- MODULE OperatedLease ----------------------------
(***************************************************************************)
(* The promise of JobLease when operators of the platform act on jobs, too *)
(* (migration 0099): an operator may take a job that nobody owns, and this *)
(* is the only way a closed job is opened again; from then on it is a job  *)
(* with an owner, whom a run may replace, but no other operator.  Whoever  *)
(* owns a job is still the only one who gives it back or closes it.        *)
(***************************************************************************)
EXTENDS JobLease

CONSTANT Operators  \* requests of operators, none of them in Consumers

Reserve(a, j) ==
    /\ life[j] # "none" /\ owner[j] = Nobody
    /\ life' = [life EXCEPT ![j] = "open"]
    /\ owner' = [owner EXCEPT ![j] = a]

OperatedNext ==
    \/ Next
    \/ \E j \in Jobs, a \in Operators : Reserve(a, j) \/ Finish(a, j)

OperatedSpec == Init /\ [][OperatedNext]_vars
=============================================================================
