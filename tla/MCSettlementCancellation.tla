----------------------- MODULE MCSettlementCancellation -----------------------
(***************************************************************************)
(* Instances of SettlementCancellation: one payment and one credit note,   *)
(* each with a row of the queue; and what comments of the code say that it *)
(* does not keep, checked by a run of its own.                             *)
(***************************************************************************)
EXTENDS SettlementCancellation, TLC

CONSTANTS p1, n1, j1, j2

MCDocOf == j1 :> p1 @@ j2 :> n1
MCOpOf == j1 :> "cancel_rep" @@ j2 :> "cancel_nc"

Symmetry == Permutations(Handlers) \cup Permutations(Consumers)

\* A cancellation whose claim is left in place is resolved by a refresh, for
\* complements too (cancel-payment-complement/handler.ts, R4-05;
\* refresh-cancellation-status/handler.ts, N-27), if users keep asking for it.
RefreshResolves ==
    \A x \in Rows :
        row[x].cancel = "pending" /\ sat[x] = "accepted" ~> row[x].cancel # "pending"
=============================================================================
