----------------------- MODULE MCInvoiceCancellation -----------------------
(***************************************************************************)
(* An instance of InvoiceCancellation.                                     *)
(***************************************************************************)
EXTENDS InvoiceCancellation, TLC

CONSTANT i1

MCOpOf == [j \in Jobs |-> "cancel"]
MCDocOf == [j \in Jobs |-> i1]

Symmetry == Permutations(Handlers) \cup Permutations(Consumers)
=============================================================================
