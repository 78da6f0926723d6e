---------------------------- MODULE MCSettlement ----------------------------
(***************************************************************************)
(* Instances of Settlement.                                                *)
(***************************************************************************)
EXTENDS Settlement, TLC

Symmetry ==
    Permutations(Handlers) \cup Permutations(Payments) \cup Permutations(Notes)
        \cup Permutations(Reconcilers)
=============================================================================
