-------------------------- MODULE MCFiscalRecovery --------------------------
(***************************************************************************)
(* Instance of FiscalRecovery with a single invoice.                       *)
(***************************************************************************)
EXTENDS RecoveryHistory, TLC

MCOpOf == [j \in Jobs |-> "stamp"]
MCDocOf == [j \in Jobs |-> CHOOSE i \in Invoices : TRUE]
Symmetry == Permutations(Actions)
=============================================================================
