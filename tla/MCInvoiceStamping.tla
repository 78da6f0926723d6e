------------------------- MODULE MCInvoiceStamping -------------------------
(***************************************************************************)
(* Instances of InvoiceStamping with a single invoice.                     *)
(***************************************************************************)
EXTENDS InvoiceStamping, TLC

MCOpOf == [j \in Jobs |-> "stamp"]
MCDocOf == [j \in Jobs |-> CHOOSE i \in Invoices : TRUE]

Symmetry ==
    Permutations(Handlers) \cup Permutations(Consumers) \cup Permutations(Reconcilers)
        \cup Permutations(Jobs)
=============================================================================
