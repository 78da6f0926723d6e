------------------------ MODULE MCRecurringInvoices ------------------------
(***************************************************************************)
(* Instance of RecurringInvoices: two bookings over two months of two days *)
(* that share a canonical period, one of which users change.               *)
(***************************************************************************)
EXTENDS RecurringInvoices

MCContract == [b \in Bookings |-> IF b = 2 THEN [first |-> 1, last |-> 3]
                                           ELSE [first |-> 1, last |-> 4]]
MCExtension == [b \in Bookings |-> 4]
MCManualPeriods == {[lo |-> 1, hi |-> 2], [lo |-> 3, hi |-> 3], [lo |-> 3, hi |-> 4]}
=============================================================================
