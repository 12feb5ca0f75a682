----------------------------- MODULE MCPayments -----------------------------
(***************************************************************************)
(* A small instance of Payments for TLC, which is one of Orders too.       *)
(***************************************************************************)
EXTENDS Payments, TLC

CONSTANTS b1, k1

OneCart == {[key |-> k1, receipt |-> NoReceipt, basket |-> [b \in Book |-> 1]]}
OneCopy == [b \in Book |-> 1]
Workers == Permutations(Worker)

(* Payments: rows keep their types, and a refund row stands only beside an *)
(* order that is REFUNDED: however the requests of two members of staff    *)
(* and a webhook interleave or are cut short.                              *)
RowsAreSound == PaymentsTypeOK /\ RefundRowOnlyOnRefunded

=============================================================================
