------------------------------ MODULE MCOrders ------------------------------
(***************************************************************************)
(* Small instances of Orders for TLC.                                      *)
(***************************************************************************)
EXTENDS Orders, TLC

CONSTANTS b1, r1, k1, k2

(* Two customers quoting one receipt, and the first of them retrying.      *)
OneReceipt == {[key |-> k, receipt |-> r1, basket |-> [b \in Book |-> 1]] : k \in Key}

TwoCopies == [b \in Book |-> 2]

Workers == Permutations(Worker)
WorkersAndOrders == Permutations(Worker) \cup Permutations(Order)

=============================================================================
