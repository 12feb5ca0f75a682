---------------------------- MODULE MCSalesRollup ----------------------------
(***************************************************************************)
(* Small instances of SalesRollup for TLC.                                 *)
(***************************************************************************)
EXTENDS SalesRollup

CONSTANTS b1, k1

OneCart == {[key |-> k1, receipt |-> NoReceipt, basket |-> [b \in Book |-> 1]]}
OneCopy == [b \in Book |-> 1]
NotStale == Hazards \ {"stale"}
Workers == Permutations(Worker)

=============================================================================
