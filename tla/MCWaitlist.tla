----------------------------- MODULE MCWaitlist -----------------------------
(***************************************************************************)
(* Small instances of Waitlist for TLC.                                    *)
(***************************************************************************)
EXTENDS Waitlist, TLC

CONSTANTS e1, e2

OneEach == [e \in Entry |-> 1]
TwoAndOne == [e \in Entry |-> IF e = e1 THEN 2 ELSE 1]

AllExcuses == Hazards
NoExcuses == {}
NotOverallocated == Hazards \ {"overallocated"}
NotTogether == Hazards \ {"together"}
NotOverbought == Hazards \ {"overbought"}
NotRebuying == Hazards \ {"rebuying"}
NotRefused == Hazards \ {"refused"}
NotResold == Hazards \ {"resold"}
NotResized == Hazards \ {"resized"}

\* Every constant set is symmetric where each entry asks for one copy.
All == Permutations(Entry) \cup Permutations(Release) \cup Permutations(Order) \cup Permutations(Worker)
ButEntries == Permutations(Release) \cup Permutations(Order) \cup Permutations(Worker)

\* The promises are made only while nothing has excused the shop.
Unexcused == ~excused

(* Waitlist: entries and releases keep their types, and an entry is held   *)
(* back by an order only while that order awaits payment.                  *)
LinksAreSound == WaitlistTypeOK /\ LinksAwaitPayment

=============================================================================
