-------------------------------- MODULE Till --------------------------------
(***************************************************************************)
(* What a checkout promises, as if it were one step: a key buys at most    *)
(* once, the copies are on the shelf when they are sold, and a discount is *)
(* spent with the order it was given to or not at all.  Module Checkout,   *)
(* with its transactions and row locks, is shown to implement it.          *)
(***************************************************************************)
EXTENDS Integers

CONSTANTS Key, Book,
          Ask,         \* what can be asked: [key, copies of each book, coupon]
          MaxUses,     \* coupons.max_uses
          NoAsk

VARIABLES shelf,   \* copies of each book
          sold,    \* what each key has bought
          uses     \* coupons.times_used

tillVars == <<shelf, sold, uses>>

TillInit ==
  /\ shelf \in [Book -> Nat]
  /\ sold = [k \in Key |-> NoAsk]
  /\ uses = 0

Sell(a) ==
  /\ sold[a.key] = NoAsk
  /\ \A b \in Book : a.copies[b] <= shelf[b]
  /\ a.coupon => uses < MaxUses
  /\ sold' = [sold EXCEPT ![a.key] = a]
  /\ shelf' = [b \in Book |-> shelf[b] - a.copies[b]]
  /\ uses' = IF a.coupon THEN uses + 1 ELSE uses

Restock ==
  /\ shelf' \in [Book -> Nat] /\ \A b \in Book : shelf'[b] >= shelf[b]
  /\ UNCHANGED <<sold, uses>>

TillNext == (\E a \in Ask : Sell(a)) \/ Restock

TillSpec == TillInit /\ [][TillNext]_tillVars
=============================================================================
