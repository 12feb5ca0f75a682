----------------------------- MODULE ShelfLedger -----------------------------
(***************************************************************************)
(* What the order side of the shop promises about copies, with no          *)
(* requests, no statuses and no races: an order takes its copies off the   *)
(* shelf once when it is placed, may give exactly those copies back and    *)
(* take exactly those copies again, and once its parcel has gone nothing   *)
(* ever comes back.  Module Orders is shown to implement it.               *)
(***************************************************************************)
EXTENDS Integers

CONSTANTS Order, Book,
          Basket,      \* what an order can be for: copies of each book
          Printed      \* copies of each book at the start

VARIABLES shelf,   \* copies of each book nobody has bought
          place,   \* where each order's copies are
          lines    \* how many copies of each book it is for

ledgerVars == <<shelf, place, lines>>

Nothing == [b \in Book |-> 0]

LedgerInit ==
  /\ shelf = Printed
  /\ place = [o \in Order |-> "none"]
  /\ lines = [o \in Order |-> Nothing]

Fits(basket) == \A b \in Book : basket[b] <= shelf[b]

Taken(basket) == [b \in Book |-> shelf[b] - basket[b]]

Put(basket) == [b \in Book |-> shelf[b] + basket[b]]

Sell(o) ==
  /\ place[o] = "none"
  /\ \E basket \in Basket :
       /\ Fits(basket)
       /\ shelf' = Taken(basket)
       /\ lines' = [lines EXCEPT ![o] = basket]
  /\ place' = [place EXCEPT ![o] = "held"]

Return(o) ==
  /\ place[o] = "held"
  /\ place' = [place EXCEPT ![o] = "returned"]
  /\ shelf' = Put(lines[o])
  /\ UNCHANGED lines

SellAgain(o) ==
  /\ place[o] = "returned"
  /\ Fits(lines[o])
  /\ place' = [place EXCEPT ![o] = "held"]
  /\ shelf' = Taken(lines[o])
  /\ UNCHANGED lines

HandOver(o) ==
  /\ place[o] = "held"
  /\ place' = [place EXCEPT ![o] = "gone"]
  /\ UNCHANGED <<shelf, lines>>

LedgerNext == \E o \in Order : Sell(o) \/ Return(o) \/ SellAgain(o) \/ HandOver(o)

LedgerSpec == LedgerInit /\ [][LedgerNext]_ledgerVars

=============================================================================
