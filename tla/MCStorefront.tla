---------------------------- MODULE MCStorefront ----------------------------
(***************************************************************************)
(* A small instance of Storefront for TLC: two books, two zones, and one   *)
(* edit before the customer pays, of the second book or the second zone.  *)
(***************************************************************************)
EXTENDS Storefront, TLC

CONSTANTS a, b, inside, outside

Edited ==
  shop' # shop =>
    /\ paid = NoReceipt /\ shop'.rate[inside] = shop.rate[inside] /\ shop'.rate[outside] # Flat
    /\ IF link THEN shop'.price = shop.price /\ shop'.open = shop.open
       ELSE shop'.price[a] = shop.price[a] /\ shop'.open[a] /\ shop'.rate[outside] # Closed

Spec ==
  /\ StorefrontInit /\ [][StorefrontNext /\ Edited]_storefrontVars
  /\ WF_storefrontVars(ServeOrder \/ OrderArrives \/ Catch)

(* Types; and every receipt buys at most one order, and only as long as it *)
(* buys none (Storefront).                                                 *)
ReceiptsAreSound == StorefrontTypeOK /\ AReceiptBuysOnce
=============================================================================
