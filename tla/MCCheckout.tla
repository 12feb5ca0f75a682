----------------------------- MODULE MCCheckout -----------------------------
(***************************************************************************)
(* Small instances of Checkout in two scenes that start from the same      *)
(* shelf, and of OrderTracking in a third.  "carts": two carts that hold   *)
(* the same two books in different orders, and one use of a coupon.        *)
(* "holders": a customer with an invite who comes by link, by phone number *)
(* or both at once, and a stranger.                                        *)
(* "tracking": an order that was placed, on the page that follows it.      *)
(***************************************************************************)
EXTENDS Checkout, TLC

CONSTANTS b1, b2, k1, k2, k3, e1, MaxEvents

VARIABLES scene, standing, events, track, card

Tracking == INSTANCE OrderTracking

trackVars == <<standing, events, track, card>>

Of(book, n) == [book |-> book, copies |-> n]
Body(k, lines, coupon, e, link) == [key |-> k, lines |-> lines, coupon |-> coupon, entry |-> e, link |-> link]

AB == Body(k1, <<Of(b1, 1), Of(b2, 1)>>, TRUE, NoEntry, FALSE)
BA == Body(k2, <<Of(b2, 1), Of(b1, 1)>>, TRUE, NoEntry, FALSE)
Stranger == Body(k1, <<Of(b1, 1)>>, FALSE, NoEntry, FALSE)
ByLink == Body(k2, <<Of(b1, 1)>>, FALSE, e1, TRUE)
ByPhone == Body(k3, <<Of(b1, 2)>>, TRUE, e1, FALSE)

All == {AB, BA, Stranger, ByLink, ByPhone}
TwoOfA == (e1 :> Of(b1, 2))

NoTracking == standing = "-" /\ events = <<>> /\ track = <<>> /\ card = <<>>

Init ==
  /\ CheckoutInit /\ stock = (b1 :> 2 @@ b2 :> 1)
  /\ \/ scene \in {"carts", "holders"} /\ NoTracking
     \/ scene = "tracking" /\ Tracking!TrackingInit

(* Bounds of the scenes: who comes, and that no one is invited in the first. *)
Come(S) == \A w \in Worker : job'[w].req \in S \cup {NoRequest}
Carts == CheckoutNext /\ Come({AB, BA}) /\ UNCHANGED release
Holders == CheckoutNext /\ Come({Stranger, ByLink, ByPhone}) /\ stock'[b2] = 1 /\ release'[b2] = 0

Next == /\ UNCHANGED scene
        /\ \/ scene = "carts" /\ Carts /\ UNCHANGED trackVars
           \/ scene = "holders" /\ Holders /\ UNCHANGED trackVars
           \/ scene = "tracking" /\ Tracking!TrackingNext /\ UNCHANGED checkoutVars

(* A timer asks while the order is under way, and not every answer is lost. *)
TrackingFairness ==
  WF_trackVars(scene = "tracking" /\ Tracking!Poll) /\ SF_trackVars(scene = "tracking" /\ Tracking!Answer)

Spec == Init /\ [][Next]_<<checkoutVars, scene, trackVars>> /\ Fairness /\ TrackingFairness

-----------------------------------------------------------------------------
(* OrderTracking: however the rows of one walk are shuffled by the answer, *)
(* the card dates the confirmation by the latest, and tells the latest note. *)
CardReadsTheHistory == scene = "tracking" => Tracking!TrackingTypeOK /\ Tracking!CardReadsTheHistory

(* Whoever waits is told: a checkout is answered, also when its database   *)
(* transaction deadlocks, and a page left open on an order under way comes *)
(* to show a move of it, whatever answers are lost on the way.             *)
Stale(s) == scene = "tracking" /\ Tracking!Stale(s)
NobodyWaitsForever ==
  /\ EveryCheckoutIsAnswered
  /\ \A s \in {"PENDING", "PAYMENT_CONFIRMED", "PROCESSING", "SHIPPED"} : Stale(s) ~> ~Stale(s)
=============================================================================
