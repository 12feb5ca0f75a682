---------------------------- MODULE OrderMachine ----------------------------
(***************************************************************************)
(* The order lifecycle table and the questions asked of it                 *)
(* (apps/api/src/orders/order-status.machine.ts, and directionFor of       *)
(* inventory/sales-rollup.listener.ts).  No state: every module about      *)
(* orders extends this one.                                                *)
(***************************************************************************)
EXTENDS Integers, Sequences

OrderStatus == {"PENDING", "PAYMENT_CONFIRMED", "PROCESSING", "SHIPPED",
                "DELIVERED", "CANCELLED", "REFUNDED"}

(* Which status may follow which. *)
ORDER_STATUS_TRANSITIONS ==
  [s \in OrderStatus |->
     CASE s = "PENDING"           -> {"PAYMENT_CONFIRMED", "CANCELLED"}
       [] s = "PAYMENT_CONFIRMED" -> {"PROCESSING", "CANCELLED", "REFUNDED", "PENDING"}
       [] s = "PROCESSING"        -> {"SHIPPED", "CANCELLED"}
       [] s = "SHIPPED"           -> {"DELIVERED", "REFUNDED"}
       [] s = "DELIVERED"         -> {"REFUNDED"}
       [] s \in {"CANCELLED", "REFUNDED"} -> {}]

STOCK_HELD_STATUSES == {"PENDING", "PAYMENT_CONFIRMED", "PROCESSING"}

(* What a packer may put an order into (contracts, admin-order.ts).        *)
FULFILLMENT_TRANSITION_TARGETS == {"PROCESSING", "SHIPPED"}

canTransition(from, to) == to \in ORDER_STATUS_TRANSITIONS[from]

isTerminal(s) == ORDER_STATUS_TRANSITIONS[s] = {}

(* A mutant: the stock list alone decides, so undoing a confirmation also  *)
(* "returns" copies.                                                       *)
releasesStock_OnAnyExit(from, to) == from \in STOCK_HELD_STATUSES

releasesStock(from, to) == from \in STOCK_HELD_STATUSES /\ isTerminal(to)

-----------------------------------------------------------------------------
(* forwardPathTo.  The code finds a shortest route breadth first; module   *)
(* ForwardPath models that loop and shows that what it returns is the      *)
(* route chosen here.  A route leaves out the status it starts from.       *)

(* No shortest route of this table is longer (ForwardPath checks it). *)
LongestRoute == 4

IsRoute(from, route, to) ==
  LET walk == <<from>> \o route
  IN  /\ walk[Len(walk)] = to
      /\ \A i \in 1..Len(route) : canTransition(walk[i], walk[i + 1])

Routes(from, to) ==
  {route \in UNION {[1..n -> OrderStatus] : n \in 0..LongestRoute} : IsRoute(from, route, to)}

ShortestRoutes(from, to) ==
  LET all == Routes(from, to)
  IN  {route \in all : \A other \in all : Len(route) <= Len(other)}

HasRoute(from, to) == ShortestRoutes(from, to) # {}

(* One entry for each pair of statuses the table connects. *)
RouteTable ==
  {[pair |-> p, route |-> CHOOSE route \in ShortestRoutes(p[1], p[2]) : TRUE] :
     p \in {q \in OrderStatus \X OrderStatus : HasRoute(q[1], q[2])}}

IsReachable(from, to) == \E entry \in RouteTable : entry.pair = <<from, to>>

forwardPathTo(from, to) == (CHOOSE entry \in RouteTable : entry.pair = <<from, to>>).route

-----------------------------------------------------------------------------
(* order-reopen.ts: whether reopenBlocker answers null.  `byStaff` is that  *)
(* an audit entry at least as late as the cancellation says staff made it. *)
(* The week after which a rejection can no longer be undone is left out:   *)
(* any reopening may be too late, and then nothing happens.                *)
MayReopen(status, history, byStaff) ==
  LET n == Len(history) IN
  /\ status = "CANCELLED"
  /\ n >= 2 /\ history[n] = "CANCELLED" /\ history[n - 1] = "PENDING"
  /\ byStaff

-----------------------------------------------------------------------------
(* sales-rollup.listener.ts: +1 counts a sale, -1 reverses one. *)
LISTENER_COUNTED_STATUSES == {"PAYMENT_CONFIRMED", "PROCESSING", "SHIPPED", "DELIVERED"}

(* A mutant: a withdrawn confirmation is not un-counted. *)
directionFor_NoWithdrawal(from, to) ==
  CASE to = "PAYMENT_CONFIRMED" -> 1
    [] to = "CANCELLED" /\ from \in LISTENER_COUNTED_STATUSES -> -1
    [] OTHER -> 0

directionFor(from, to) ==
  CASE to = "PAYMENT_CONFIRMED" -> 1
    [] to = "CANCELLED" /\ from \in LISTENER_COUNTED_STATUSES -> -1
    [] to = "PENDING" /\ from = "PAYMENT_CONFIRMED" -> -1
    [] OTHER -> 0

=============================================================================
