------------------------------- MODULE Dispatch -------------------------------
(***************************************************************************)
(* The panel's two lists of orders (apps/web admin/orders and              *)
(* admin/accepted-orders) and the tick that hands a parcel to the courier. *)
(* A list is reloaded by every change of tab or filter and no reload waits *)
(* for the one before or calls it off; ticks run beside them, one to an    *)
(* order.  A tick is judged on one reading of the order and carried out on *)
(* another, as AdminOrdersService.transition and advanceAndCommit do.      *)
(***************************************************************************)
EXTENDS OrderMachine, FiniteSets

CONSTANTS
  Parcel,      \* the orders on the lists
  Filters,     \* what divisions, dates and searches leave of them
  Load,        \* the reloads that can be out at once
  MaxMoves     \* bound: moves made elsewhere

ASSUME DispatchAssumption ==
  /\ IsFiniteSet(Parcel) /\ Parcel \in Filters /\ Filters \subseteq SUBSET Parcel
  /\ MaxMoves \in Nat

VARIABLES
  status, \* the orders
  list,   \* the page's state
  loads,  \* its reloads
  ticks,  \* what has become of the tick of each order
  moves

dispatchVars == <<status, list, loads, ticks, moves>>

(* The tabs of the two pages, and the statuses each asks for.              *)
Tabs(page) ==
  IF page = "dispatch" THEN {"processing", "shipped"} ELSE {"accepted", "pending", "rejected"}

TabStatuses(tab) ==
  CASE tab = "processing" -> {"PAYMENT_CONFIRMED", "PROCESSING"}
    [] tab = "shipped"    -> {"SHIPPED", "DELIVERED"}
    [] tab = "accepted"   -> {"PAYMENT_CONFIRMED", "PROCESSING", "SHIPPED", "DELIVERED"}
    [] tab = "pending"    -> {"PENDING"}
    [] tab = "rejected"   -> {"CANCELLED", "REFUNDED"}

(* A custom range of which one day is chosen is no filter yet.             *)
HalfTyped == {"half"}
FirstTab(page) == IF page = "dispatch" THEN "processing" ELSE "accepted"

NoLoad == [stage |-> "none", tab |-> "none", filter |-> {}, rows |-> {}]
Sent(tab, filter) ==
  [stage |-> "sent", tab |-> tab, filter |-> IF filter = HalfTyped THEN Parcel ELSE filter, rows |-> {}]

DispatchInit ==
  /\ status \in [Parcel -> {"PENDING", "PAYMENT_CONFIRMED"}]
  /\ \E page \in {"orders", "dispatch"}, packer \in BOOLEAN :
       /\ packer => page = "dispatch"
       /\ list = [page |-> page, packer |-> packer, tab |-> FirstTab(page), filter |-> Parcel,
                  items |-> {}, total |-> 0, shipped |-> {}]
       /\ loads = [l \in Load |-> IF l = CHOOSE first \in Load : TRUE
                                  THEN Sent(FirstTab(page), Parcel) ELSE NoLoad]
  /\ ticks = [o \in Parcel |-> "none"]
  /\ moves = 0

-----------------------------------------------------------------------------
(* fulfillmentOrderScope *)
InScope(o) == list.packer => status[o] \in {"PAYMENT_CONFIRMED", "PROCESSING", "SHIPPED"}

Shippable == list.tab = "processing"

(* load: the rows and the report of what was shipped are cleared at once.  *)
StartLoad(tab, filter) ==
  /\ \E l \in Load : loads[l] = NoLoad /\ loads' = [loads EXCEPT ![l] = Sent(tab, filter)]
  /\ list' = [list EXCEPT !.tab = tab, !.filter = filter, !.items = {}, !.shipped = {}]

(* A tab or a filter is chosen; the rows stay while a range is half typed. *)
Choose(tab, filter) ==
  /\ <<tab, filter>> # <<list.tab, list.filter>>
  /\ IF filter = HalfTyped
     THEN list' = [list EXCEPT !.tab = tab, !.filter = filter] /\ UNCHANGED loads
     ELSE StartLoad(tab, filter)
  /\ UNCHANGED <<status, ticks, moves>>

(* Search, or another page of the list.                                    *)
Search == StartLoad(list.tab, list.filter) /\ UNCHANGED <<status, ticks, moves>>

(* AdminOrdersService.list *)
ServeLoad(l) ==
  /\ loads[l].stage = "sent"
  /\ loads' = [loads EXCEPT ![l].stage = "served",
                            ![l].rows = {o \in loads[l].filter :
                                           status[o] \in TabStatuses(loads[l].tab) /\ InScope(o)}]
  /\ UNCHANGED <<status, list, ticks, moves>>

LoadArrives(l) ==
  /\ loads[l].stage # "none"
  /\ \/ /\ loads[l].stage = "served"
        /\ list' = [list EXCEPT !.items = loads[l].rows, !.total = Cardinality(loads[l].rows)]
     \/ UNCHANGED list
  /\ loads' = [loads EXCEPT ![l] = NoLoad]
  /\ UNCHANGED <<status, ticks, moves>>

-----------------------------------------------------------------------------
(* ship: the tick is taken, whatever the row has become since.             *)
Tick(o) ==
  /\ Shippable /\ o \in list.items /\ ticks[o] = "none"
  /\ ticks' = [ticks EXCEPT ![o] = "sent"]
  /\ UNCHANGED <<status, list, loads, moves>>

RouteOf(o) == forwardPathTo(status[o], "SHIPPED")
HasForwardPath(o) == IsReachable(status[o], "SHIPPED")

(* fulfillmentTransitionBlocker *)
Blocked(o) ==
  /\ list.packer
  /\ \/ status[o] \notin {"PAYMENT_CONFIRMED", "PROCESSING"}
     \/ \E i \in DOMAIN RouteOf(o) : RouteOf(o)[i] \notin FULFILLMENT_TRANSITION_TARGETS

(* transition reads the order and judges the whole route ...               *)
Judge(o) ==
  /\ ticks[o] = "sent"
  /\ ticks' = [ticks EXCEPT ![o] = IF InScope(o) /\ HasForwardPath(o) /\ ~Blocked(o)
                                   THEN "judged" ELSE "failed"]
  /\ UNCHANGED <<status, list, loads, moves>>

(* ... and advanceAndCommit walks it from where the order is by then.      *)
Advance(o) ==
  /\ ticks[o] = "judged"
  /\ IF HasForwardPath(o)
     THEN /\ status' = [status EXCEPT ![o] = "SHIPPED"]
          /\ ticks' = [ticks EXCEPT ![o] = "committed"]
     ELSE ticks' = [ticks EXCEPT ![o] = "failed"] /\ UNCHANGED status
  /\ UNCHANGED <<list, loads, moves>>

(* A mutant: the reply does not wait for the walk.                         *)
ReadyToReply_Early(o) == ticks[o] \in {"judged", "committed"}

ReadyToReply(o) == ticks[o] = "committed"

(* The order is read back for the reply; a packer may have lost it.        *)
ReplyToTick(o) ==
  /\ ReadyToReply(o)
  /\ ticks' = [ticks EXCEPT ![o] = IF InScope(o) THEN "done" ELSE "failed"]
  /\ UNCHANGED <<status, list, loads, moves>>

LoseTick(o) ==
  /\ ticks[o] \in {"sent", "judged", "committed"}
  /\ ticks' = [ticks EXCEPT ![o] = "failed"]
  /\ UNCHANGED <<status, list, loads, moves>>

(* A mutant: a tick that failed stays taken.                               *)
Released_OnSuccess(o) == ticks[o] = "done"

Released(o) == ticks[o] \in {"done", "failed"}

TickArrives(o) ==
  /\ Released(o)
  /\ list' = IF ticks[o] = "done"
             THEN [list EXCEPT !.items = list.items \ {o}, !.shipped = list.shipped \cup {o},
                               !.total = IF list.total = 0 THEN 0 ELSE list.total - 1]
             ELSE list
  /\ ticks' = [ticks EXCEPT ![o] = "none"]
  /\ UNCHANGED <<status, loads, moves>>

(* Customers, colleagues and payments move the orders meanwhile.           *)
MovesElsewhere(o) ==
  /\ moves < MaxMoves /\ moves' = moves + 1
  /\ \E to \in OrderStatus : canTransition(status[o], to) /\ status' = [status EXCEPT ![o] = to]
  /\ UNCHANGED <<list, loads, ticks>>

DispatchNext ==
  \/ \E tab \in Tabs(list.page), filter \in Filters \cup {HalfTyped} :
       (filter = HalfTyped => list.page = "dispatch") /\ Choose(tab, filter)
  \/ Search
  \/ \E l \in Load : ServeLoad(l) \/ LoadArrives(l)
  \/ \E o \in Parcel :
       \/ Tick(o) \/ Judge(o) \/ Advance(o) \/ ReplyToTick(o) \/ LoseTick(o) \/ TickArrives(o)
       \/ MovesElsewhere(o)

(* fetch settles in the end, and its callbacks run.                        *)
DispatchFairness ==
  \A o \in Parcel : WF_dispatchVars(Judge(o) \/ Advance(o) \/ ReplyToTick(o) \/ LoseTick(o) \/ TickArrives(o))

DispatchSpec == DispatchInit /\ [][DispatchNext]_dispatchVars /\ DispatchFairness

-----------------------------------------------------------------------------
DispatchTypeOK ==
  /\ status \in [Parcel -> OrderStatus]
  /\ list.tab \in Tabs(list.page) /\ list.filter \in Filters \cup {HalfTyped}
  /\ list.items \subseteq Parcel /\ list.shipped \subseteq Parcel
  /\ list.total \in 0..Cardinality(Parcel)
  /\ \A l \in Load : loads[l].stage = "none" <=> loads[l] = NoLoad
  /\ list.page = "orders" => \A o \in Parcel : ticks[o] = "none"

(* What the page reports as handed over was handed over: whatever came     *)
(* between the tick and its answer, the parcel is not in the house.        *)
ReportedShippedIsShipped ==
  \A o \in list.shipped : status[o] \in {"SHIPPED", "DELIVERED", "REFUNDED"}

(* Every tick that is taken is given back, done or not.                    *)
TicksEnd == \A o \in Parcel : (ticks[o] # "none") ~> (ticks[o] = "none")

-----------------------------------------------------------------------------
(* What the comments of the pages promise and the code does not keep       *)
(* (README, section 4).                                                    *)

(* accepted-orders/page.tsx:29: "Processing holds the orders that are paid *)
(* and not yet handed over".  A row whose confirmation was withdrawn since *)
(* is walked through PAYMENT_CONFIRMED by its tick, and shipped unpaid.    *)
ATickShipsWhatWasPaid ==
  [][\A o \in Parcel : ticks[o] = "judged" /\ status'[o] = "SHIPPED" /\ status[o] # "SHIPPED" =>
        status[o] # "PENDING"]_dispatchVars

(* accepted-orders/page.tsx:293: the count is decremented with the row "so *)
(* the heading does not contradict the table".                             *)
HeadingMatchesTable == list.total = Cardinality(list.items) \/ \E l \in Load : loads[l] # NoLoad

(* accepted-orders/page.tsx:258: the table never shows the rows of another *)
(* tab; a reload that is late does.                                        *)
RowsAreOfTheTab ==
  [][\A l \in Load : loads[l].stage = "served" /\ list'.items = loads[l].rows /\ loads'[l] = NoLoad =>
        loads[l].tab = list.tab]_dispatchVars
=============================================================================
