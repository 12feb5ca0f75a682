---------------------------- MODULE OrderTracking ----------------------------
(***************************************************************************)
(* An order as its customer follows it: the form that finds it             *)
(* (track-order-view.tsx), the page that keeps asking after it             *)
(* (order-detail-view.tsx, a react-query poll) and what the card makes of  *)
(* the answer (order-detail-card.tsx, order-status.ts, order-progress.tsx),*)
(* while staff walk the order through its lifecycle.  Every step of one    *)
(* walk is stamped with the time its transaction began, and rows with one  *)
(* stamp are read in whatever order the table has them (order.mapper.ts).  *)
(***************************************************************************)
EXTENDS OrderMachine

CONSTANT MaxEvents   \* bound: rows of the history

VARIABLES
  standing,   \* of the order
  events,   \* order_status_history, as it is read: sorted by its stamps
  track,    \* the form
  card      \* the page of one order

orderVars == <<standing, events>>
trackVars == <<orderVars, track, card>>

Event(s, time, noted) == [status |-> s, time |-> time, noted |-> noted]

NoAnswer == [step |-> "form", label |-> "none"]
Closed == [open |-> FALSE, real |-> FALSE, shown |-> <<>>, now |-> "none", failed |-> FALSE, try |-> 0, hidden |-> FALSE]

TrackingInit ==
  /\ standing = "PENDING" /\ events = <<Event("PENDING", 1, FALSE)>>
  /\ track = NoAnswer /\ card = Closed

-----------------------------------------------------------------------------
(* transition, advanceAndCommit and reopen: the note goes on the step that *)
(* was asked for and on no other.                                          *)
Walk(route, noted) ==
  LET n == Len(events)
      steps == 1..Len(route)
      Row(i) == Event(route[i], n + 1, noted /\ i = Len(route)) IN
  /\ route # <<>> /\ n + Len(route) <= MaxEvents
  /\ standing' = route[Len(route)]
  /\ \E order \in {q \in [steps -> steps] : \A i, j \in steps : q[i] = q[j] => i = j} :
       events' = events \o [i \in steps |-> Row(order[i])]
  /\ UNCHANGED <<track, card>>

StaffMoves(target, noted) == IsReachable(standing, target) /\ Walk(forwardPathTo(standing, target), noted)

StaffReopens(noted) ==
  MayReopen(standing, [i \in 1..Len(events) |-> events[i].status], TRUE) /\ Walk(<<"PENDING">>, noted)

-----------------------------------------------------------------------------
(* toOrderProgressStep, and what the list of several orders says of one.   *)
toOrderProgressStep(s) ==
  CASE s = "PENDING" -> "placed"
    [] s = "PAYMENT_CONFIRMED" -> "verified"
    [] s = "PROCESSING" -> "packed"
    [] s \in {"SHIPPED", "DELIVERED"} -> "shipped"
    [] s \in {"CANCELLED", "REFUNDED"} -> "none"

pickerStatusKey(s) ==
  IF s \in {"DELIVERED", "CANCELLED", "REFUNDED"} THEN s ELSE toOrderProgressStep(s)

(* By its number an order is found alone; by email or phone with others.   *)
HandleSubmit == track.step # "looking" /\ track' = [NoAnswer EXCEPT !.step = "looking"] /\ UNCHANGED <<orderVars, card>>

Open(real) == card' = [Closed EXCEPT !.open = TRUE, !.real = real, !.try = 1]

Found ==
  /\ track.step = "looking" /\ ~card.open
  /\ \/ Open(TRUE) /\ track' = NoAnswer
     \/ /\ track' \in {[step |-> "several", label |-> pickerStatusKey(standing)],
                       [step |-> "noMatch", label |-> "none"], [step |-> "error", label |-> "none"]}
        /\ UNCHANGED card
  /\ UNCHANGED orderVars

(* One of several is picked, or the address of an order is typed.          *)
OpenCard(real) ==
  /\ ~card.open /\ (real => track.step = "several") /\ track.step # "looking"
  /\ Open(real) /\ track' = NoAnswer
  /\ UNCHANGED orderVars

-----------------------------------------------------------------------------
(* The page. *)

(* A mutant: the poll stops once the parcel is with the courier.           *)
TERMINAL_STATUSES_Shipped == {"SHIPPED", "DELIVERED", "CANCELLED", "REFUNDED"}

TERMINAL_STATUSES == {"DELIVERED", "CANCELLED", "REFUNDED"}

Loaded == card.shown # <<>>
Polled == Loaded /\ card.now \notin TERMINAL_STATUSES

Asks == card.open /\ card.try = 0 /\ card' = [card EXCEPT !.try = 1] /\ UNCHANGED <<orderVars, track>>

Poll == Polled /\ ~card.hidden /\ Asks
Refresh == Loaded /\ ~card.failed /\ ~card.hidden /\ Asks

(* Coming back to the tab asks again, whatever is shown.                   *)
Hide == card.open /\ ~card.hidden /\ card' = [card EXCEPT !.hidden = TRUE] /\ UNCHANGED <<orderVars, track>>
Return ==
  /\ card.open /\ card.hidden
  /\ card' = [card EXCEPT !.hidden = FALSE, !.try = IF card.try = 0 THEN 1 ELSE card.try]
  /\ UNCHANGED <<orderVars, track>>

Answer ==
  /\ card.try > 0
  /\ card' = [card EXCEPT !.try = 0, !.failed = FALSE, !.shown = IF card.real THEN events ELSE <<>>,
                          !.now = IF card.real THEN standing ELSE "none"]
  /\ UNCHANGED <<orderVars, track>>

(* One retry, and then the notice, in place of what was shown.             *)
NoAnswerComes ==
  /\ card.try > 0
  /\ card' = [card EXCEPT !.try = IF card.try = 1 THEN 2 ELSE 0, !.failed = (card.failed \/ card.try = 2)]
  /\ UNCHANGED <<orderVars, track>>

Leave == card.open /\ card' = Closed /\ UNCHANGED <<orderVars, track>>

TrackingNext ==
  \/ \E noted \in BOOLEAN : StaffReopens(noted) \/ \E target \in OrderStatus : StaffMoves(target, noted)
  \/ HandleSubmit \/ Found \/ \E real \in BOOLEAN : OpenCard(real)
  \/ Poll \/ Refresh \/ Hide \/ Return \/ Answer \/ NoAnswerComes \/ Leave

TrackingFairness == WF_trackVars(Poll) /\ SF_trackVars(Answer)
TrackingSpec == TrackingInit /\ [][TrackingNext]_trackVars /\ TrackingFairness

-----------------------------------------------------------------------------
(* The card. *)

(* A mutant: the first confirmation counts, though it was withdrawn.       *)
occurredAt_First(timeline, s) ==
  LET at == {i \in DOMAIN timeline : timeline[i].status = s} IN
  IF at = {} THEN 0 ELSE timeline[CHOOSE i \in at : \A j \in at : i <= j].time

occurredAt(timeline, s) ==
  LET at == {i \in DOMAIN timeline : timeline[i].status = s} IN
  IF at = {} THEN 0 ELSE timeline[CHOOSE i \in at : \A j \in at : j <= i].time

lastNote(timeline) ==
  LET at == {i \in DOMAIN timeline : timeline[i].noted} IN
  IF at = {} THEN 0 ELSE timeline[CHOOSE i \in at : \A j \in at : j <= i].time

Estimated(timeline) ==
  /\ occurredAt(timeline, "PAYMENT_CONFIRMED") > 0
  /\ card.now # "DELIVERED" /\ toOrderProgressStep(card.now) # "none"

-----------------------------------------------------------------------------
TrackingTypeOK == card.try \in 0..2 /\ (~card.open => card = Closed) /\ (Loaded => card.real)

LatestOf(T) == IF T = {} THEN 0 ELSE CHOOSE t \in T : \A u \in T : u <= t

(* However the rows of one walk are shuffled by the answer, the card dates *)
(* the confirmation by the latest there is, and tells the latest note.     *)
CardReadsTheHistory ==
  Loaded =>
    LET seen == {card.shown[i] : i \in DOMAIN card.shown} IN
    /\ occurredAt(card.shown, "PAYMENT_CONFIRMED") = LatestOf({e.time : e \in {f \in seen : f.status = "PAYMENT_CONFIRMED"}})
    /\ lastNote(card.shown) = LatestOf({e.time : e \in {f \in seen : f.noted}})

(* A page left open on an order that is under way comes to show a move of  *)
(* it, whatever answers are lost on the way.                               *)
Stale(s) == Loaded /\ card.now = s /\ standing # s /\ ~card.hidden
NewsReachesThePage == \A s \in {"PENDING", "PAYMENT_CONFIRMED", "PROCESSING", "SHIPPED"} : Stale(s) ~> ~Stale(s)

-----------------------------------------------------------------------------
(* What is promised and the code does not keep (README, 4).                *)

(* dates.ts:52: no estimate before the payment is confirmed.  A withdrawn  *)
(* confirmation still dates one.                                           *)
EstimateMeansPaid == Loaded /\ card.now = "PENDING" => ~Estimated(card.shown)

(* order.mapper.ts:75: the timeline reads as the order progressed.         *)
TimelineIsInOrder == Loaded => card.shown[Len(card.shown)].status = card.now

(* order-detail-view.tsx:41: nothing is going to happen to a terminal      *)
(* order.  It is refunded, or reopened, and the page does not ask.         *)
ClosedMeansClosed == \A s \in TERMINAL_STATUSES : Stale(s) ~> ~Stale(s)
=============================================================================
