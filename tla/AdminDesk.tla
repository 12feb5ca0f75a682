------------------------------ MODULE AdminDesk ------------------------------
(***************************************************************************)
(* The orders desk: what AdminOrdersService and fulfillment-scope.ts add   *)
(* to OrdersService.  An admin's request reads the order, judges the move  *)
(* it is asked for on that reading, and only then opens the transaction of *)
(* module Orders, which reads the order again.  Reading and judging is one *)
(* step here; everything a colleague, a packer or the customer can do fits *)
(* between it and the transaction.                                         *)
(***************************************************************************)
EXTENDS Orders, SequencesExt

CONSTANT Roles  \* who uses the plain transition endpoint

ASSUME DeskAssumption == Roles \subseteq {"desk", "packing"}

VARIABLES
  rejected,  \* the orders whose last cancellation has an admin's audit entry
  errand     \* what the request a worker is serving is for

deskVars == <<rejected, errand>>

DeskTypeOK ==
  /\ rejected \subseteq Order
  /\ errand \in [Worker -> {"other", "desk", "packing", "confirm", "revert", "refund"}]
  /\ \A w \in Worker : job[w] = Idle => errand[w] = "other"

DeskInit ==
  /\ Init
  /\ rejected = {}
  /\ errand = [w \in Worker |-> "other"]

-----------------------------------------------------------------------------
(* The statuses a request asks to enter, as the endpoint works them out.   *)
Entering(o, op, to) ==
  IF op = "advance" /\ IsReachable(status[o], to) THEN forwardPathTo(status[o], to) ELSE <<to>>

(* A mutant: only the status the order is in is looked at. *)
FulfillmentMay_ReadsFrom(from, entering) == from \in {"PAYMENT_CONFIRMED", "PROCESSING"}

(* isInFulfillmentScope and fulfillmentTransitionBlocker. *)
FulfillmentMay(from, entering) ==
  /\ from \in {"PAYMENT_CONFIRMED", "PROCESSING"}
  /\ entering # <<>> /\ ToSet(entering) \subseteq FULFILLMENT_TRANSITION_TARGETS

(* A request whose order is read and whose move is judged: the service is  *)
(* called.                                                                 *)
Ask(w, what, op, o, to) ==
  /\ StartMove(w, op, o, to)
  /\ errand' = [errand EXCEPT ![w] = what]
  /\ UNCHANGED rejected

(* AdminOrdersService.transition, by the desk or from the packing table.   *)
(* guardDuplicateReceipt can be overridden, so it rules nothing out.       *)
AdminTransition(w, o) ==
  \E role \in Roles, to \in OrderStatus, op \in {"move", "advance"} :
    LET entering == Entering(o, op, to) IN
    /\ role = "packing" => FulfillmentMay(status[o], entering)
    /\ "PENDING" \notin ToSet(entering)
    /\ Ask(w, role, op, o, to)

(* The endpoints that move an order in one direction only. *)
ConfirmPayment(w, o) == Ask(w, "confirm", "move", o, "PAYMENT_CONFIRMED")
RevertConfirmation(w, o) == Ask(w, "revert", "move", o, "PENDING")
RecordRefund(w, o) == Ask(w, "refund", "move", o, "REFUNDED")

(* AdminOrdersService.reopen: reopenState, then the service's transaction. *)
AdminReopen(w, o) ==
  /\ MayReopen(status[o], history[o], o \in rejected)
  /\ StartReopen(w, o)
  /\ UNCHANGED deskVars

CustomerArrives(w) ==
  /\ (\E c \in Cart : StartCheckout(w, c)) \/ \E o \in Order : Cancel(w, o)
  /\ UNCHANGED deskVars

-----------------------------------------------------------------------------
Committed(w) == job[w].pc = "commit" /\ job'[w].pc = "announce"
Cancelled(w) == job[w].draft # <<>> /\ job[w].seen = "CANCELLED"

(* The request is over, or has only to be announced and audited. *)
StillFor(w) == IF job'[w].pc = "idle" THEN [errand EXCEPT ![w] = "other"] ELSE errand

(* A new cancellation is later than any audit entry there is. *)
DeskWork(w) ==
  /\ Work(w)
  /\ rejected' = IF Committed(w) /\ Cancelled(w) THEN rejected \ {job[w].o} ELSE rejected
  /\ errand' = StillFor(w)

(* After the events, the audit entry of an admin's transition: written on  *)
(* its own, so that a crash before it loses it.                            *)
DeskAnnounce(w) ==
  /\ Announce(w)
  /\ rejected' = IF errand[w] = "desk" /\ Cancelled(w) THEN rejected \cup {job[w].o} ELSE rejected
  /\ errand' = StillFor(w)

DeskCrash ==
  /\ Crash
  /\ errand' = [w \in Worker |-> "other"]
  /\ UNCHANGED rejected

DeskNext ==
  \/ \E w \in Worker :
       \/ CustomerArrives(w)
       \/ \E o \in Order :
            \/ AdminTransition(w, o)
            \/ ConfirmPayment(w, o)
            \/ RevertConfirmation(w, o)
            \/ RecordRefund(w, o)
            \/ AdminReopen(w, o)
       \/ DeskWork(w)
       \/ DeskAnnounce(w)
  \/ \E b \in Book : WaitlistHolds(b) /\ UNCHANGED deskVars
  \/ DeskCrash

DeskSpec == DeskInit /\ [][DeskNext]_<<vars, deskVars>>

-----------------------------------------------------------------------------
EntersOnly(w, allowed) == ToSet(job[w].draft) \subseteq allowed

(* However stale what the packing table judged by, a packer's request only *)
(* ever carries an order forward to its parcel: it never closes an order,  *)
(* never withdraws a confirmation and never gives copies back.             *)
PackersOnlyGoForward ==
  \A w \in Worker : errand[w] = "packing" =>
    /\ EntersOnly(w, {"PAYMENT_CONFIRMED"} \cup FULFILLMENT_TRANSITION_TARGETS)
    /\ ~job[w].returned

-----------------------------------------------------------------------------
(* What the comments of the code promise and the code does not keep        *)
(* (README, section 4).                                                    *)

(* fulfillment-scope.ts:91: PAYMENT_CONFIRMED is a status "which a packer  *)
(* can never enter".                                                       *)
PackersEnterTheirTwo ==
  \A w \in Worker : errand[w] = "packing" => EntersOnly(w, FULFILLMENT_TRANSITION_TARGETS)

(* admin-orders.service.ts:514: "The machine allows PAYMENT_CONFIRMED ->   *)
(* PENDING; this endpoint does not."                                       *)
PlainMovesWithdrawNothing ==
  \A w \in Worker : errand[w] = "desk" => EntersOnly(w, OrderStatus \ {"PENDING"})

(* order-reopen.ts:27-35: only an order rejected from PENDING, by staff,   *)
(* is reopened.                                                            *)
OnlyRejectionsReopen ==
  [][\A o \in Order : status[o] = "CANCELLED" /\ status'[o] = "PENDING" =>
        MayReopen(status[o], history[o], o \in rejected)]_<<vars, deskVars>>

=============================================================================
