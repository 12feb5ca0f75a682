------------------------------ MODULE Payments ------------------------------
(***************************************************************************)
(* Payment rows and the orders they confirm: PaymentsService, and what     *)
(* confirmPayment, revertPaymentConfirmation and recordRefund of the desk  *)
(* do besides moving the order (module AdminDesk).                         *)
(*                                                                         *)
(* A payment row is found again by (provider, reference), and for the      *)
(* manual methods the reference is the order number: `slip` is the row     *)
(* that holds an order's number.  A voided row gives the number up, a      *)
(* refund row has a number of its own.                                     *)
(***************************************************************************)
EXTENDS AdminDesk

CONSTANTS Outcomes,  \* what a reported payment may say: SUCCEEDED, FAILED
          MayCrash   \* whether the process may die

ASSUME PaymentsAssumption == Outcomes \subseteq {"SUCCEEDED", "FAILED"} /\ MayCrash \in BOOLEAN

VARIABLES
  slip,      \* the status of the row holding the order's number, or "none"
  refunds,   \* the orders with a refund row
  voids      \* whether its open transaction has voided the order's slip

payVars == <<slip, refunds, voids>>
allVars == <<vars, deskVars, payVars>>

PaymentsTypeOK ==
  /\ DeskTypeOK
  /\ slip \in [Order -> {"none", "SUCCEEDED", "FAILED"}]
  /\ refunds \subseteq Order
  /\ voids \in [Worker -> BOOLEAN]
  /\ \A w \in Worker : voids[w] => errand[w] = "revert" /\ slip[job[w].o] = "SUCCEEDED"

PaymentsInit ==
  /\ DeskInit
  /\ slip = [o \in Order |-> "none"]
  /\ refunds = {}
  /\ voids = [w \in Worker |-> FALSE]

-----------------------------------------------------------------------------
(* A mutant: nothing makes a second withdrawal wait for the first.         *)
SlipLocked_Never(o) == FALSE

(* The rows an open transaction has written and another must wait for.     *)
SlipLocked(o) == \E w \in Worker : voids[w] /\ job[w].o = o
RefundLocked(o) == \E w \in Worker : errand[w] = "refund" /\ job[w].o = o

(* A mutant: a paid order is sent straight to the packers. *)
PaidStatus_Packing == "PROCESSING"

PaidStatus == "PAYMENT_CONFIRMED"

(* apply(): the row is committed first and the transition is a transaction *)
(* of its own.  A replay and an amount that does not match the total       *)
(* change nothing and are not steps here.                                  *)
Record(w, o, outcome) ==
  /\ slip[o] = "none" /\ ~SlipLocked(o)
  /\ slip' = [slip EXCEPT ![o] = outcome]
  /\ \/ outcome = "SUCCEEDED" /\ Ask(w, "confirm", "move", o, PaidStatus)
     \/ outcome # "SUCCEEDED" /\ Exists(o) /\ UNCHANGED <<vars, deskVars>>
  /\ UNCHANGED <<refunds, voids>>

(* revertPaymentConfirmation, up to voidConfirmed: the UPDATE of whatever  *)
(* SUCCEEDED row the order has by then.                                    *)
StartRevert(w, o) ==
  /\ RevertConfirmation(w, o) /\ ~SlipLocked(o)
  /\ voids' = [voids EXCEPT ![w] = slip[o] = "SUCCEEDED"]
  /\ UNCHANGED <<slip, refunds>>

(* recordRefund, up to its INSERT: a second refund row of an order would   *)
(* be a duplicate.                                                         *)
StartRefund(w, o) ==
  /\ RecordRefund(w, o) /\ o \notin refunds /\ ~RefundLocked(o)
  /\ UNCHANGED payVars

-----------------------------------------------------------------------------
Ended(w) == job'[w].pc \in {"idle", "announce"}

(* A mutant: the refund row is not part of the transaction. *)
RefundRows_Own(w) == IF Ended(w) /\ errand[w] = "refund" THEN {job[w].o} ELSE {}

RefundRows(w) == IF Committed(w) /\ errand[w] = "refund" THEN {job[w].o} ELSE {}

(* A mutant: nor is the voiding. *)
Voided_Own(w) == Ended(w) /\ voids[w]

Voided(w) == Committed(w) /\ voids[w]

(* A step of the transaction: what it wrote to payments commits or rolls   *)
(* back with it.                                                           *)
PaymentWork(w) ==
  /\ DeskWork(w)
  /\ slip' = IF Voided(w) THEN [slip EXCEPT ![job[w].o] = "none"] ELSE slip
  /\ refunds' = refunds \cup RefundRows(w)
  /\ voids' = IF Ended(w) THEN [voids EXCEPT ![w] = FALSE] ELSE voids

(* A request of module AdminDesk that touches no payment.                  *)
DeskArrives(w) ==
  /\ CustomerArrives(w) \/ \E o \in Order : AdminTransition(w, o) \/ AdminReopen(w, o)
  /\ UNCHANGED payVars

PaymentAnnounce(w) == DeskAnnounce(w) /\ UNCHANGED payVars

PaymentCrash ==
  /\ MayCrash /\ DeskCrash
  /\ voids' = [w \in Worker |-> FALSE]
  /\ UNCHANGED <<slip, refunds>>

PaymentsNext ==
  \/ \E w \in Worker :
       \/ \E o \in Order :
            \/ \E outcome \in Outcomes : Record(w, o, outcome)
            \/ StartRevert(w, o)
            \/ StartRefund(w, o)
       \/ DeskArrives(w)
       \/ PaymentWork(w)
       \/ PaymentAnnounce(w)
  \/ \E b \in Book : WaitlistHolds(b) /\ UNCHANGED <<deskVars, payVars>>
  \/ PaymentCrash

PaymentsSpec == PaymentsInit /\ [][PaymentsNext]_allVars

(* A request that has begun goes on: its statements are answered, and a    *)
(* row lock is handed to those who wait for it.                            *)
RequestsFinish == \A w \in Worker : WF_allVars(PaymentWork(w)) /\ WF_allVars(PaymentAnnounce(w))

FairPaymentsSpec == PaymentsSpec /\ RequestsFinish

-----------------------------------------------------------------------------
(* A refund row on an order that never reached REFUNDED is worse than the  *)
(* reverse (payments.service.ts:181): whatever refuses, rolls back or      *)
(* crashes, none is left behind.                                           *)
RefundRowOnlyOnRefunded == \A o \in refunds : status[o] = "REFUNDED"

(* A recorded payment is withdrawn only in the commit that takes its order *)
(* back to PENDING.                                                        *)
VoidsWithTheWithdrawal ==
  [][\A o \in Order : slip[o] = "SUCCEEDED" /\ slip'[o] # "SUCCEEDED" =>
        status[o] = "PAYMENT_CONFIRMED" /\ status'[o] = "PENDING"]_allVars

Applying(w, o) == errand[w] = "confirm" /\ job[w].o = o /\ job[w].pc # "announce"

(* While the process lives, a payment that is recorded for a pending order *)
(* and is being applied takes the order out of PENDING.                    *)
PaymentReachesTheOrder ==
  \A o \in Order, w \in Worker :
    (Applying(w, o) /\ slip[o] = "SUCCEEDED" /\ status[o] = "PENDING") ~> status[o] # "PENDING"

-----------------------------------------------------------------------------
(* What the comments of the code promise and the code does not keep        *)
(* (README, section 4).                                                    *)

(* admin-orders.service.ts:619: a confirmation that is answered as a       *)
(* replay is of an order already confirmed.  With no request in progress   *)
(* no pending order's number is taken.                                     *)
ReplayMeansConfirmed ==
  (\A w \in Worker : job[w] = Idle) =>
    \A o \in Order : slip[o] # "none" => status[o] # "PENDING"

(* payments.service.ts:223: voiding a payment and putting the order back   *)
(* to PENDING are one act: the commit leaves no recorded payment behind.   *)
WithdrawalFreesTheReference ==
  [][\A o \in Order : status[o] = "PAYMENT_CONFIRMED" /\ status'[o] = "PENDING" =>
        slip'[o] # "SUCCEEDED"]_allVars

(* payments.service.ts:181: no REFUNDED order without its refund row.      *)
RefundedHasARefundRow == \A o \in Order : status[o] = "REFUNDED" => o \in refunds

=============================================================================
