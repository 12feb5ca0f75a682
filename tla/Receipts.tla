------------------------------- MODULE Receipts -------------------------------
(***************************************************************************)
(* Receipts against the wallets' own records: OrderAutoVerifyService,      *)
(* PaymentVerificationService and its log, and the orders desk that checks *)
(* and confirms by hand (apps/api/src/orders, payment-verification,        *)
(* payments, admin/orders).                                                *)
(*                                                                         *)
(* A check reads an order and the claims on its receipt, asks the wallets' *)
(* database, writes what it was told to the log and, when nobody watches,  *)
(* confirms the order by it.  Between any two of these the customer        *)
(* cancels, a colleague confirms or refunds, or another order takes the    *)
(* receipt.  A change of status is one step here, as module Orders shows   *)
(* it to be; its events and copies are left to that module.                *)
(***************************************************************************)
EXTENDS OrderMachine, FiniteSets

CONSTANTS
  Order,
  Receipt,      \* normalised transaction IDs
  NoReceipt,
  Stages,       \* bound: the stages of fulfilment an order goes through
  MaxWithdrawn  \* bound: confirmations withdrawn of one order

VARIABLES
  rows,      \* the orders, and their standing payments row
  gateway,   \* what the wallet's record of a receipt comes to
  check,     \* what each checker of each order is about to do
  log        \* payment_verifications: the orders a check of which was kept

receiptVars == <<rows, gateway, check, log>>

Checker == {"auto", "desk"}
(* UNDERPAID, NOT_FOUND and UNAVAILABLE differ in what staff read only.    *)
Outcome == {"MATCHED", "UNMATCHED"}
NoRow == [status |-> "ABSENT", receipt |-> NoReceipt, paid |-> FALSE, by |-> "nobody",
          rejected |-> FALSE, withdrawn |-> 0]

ReceiptsInit ==
  /\ rows = [o \in Order |-> NoRow]
  /\ gateway = [r \in Receipt |-> "none"]
  /\ check = [o \in Order |-> [c \in Checker |-> "none"]]
  /\ log = {}

Placed(o) == rows[o].status # "ABSENT"

RELEASED_STATUSES == {"CANCELLED", "REFUNDED"}

(* findTransactionIdClaim *)
Claims(r, self) ==
  {o \in Order \ {self} : Placed(o) /\ rows[o].receipt = r /\ rows[o].status \notin RELEASED_STATUSES}

Now(o, c, pc) == check' = [check EXCEPT ![o][c] = pc]
(* Bound: one member of staff at the desk. *)
DeskIsFree == \A o \in Order : check[o]["desk"] = "none"
SetRow(o, row) == rows' = [rows EXCEPT ![o] = row]

-----------------------------------------------------------------------------
(* The controller: the request that created the order checks it once.      *)
PlaceManualTransfer(o, r) ==
  /\ ~Placed(o) /\ Claims(r, o) = {}
  /\ SetRow(o, [NoRow EXCEPT !.status = "PENDING", !.receipt = r])
  /\ Now(o, "auto", "claim")
  /\ UNCHANGED <<gateway, log>>

(* A mutant: a receipt the wallet knows has paid, whatever it came to.     *)
Verdict_Found(r) == IF gateway[r] # "none" THEN "MATCHED" ELSE "UNMATCHED"

(* PaymentVerificationService.verify *)
Verdict(r) == IF gateway[r] = "full" THEN "MATCHED" ELSE "UNMATCHED"

(* tryAutoConfirm reads the order and the claims on its receipt ...        *)
ReadClaim(o) ==
  /\ check[o]["auto"] = "claim"
  /\ Now(o, "auto", IF Claims(rows[o].receipt, o) = {} THEN "ask" ELSE "none")
  /\ UNCHANGED <<rows, gateway, log>>

(* ... verifyPayment of the desk asks at any time, of any order ...        *)
VerifyPayment(o) ==
  /\ Placed(o) /\ DeskIsFree
  /\ Now(o, "desk", "ask")
  /\ UNCHANGED <<rows, gateway, log>>

(* ... the wallets' database answers, or cannot be reached ...             *)
Ask(o, c) ==
  /\ check[o][c] = "ask"
  /\ \E told \in {Verdict(rows[o].receipt), "UNMATCHED"} : Now(o, c, told)
  /\ UNCHANGED <<rows, gateway, log>>

(* ... and the answer is logged, unless that fails, which stops nobody.    *)
Record(o, c) ==
  /\ check[o][c] \in Outcome
  /\ log' \in {log, log \cup {o}}
  /\ Now(o, c, IF c = "auto" /\ check[o][c] = "MATCHED" THEN "pay" ELSE "none")
  /\ UNCHANGED <<rows, gateway>>

(* AdminOrdersService.confirmPayment; a reason overrides a claim.          *)
ConfirmPayment(o, override) ==
  /\ Placed(o) /\ DeskIsFree
  /\ Claims(rows[o].receipt, o) = {} \/ override
  /\ Now(o, "desk", "pay")
  /\ UNCHANGED <<rows, gateway, log>>

(* PaymentsService.record: one standing row to an order number, a second   *)
(* is a replay.                                                            *)
RecordPayment(o, c) ==
  /\ check[o][c] = "pay"
  /\ SetRow(o, [rows[o] EXCEPT !.paid = TRUE])
  /\ Now(o, c, IF rows[o].paid THEN "none" ELSE "move")
  /\ UNCHANGED <<gateway, log>>

(* A mutant: the confirmation sets the status, whatever it was.            *)
Confirms_Any(o) == TRUE

(* transitionAndCommit, which checks the table and the status it read.     *)
Confirms(o) == canTransition(rows[o].status, "PAYMENT_CONFIRMED")

Confirm(o, c) ==
  /\ check[o][c] = "move"
  /\ IF Confirms(o)
     THEN SetRow(o, [rows[o] EXCEPT !.status = "PAYMENT_CONFIRMED", !.by = c])
     ELSE UNCHANGED rows
  /\ Now(o, c, "none")
  /\ UNCHANGED <<gateway, log>>

-----------------------------------------------------------------------------
(* What else happens to an order. *)
Becomes(o, row) ==
  /\ canTransition(rows[o].status, row.status)
  /\ SetRow(o, row)
  /\ UNCHANGED <<gateway, check, log>>

(* The customer, or staff from any status the table allows.                *)
Cancelled(o, byStaff) ==
  /\ Placed(o)
  /\ Becomes(o, [rows[o] EXCEPT !.status = "CANCELLED",
                                !.rejected = byStaff /\ rows[o].status = "PENDING"])

(* Packed, shipped, delivered.                                             *)
Fulfil(o) ==
  /\ Placed(o)
  /\ \E to \in Stages : Becomes(o, [rows[o] EXCEPT !.status = to])

(* The refund is a payments row of its own; the first one stands.          *)
RecordRefund(o) == Placed(o) /\ Becomes(o, [rows[o] EXCEPT !.status = "REFUNDED"])

(* A mutant: the withdrawal takes the receipt off the order.              *)
RevertConfirmation_ForgetsReceipt(o) ==
  /\ Placed(o) /\ rows[o].withdrawn < MaxWithdrawn
  /\ Becomes(o, [rows[o] EXCEPT !.status = "PENDING", !.paid = FALSE, !.by = "nobody",
                                !.receipt = NoReceipt, !.withdrawn = rows[o].withdrawn + 1])

(* revertPaymentConfirmation voids the row and withdraws the confirmation. *)
RevertConfirmation(o) ==
  /\ Placed(o) /\ rows[o].withdrawn < MaxWithdrawn
  /\ Becomes(o, [rows[o] EXCEPT !.status = "PENDING", !.paid = FALSE, !.by = "nobody",
                                !.withdrawn = rows[o].withdrawn + 1])

(* A mutant: the reopened order keeps the receipt it once had.             *)
MayReclaim_Always(o) == TRUE

(* OrdersService.reopen: the receipt must still be free.                   *)
MayReclaim(o) == Claims(rows[o].receipt, o) = {}

Reopen(o) ==
  /\ Placed(o) /\ rows[o].status = "CANCELLED" /\ rows[o].rejected /\ MayReclaim(o)
  /\ SetRow(o, [rows[o] EXCEPT !.status = "PENDING", !.rejected = FALSE])
  /\ UNCHANGED <<gateway, check, log>>

(* The SMS reaches the wallets' database, late or early.                   *)
MoneyArrives(r, came) ==
  /\ gateway[r] = "none"
  /\ gateway' = [gateway EXCEPT ![r] = came]
  /\ UNCHANGED <<rows, check, log>>

(* The process dies with every check in it.                                *)
Crash ==
  /\ check' = [o \in Order |-> [c \in Checker |-> "none"]]
  /\ UNCHANGED <<rows, gateway, log>>

ReceiptsNext ==
  \/ \E o \in Order :
       \/ \E r \in Receipt : PlaceManualTransfer(o, r)
       \/ ReadClaim(o) \/ VerifyPayment(o)
       \/ \E c \in Checker : Ask(o, c) \/ Record(o, c) \/ RecordPayment(o, c) \/ Confirm(o, c)
       \/ \E flag \in BOOLEAN : ConfirmPayment(o, flag) \/ Cancelled(o, flag)
       \/ Fulfil(o) \/ RecordRefund(o) \/ RevertConfirmation(o) \/ Reopen(o)
  \/ \E r \in Receipt, came \in {"short", "full"} : MoneyArrives(r, came)
  \/ Crash

ReceiptsSpec == ReceiptsInit /\ [][ReceiptsNext]_receiptVars

-----------------------------------------------------------------------------
ReceiptsTypeOK ==
  /\ \A o \in Order :
       /\ rows[o].status \in OrderStatus \cup {"ABSENT"}
       /\ Placed(o) <=> rows[o].receipt \in Receipt
       /\ rows[o].by \in Checker \cup {"nobody"}
       /\ ~Placed(o) => check[o] = [c \in Checker |-> "none"]
  /\ gateway \in [Receipt -> {"none", "short", "full"}]
  /\ log \subseteq Order

(* Nobody watches the automatic check, and all it knows may have changed   *)
(* by the time it confirms: the order it confirms is still one nobody else *)
(* has settled, its receipt came to the whole price, and no other live     *)
(* order has taken that receipt meanwhile.                                 *)
GrantWasPaid ==
  \A o \in Order :
    rows'[o].by = "auto" /\ rows[o].by # "auto" =>
      /\ rows[o].status = "PENDING"
      /\ gateway[rows[o].receipt] = "full" /\ Claims(rows[o].receipt, o) = {}
AutoGrantsWerePaid == [][GrantWasPaid]_receiptVars

(* Whoever confirmed it, an order that is still counted as paid by a       *)
(* receipt is the only one: a claim overridden with a reason is only ever  *)
(* one on an order that has let go of its receipt.                         *)
OnePaidOrderPerReceipt ==
  \A o1, o2 \in Order :
    o1 # o2 /\ Placed(o1) /\ rows[o1].receipt = rows[o2].receipt =>
      \E o \in {o1, o2} : rows[o].status \in {"CANCELLED", "REFUNDED"}

-----------------------------------------------------------------------------
(* What the comments promise and the code does not keep (README, 4).       *)

(* transaction-id-claim.ts:11: one transaction ID is one payment, once.    *)
(* The receipt of a refunded order is free again, and the wallet's record  *)
(* of it still matches.                                                    *)
RefundedMoneyBuysNothing ==
  [][\A o, old \in Order :
       rows'[o].by = "auto" /\ rows[o].by # "auto" /\ rows[old].status = "REFUNDED" =>
         rows[old].receipt # rows[o].receipt]_receiptVars
=============================================================================
