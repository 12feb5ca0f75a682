------------------------------ MODULE OrderPage ------------------------------
(***************************************************************************)
(* One order's page in the panel (apps/web admin/orders/[orderNumber]) and *)
(* the endpoints behind its buttons (AdminOrdersController and -Service,   *)
(* with fulfillment-scope.ts for a packer).  The page draws its buttons    *)
(* from the order it was last sent; a press is a request that is served,   *)
(* then answered with the order read again, or lost either way.  Meanwhile *)
(* the order moves in other hands, and the internal note is saved by       *)
(* requests that wait for nobody.  Messages of failure are left out, what  *)
(* is typed into the note is sent at once, and nobody overrides a receipt  *)
(* as a duplicate: the box for it is drawn where Accept is, on an order    *)
(* that is live, and of a live order's receipt the database keeps one.     *)
(***************************************************************************)
EXTENDS OrderMachine, FiniteSets

CONSTANTS
  Text,       \* what the internal note may say; NoText is no note
  NoText,
  Call,       \* the requests the page can have out at once
  MaxChanges  \* bound: changes made to the order

ASSUME PageAssumption == NoText \notin Text /\ MaxChanges \in Nat

VARIABLES
  order,  \* the row, with what the audit log says of its cancellation
  page,   \* the page's state
  calls   \* its requests: kind "none" is a free slot

pageVars == <<order, page, calls>>

Nothing == [status |-> "NONE"]
NoCall == [kind |-> "none", what |-> "none", to |-> "NONE", text |-> NoText, fit |-> TRUE,
           stage |-> "none", ok |-> FALSE, from |-> Nothing, body |-> Nothing, made |-> 0]

OrderPageInit ==
  /\ order \in [status : {"PENDING", "PAYMENT_CONFIRMED"}, manual : BOOLEAN, paid : {FALSE},
                rejected : {FALSE}, claimed : {FALSE}, note : {NoText}, rev : {0}]
  /\ page \in [role : {"ADMIN", "STAFF", "FULFILLMENT"}, view : {Nothing},
               busy : {FALSE}, open : {{}}, typed : {{}}]
  /\ calls = [c \in Call |-> IF c = CHOOSE first \in Call : TRUE
                             THEN [NoCall EXCEPT !.kind = "load", !.stage = "sent"]
                             ELSE NoCall]

Loaded == page.view # Nothing

-----------------------------------------------------------------------------
(* The service. *)

(* requireOrder: out of a packer's scope is not found.  The week after     *)
(* which a shipped parcel leaves the scope is left out.                    *)
Packing == page.role = "FULFILLMENT"

Found == Packing => order.status \in {"PAYMENT_CONFIRMED", "PROCESSING", "SHIPPED"}

(* detail: the transitions offered, cut down to a packer's, and whether    *)
(* another order has the receipt.                                          *)
Detail ==
  [status |-> order.status, manual |-> order.manual, note |-> order.note, rev |-> order.rev,
   allowed |-> LET allowed == ORDER_STATUS_TRANSITIONS[order.status]
               IN  IF Packing THEN allowed \cap FULFILLMENT_TRANSITION_TARGETS ELSE allowed,
   reopen |-> order.status = "CANCELLED" /\ order.rejected /\ ~Packing,
   duplicate |-> order.claimed /\ ~Packing]

(* transition, for which PENDING is never a target; the receipt is guarded *)
(* at this door as at the other.                                           *)
MayTransition(to) ==
  /\ to # "PENDING"
  /\ Packing => /\ order.status \in {"PAYMENT_CONFIRMED", "PROCESSING"}
                /\ to \in FULFILLMENT_TRANSITION_TARGETS
  /\ to = "PAYMENT_CONFIRMED" => ~order.claimed

MovedTo(to, byStaff) ==
  [order EXCEPT !.status = to, !.rev = order.rev + 1,
                !.rejected = to = "CANCELLED" /\ order.status = "PENDING" /\ byStaff]

(* confirmManually keeps the payment of an order that cannot be confirmed, *)
(* and answers a replay with the order as it is.                           *)
Confirmed ==
  IF order.paid THEN order
  ELSE IF canTransition(order.status, "PAYMENT_CONFIRMED")
       THEN [MovedTo("PAYMENT_CONFIRMED", TRUE) EXCEPT !.paid = TRUE]
       ELSE [order EXCEPT !.paid = TRUE, !.rev = order.rev + 1]

ConfirmIsRefused == ~order.paid /\ ~canTransition(order.status, "PAYMENT_CONFIRMED")

(* What a request does to the order, if it is not refused.                 *)
Effect(c) ==
  CASE c.what = "accept" -> Confirmed
    [] c.what = "move"   -> MovedTo(c.to, TRUE)
    [] c.what = "revert" -> [MovedTo("PENDING", TRUE) EXCEPT !.paid = FALSE]
    [] c.what = "reopen" -> MovedTo("PENDING", TRUE)
    [] c.what = "refund" -> MovedTo("REFUNDED", TRUE)
    [] c.what = "note"   -> [order EXCEPT !.note = c.text, !.rev = order.rev + 1]
    [] OTHER             -> order

(* Roles and AllowFulfillment of the endpoints.                            *)
RoleMay(what) ==
  /\ page.role = "STAFF" => what \notin {"revert", "refund"}
  /\ Packing => what \notin {"accept", "revert", "reopen", "refund"}

(* Turned down before anything is written: by the endpoint, for what was   *)
(* sent with it, by the guards of the service.                             *)
Barred(c) ==
  \/ ~c.fit \/ ~RoleMay(c.what) \/ ~Found
  \/ c.what = "accept" /\ order.claimed
  \/ c.what = "move" /\ ~MayTransition(c.to)
  \/ c.what = "reopen" /\ ~(order.status = "CANCELLED" /\ order.rejected /\ ~order.claimed)

(* Or by the table of transitions, as it is written.                       *)
Refused(c) ==
  \/ Barred(c)
  \/ c.what = "accept" /\ ConfirmIsRefused
  \/ c.what = "move" /\ ~canTransition(order.status, c.to)
  \/ c.what = "revert" /\ ~canTransition(order.status, "PENDING")
  \/ c.what = "refund" /\ ~canTransition(order.status, "REFUNDED")

(* What is kept of a refused request: the payment of a confirmation.       *)
Kept(c) == IF c.what = "accept" /\ ~Barred(c) THEN Effect(c) ELSE order

(* A reopening also needs its copies and its week.                         *)
MayFail(c) == c.what = "reopen"

-----------------------------------------------------------------------------
(* The page.                                                               *)
Send(request) ==
  \E c \in Call : calls[c].kind = "none" /\ calls' = [calls EXCEPT ![c] = request]

(* What is sent with an action may be unfit: a reason or a note longer     *)
(* than the endpoint takes, a refund above the total.                      *)
Act(what, to, fit) ==
  [NoCall EXCEPT !.kind = "act", !.stage = "sent", !.what = what, !.to = to, !.fit = fit, !.from = page.view]

(* A mutant: every transition the table allows has its button.             *)
OtherTransitions_All(view) == view.allowed

otherTransitions(view) == view.allowed \ {"REFUNDED", "PENDING"}

Button(what, to) ==
  \/ page.view.status = "PENDING" /\ <<what, to>> = <<"move", "CANCELLED">>
  \/ /\ page.view.status = "PENDING"
     /\ <<what, to>> = IF page.view.manual THEN <<"accept", "NONE">>
                                           ELSE <<"move", "PAYMENT_CONFIRMED">>
  \/ /\ page.view.status \notin {"PENDING", "CANCELLED", "REFUNDED"}
     /\ what = "move" /\ to \in otherTransitions(page.view)
  \/ what = "refund" /\ to = "NONE" /\ "REFUNDED" \in page.view.allowed

(* A mutant: the buttons do not wait for the one before.                   *)
Pressable_Always == Loaded

Pressable == Loaded /\ ~page.busy

(* run, for accept, reject, moveTo and refund.                             *)
Press(what, to) ==
  /\ Pressable /\ Button(what, to)
  /\ \E fit \in BOOLEAN : Send(Act(what, to, fit))
  /\ page' = [page EXCEPT !.busy = TRUE]
  /\ UNCHANGED order

(* The two forms with a reason, each shown while the order allows it and   *)
(* left as it is while it does not; a reason too short to be sent counts   *)
(* as none.                                                                *)
Form == {"revert", "reopen"}

Shows(form) ==
  /\ Loaded
  /\ IF form = "revert" THEN "PENDING" \in page.view.allowed ELSE page.view.reopen

OpenForm(form) ==
  /\ Shows(form) /\ form \notin page.open
  /\ page' = [page EXCEPT !.open = page.open \cup {form}]
  /\ UNCHANGED <<order, calls>>

TypeReason(form) ==
  /\ Shows(form) /\ form \in page.open
  /\ page' = [page EXCEPT !.typed = page.typed \cup {form}]
  /\ UNCHANGED <<order, calls>>

Cleared(p, form) == [p EXCEPT !.open = p.open \ {form}, !.typed = p.typed \ {form}]

CloseForm(form) ==
  /\ Shows(form) /\ form \in page.open
  /\ page' = Cleared(page, form)
  /\ UNCHANGED <<order, calls>>

SubmitReason(form) ==
  /\ Pressable /\ Shows(form) /\ form \in page.typed
  /\ \E fit \in BOOLEAN : Send(Act(form, "NONE", fit))
  /\ page' = [page EXCEPT !.busy = TRUE]
  /\ UNCHANGED order

(* saveInternalNote *)
SaveNote ==
  /\ Loaded
  /\ \E text \in Text \cup {NoText} :
        Send([NoCall EXCEPT !.kind = "note", !.stage = "sent", !.what = "note", !.text = text])
  /\ UNCHANGED <<order, page>>

-----------------------------------------------------------------------------
(* A mutant: the reply is the order as the request found it.               *)
Reply_AsFound(c) == [calls[c] EXCEPT !.stage = "served", !.made = Effect(calls[c]).rev, !.body = Detail]

(* Served: the change is committed, or refused and answered at once.       *)
Reply(c) == [calls[c] EXCEPT !.stage = "served", !.made = Effect(calls[c]).rev]

Answer(c, ok, body) == [calls[c] EXCEPT !.stage = "answered", !.ok = ok, !.body = body]

Serve(c) ==
  /\ calls[c].stage = "sent" /\ Effect(calls[c]).rev <= MaxChanges
  /\ \/ /\ ~Refused(calls[c])
        /\ order' = Effect(calls[c])
        /\ calls' = [calls EXCEPT ![c] = Reply(c)]
     \/ /\ Refused(calls[c]) \/ MayFail(calls[c])
        /\ order' = IF Refused(calls[c]) THEN Kept(calls[c]) ELSE order
        /\ calls' = [calls EXCEPT ![c] = Answer(c, FALSE, Nothing)]
  /\ UNCHANGED page

(* The reply's body is the order read once more, which a packer may lose   *)
(* sight of meanwhile.                                                     *)
ReadBack(c) ==
  /\ calls[c].stage = "served"
  /\ LET body == IF calls[c].body = Nothing THEN Detail ELSE calls[c].body
     IN  calls' = [calls EXCEPT ![c] = IF Found THEN Answer(c, TRUE, body)
                                                ELSE Answer(c, FALSE, Nothing)]
  /\ UNCHANGED <<order, page>>

(* The network, or the API: the change may have been made.                 *)
Lose(c) ==
  /\ calls[c].stage \in {"sent", "served"}
  /\ calls' = [calls EXCEPT ![c] = Answer(c, FALSE, Nothing)]
  /\ UNCHANGED <<order, page>>

(* A mutant: a refused action is not over.                                 *)
Settled_OnSuccess(p, c) == [p EXCEPT !.busy = IF c.ok THEN FALSE ELSE p.busy]

Settled(p, c) == [p EXCEPT !.busy = FALSE]

(* A mutant: the form closes whatever came of it.                          *)
FormAfter_Any(p, c) == IF c.what \in Form THEN Cleared(p, c.what) ELSE p

FormAfter(p, c) == IF c.what \in Form /\ c.ok THEN Cleared(p, c.what) ELSE p

(* What the answer does to the page: the effect, run, or saveInternalNote. *)
After(c) ==
  LET told == IF c.ok THEN [page EXCEPT !.view = c.body] ELSE page
  IN  IF c.kind = "act" THEN FormAfter(Settled(told, c), c) ELSE told

Arrive(c) ==
  /\ calls[c].stage = "answered"
  /\ page' = After(calls[c])
  /\ calls' = [calls EXCEPT ![c] = NoCall]
  /\ UNCHANGED order

(* Colleagues, packers, the customer and the automatic check; and other    *)
(* orders, which may take a receipt that this one has let go.              *)
Elsewhere ==
  /\ \/ \E to \in OrderStatus, byStaff \in BOOLEAN :
          /\ canTransition(order.status, to) \/ (to = "PENDING" /\ order.rejected /\ ~order.claimed)
          /\ order.rev < MaxChanges
          /\ order' = [MovedTo(to, byStaff) EXCEPT
                         !.paid = (order.paid \/ (order.manual /\ to = "PAYMENT_CONFIRMED"))
                                   /\ (to = "PENDING" => order.status = "CANCELLED")]
     \/ \E text \in Text : /\ order.rev < MaxChanges
                            /\ order' = [order EXCEPT !.note = text, !.rev = order.rev + 1]
     \/ /\ order.manual /\ order.status \in {"CANCELLED", "REFUNDED"}
        /\ order' = [order EXCEPT !.claimed = ~order.claimed]
  /\ UNCHANGED <<page, calls>>

OrderPageNext ==
  \/ \E what \in {"accept", "move", "refund"}, to \in OrderStatus \cup {"NONE"} : Press(what, to)
  \/ \E form \in Form : OpenForm(form) \/ TypeReason(form) \/ CloseForm(form) \/ SubmitReason(form)
  \/ SaveNote
  \/ \E c \in Call : Serve(c) \/ ReadBack(c) \/ Lose(c) \/ Arrive(c)
  \/ Elsewhere

(* fetch settles in the end, one way or the other.                         *)
OrderPageFairness == \A c \in Call : WF_pageVars(ReadBack(c) \/ Lose(c) \/ Arrive(c))

OrderPageSpec == OrderPageInit /\ [][OrderPageNext]_pageVars /\ OrderPageFairness

-----------------------------------------------------------------------------
OrderPageTypeOK ==
  /\ order.status \in OrderStatus /\ order.note \in Text \cup {NoText}
  /\ order.claimed => order.status \in {"CANCELLED", "REFUNDED"}
  /\ page.view # Nothing => page.view.status \in OrderStatus
  /\ page.busy <=> \E c \in Call : calls[c].kind = "act"
  /\ page.typed \subseteq page.open /\ page.open \subseteq Form
  /\ \A c \in Call : calls[c].stage = "answered" /\ calls[c].ok => calls[c].body # Nothing

(* The buttons are worked out in the browser from a list the API trims and *)
(* the endpoints judge again.  On an order that stands as it did for the   *)
(* page, whatever it went through meanwhile, the API turns an action down  *)
(* only for what was sent with it, because the page draws Refund and the   *)
(* withdrawal of a payment for STAFF too, or because it offers to reopen   *)
(* an order whose receipt it shows to be another's.                        *)
AsItWas(c) == \A seen \in {"status", "reopen", "duplicate"} : c.from[seen] = Detail[seen]

HasACause(c) ==
  \/ ~c.fit
  \/ page.role = "STAFF" /\ c.what \in {"revert", "refund"}
  \/ c.what = "reopen" /\ c.from.duplicate

RefusalsHaveACause ==
  \A c \in Call :
    calls[c].kind = "act" /\ calls[c].stage = "sent" /\ AsItWas(calls[c]) =>
      (Refused(calls[c]) => HasACause(calls[c]))

(* When an action is answered the page shows an order that has it, however *)
(* the order has moved on meanwhile.                                       *)
AnswersShowTheAction ==
  [][\A c \in Call :
       calls[c].kind = "act" /\ calls[c].stage = "answered" /\ calls[c].ok /\ calls'[c] = NoCall =>
         page'.view.rev >= calls[c].made]_pageVars

(* Somebody's reason for undoing a confirmation is typed once: it leaves   *)
(* the box because it was withdrawn, or with the order changed by it.      *)
ReasonsAreKept ==
  [][\A form \in page.typed \ page'.typed :
       \/ calls' = calls
       \/ \E c \in Call : /\ calls[c].kind = "act" /\ calls[c].ok /\ calls[c].what = form
                          /\ calls'[c] = NoCall]_pageVars

(* No outcome of a request leaves the buttons waiting for ever.            *)
EveryActionEnds == page.busy ~> ~page.busy

-----------------------------------------------------------------------------
(* What the page does not keep (README, section 4). *)

(* A save of the note that is answered late shows the order as it was      *)
(* before the action in between.                                           *)
ThePageNeverGoesBack == [][Loaded => page'.view.rev >= page.view.rev]_pageVars
=============================================================================
