-------------------------- MODULE BackOfficeProofs --------------------------
(***************************************************************************)
(* Proofs about the orders desk as the panel drives it: one order's page   *)
(* (module OrderPage) and the two lists (module Dispatch), for any texts,  *)
(* numbers of requests, orders, filters and bounds.                        *)
(***************************************************************************)
EXTENDS MCBackOffice, FiniteSetTheorems, TLAPS

-----------------------------------------------------------------------------
(* The page: what is drawn from a reading of the order, and what a request *)
(* that is out remembers of it.                                            *)

PackersStatuses == {"PAYMENT_CONFIRMED", "PROCESSING", "SHIPPED"}

Row(o) ==
  /\ DOMAIN o = {"status", "manual", "paid", "rejected", "claimed", "note", "rev"}
  /\ o.claimed => o.status \in {"CANCELLED", "REFUNDED"}
  /\ o.status \in OrderStatus /\ o.note \in Text \cup {NoText} /\ o.rev \in Nat

(* A reading, as Detail makes one for whoever looks. *)
Offered(s, role) ==
  IF role = "FULFILLMENT" THEN ORDER_STATUS_TRANSITIONS[s] \cap FULFILLMENT_TRANSITION_TARGETS
                          ELSE ORDER_STATUS_TRANSITIONS[s]

Reading(v, role) ==
  /\ v # Nothing
  /\ v.status \in OrderStatus /\ v.rev \in Nat
  /\ v.allowed = Offered(v.status, role) /\ v.allowed \subseteq OrderStatus
  /\ role = "FULFILLMENT" => v.status \in PackersStatuses

(* What a reading offers: Button and Shows, of any reading. *)
Offers(v, what, to) ==
  \/ v.status = "PENDING" /\ what = "move" /\ to \in {"CANCELLED", "PAYMENT_CONFIRMED"}
  \/ v.status = "PENDING" /\ what = "accept"
  \/ /\ v.status \notin {"PENDING", "CANCELLED", "REFUNDED"}
     /\ what = "move" /\ to \in v.allowed \ {"REFUNDED", "PENDING"}
  \/ what = "refund" /\ "REFUNDED" \in v.allowed
  \/ what = "revert" /\ "PENDING" \in v.allowed
  \/ what = "reopen" /\ v.reopen

(* A request, from the press to the answer: what it asks was offered, what *)
(* it did is in the order, and an answer that it is done shows it.         *)
Request(k, role, rev) ==
  /\ DOMAIN k = {"kind", "what", "to", "text", "fit", "stage", "ok", "from", "body", "made"}
  /\ k.what \in {"none", "accept", "move", "refund", "revert", "reopen", "note"}
  /\ k.what = "move" => k.to \in OrderStatus
  /\ k.text \in Text \cup {NoText}
  /\ k.kind = "act" => Reading(k.from, role) /\ Offers(k.from, k.what, k.to)
  /\ k.stage \in {"none", "sent", "served", "answered"}
  /\ k.stage \in {"sent", "served"} => k.body = Nothing
  /\ k.stage = "served" => k.made \in Nat /\ k.made <= rev
  /\ k.stage = "answered" /\ k.ok =>
       /\ Reading(k.body, role)
       /\ k.kind = "act" => k.made <= k.body.rev

Screen(p) ==
  /\ DOMAIN p = {"role", "view", "busy", "open", "typed"}
  /\ p.view # Nothing => Reading(p.view, p.role)
  /\ p.typed \subseteq p.open /\ p.open \subseteq Form

(* The buttons wait for one action, and it is the only one. *)
OneAction ==
  /\ page.busy \in BOOLEAN
  /\ page.busy <=> \E c \in Call : calls[c].kind = "act"
  /\ \A c, d \in Call : calls[c].kind = "act" /\ calls[d].kind = "act" => c = d

PageInv ==
  /\ Row(order) /\ Screen(page)
  /\ calls = [c \in Call |-> calls[c]]
  /\ \A c \in Call : Request(calls[c], page.role, order.rev)
  /\ OneAction

-----------------------------------------------------------------------------
LEMMA DetailIsAReading == ASSUME Row(order), Found PROVE Reading(Detail, page.role) /\ Detail.rev = order.rev
<1>1. ORDER_STATUS_TRANSITIONS[order.status] \subseteq OrderStatus
  BY DEF Row, ORDER_STATUS_TRANSITIONS, OrderStatus
<1>2. /\ Detail.status = order.status /\ Detail.rev = order.rev
      /\ Detail.allowed = Offered(order.status, page.role)
  BY DEF Detail, Offered, Packing
<1>3. Detail # Nothing
  <2>1. order.status # "NONE" /\ Nothing.status = "NONE"
    BY DEF Row, OrderStatus, Nothing
  <2> QED BY <1>2, <2>1
<1>4. Detail.allowed \subseteq OrderStatus
  BY <1>1, <1>2 DEF Offered
<1> QED BY <1>2, <1>3, <1>4 DEF Reading, Row, Found, Packing, PackersStatuses

LEMMA MovedIsARow ==
  ASSUME Row(order), ~order.claimed, NEW to \in OrderStatus, NEW byStaff
  PROVE  Row(MovedTo(to, byStaff)) /\ MovedTo(to, byStaff).rev = order.rev + 1
<1> DEFINE mark == to = "CANCELLED" /\ order.status = "PENDING" /\ byStaff
           m == [order EXCEPT !.status = to, !.rev = order.rev + 1, !.rejected = mark]
<1>1. MovedTo(to, byStaff) = m
  BY DEF MovedTo
<1> HIDE DEF mark
<1>2. /\ DOMAIN m = DOMAIN order /\ m.status = to /\ m.note = order.note /\ m.rev = order.rev + 1
      /\ m.claimed = order.claimed
  BY DEF Row
<1> HIDE DEF m
<1>3. Row(m)
  BY <1>2 DEF Row
<1> QED BY <1>1, <1>2, <1>3

(* Whether it is a payment or a move, one field more is the same row.      *)
LEMMA PaidIsARow ==
  ASSUME NEW o, Row(o), NEW value
  PROVE  LET p == [o EXCEPT !.paid = value] IN Row(p) /\ p.rev = o.rev /\ p.status = o.status
<1> DEFINE p == [o EXCEPT !.paid = value]
<1>1. /\ DOMAIN p = DOMAIN o /\ p.status = o.status /\ p.note = o.note /\ p.rev = o.rev
      /\ p.claimed = o.claimed
  BY DEF Row
<1> HIDE DEF p
<1>2. Row(p) /\ p.rev = o.rev /\ p.status = o.status
  BY <1>1 DEF Row
<1> QED BY <1>2 DEF p

LEMMA NotedIsARow ==
  ASSUME Row(order), NEW text \in Text \cup {NoText}
  PROVE  LET p == [order EXCEPT !.note = text, !.rev = order.rev + 1] IN Row(p) /\ p.rev = order.rev + 1
<1> DEFINE p == [order EXCEPT !.note = text, !.rev = order.rev + 1]
<1>1. /\ DOMAIN p = DOMAIN order /\ p.status = order.status /\ p.note = text /\ p.rev = order.rev + 1
      /\ p.claimed = order.claimed
  BY DEF Row
<1> HIDE DEF p
<1>2. Row(p) /\ p.rev = order.rev + 1
  BY <1>1 DEF Row
<1> QED BY <1>2 DEF p

LEMMA ConfirmedIsARow ==
  ASSUME Row(order), ~order.claimed PROVE Row(Confirmed) /\ Confirmed.rev \in Nat /\ order.rev <= Confirmed.rev
<1>1. order.rev \in Nat
  BY DEF Row
<1>2. CASE order.paid
  BY <1>1, <1>2 DEF Confirmed
<1>3. CASE ~order.paid /\ canTransition(order.status, "PAYMENT_CONFIRMED")
  <2> DEFINE m == MovedTo("PAYMENT_CONFIRMED", TRUE)
  <2>1. Row(m) /\ m.rev = order.rev + 1
    BY MovedIsARow DEF OrderStatus
  <2>2. Confirmed = [m EXCEPT !.paid = TRUE]
    BY <1>3 DEF Confirmed
  <2> HIDE DEF m
  <2>3. Row([m EXCEPT !.paid = TRUE]) /\ [m EXCEPT !.paid = TRUE].rev = m.rev
    BY <2>1, PaidIsARow
  <2> QED BY <1>1, <2>1, <2>2, <2>3
<1>4. CASE ~order.paid /\ ~canTransition(order.status, "PAYMENT_CONFIRMED")
  <2>1. Confirmed = [order EXCEPT !.paid = TRUE, !.rev = order.rev + 1]
    BY <1>4 DEF Confirmed
  <2> DEFINE p == [order EXCEPT !.paid = TRUE, !.rev = order.rev + 1]
  <2>2. DOMAIN p = DOMAIN order /\ p.status = order.status /\ p.note = order.note
        /\ p.rev = order.rev + 1 /\ p.claimed = order.claimed
    BY DEF Row
  <2> HIDE DEF p
  <2>3. Row(p) /\ p.rev = order.rev + 1
    BY <1>1, <2>2 DEF Row
  <2> QED BY <1>1, <2>1, <2>3 DEF p
<1> QED BY <1>2, <1>3, <1>4

(* The other order's hold on the receipt lasts while this one is over, and *)
(* nothing that is not turned down moves it then.                          *)
LEMMA OverIsOver ==
  ASSUME NEW s \in {"CANCELLED", "REFUNDED"}, NEW to PROVE ~canTransition(s, to)
BY DEF canTransition, ORDER_STATUS_TRANSITIONS, OrderStatus

LEMMA NothingMovesTheClaimed ==
  ASSUME Row(order), NEW k, k.what \in {"accept", "move", "revert", "reopen", "refund"},
         ~Refused(k) \/ (k.what = "accept" /\ ~Barred(k))
  PROVE  ~order.claimed
<1> SUFFICES ASSUME order.claimed PROVE FALSE
  OBVIOUS
<1>1. order.status \in {"CANCELLED", "REFUNDED"}
  BY DEF Row
<1>2. \A to : ~canTransition(order.status, to)
  BY <1>1, OverIsOver
<1>3. CASE k.what \in {"accept", "reopen"}
  BY <1>3 DEF Refused, Barred
<1>4. CASE k.what \in {"move", "revert", "refund"}
  BY <1>2, <1>4 DEF Refused
<1> QED BY <1>3, <1>4

(* What a request does is a row again, and a later one. *)
LEMMA EffectIsARow ==
  ASSUME Row(order), NEW k, NEW role, NEW rev, Request(k, role, rev),
         ~Refused(k) \/ (k.what = "accept" /\ ~Barred(k))
  PROVE  Row(Effect(k)) /\ Effect(k).rev \in Nat /\ order.rev <= Effect(k).rev
<1>0. order.rev \in Nat
  BY DEF Row
<1>9. k.what \in {"accept", "move", "revert", "reopen", "refund"} => ~order.claimed
  BY NothingMovesTheClaimed
<1>1. ASSUME NEW to \in OrderStatus, ~order.claimed
      PROVE LET m == MovedTo(to, TRUE) IN Row(m) /\ m.rev \in Nat /\ order.rev <= m.rev
  <2> DEFINE m == MovedTo(to, TRUE)
  <2>1. Row(m) /\ m.rev = order.rev + 1
    BY <1>1, MovedIsARow
  <2> HIDE DEF m
  <2>2. Row(m) /\ m.rev \in Nat /\ order.rev <= m.rev
    BY <1>0, <2>1
  <2> QED BY <2>2 DEF m
<1>2. CASE k.what = "accept"
  BY <1>2, <1>9, ConfirmedIsARow DEF Effect
<1>3. CASE k.what = "move"
  <2>1. k.to \in OrderStatus
    BY <1>3 DEF Request
  <2> QED BY <1>1, <1>3, <1>9, <2>1 DEF Effect
<1>4. CASE k.what = "revert"
  <2> DEFINE m == MovedTo("PENDING", TRUE)
  <2>1. Row(m) /\ m.rev \in Nat /\ order.rev <= m.rev
    BY <1>1, <1>4, <1>9 DEF OrderStatus
  <2>2. Effect(k) = [m EXCEPT !.paid = FALSE]
    BY <1>4 DEF Effect
  <2> HIDE DEF m
  <2> QED BY <2>1, <2>2, PaidIsARow
<1>5. CASE k.what = "reopen"
  BY <1>1, <1>5, <1>9 DEF Effect, OrderStatus
<1>6. CASE k.what = "refund"
  BY <1>1, <1>6, <1>9 DEF Effect, OrderStatus
<1>7. CASE k.what = "note"
  <2> DEFINE text == k.text
             p == [order EXCEPT !.note = text, !.rev = order.rev + 1]
  <2>1. Effect(k) = p /\ text \in Text \cup {NoText}
    BY <1>7 DEF Effect, Request
  <2> HIDE DEF text
  <2>2. Row(p) /\ p.rev = order.rev + 1
    BY <2>1, NotedIsARow
  <2> HIDE DEF p
  <2> QED BY <1>0, <2>1, <2>2
<1>8. CASE k.what = "none"
  BY <1>0, <1>8 DEF Effect
<1> QED BY <1>2, <1>3, <1>4, <1>5, <1>6, <1>7, <1>8 DEF Request

(* The order stands as it did for the page: what is turned down has a      *)
(* cause.                                                                  *)
LEMMA OfferedIsHonoured ==
  ASSUME Row(order), NEW k, NEW rev, Request(k, page.role, rev), k.kind = "act", AsItWas(k), ~HasACause(k)
  PROVE  ~Refused(k)
<1>1. /\ Detail.status = order.status
      /\ Detail.reopen <=> order.status = "CANCELLED" /\ order.rejected /\ ~Packing
      /\ Detail.duplicate <=> order.claimed /\ ~Packing
  BY DEF Detail
<1>2. k.from.status = order.status /\ k.from.reopen = Detail.reopen /\ k.from.duplicate = Detail.duplicate
  BY <1>1 DEF AsItWas
<1>3. /\ k.from.allowed = Offered(order.status, page.role)
      /\ page.role = "FULFILLMENT" => order.status \in PackersStatuses
      /\ Offers(k.from, k.what, k.to)
  BY <1>2 DEF Request, Reading
<1>4. Found
  BY <1>3 DEF Found, Packing, PackersStatuses
<1>5. /\ k.fit
      /\ page.role = "STAFF" => k.what \notin {"revert", "refund"}
      /\ k.what = "reopen" => ~k.from.duplicate
  BY DEF HasACause
<1>6. CASE order.status = "PENDING" /\ k.what = "move" /\ k.to \in {"CANCELLED", "PAYMENT_CONFIRMED"}
  <2>1. ~order.claimed /\ ~Packing
    BY <1>3, <1>6 DEF Row, Packing, PackersStatuses
  <2>2. canTransition(order.status, k.to)
    BY <1>6 DEF canTransition, ORDER_STATUS_TRANSITIONS, OrderStatus
  <2> QED BY <1>4, <1>5, <1>6, <2>1, <2>2 DEF Refused, Barred, RoleMay, MayTransition
<1>7. CASE order.status = "PENDING" /\ k.what = "accept"
  <2>1. ~order.claimed /\ ~Packing
    BY <1>3, <1>7 DEF Row, Packing, PackersStatuses
  <2>2. canTransition(order.status, "PAYMENT_CONFIRMED")
    BY <1>7 DEF canTransition, ORDER_STATUS_TRANSITIONS, OrderStatus
  <2> QED BY <1>4, <1>5, <1>7, <2>1, <2>2 DEF Refused, Barred, RoleMay, ConfirmIsRefused
<1>8. CASE order.status \notin {"PENDING", "CANCELLED", "REFUNDED"} /\ k.what = "move"
           /\ k.to \in k.from.allowed \ {"REFUNDED", "PENDING"}
  <2>1. ~order.claimed
    BY <1>8 DEF Row
  <2>2. canTransition(order.status, k.to)
    BY <1>3, <1>8 DEF Offered, canTransition
  <2>3. Packing => /\ order.status \in {"PAYMENT_CONFIRMED", "PROCESSING"}
                   /\ k.to \in FULFILLMENT_TRANSITION_TARGETS
    BY <1>3, <1>8 DEF Offered, Packing, PackersStatuses, ORDER_STATUS_TRANSITIONS, OrderStatus,
                      FULFILLMENT_TRANSITION_TARGETS
  <2> QED BY <1>4, <1>5, <1>8, <2>1, <2>2, <2>3 DEF Refused, Barred, RoleMay, MayTransition
<1>9. CASE k.what = "refund" /\ "REFUNDED" \in k.from.allowed
  <2>1. canTransition(order.status, "REFUNDED") /\ ~Packing
    BY <1>3, <1>9 DEF Offered, Packing, canTransition, FULFILLMENT_TRANSITION_TARGETS
  <2> QED BY <1>4, <1>5, <1>9, <2>1 DEF Refused, Barred, RoleMay
<1>10. CASE k.what = "revert" /\ "PENDING" \in k.from.allowed
  <2>1. canTransition(order.status, "PENDING") /\ ~Packing
    BY <1>3, <1>10 DEF Offered, Packing, canTransition, FULFILLMENT_TRANSITION_TARGETS
  <2> QED BY <1>4, <1>5, <1>10, <2>1 DEF Refused, Barred, RoleMay
<1>11. CASE k.what = "reopen" /\ k.from.reopen
  <2>1. order.status = "CANCELLED" /\ order.rejected /\ ~Packing
    BY <1>1, <1>2, <1>11
  <2>2. ~order.claimed
    BY <1>1, <1>2, <1>5, <1>11, <2>1
  <2> QED BY <1>4, <1>5, <1>11, <2>1, <2>2 DEF Refused, Barred, RoleMay
<1> QED BY <1>2, <1>3, <1>6, <1>7, <1>8, <1>9, <1>10, <1>11 DEF Offers

-----------------------------------------------------------------------------
(* The page's invariant, action by action. *)

LEMMA RequestsStand ==
  ASSUME NEW role, NEW rev \in Nat, NEW later \in Nat, rev <= later, NEW k, Request(k, role, rev)
  PROVE  Request(k, role, later)
BY DEF Request

(* One request changes, and the order perhaps. *)
LEMMA OneRequestMoves ==
  ASSUME PageInv, NEW c \in Call, NEW k, calls' = [calls EXCEPT ![c] = k],
         Row(order'), order.rev <= order'.rev, Screen(page'), page'.role = page.role,
         Request(k, page.role, order'.rev), OneAction'
  PROVE  PageInv'
<1>1. calls' = [d \in Call |-> calls'[d]] /\ calls'[c] = k
      /\ \A d \in Call : d # c => calls'[d] = calls[d]
  BY DEF PageInv
<1>2. order.rev \in Nat /\ order'.rev \in Nat
  BY DEF PageInv, Row
<1>3. ASSUME NEW d \in Call PROVE Request(calls'[d], page'.role, order'.rev)
  <2>1. CASE d = c
    BY <1>1, <2>1
  <2>2. CASE d # c
    <3> DEFINE x == calls[d]
               was == order.rev
               now == order'.rev
    <3>1. Request(x, page.role, was) /\ was \in Nat /\ now \in Nat /\ was <= now
      BY <1>2 DEF PageInv
    <3> HIDE DEF x, was, now
    <3>2. Request(x, page.role, now)
      BY <3>1, RequestsStand
    <3> QED BY <1>1, <2>2, <3>2 DEF x, now
  <2> QED BY <2>1, <2>2
<1> QED BY <1>1, <1>3 DEF PageInv

(* The press that takes the buttons, and the request that asks nothing of  *)
(* them.                                                                   *)
LEMMA ActionTaken ==
  ASSUME PageInv, ~page.busy, NEW c \in Call, NEW k, calls' = [calls EXCEPT ![c] = k],
         k.kind = "act", page'.busy = TRUE
  PROVE  OneAction'
<1>1. calls'[c] = k /\ \A d \in Call : d # c => calls'[d] = calls[d]
  BY DEF PageInv
<1>2. \A d \in Call : calls[d].kind # "act"
  BY DEF PageInv, OneAction
<1> QED BY <1>1, <1>2 DEF OneAction

LEMMA ActionStays ==
  ASSUME PageInv, NEW c \in Call, NEW k, calls' = [calls EXCEPT ![c] = k],
         k.kind = "act" <=> calls[c].kind = "act", page'.busy = page.busy
  PROVE  OneAction'
<1>1. calls'[c] = k /\ \A d \in Call : d # c => calls'[d] = calls[d]
  BY DEF PageInv
<1>2. \A d \in Call : calls'[d].kind = "act" <=> calls[d].kind = "act"
  BY <1>1
<1> QED BY <1>2 DEF PageInv, OneAction

(* What is sent is a request, whoever sends it. *)
LEMMA ActIsARequest ==
  ASSUME NEW what \in {"accept", "move", "refund", "revert", "reopen"}, NEW to, NEW fit \in BOOLEAN,
         what = "move" => to \in OrderStatus, NEW role, NEW rev,
         Reading(page.view, role), Offers(page.view, what, to)
  PROVE  LET k == Act(what, to, fit) IN Request(k, role, rev) /\ k.kind = "act" /\ k.stage = "sent"
<1> DEFINE k == Act(what, to, fit)
<1>1. /\ DOMAIN k = {"kind", "what", "to", "text", "fit", "stage", "ok", "from", "body", "made"}
      /\ k.kind = "act" /\ k.what = what /\ k.to = to /\ k.text = NoText /\ k.stage = "sent"
      /\ k.from = page.view /\ k.body = Nothing
  BY DEF Act, NoCall
<1> HIDE DEF k
<1>2. Request(k, role, rev) /\ k.kind = "act" /\ k.stage = "sent"
  BY <1>1 DEF Request
<1> QED BY <1>2 DEF k

NoteCall(text) == [NoCall EXCEPT !.kind = "note", !.stage = "sent", !.what = "note", !.text = text]

LEMMA NoteIsARequest ==
  ASSUME NEW text \in Text \cup {NoText}, NEW role, NEW rev
  PROVE  LET k == NoteCall(text) IN Request(k, role, rev) /\ k.kind = "note" /\ k.stage = "sent"
<1> DEFINE k == NoteCall(text)
<1>1. /\ DOMAIN k = {"kind", "what", "to", "text", "fit", "stage", "ok", "from", "body", "made"}
      /\ k.kind = "note" /\ k.what = "note" /\ k.text = text /\ k.stage = "sent" /\ k.body = Nothing
  BY DEF NoteCall, NoCall
<1> HIDE DEF k
<1>2. Request(k, role, rev) /\ k.kind = "note" /\ k.stage = "sent"
  BY <1>1 DEF Request
<1> QED BY <1>2 DEF k

LEMMA SendKeepsThePage ==
  ASSUME PageInv, UNCHANGED order, NEW k, Send(k), Request(k, page.role, order.rev),
         \/ k.kind = "act" /\ ~page.busy /\ page' = [page EXCEPT !.busy = TRUE]
         \/ k.kind = "note" /\ UNCHANGED page
  PROVE  PageInv'
<1>2. PICK c \in Call : calls[c].kind = "none" /\ calls' = [calls EXCEPT ![c] = k]
  BY DEF Send
<1>3. Row(order') /\ order.rev <= order'.rev /\ order'.rev = order.rev
  BY DEF PageInv, Row
<1>4. /\ DOMAIN page' = DOMAIN page /\ page'.role = page.role /\ page'.view = page.view
      /\ page'.open = page.open /\ page'.typed = page.typed
      /\ k.kind = "act" => page'.busy = TRUE
      /\ k.kind = "note" => page'.busy = page.busy
  BY DEF PageInv, Screen
<1>5. Screen(page')
  BY <1>4 DEF PageInv, Screen
<1>6. OneAction'
  <2>1. CASE k.kind = "act"
    BY <1>2, <1>4, <2>1, ActionTaken
  <2>2. CASE k.kind = "note"
    BY <1>2, <1>4, <2>2, ActionStays
  <2> QED BY <2>1, <2>2
<1>7. Request(k, page.role, order'.rev)
  BY <1>3
<1> QED BY <1>2, <1>3, <1>4, <1>5, <1>6, <1>7, OneRequestMoves

LEMMA PageInitially == OrderPageInit => PageInv
<1> SUFFICES ASSUME OrderPageInit PROVE PageInv
  OBVIOUS
<1>1. Row(order)
  <2>1. /\ DOMAIN order = {"status", "manual", "paid", "rejected", "claimed", "note", "rev"}
        /\ order.status \in {"PENDING", "PAYMENT_CONFIRMED"} /\ order.claimed = FALSE
        /\ order.note = NoText /\ order.rev = 0
    BY DEF OrderPageInit
  <2> QED BY <2>1 DEF Row, OrderStatus
<1>2. Screen(page) /\ page.busy = FALSE
  BY DEF OrderPageInit, Screen
<1>3. calls = [c \in Call |-> calls[c]]
  BY DEF OrderPageInit
<1>4. ASSUME NEW c \in Call PROVE Request(calls[c], page.role, order.rev) /\ calls[c].kind # "act"
  <2> DEFINE k == [NoCall EXCEPT !.kind = "load", !.stage = "sent"]
  <2>1. calls[c] = k \/ calls[c] = NoCall
    BY DEF OrderPageInit
  <2>2. /\ DOMAIN k = DOMAIN NoCall /\ k.kind = "load" /\ k.what = "none" /\ k.text = NoText
        /\ k.stage = "sent" /\ k.body = Nothing
    BY DEF NoCall
  <2>3. /\ DOMAIN NoCall = {"kind", "what", "to", "text", "fit", "stage", "ok", "from", "body", "made"}
        /\ NoCall.kind = "none" /\ NoCall.what = "none" /\ NoCall.text = NoText /\ NoCall.stage = "none"
    BY DEF NoCall
  <2> HIDE DEF k
  <2> QED BY <2>1, <2>2, <2>3 DEF Request
<1>5. OneAction
  BY <1>2, <1>4 DEF OneAction
<1> QED BY <1>1, <1>2, <1>3, <1>4, <1>5 DEF PageInv

LEMMA PressKeepsThePage ==
  ASSUME PageInv, NEW what \in {"accept", "move", "refund"}, NEW to \in OrderStatus \cup {"NONE"},
         Press(what, to)
  PROVE  PageInv'
<1>1. Loaded /\ ~page.busy /\ Button(what, to) /\ page' = [page EXCEPT !.busy = TRUE] /\ UNCHANGED order
  BY DEF Press, Pressable
<1>2. Reading(page.view, page.role)
  BY <1>1 DEF Loaded, PageInv, Screen
<1>3. Offers(page.view, what, to) /\ (what = "move" => to \in OrderStatus)
  BY <1>1, <1>2 DEF Button, Offers, otherTransitions, OrderStatus, Reading
<1>4. PICK fit \in BOOLEAN : Send(Act(what, to, fit))
  BY DEF Press
<1> DEFINE k == Act(what, to, fit)
           rev == order.rev
<1> HIDE DEF rev
<1>5. Request(k, page.role, rev) /\ k.kind = "act"
  BY <1>2, <1>3, ActIsARequest
<1> HIDE DEF k
<1>6. Send(k)
  BY <1>4 DEF k
<1> QED BY <1>1, <1>5, <1>6, SendKeepsThePage DEF rev

LEMMA SubmitKeepsThePage ==
  ASSUME PageInv, NEW form \in Form, SubmitReason(form)
  PROVE  PageInv'
<1>1. Loaded /\ ~page.busy /\ Shows(form) /\ page' = [page EXCEPT !.busy = TRUE] /\ UNCHANGED order
  BY DEF SubmitReason, Pressable
<1>2. Offers(page.view, form, "NONE") /\ form # "move"
  BY <1>1 DEF Shows, Offers, Form
<1>3. form \in {"accept", "move", "refund", "revert", "reopen"} /\ Reading(page.view, page.role)
  BY <1>1 DEF Form, Loaded, PageInv, Screen
<1>4. PICK fit \in BOOLEAN : Send(Act(form, "NONE", fit))
  BY DEF SubmitReason
<1> DEFINE k == Act(form, "NONE", fit)
           rev == order.rev
<1> HIDE DEF rev
<1>5. Request(k, page.role, rev) /\ k.kind = "act"
  BY <1>2, <1>3, ActIsARequest
<1> HIDE DEF k
<1>6. Send(k)
  BY <1>4 DEF k
<1> QED BY <1>1, <1>5, <1>6, SendKeepsThePage DEF rev

LEMMA NoteKeepsThePage == ASSUME PageInv, SaveNote PROVE PageInv'
<1>1. PICK text \in Text \cup {NoText} : Send(NoteCall(text))
  BY DEF SaveNote, NoteCall
<1>2. UNCHANGED <<order, page>>
  BY DEF SaveNote
<1> DEFINE k == NoteCall(text)
           rev == order.rev
<1> HIDE DEF rev
<1>3. Request(k, page.role, rev) /\ k.kind = "note"
  BY NoteIsARequest
<1> HIDE DEF k
<1>4. Send(k)
  BY <1>1 DEF k
<1> QED BY <1>2, <1>3, <1>4, SendKeepsThePage DEF rev

(* The forms are the page's own affair. *)
LEMMA FormsKeepThePage ==
  ASSUME PageInv, NEW form \in Form, OpenForm(form) \/ TypeReason(form) \/ CloseForm(form)
  PROVE  PageInv'
<1>1. UNCHANGED <<order, calls>>
  BY DEF OpenForm, TypeReason, CloseForm
<1>2. /\ DOMAIN page' = DOMAIN page /\ page'.role = page.role /\ page'.view = page.view
      /\ page'.busy = page.busy
  BY DEF OpenForm, TypeReason, CloseForm, Cleared, PageInv, Screen
<1>3. page'.typed \subseteq page'.open /\ page'.open \subseteq Form
  BY DEF OpenForm, TypeReason, CloseForm, Cleared, PageInv, Screen
<1>4. Screen(page')
  BY <1>2, <1>3 DEF PageInv, Screen
<1>5. OneAction'
  BY <1>1, <1>2 DEF PageInv, OneAction
<1> QED BY <1>1, <1>2, <1>4, <1>5 DEF PageInv

LEMMA AnswerIsARequest ==
  ASSUME NEW c \in Call, NEW role, NEW rev, NEW later, Request(calls[c], role, rev),
         NEW ok \in BOOLEAN, NEW body,
         ok => Reading(body, role) /\ (calls[c].kind = "act" => calls[c].made <= body.rev)
  PROVE  Request(Answer(c, ok, body), role, later) /\ Answer(c, ok, body).kind = calls[c].kind
<1> DEFINE k == Answer(c, ok, body)
<1>1. /\ DOMAIN k = DOMAIN calls[c] /\ k.kind = calls[c].kind /\ k.what = calls[c].what
      /\ k.to = calls[c].to /\ k.text = calls[c].text /\ k.stage = "answered"
      /\ k.from = calls[c].from /\ k.body = body /\ k.made = calls[c].made
  BY DEF Answer, Request
<1>2. k.ok => ok
  BY DEF Answer, Request
<1> HIDE DEF k
<1>3. Request(k, role, later)
  BY <1>1, <1>2 DEF Request
<1> QED BY <1>1, <1>3 DEF k

LEMMA ServeKeepsThePage ==
  ASSUME PageInv, NEW c \in Call, Serve(c)
  PROVE  PageInv'
<1> DEFINE k == calls[c]
<1>0. /\ Row(order) /\ order.rev \in Nat /\ Request(k, page.role, order.rev) /\ k.stage = "sent"
      /\ UNCHANGED page /\ Screen(page') /\ page'.role = page.role /\ page'.busy = page.busy
  BY DEF PageInv, Serve, Row
<1>1. ASSUME ~Refused(k) \/ (k.what = "accept" /\ ~Barred(k))
      PROVE  Row(Effect(k)) /\ Effect(k).rev \in Nat /\ order.rev <= Effect(k).rev
  <2> DEFINE x == calls[c]
             rev == order.rev
  <2>1. Row(order) /\ Request(x, page.role, rev) /\ (~Refused(x) \/ (x.what = "accept" /\ ~Barred(x)))
    BY <1>0, <1>1
  <2> HIDE DEF x, rev
  <2>2. Row(Effect(x)) /\ Effect(x).rev \in Nat /\ order.rev <= Effect(x).rev
    BY <2>1, EffectIsARow
  <2> QED BY <2>2 DEF x
<1>2. CASE ~Refused(k) /\ order' = Effect(k) /\ calls' = [calls EXCEPT ![c] = Reply(c)]
  <2>1. /\ DOMAIN Reply(c) = DOMAIN k /\ Reply(c).kind = k.kind /\ Reply(c).what = k.what
        /\ Reply(c).to = k.to /\ Reply(c).text = k.text /\ Reply(c).stage = "served"
        /\ Reply(c).from = k.from /\ Reply(c).body = k.body /\ Reply(c).made = Effect(k).rev
    BY <1>0 DEF Reply, Request
  <2> DEFINE n == Reply(c)
             e == Effect(k)
  <2> HIDE DEF n, e
  <2>2. e.rev \in Nat /\ e.rev <= e.rev
    BY <1>1, <1>2 DEF e
  <2>3. Request(n, page.role, e.rev)
    BY <1>0, <2>1, <2>2 DEF Request, n, e
  <2>4. OneAction'
    BY <1>0, <1>2, <2>1, ActionStays
  <2> QED BY <1>0, <1>1, <1>2, <2>3, <2>4, OneRequestMoves DEF n, e
<1>3. CASE /\ calls' = [calls EXCEPT ![c] = Answer(c, FALSE, Nothing)]
           /\ order' = order \/ (k.what = "accept" /\ ~Barred(k) /\ order' = Effect(k))
  <2>1. Row(order') /\ order.rev <= order'.rev
    BY <1>0, <1>1, <1>3
  <2>2. Request(Answer(c, FALSE, Nothing), page.role, order'.rev) /\ Answer(c, FALSE, Nothing).kind = k.kind
    <3> DEFINE role == page.role
               rev == order.rev
               later == order'.rev
    <3>1. Request(calls[c], role, rev)
      BY <1>0
    <3> HIDE DEF role, rev, later
    <3>2. Request(Answer(c, FALSE, Nothing), role, later) /\ Answer(c, FALSE, Nothing).kind = calls[c].kind
      BY <3>1, AnswerIsARequest
    <3> QED BY <3>2 DEF role, later
  <2>3. OneAction'
    BY <1>0, <1>3, <2>2, ActionStays
  <2> QED BY <1>0, <1>3, <2>1, <2>2, <2>3, OneRequestMoves
<1> QED BY <1>2, <1>3 DEF Serve, Kept

LEMMA AnsweringKeepsThePage ==
  ASSUME PageInv, NEW c \in Call, ReadBack(c) \/ Lose(c)
  PROVE  PageInv'
<1>0. /\ Row(order) /\ order.rev \in Nat /\ Request(calls[c], page.role, order.rev)
      /\ UNCHANGED <<order, page>> /\ Screen(page') /\ page'.role = page.role /\ page'.busy = page.busy
  BY DEF PageInv, ReadBack, Lose, Row
<1>1. ASSUME NEW ok \in BOOLEAN, NEW body, calls' = [calls EXCEPT ![c] = Answer(c, ok, body)],
             ok => Reading(body, page.role) /\ (calls[c].kind = "act" => calls[c].made <= body.rev)
      PROVE  PageInv'
  <2>1. Request(Answer(c, ok, body), page.role, order'.rev) /\ Answer(c, ok, body).kind = calls[c].kind
    <3> DEFINE role == page.role
               rev == order.rev
               later == order'.rev
    <3>1. Request(calls[c], role, rev)
      BY <1>0
    <3>2. ok => Reading(body, role) /\ (calls[c].kind = "act" => calls[c].made <= body.rev)
      BY <1>1
    <3> HIDE DEF role, rev, later
    <3>3. Request(Answer(c, ok, body), role, later) /\ Answer(c, ok, body).kind = calls[c].kind
      BY <3>1, <3>2, AnswerIsARequest
    <3> QED BY <3>3 DEF role, later
  <2>2. OneAction'
    BY <1>0, <1>1, <2>1, ActionStays
  <2>3. Row(order') /\ order.rev <= order'.rev
    BY <1>0
  <2> QED BY <1>0, <1>1, <2>1, <2>2, <2>3, OneRequestMoves
<1>2. CASE calls' = [calls EXCEPT ![c] = Answer(c, FALSE, Nothing)]
  BY <1>1, <1>2
<1>3. CASE ReadBack(c) /\ Found
  <2>1. calls[c].stage = "served" /\ calls[c].body = Nothing /\ calls[c].made <= order.rev
    BY <1>0, <1>3 DEF ReadBack, Request
  <2>2. calls' = [calls EXCEPT ![c] = Answer(c, TRUE, Detail)]
    BY <1>3, <2>1 DEF ReadBack
  <2>3. Reading(Detail, page.role) /\ Detail.rev = order.rev
    BY <1>0, <1>3, DetailIsAReading
  <2> QED BY <1>1, <2>1, <2>2, <2>3
<1> QED BY <1>2, <1>3 DEF ReadBack, Lose

(* What an answer does to the page. *)
LEMMA AfterAnAnswer ==
  ASSUME Screen(page), NEW c
  PROVE  LET p == After(c) IN
         /\ DOMAIN p = DOMAIN page /\ p.role = page.role
         /\ p.view = IF c.ok THEN c.body ELSE page.view
         /\ p.busy = IF c.kind = "act" THEN FALSE ELSE page.busy
         /\ p.open = IF c.kind = "act" /\ c.what \in Form /\ c.ok THEN page.open \ {c.what} ELSE page.open
         /\ p.typed = IF c.kind = "act" /\ c.what \in Form /\ c.ok THEN page.typed \ {c.what} ELSE page.typed
<1> DEFINE told == IF c.ok THEN [page EXCEPT !.view = c.body] ELSE page
           free == Settled(told, c)
           p == After(c)
<1>1. /\ DOMAIN told = {"role", "view", "busy", "open", "typed"} /\ DOMAIN page = DOMAIN told
      /\ told.role = page.role /\ told.busy = page.busy /\ told.open = page.open
      /\ told.typed = page.typed /\ told.view = IF c.ok THEN c.body ELSE page.view
  BY DEF Screen
<1>2. p = IF c.kind = "act" THEN FormAfter(free, c) ELSE told
  BY DEF After
<1> HIDE DEF told, p
<1>3. /\ DOMAIN free = {"role", "view", "busy", "open", "typed"} /\ free.role = told.role
      /\ free.view = told.view /\ free.busy = FALSE /\ free.open = told.open /\ free.typed = told.typed
  BY <1>1 DEF Settled
<1> HIDE DEF free
<1>4. CASE c.kind = "act" /\ c.what \in Form /\ c.ok
  <2>1. p = [free EXCEPT !.open = free.open \ {c.what}, !.typed = free.typed \ {c.what}]
    BY <1>2, <1>4 DEF FormAfter, Cleared
  <2>2. /\ DOMAIN p = DOMAIN free /\ p.role = free.role /\ p.view = free.view /\ p.busy = free.busy
        /\ p.open = free.open \ {c.what} /\ p.typed = free.typed \ {c.what}
    BY <1>3, <2>1
  <2> QED BY <1>1, <1>3, <1>4, <2>2 DEF p
<1>5. CASE c.kind = "act" /\ ~(c.what \in Form /\ c.ok)
  <2>1. p = free
    BY <1>2, <1>5 DEF FormAfter
  <2> QED BY <1>1, <1>3, <1>5, <2>1 DEF p
<1>6. CASE c.kind # "act"
  <2>1. p = told
    BY <1>2, <1>6
  <2> QED BY <1>1, <1>6, <2>1 DEF p
<1> QED BY <1>4, <1>5, <1>6

LEMMA ArriveKeepsThePage ==
  ASSUME PageInv, NEW c \in Call, Arrive(c)
  PROVE  PageInv'
<1> DEFINE k == calls[c]
<1>0. /\ k.stage = "answered" /\ page' = After(k) /\ calls' = [calls EXCEPT ![c] = NoCall] /\ order' = order
      /\ Screen(page) /\ Row(order) /\ order.rev \in Nat /\ Request(k, page.role, order.rev)
  BY DEF Arrive, PageInv, Row
<1>1. /\ DOMAIN page' = DOMAIN page /\ page'.role = page.role
      /\ page'.view = IF k.ok THEN k.body ELSE page.view
      /\ page'.busy = IF k.kind = "act" THEN FALSE ELSE page.busy
      /\ page'.open = IF k.kind = "act" /\ k.what \in Form /\ k.ok THEN page.open \ {k.what} ELSE page.open
      /\ page'.typed = IF k.kind = "act" /\ k.what \in Form /\ k.ok THEN page.typed \ {k.what} ELSE page.typed
  BY <1>0, AfterAnAnswer
<1>2. Screen(page')
  BY <1>0, <1>1 DEF Screen, Request
<1>3. /\ DOMAIN NoCall = {"kind", "what", "to", "text", "fit", "stage", "ok", "from", "body", "made"}
      /\ NoCall.kind = "none" /\ NoCall.what = "none" /\ NoCall.text = NoText /\ NoCall.stage = "none"
  BY DEF NoCall
<1>4. Request(NoCall, page.role, order'.rev)
  BY <1>3 DEF Request
<1>5. OneAction'
  <2>1. calls'[c] = NoCall /\ \A d \in Call : d # c => calls'[d] = calls[d]
    BY <1>0 DEF PageInv
  <2>2. CASE k.kind = "act"
    <3>1. \A d \in Call : d # c => calls[d].kind # "act"
      BY <2>2 DEF PageInv, OneAction
    <3>2. page'.busy = FALSE
      BY <1>1, <2>2
    <3> QED BY <1>3, <2>1, <3>1, <3>2 DEF OneAction
  <2>3. CASE k.kind # "act"
    BY <1>0, <1>1, <1>3, <2>3, ActionStays
  <2> QED BY <2>2, <2>3
<1>6. Row(order') /\ order.rev <= order'.rev
  BY <1>0
<1> QED BY <1>0, <1>1, <1>2, <1>4, <1>5, <1>6, OneRequestMoves

LEMMA ElsewhereKeepsThePage == ASSUME PageInv, Elsewhere PROVE PageInv'
<1>0. UNCHANGED <<page, calls>> /\ Row(order) /\ order.rev \in Nat
  BY DEF Elsewhere, PageInv, Row
<1>1. Row(order') /\ order'.rev \in Nat /\ order.rev <= order'.rev
  <2>1. ASSUME NEW to \in OrderStatus, NEW byStaff \in BOOLEAN, NEW value, ~order.claimed,
               order' = [MovedTo(to, byStaff) EXCEPT !.paid = value]
        PROVE  Row(order') /\ order'.rev = order.rev + 1
    <3> DEFINE m == MovedTo(to, byStaff)
    <3>1. Row(m) /\ m.rev = order.rev + 1
      BY <1>0, <2>1, MovedIsARow
    <3> HIDE DEF m
    <3>2. Row([m EXCEPT !.paid = value]) /\ [m EXCEPT !.paid = value].rev = m.rev
      BY <3>1, PaidIsARow
    <3> QED BY <2>1, <3>1, <3>2 DEF m
  <2>2. ASSUME NEW text \in Text, order' = [order EXCEPT !.note = text, !.rev = order.rev + 1]
        PROVE  Row(order') /\ order'.rev = order.rev + 1
    BY <1>0, <2>2, NotedIsARow
  <2>3. ASSUME order.status \in {"CANCELLED", "REFUNDED"}, NEW value, order' = [order EXCEPT !.claimed = value]
        PROVE  Row(order') /\ order'.rev = order.rev
    <3>1. /\ DOMAIN order' = DOMAIN order /\ order'.status = order.status /\ order'.note = order.note
          /\ order'.rev = order.rev
      BY <2>3 DEF Row
    <3> QED BY <1>0, <2>3, <3>1 DEF Row
  <2>4. ASSUME NEW to \in OrderStatus, canTransition(order.status, to) \/ ~order.claimed PROVE ~order.claimed
    BY <1>0, <2>4, OverIsOver DEF Row
  <2>5. Row(order') /\ (order'.rev = order.rev + 1 \/ order'.rev = order.rev)
    BY <2>1, <2>2, <2>3, <2>4 DEF Elsewhere
  <2> QED BY <1>0, <2>5
<1>2. Screen(page') /\ page'.role = page.role /\ OneAction'
  BY <1>0 DEF PageInv, OneAction
<1>3. ASSUME NEW d \in Call PROVE Request(calls'[d], page'.role, order'.rev)
  <2> DEFINE x == calls[d]
             was == order.rev
             now == order'.rev
  <2>1. Request(x, page.role, was) /\ was \in Nat /\ now \in Nat /\ was <= now
    BY <1>0, <1>1 DEF PageInv
  <2> HIDE DEF x, was, now
  <2>2. Request(x, page.role, now)
    BY <2>1, RequestsStand
  <2> QED BY <1>0, <2>2 DEF x, now
<1>4. calls' = [d \in Call |-> calls'[d]]
  BY <1>0 DEF PageInv
<1> QED BY <1>1, <1>2, <1>3, <1>4 DEF PageInv

LEMMA PageNext == PageInv /\ [OrderPageNext]_pageVars => PageInv'
<1> SUFFICES ASSUME PageInv, [OrderPageNext]_pageVars PROVE PageInv'
  OBVIOUS
<1>1. ASSUME NEW what \in {"accept", "move", "refund"}, NEW to \in OrderStatus \cup {"NONE"}, Press(what, to)
      PROVE  PageInv'
  BY <1>1, PressKeepsThePage
<1>2. ASSUME NEW form \in Form,
             OpenForm(form) \/ TypeReason(form) \/ CloseForm(form) \/ SubmitReason(form)
      PROVE  PageInv'
  BY <1>2, FormsKeepThePage, SubmitKeepsThePage
<1>3. ASSUME SaveNote PROVE PageInv'
  BY <1>3, NoteKeepsThePage
<1>4. ASSUME NEW c \in Call, Serve(c) \/ ReadBack(c) \/ Lose(c) \/ Arrive(c) PROVE PageInv'
  BY <1>4, ServeKeepsThePage, AnsweringKeepsThePage, ArriveKeepsThePage
<1>5. ASSUME Elsewhere PROVE PageInv'
  BY <1>5, ElsewhereKeepsThePage
<1>6. CASE UNCHANGED pageVars
  BY <1>6 DEF PageInv, OneAction, pageVars
<1> QED BY <1>1, <1>2, <1>3, <1>4, <1>5, <1>6 DEF OrderPageNext

-----------------------------------------------------------------------------
(* What follows for the page. *)

LEMMA PageIsTyped == PageInv => OrderPageTypeOK
BY DEF PageInv, Row, Screen, OneAction, Request, Reading, OrderPageTypeOK

LEMMA ButtonsAreHonoured ==
  ASSUME PageInv, NEW c \in Call, calls[c].kind = "act", AsItWas(calls[c]), ~HasACause(calls[c])
  PROVE  ~Refused(calls[c])
<1> DEFINE k == calls[c]
           rev == order.rev
<1>1. Row(order) /\ Request(k, page.role, rev) /\ k.kind = "act" /\ AsItWas(k) /\ ~HasACause(k)
  BY DEF PageInv
<1> HIDE DEF k, rev
<1>2. ~Refused(k)
  BY <1>1, OfferedIsHonoured
<1> QED BY <1>2 DEF k

(* An answer leaves its slot only by arriving. *)
LEMMA OnlyArrivalEmpties ==
  ASSUME PageInv, OrderPageNext, NEW c \in Call, calls[c].kind = "act", calls'[c] = NoCall
  PROVE  Arrive(c)
<1>0. NoCall.kind = "none" /\ NoCall.stage = "none"
  BY DEF NoCall
<1>1. ASSUME NEW d \in Call, NEW k, calls' = [calls EXCEPT ![d] = k], d = c => k # NoCall PROVE FALSE
  <2>1. calls'[c] = IF c = d THEN k ELSE calls[c]
    BY <1>1 DEF PageInv
  <2> QED BY <1>0, <1>1, <2>1
<1>2. calls' # calls
  BY <1>0
<1>3. ASSUME NEW k, k.stage = "sent", Send(k) PROVE FALSE
  <2>1. PICK d \in Call : calls[d].kind = "none" /\ calls' = [calls EXCEPT ![d] = k]
    BY <1>3 DEF Send
  <2> QED BY <1>0, <1>1, <1>3, <2>1
<1>10. ASSUME NEW what, NEW to, NEW fit PROVE Act(what, to, fit).stage = "sent"
  BY DEF Act, NoCall
<1>4. ASSUME NEW what \in {"accept", "move", "refund"}, NEW to \in OrderStatus \cup {"NONE"}, Press(what, to)
      PROVE  FALSE
  BY <1>3, <1>4, <1>10 DEF Press
<1>5. ASSUME NEW form \in Form,
             OpenForm(form) \/ TypeReason(form) \/ CloseForm(form) \/ SubmitReason(form)
      PROVE  FALSE
  <2>1. CASE SubmitReason(form)
    BY <1>3, <1>10, <2>1 DEF SubmitReason
  <2> QED BY <1>2, <1>5, <2>1 DEF OpenForm, TypeReason, CloseForm
<1>6. ASSUME SaveNote PROVE FALSE
  <2>1. PICK text \in Text \cup {NoText} : Send(NoteCall(text))
    BY <1>6 DEF SaveNote, NoteCall
  <2>2. NoteCall(text).stage = "sent"
    BY DEF NoteCall, NoCall
  <2> QED BY <1>3, <2>1, <2>2
<1>7. ASSUME NEW d \in Call, Serve(d) \/ ReadBack(d) \/ Lose(d) PROVE FALSE
  <2>1. Request(calls[d], page.role, order.rev)
    BY DEF PageInv
  <2>2. ASSUME NEW ok \in BOOLEAN, NEW body PROVE Answer(d, ok, body) # NoCall
    <3>1. Answer(d, ok, body).stage = "answered"
      BY <2>1 DEF Answer, Request
    <3> QED BY <1>0, <3>1
  <2>3. Reply(d) # NoCall
    <3>1. Reply(d).stage = "served"
      BY <2>1 DEF Reply, Request
    <3> QED BY <1>0, <3>1
  <2>4. \/ calls' = [calls EXCEPT ![d] = Reply(d)]
        \/ \E ok \in BOOLEAN, body \in {Nothing, Detail, calls[d].body} : calls' = [calls EXCEPT ![d] = Answer(d, ok, body)]
    BY <1>7 DEF Serve, ReadBack, Lose
  <2>5. CASE calls' = [calls EXCEPT ![d] = Reply(d)]
    BY <1>1, <2>3, <2>5
  <2>6. ASSUME NEW ok \in BOOLEAN, NEW body, calls' = [calls EXCEPT ![d] = Answer(d, ok, body)] PROVE FALSE
    BY <1>1, <2>2, <2>6
  <2> QED BY <2>4, <2>5, <2>6
<1>8. ASSUME Elsewhere PROVE FALSE
  BY <1>2, <1>8 DEF Elsewhere
<1>9. ASSUME NEW d \in Call, Arrive(d) PROVE Arrive(c)
  <2>1. calls'[c] = IF c = d THEN NoCall ELSE calls[c]
    BY <1>9 DEF Arrive, PageInv
  <2> QED BY <1>0, <1>9, <2>1
<1> QED BY <1>4, <1>5, <1>6, <1>7, <1>8, <1>9 DEF OrderPageNext

LEMMA AnswersAreShown ==
  ASSUME PageInv, OrderPageNext, NEW c \in Call,
         calls[c].kind = "act", calls[c].stage = "answered", calls[c].ok, calls'[c] = NoCall
  PROVE  page'.view.rev >= calls[c].made
<1>1. Arrive(c)
  BY OnlyArrivalEmpties
<1>2. page' = After(calls[c])
  BY <1>1 DEF Arrive
<1>3. page'.view = calls[c].body
  BY <1>2, AfterAnAnswer DEF PageInv
<1>4. calls[c].made <= calls[c].body.rev
  BY DEF PageInv, Request
<1> QED BY <1>3, <1>4

LEMMA ReasonsWait ==
  ASSUME PageInv, OrderPageNext, NEW form \in page.typed \ page'.typed, calls' # calls
  PROVE  \E c \in Call : calls[c].kind = "act" /\ calls[c].ok /\ calls[c].what = form /\ calls'[c] = NoCall
<1>1. ASSUME NEW what \in {"accept", "move", "refund"}, NEW to \in OrderStatus \cup {"NONE"}, Press(what, to)
      PROVE  FALSE
  BY <1>1 DEF Press, PageInv, Screen
<1>2. ASSUME NEW f \in Form, OpenForm(f) \/ TypeReason(f) \/ CloseForm(f) \/ SubmitReason(f) PROVE FALSE
  BY <1>2 DEF OpenForm, TypeReason, CloseForm, SubmitReason, PageInv, Screen
<1>3. ~SaveNote /\ ~Elsewhere
  BY DEF SaveNote, Elsewhere
<1>4. ASSUME NEW c \in Call, Serve(c) \/ ReadBack(c) \/ Lose(c) PROVE FALSE
  BY <1>4 DEF Serve, ReadBack, Lose
<1>5. ASSUME NEW c \in Call, Arrive(c)
      PROVE  calls[c].kind = "act" /\ calls[c].ok /\ calls[c].what = form /\ calls'[c] = NoCall
  <2>1. page' = After(calls[c]) /\ calls'[c] = NoCall
    BY <1>5 DEF Arrive, PageInv
  <2>2. page'.typed = IF calls[c].kind = "act" /\ calls[c].what \in Form /\ calls[c].ok
                      THEN page.typed \ {calls[c].what} ELSE page.typed
    BY <2>1, AfterAnAnswer DEF PageInv
  <2> QED BY <2>1, <2>2
<1> QED BY <1>1, <1>2, <1>3, <1>4, <1>5 DEF OrderPageNext

-----------------------------------------------------------------------------
(* The lists: what was handed over stays handed over, whoever reports it.  *)

Gone == {"SHIPPED", "DELIVERED", "REFUNDED"}

Listing(l) ==
  /\ DOMAIN l = {"page", "packer", "tab", "filter", "items", "total", "shipped"}
  /\ l.page \in {"orders", "dispatch"}
  /\ l.tab \in Tabs(l.page) /\ l.filter \in Filters \cup {HalfTyped}
  /\ l.items \subseteq Parcel /\ l.shipped \subseteq Parcel
  /\ l.total \in 0..Cardinality(Parcel)

Reload(k) ==
  /\ DOMAIN k = {"stage", "tab", "filter", "rows"}
  /\ k.stage \in {"none", "sent", "served"}
  /\ k.stage = "none" <=> k = NoLoad
  /\ k.rows \subseteq Parcel /\ (k.stage = "sent" => k.filter \subseteq Parcel)

ListsInv ==
  /\ status \in [Parcel -> OrderStatus]
  /\ Listing(list)
  /\ loads = [l \in Load |-> loads[l]] /\ \A l \in Load : Reload(loads[l])
  /\ ticks \in [Parcel -> {"none", "sent", "judged", "committed", "done", "failed"}]
  /\ list.page = "orders" => \A o \in Parcel : ticks[o] = "none"
  /\ \A o \in Parcel : o \in list.shipped \/ ticks[o] \in {"committed", "done"} => status[o] \in Gone

-----------------------------------------------------------------------------
LEMMA CountsFit == ASSUME NEW S \in SUBSET Parcel PROVE Cardinality(S) \in 0..Cardinality(Parcel)
<1>1. IsFiniteSet(Parcel)
  BY DispatchAssumption DEF DispatchAssumption
<1>2. /\ IsFiniteSet(S) /\ Cardinality(S) <= Cardinality(Parcel)
  BY <1>1, FS_Subset
<1> QED BY <1>1, <1>2, FS_CardinalityType

LEMMA SentIsAReload ==
  ASSUME NEW tab, NEW filter \in Filters \cup {HalfTyped}
  PROVE  Reload(Sent(tab, filter))
<1> DEFINE k == Sent(tab, filter)
<1>1. /\ DOMAIN k = {"stage", "tab", "filter", "rows"} /\ k.stage = "sent" /\ k.rows = {}
      /\ k.filter \subseteq Parcel
  BY DispatchAssumption DEF Sent, DispatchAssumption
<1>2. NoLoad.stage = "none"
  BY DEF NoLoad
<1> HIDE DEF k
<1>3. Reload(k)
  BY <1>1, <1>2 DEF Reload
<1> QED BY <1>3 DEF k

LEMMA NoLoadIsAReload == Reload(NoLoad)
BY DEF NoLoad, Reload

LEMMA ListsInitially == DispatchInit => ListsInv
<1> SUFFICES ASSUME DispatchInit PROVE ListsInv
  OBVIOUS
<1>1. status \in [Parcel -> OrderStatus]
  BY DEF DispatchInit, OrderStatus
<1>2. PICK pg \in {"orders", "dispatch"}, packer \in BOOLEAN :
        /\ list = [page |-> pg, packer |-> packer, tab |-> FirstTab(pg), filter |-> Parcel,
                   items |-> {}, total |-> 0, shipped |-> {}]
        /\ loads = [l \in Load |-> IF l = CHOOSE first \in Load : TRUE
                                   THEN Sent(FirstTab(pg), Parcel) ELSE NoLoad]
  BY DEF DispatchInit
<1>3. Listing(list) /\ list.shipped = {}
  <2>1. /\ list.page = pg /\ list.tab = FirstTab(pg) /\ list.filter = Parcel /\ list.items = {}
        /\ list.total = 0 /\ list.shipped = {}
        /\ DOMAIN list = {"page", "packer", "tab", "filter", "items", "total", "shipped"}
    BY <1>2
  <2>2. FirstTab(pg) \in Tabs(pg) /\ Parcel \in Filters
    BY DispatchAssumption DEF FirstTab, Tabs, DispatchAssumption
  <2>3. 0 \in 0..Cardinality(Parcel)
    <3>1. Cardinality(Parcel) \in Nat
      BY DispatchAssumption, FS_CardinalityType DEF DispatchAssumption
    <3> QED BY <3>1
  <2> QED BY <2>1, <2>2, <2>3 DEF Listing
<1>4. ASSUME NEW l \in Load PROVE Reload(loads[l])
  <2>1. loads[l] = Sent(FirstTab(pg), Parcel) \/ loads[l] = NoLoad
    BY <1>2
  <2>2. Parcel \in Filters \cup {HalfTyped}
    BY DispatchAssumption DEF DispatchAssumption
  <2> QED BY <2>1, <2>2, SentIsAReload, NoLoadIsAReload
<1>5. loads = [l \in Load |-> loads[l]]
  BY <1>2
<1>6. ticks = [o \in Parcel |-> "none"]
  BY DEF DispatchInit
<1> QED BY <1>1, <1>3, <1>4, <1>5, <1>6 DEF ListsInv

(* One reload moves, and the list as it says. *)
LEMMA OneReloadMoves ==
  ASSUME ListsInv, NEW l \in Load, NEW k, loads' = [loads EXCEPT ![l] = k], Reload(k),
         UNCHANGED <<status, ticks>>, Listing(list'), list'.shipped \subseteq list.shipped,
         list'.page = list.page
  PROVE  ListsInv'
<1>1. \A m \in Load : Reload(loads'[m])
  BY DEF ListsInv
<1>2. loads' = [m \in Load |-> loads'[m]]
  BY DEF ListsInv
<1> QED BY <1>1, <1>2 DEF ListsInv

LEMMA StartLoadKeepsTheLists ==
  ASSUME ListsInv, UNCHANGED <<status, ticks>>, NEW tab \in Tabs(list.page),
         NEW filter \in Filters \cup {HalfTyped}, StartLoad(tab, filter)
  PROVE  ListsInv'
<1> DEFINE k == Sent(tab, filter)
<1>1. PICK l \in Load : loads' = [loads EXCEPT ![l] = k]
  BY DEF StartLoad
<1>2. Reload(k)
  BY SentIsAReload
<1>3. /\ DOMAIN list' = DOMAIN list /\ list'.page = list.page /\ list'.tab = tab /\ list'.filter = filter
      /\ list'.items = {} /\ list'.shipped = {} /\ list'.total = list.total
  BY DEF StartLoad, ListsInv, Listing
<1>4. Listing(list')
  BY <1>3 DEF ListsInv, Listing
<1> HIDE DEF k
<1> QED BY <1>1, <1>2, <1>3, <1>4, OneReloadMoves

LEMMA ChooseKeepsTheLists ==
  ASSUME ListsInv, NEW tab \in Tabs(list.page), NEW filter \in Filters \cup {HalfTyped}, Choose(tab, filter)
  PROVE  ListsInv'
<1>0. UNCHANGED <<status, ticks>>
  BY DEF Choose
<1>1. CASE StartLoad(tab, filter)
  BY <1>0, <1>1, StartLoadKeepsTheLists
<1>2. CASE list' = [list EXCEPT !.tab = tab, !.filter = filter] /\ UNCHANGED loads
  <2>1. /\ DOMAIN list' = DOMAIN list /\ list'.page = list.page /\ list'.tab = tab /\ list'.filter = filter
        /\ list'.items = list.items /\ list'.shipped = list.shipped /\ list'.total = list.total
    BY <1>2 DEF ListsInv, Listing
  <2>2. Listing(list')
    BY <2>1 DEF ListsInv, Listing
  <2> QED BY <1>0, <1>2, <2>1, <2>2 DEF ListsInv
<1> QED BY <1>1, <1>2 DEF Choose

LEMMA LoadsKeepTheLists ==
  ASSUME ListsInv, NEW l \in Load, ServeLoad(l) \/ LoadArrives(l)
  PROVE  ListsInv'
<1> DEFINE r == loads[l]
<1>0. Reload(r) /\ Listing(list) /\ UNCHANGED <<status, ticks>>
  BY DEF ListsInv, ServeLoad, LoadArrives
<1>1. CASE ServeLoad(l)
  <2> DEFINE rows == {o \in r.filter : status[o] \in TabStatuses(r.tab) /\ InScope(o)}
             k == [r EXCEPT !.stage = "served", !.rows = rows]
  <2>1. r.stage = "sent" /\ rows \subseteq Parcel /\ UNCHANGED list
    BY <1>0, <1>1 DEF ServeLoad, Reload
  <2>2. loads' = [loads EXCEPT ![l] = k]
    BY <1>1 DEF ServeLoad
  <2> HIDE DEF rows
  <2>3. DOMAIN k = DOMAIN r /\ k.stage = "served" /\ k.rows = rows
    BY <1>0 DEF Reload
  <2>4. NoLoad.stage = "none"
    BY DEF NoLoad
  <2> HIDE DEF k
  <2>5. Reload(k)
    BY <1>0, <2>1, <2>3, <2>4 DEF Reload
  <2> QED BY <1>0, <2>1, <2>2, <2>5, OneReloadMoves
<1>2. CASE LoadArrives(l)
  <2>1. loads' = [loads EXCEPT ![l] = NoLoad] /\ Reload(NoLoad)
    BY <1>2, NoLoadIsAReload DEF LoadArrives
  <2>2. CASE UNCHANGED list
    BY <1>0, <2>1, <2>2, OneReloadMoves
  <2>3. CASE list' = [list EXCEPT !.items = r.rows, !.total = Cardinality(r.rows)]
    <3>1. r.rows \subseteq Parcel /\ Cardinality(r.rows) \in 0..Cardinality(Parcel)
      BY <1>0, CountsFit DEF Reload
    <3>2. /\ DOMAIN list' = DOMAIN list /\ list'.page = list.page /\ list'.tab = list.tab
          /\ list'.filter = list.filter /\ list'.items = r.rows /\ list'.shipped = list.shipped
          /\ list'.total = Cardinality(r.rows)
      BY <1>0, <2>3 DEF Listing
    <3>3. Listing(list')
      BY <1>0, <3>1, <3>2 DEF Listing
    <3> QED BY <1>0, <2>1, <3>2, <3>3, OneReloadMoves
  <2> QED BY <1>2, <2>2, <2>3 DEF LoadArrives
<1> QED BY <1>1, <1>2

LEMMA TickKeepsTheLists == ASSUME ListsInv, NEW o \in Parcel, Tick(o) PROVE ListsInv'
<1>0. ticks' = [ticks EXCEPT ![o] = "sent"] /\ UNCHANGED <<status, list, loads>> /\ list.tab = "processing"
  BY DEF Tick, Shippable
<1>1. list.page # "orders"
  BY <1>0 DEF ListsInv, Listing, Tabs
<1> QED BY <1>0, <1>1 DEF ListsInv

(* A tick goes one stage on; the order is gone by the time it is committed. *)
LEMMA OneTickMoves ==
  ASSUME ListsInv, NEW o \in Parcel, ticks[o] # "none",
         NEW stage \in {"none", "sent", "judged", "committed", "done", "failed"},
         ticks' = [ticks EXCEPT ![o] = stage], UNCHANGED loads,
         status' = status \/ status' = [status EXCEPT ![o] = "SHIPPED"],
         stage \in {"committed", "done"} => status'[o] \in Gone,
         Listing(list'), list'.page = list.page,
         \A x \in list'.shipped \ list.shipped : x = o /\ ticks[o] = "done"
  PROVE  ListsInv'
<1>1. status' \in [Parcel -> OrderStatus] /\ ticks' \in [Parcel -> {"none", "sent", "judged", "committed", "done", "failed"}]
  BY DEF ListsInv, OrderStatus
<1>2. list'.page # "orders"
  BY DEF ListsInv
<1>3. ASSUME NEW x \in Parcel, x \in list'.shipped \/ ticks'[x] \in {"committed", "done"}
      PROVE  status'[x] \in Gone
  <2>1. CASE x = o
    <3>1. ticks'[o] = stage
      BY DEF ListsInv
    <3>2. CASE stage \in {"committed", "done"}
      BY <2>1, <3>2
    <3>3. CASE x \in list'.shipped
      <4>1. status[o] \in Gone
        BY <2>1, <3>3 DEF ListsInv
      <4> QED BY <2>1, <4>1 DEF ListsInv, Gone
    <3> QED BY <1>3, <2>1, <3>1, <3>2, <3>3
  <2>2. CASE x # o
    <3>1. status'[x] = status[x] /\ ticks'[x] = ticks[x] /\ (x \in list'.shipped => x \in list.shipped)
      BY <2>2 DEF ListsInv
    <3> QED BY <1>3, <3>1 DEF ListsInv
  <2> QED BY <2>1, <2>2
<1> QED BY <1>1, <1>2, <1>3 DEF ListsInv

LEMMA TicksKeepTheLists ==
  ASSUME ListsInv, NEW o \in Parcel,
         Judge(o) \/ Advance(o) \/ ReplyToTick(o) \/ LoseTick(o) \/ TickArrives(o)
  PROVE  ListsInv'
<1>0. Listing(list) /\ UNCHANGED loads
  BY DEF ListsInv, Judge, Advance, ReplyToTick, LoseTick, TickArrives
<1>1. CASE Judge(o)
  <2> DEFINE stage == IF InScope(o) /\ HasForwardPath(o) /\ ~Blocked(o) THEN "judged" ELSE "failed"
  <2>1. ticks[o] = "sent" /\ ticks' = [ticks EXCEPT ![o] = stage] /\ UNCHANGED <<status, list>>
    BY <1>1 DEF Judge
  <2>2. stage \in {"judged", "failed"}
    OBVIOUS
  <2> HIDE DEF stage
  <2> QED BY <1>0, <2>1, <2>2, OneTickMoves
<1>2. CASE Advance(o)
  <2>1. CASE status' = [status EXCEPT ![o] = "SHIPPED"] /\ ticks' = [ticks EXCEPT ![o] = "committed"]
    <3>1. ticks[o] = "judged" /\ UNCHANGED list /\ status'[o] \in Gone
      BY <1>2, <2>1 DEF Advance, ListsInv, Gone
    <3> QED BY <1>0, <2>1, <3>1, OneTickMoves
  <2>2. CASE UNCHANGED status /\ ticks' = [ticks EXCEPT ![o] = "failed"]
    <3>1. ticks[o] = "judged" /\ UNCHANGED list
      BY <1>2 DEF Advance
    <3> QED BY <1>0, <2>2, <3>1, OneTickMoves
  <2> QED BY <1>2, <2>1, <2>2 DEF Advance
<1>3. CASE ReplyToTick(o)
  <2> DEFINE stage == IF InScope(o) THEN "done" ELSE "failed"
  <2>1. ticks[o] = "committed" /\ ticks' = [ticks EXCEPT ![o] = stage] /\ UNCHANGED <<status, list>>
    BY <1>3 DEF ReplyToTick, ReadyToReply
  <2>2. stage \in {"done", "failed"} /\ status'[o] \in Gone
    BY <2>1 DEF ListsInv
  <2> HIDE DEF stage
  <2> QED BY <1>0, <2>1, <2>2, OneTickMoves
<1>4. CASE LoseTick(o)
  <2>1. ticks[o] # "none" /\ ticks' = [ticks EXCEPT ![o] = "failed"] /\ UNCHANGED <<status, list>>
    BY <1>4 DEF LoseTick
  <2> QED BY <1>0, <2>1, OneTickMoves
<1>5. CASE TickArrives(o)
  <2>1. ticks[o] \in {"done", "failed"} /\ ticks' = [ticks EXCEPT ![o] = "none"] /\ UNCHANGED status
    BY <1>5 DEF TickArrives, Released
  <2>2. CASE ticks[o] = "done"
    <3> DEFINE less == IF list.total = 0 THEN 0 ELSE list.total - 1
    <3>1. list' = [list EXCEPT !.items = list.items \ {o}, !.shipped = list.shipped \cup {o}, !.total = less]
      BY <1>5, <2>2 DEF TickArrives
    <3>2. less \in 0..Cardinality(Parcel)
      <4>1. list.total \in 0..Cardinality(Parcel) /\ Cardinality(Parcel) \in Nat
        BY <1>0, DispatchAssumption, FS_CardinalityType DEF Listing, DispatchAssumption
      <4> QED BY <4>1
    <3> HIDE DEF less
    <3>3. /\ DOMAIN list' = DOMAIN list /\ list'.page = list.page /\ list'.tab = list.tab
          /\ list'.filter = list.filter /\ list'.items = list.items \ {o}
          /\ list'.shipped = list.shipped \cup {o} /\ list'.total = less
      BY <1>0, <3>1 DEF Listing
    <3>4. Listing(list')
      BY <1>0, <3>2, <3>3 DEF Listing
    <3> QED BY <1>0, <2>1, <2>2, <3>3, <3>4, OneTickMoves
  <2>3. CASE ticks[o] = "failed"
    <3>1. UNCHANGED list
      BY <1>5, <2>3 DEF TickArrives
    <3> QED BY <1>0, <2>1, <3>1, OneTickMoves
  <2> QED BY <2>1, <2>2, <2>3
<1> QED BY <1>1, <1>2, <1>3, <1>4, <1>5

(* A parcel does not come back into the house. *)
LEMMA GoneForGood == ASSUME NEW s \in Gone, NEW to, canTransition(s, to) PROVE to \in Gone
BY DEF Gone, canTransition, ORDER_STATUS_TRANSITIONS, OrderStatus

LEMMA MovesKeepTheLists == ASSUME ListsInv, NEW o \in Parcel, MovesElsewhere(o) PROVE ListsInv'
<1>1. PICK to \in OrderStatus : canTransition(status[o], to) /\ status' = [status EXCEPT ![o] = to]
  BY DEF MovesElsewhere
<1>2. UNCHANGED <<list, loads, ticks>>
  BY DEF MovesElsewhere
<1>3. \A x \in Parcel : status'[x] = IF x = o THEN to ELSE status[x]
  BY <1>1 DEF ListsInv
<1>4. status' \in [Parcel -> OrderStatus]
  BY <1>1 DEF ListsInv
<1>5. \A x \in Parcel : status[x] \in Gone => status'[x] \in Gone
  BY <1>1, <1>3, GoneForGood
<1> QED BY <1>2, <1>4, <1>5 DEF ListsInv

LEMMA ListsNext == ListsInv /\ [DispatchNext]_dispatchVars => ListsInv'
<1> SUFFICES ASSUME ListsInv, [DispatchNext]_dispatchVars PROVE ListsInv'
  OBVIOUS
<1>1. ASSUME NEW tab \in Tabs(list.page), NEW filter \in Filters \cup {HalfTyped}, Choose(tab, filter)
      PROVE  ListsInv'
  BY <1>1, ChooseKeepsTheLists
<1>2. ASSUME Search PROVE ListsInv'
  <2>1. list.tab \in Tabs(list.page) /\ list.filter \in Filters \cup {HalfTyped}
    BY DEF ListsInv, Listing
  <2> DEFINE tab == list.tab
             filter == list.filter
  <2>2. StartLoad(tab, filter) /\ UNCHANGED <<status, ticks>>
    BY <1>2 DEF Search
  <2> HIDE DEF tab, filter
  <2> QED BY <2>1, <2>2, StartLoadKeepsTheLists DEF tab, filter
<1>3. ASSUME NEW l \in Load, ServeLoad(l) \/ LoadArrives(l) PROVE ListsInv'
  BY <1>3, LoadsKeepTheLists
<1>4. ASSUME NEW o \in Parcel,
             \/ Tick(o) \/ Judge(o) \/ Advance(o) \/ ReplyToTick(o) \/ LoseTick(o) \/ TickArrives(o)
             \/ MovesElsewhere(o)
      PROVE  ListsInv'
  BY <1>4, TickKeepsTheLists, TicksKeepTheLists, MovesKeepTheLists
<1>5. CASE UNCHANGED dispatchVars
  BY <1>5 DEF ListsInv, dispatchVars
<1> QED BY <1>1, <1>2, <1>3, <1>4, <1>5 DEF DispatchNext

LEMMA ListsAreTyped == ListsInv => DispatchTypeOK
BY DEF ListsInv, Listing, Reload, DispatchTypeOK

-----------------------------------------------------------------------------
(* The search: whatever is looked at was reached from something that was,  *)
(* so the route back never falls off the Map.                              *)
RouteInv ==
  /\ Route!TypeOK
  /\ routeFrom \in routeSeen /\ routeCurrent \in routeSeen
  /\ \A i \in DOMAIN routeQueue : routeQueue[i] \in routeSeen
  /\ \A s \in routeSeen : s # routeFrom => routePrevious[s] \in routeSeen
  /\ routeAt \in {"loop", "scan"} => routeStep = routeTo
  /\ routeAt = "rebuild" => routeStep \in routeSeen

LEMMA SameTable ==
  Route!OrderStatus = OrderStatus /\ Route!ORDER_STATUS_TRANSITIONS = ORDER_STATUS_TRANSITIONS
BY DEF OrderStatus, ORDER_STATUS_TRANSITIONS, Route!OrderStatus, Route!ORDER_STATUS_TRANSITIONS

LEMMA Typed ==
  ASSUME {routeFrom', routeTo', routeCurrent', routeStep'} \cup routeSeen' \cup routeTodo' \subseteq OrderStatus,
         routePrevious' \in [OrderStatus -> OrderStatus \cup {"undefined"}],
         routeQueue' \in Seq(OrderStatus), routePath' \in Seq(OrderStatus),
         routeAt' \in {"loop", "scan", "rebuild", "found", "null"}
  PROVE  Route!TypeOK'
BY SameTable DEF Route!TypeOK

LEMMA RouteInitially == Route!Init => RouteInv
<1> SUFFICES ASSUME Route!Init PROVE RouteInv
  OBVIOUS
<1>0. routeFrom \in OrderStatus
  BY SameTable DEF Route!Init
<1>1. <<routeFrom>> \in Seq(OrderStatus) /\ <<>> \in Seq(OrderStatus)
  BY <1>0
<1>2. Route!TypeOK
  BY <1>0, <1>1, SameTable DEF Route!Init, Route!TypeOK
<1> QED BY <1>2 DEF Route!Init, RouteInv

LEMMA RouteNext == RouteInv /\ [Route!Next]_routeVars => RouteInv'
<1> SUFFICES ASSUME RouteInv, [Route!Next]_routeVars PROVE RouteInv'
  OBVIOUS
<1>0. /\ routeQueue \in Seq(OrderStatus) /\ routePath \in Seq(OrderStatus)
      /\ {routeFrom, routeTo, routeCurrent, routeStep} \cup routeSeen \cup routeTodo \subseteq OrderStatus
      /\ routePrevious \in [OrderStatus -> OrderStatus \cup {"undefined"}]
  BY SameTable DEF RouteInv, Route!TypeOK
<1>1. CASE Route!Shift
  <2>1. CASE routeQueue = <<>>
    BY <1>1, <2>1 DEF RouteInv, Route!Shift, Route!TypeOK
  <2>2. CASE routeQueue # <<>>
    <3>1. /\ Head(routeQueue) = routeQueue[1] /\ 1 \in DOMAIN routeQueue /\ Tail(routeQueue) \in Seq(OrderStatus)
          /\ \A i \in DOMAIN Tail(routeQueue) : i + 1 \in DOMAIN routeQueue
                                                /\ Tail(routeQueue)[i] = routeQueue[i + 1]
      BY <1>0, <2>2
    <3>2. routeCurrent' = Head(routeQueue) /\ routeQueue' = Tail(routeQueue)
          /\ routeTodo' = ORDER_STATUS_TRANSITIONS[Head(routeQueue)] /\ routeAt' = "scan"
          /\ UNCHANGED <<routeFrom, routeTo, routePrevious, routeSeen, routeStep, routePath>>
          /\ routeAt = "loop"
      BY <1>1, <2>2, SameTable DEF Route!Shift, Route!Shifted
    <3>3. routeCurrent' \in routeSeen /\ \A i \in DOMAIN routeQueue' : routeQueue'[i] \in routeSeen
      BY <3>1, <3>2 DEF RouteInv
    <3>4. routeTodo' \subseteq OrderStatus
      BY <1>0, <3>2, <3>3 DEF ORDER_STATUS_TRANSITIONS, OrderStatus
    <3>5. Route!TypeOK'
      BY <1>0, <3>1, <3>2, <3>3, <3>4, Typed DEF Route!TypeOK
    <3> QED BY <3>2, <3>3, <3>5 DEF RouteInv
  <2> QED BY <2>1, <2>2
<1>2. CASE Route!Scan
  <2>0. UNCHANGED <<routeFrom, routeTo, routeCurrent, routeStep, routePath>> /\ routeAt = "scan"
    BY <1>2 DEF Route!Scan
  <2>1. CASE UNCHANGED <<routePrevious, routeSeen, routeQueue>> /\ routeTodo' \subseteq routeTodo
             /\ routeAt' \in {"scan", "loop"}
    BY <1>0, <2>0, <2>1 DEF RouteInv, Route!TypeOK
  <2>2. ASSUME NEW next \in routeTodo, next \notin routeSeen,
               routeTodo' \subseteq routeTodo, routeSeen' = routeSeen \cup {next},
               routePrevious' = [routePrevious EXCEPT ![next] = routeCurrent],
               \/ next = routeTo /\ routeAt' = "rebuild" /\ routeQueue' = routeQueue
               \/ routeAt' = "scan" /\ routeQueue' = Append(routeQueue, next)
        PROVE  RouteInv'
    <3>1. next \in OrderStatus /\ next # routeFrom
      BY <1>0, <2>2 DEF RouteInv
    <3>2. routeQueue' \in Seq(OrderStatus) /\ \A i \in DOMAIN routeQueue' : routeQueue'[i] \in routeSeen'
      <4>1. CASE routeQueue' = routeQueue
        BY <1>0, <2>2, <4>1 DEF RouteInv
      <4>2. CASE routeQueue' = Append(routeQueue, next)
        BY <1>0, <2>2, <3>1, <4>2 DEF RouteInv
      <4> QED BY <2>2, <4>1, <4>2
    <3>3. \A s \in routeSeen' : s # routeFrom => routePrevious'[s] \in routeSeen'
      BY <1>0, <2>2, <3>1 DEF RouteInv
    <3>4. routePrevious' \in [OrderStatus -> OrderStatus \cup {"undefined"}]
      BY <1>0, <2>2, <3>1
    <3>5. Route!TypeOK'
      BY <1>0, <2>0, <2>2, <3>1, <3>2, <3>4, Typed DEF Route!TypeOK
    <3> QED BY <2>0, <2>2, <3>2, <3>3, <3>5 DEF RouteInv
  <2>3. CASE routeTodo = {}
    BY <1>2, <2>1, <2>3 DEF Route!Scan
  <2>4. CASE routeTodo # {}
    <3>1. PICK next \in routeTodo :
            /\ routeTodo' = routeTodo \ {next}
            /\ IF next \notin routeSeen
               THEN /\ routeSeen' = routeSeen \cup {next}
                    /\ routePrevious' = [routePrevious EXCEPT ![next] = routeCurrent]
                    /\ IF next = routeTo
                       THEN routeAt' = "rebuild" /\ UNCHANGED routeQueue
                       ELSE routeQueue' = Append(routeQueue, next) /\ UNCHANGED routeAt
               ELSE UNCHANGED <<routePrevious, routeSeen, routeQueue, routeAt>>
      BY <1>2, <2>4 DEF Route!Scan, Route!Fresh
    <3>2. CASE next \notin routeSeen
      BY <2>0, <2>2, <3>1, <3>2
    <3>3. CASE next \in routeSeen
      BY <2>0, <2>1, <3>1, <3>3
    <3> QED BY <3>2, <3>3
  <2> QED BY <2>3, <2>4
<1>3. CASE Route!Rebuild
  <2>0. UNCHANGED <<routeFrom, routeTo, routePrevious, routeSeen, routeQueue, routeCurrent, routeTodo>>
        /\ routeAt = "rebuild" /\ routeStep \in routeSeen
    BY <1>3 DEF Route!Rebuild, RouteInv
  <2>1. CASE routeStep = routeFrom
    BY <1>3, <2>0, <2>1 DEF Route!Rebuild, Route!AtTheStart, RouteInv, Route!TypeOK
  <2>2. CASE routeStep # routeFrom
    <3>1. routePath' = <<routeStep>> \o routePath /\ routeStep' = routePrevious[routeStep] /\ routeAt' = "rebuild"
      BY <1>3, <2>0, <2>2 DEF Route!Rebuild, Route!AtTheStart, Route!Unshifted
    <3>2. routeStep' \in routeSeen /\ routeStep' \in OrderStatus
      BY <1>0, <2>0, <2>2, <3>1 DEF RouteInv
    <3>3. routePath' \in Seq(OrderStatus)
      <4>1. <<routeStep>> \in Seq(OrderStatus)
        BY <1>0
      <4> QED BY <1>0, <3>1, <4>1
    <3>4. Route!TypeOK'
      BY <1>0, <2>0, <3>1, <3>2, <3>3, Typed DEF Route!TypeOK
    <3> QED BY <2>0, <3>1, <3>2, <3>4 DEF RouteInv
  <2> QED BY <2>1, <2>2
<1>4. CASE UNCHANGED routeVars
  BY <1>4 DEF routeVars, RouteInv, Route!TypeOK
<1> QED BY <1>1, <1>2, <1>3, <1>4 DEF Route!Next

-----------------------------------------------------------------------------
(* The three scenes together. *)
BackOfficeInv ==
  /\ scene \in {"page", "lists", "route"}
  /\ scene = "page" => PageInv
  /\ scene = "lists" => ListsInv
  /\ scene = "route" => RouteInv
  /\ scene # "page" => \A c \in Call : calls[c].kind # "act"
  /\ scene # "lists" => list.shipped = {}

LEMMA BackOfficeInitially == Init => BackOfficeInv
<1>1. NoLists => list.shipped = {}
  BY DEF NoLists
<1>2. NoPage => \A c \in Call : calls[c].kind # "act"
  BY DEF NoPage, NoCall
<1> QED BY <1>1, <1>2, PageInitially, ListsInitially, RouteInitially DEF Init, BackOfficeInv

(* What a step of the whole is to each of the scenes. *)
LEMMA StepsByScene ==
  ASSUME BackOfficeInv, [Next]_<<scene, deskVars>>
  PROVE  /\ scene' = scene
         /\ IF scene = "page"  THEN [OrderPageNext]_pageVars ELSE UNCHANGED pageVars
         /\ IF scene = "lists" THEN [DispatchNext]_dispatchVars ELSE UNCHANGED dispatchVars
         /\ IF scene = "route" THEN [Route!Next]_routeVars ELSE UNCHANGED routeVars
BY DEF BackOfficeInv, Next, deskVars

LEMMA BackOfficeNext == BackOfficeInv /\ [Next]_<<scene, deskVars>> => BackOfficeInv'
<1> SUFFICES ASSUME BackOfficeInv, [Next]_<<scene, deskVars>> PROVE BackOfficeInv'
  OBVIOUS
<1>1. /\ scene' = scene /\ scene \in {"page", "lists", "route"}
      /\ IF scene = "page"  THEN [OrderPageNext]_pageVars ELSE UNCHANGED pageVars
      /\ IF scene = "lists" THEN [DispatchNext]_dispatchVars ELSE UNCHANGED dispatchVars
      /\ IF scene = "route" THEN [Route!Next]_routeVars ELSE UNCHANGED routeVars
  BY StepsByScene DEF BackOfficeInv
<1>2. scene = "page" => PageInv'
  BY <1>1, PageNext DEF BackOfficeInv
<1>3. scene = "lists" => ListsInv'
  BY <1>1, ListsNext DEF BackOfficeInv
<1>4. scene = "route" => RouteInv'
  BY <1>1, RouteNext DEF BackOfficeInv
<1>5. scene # "lists" => list'.shipped = {}
  BY <1>1 DEF dispatchVars, BackOfficeInv
<1>6. scene # "page" => \A c \in Call : calls'[c].kind # "act"
  BY <1>1 DEF pageVars, BackOfficeInv
<1> QED BY <1>1, <1>2, <1>3, <1>4, <1>5, <1>6 DEF BackOfficeInv

(* The inductive invariant of the desk's three scenes: a request that is   *)
(* out asks what a reading offered and an answer shows what it did; what a *)
(* tick has committed has left the house; the search looks at nothing it   *)
(* did not reach.                                                          *)
THEOREM BackOfficeInvariant == Spec => []BackOfficeInv
BY BackOfficeInitially, BackOfficeNext, PTL DEF Spec

(* Types, and the page's buttons wait for exactly the action that is out   *)
(* (run in the order page, moved in the lists, found by the search).       *)
THEOREM BackOfficeIsTyped == Spec => []WellFormed
<1>1. BackOfficeInv => WellFormed
  <2> SUFFICES ASSUME BackOfficeInv PROVE WellFormed
    OBVIOUS
  <2>1. CASE scene = "page"
    BY <2>1, PageIsTyped DEF BackOfficeInv, WellFormed
  <2>2. CASE scene = "lists"
    BY <2>2, ListsAreTyped DEF BackOfficeInv, WellFormed
  <2>3. CASE scene = "route"
    BY <2>3 DEF BackOfficeInv, WellFormed, RouteInv
  <2> QED BY <2>1, <2>2, <2>3 DEF BackOfficeInv
<1> QED BY <1>1, BackOfficeInvariant, PTL

(* What the lists report as handed over has left the house, whatever came  *)
(* between a tick, its walk through the table and its answer               *)
(* (accepted-orders/page.tsx, AdminOrdersService.transition).              *)
THEOREM ReportsAreTrue == Spec => []ReportedShippedIsShipped
<1>1. BackOfficeInv => ReportedShippedIsShipped
  <2> SUFFICES ASSUME BackOfficeInv PROVE ReportedShippedIsShipped
    OBVIOUS
  <2>1. CASE scene = "lists"
    BY <2>1 DEF BackOfficeInv, ListsInv, Listing, ReportedShippedIsShipped, Gone
  <2>2. CASE scene # "lists"
    BY <2>2 DEF BackOfficeInv, ReportedShippedIsShipped
  <2> QED BY <2>1, <2>2
<1> QED BY <1>1, BackOfficeInvariant, PTL

(* On an order that stands as it did for the page, whatever it went        *)
(* through meanwhile, transition, confirmPayment, revert, reopen and       *)
(* refund turn a drawn button down for nothing but what was sent with it,  *)
(* STAFF at the two endpoints kept for ADMIN, and a receipt the page shows *)
(* to be another order's.                                                  *)
THEOREM RefusalsAreCaused == Spec => []RefusalsHaveACause
<1>1. BackOfficeInv => RefusalsHaveACause
  <2> SUFFICES ASSUME BackOfficeInv, NEW c \in Call, calls[c].kind = "act", AsItWas(calls[c]), Refused(calls[c])
               PROVE  HasACause(calls[c])
    BY DEF RefusalsHaveACause
  <2>1. scene = "page"
    BY DEF BackOfficeInv
  <2> QED BY <2>1, ButtonsAreHonoured DEF BackOfficeInv
<1> QED BY <1>1, BackOfficeInvariant, PTL

(* When an action is answered, the page shows an order that has it.        *)
THEOREM AnswersArrive == Spec => AnswersShowTheAction
<1> DEFINE A == \A c \in Call :
                  calls[c].kind = "act" /\ calls[c].stage = "answered" /\ calls[c].ok /\ calls'[c] = NoCall =>
                    page'.view.rev >= calls[c].made
<1>1. BackOfficeInv /\ [Next]_<<scene, deskVars>> => [A]_pageVars
  <2> SUFFICES ASSUME BackOfficeInv, [Next]_<<scene, deskVars>> PROVE [A]_pageVars
    OBVIOUS
  <2>1. CASE scene = "page"
    BY <2>1, StepsByScene, AnswersAreShown DEF BackOfficeInv
  <2>2. CASE scene # "page"
    BY <2>2, StepsByScene
  <2> QED BY <2>1, <2>2
<1>2. [][A]_pageVars => AnswersShowTheAction
  BY PTL DEF AnswersShowTheAction
<1> HIDE DEF A
<1> QED BY <1>1, <1>2, BackOfficeInvariant, PTL DEF Spec

(* A typed reason leaves its box because it was withdrawn, or because the  *)
(* order was changed by it (revertPayment and reopen of the order page).   *)
THEOREM ReasonsStay == Spec => ReasonsAreKept
<1> DEFINE A == \A form \in page.typed \ page'.typed :
                  \/ calls' = calls
                  \/ \E c \in Call : /\ calls[c].kind = "act" /\ calls[c].ok /\ calls[c].what = form
                                     /\ calls'[c] = NoCall
<1>1. BackOfficeInv /\ [Next]_<<scene, deskVars>> => [A]_pageVars
  <2> SUFFICES ASSUME BackOfficeInv, [Next]_<<scene, deskVars>> PROVE [A]_pageVars
    OBVIOUS
  <2>1. CASE scene = "page"
    BY <2>1, StepsByScene, ReasonsWait DEF BackOfficeInv
  <2>2. CASE scene # "page"
    BY <2>2, StepsByScene
  <2> QED BY <2>1, <2>2
<1>2. [][A]_pageVars => ReasonsAreKept
  BY PTL DEF ReasonsAreKept
<1> HIDE DEF A
<1> QED BY <1>1, <1>2, BackOfficeInvariant, PTL DEF Spec
=============================================================================
