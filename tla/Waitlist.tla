------------------------------ MODULE Waitlist ------------------------------
(***************************************************************************)
(* The waitlist of one book: releases of stock to the queue, invites that  *)
(* hold copies, and the orders that settle them (apps/api/src/waitlist,    *)
(* admin/waitlist and inventory/reservations.ts).                          *)
(*                                                                         *)
(* An order is seen from here: it holds its copies until it is closed, and *)
(* a transaction of checkout or of OrdersService is one step (module       *)
(* Orders opens them up).  A batch of invites is not one transaction: the  *)
(* budget is read once, then every link is issued, texted and recorded by  *)
(* statements of its own.  An entry is a customer: no two share a phone.   *)
(***************************************************************************)
EXTENDS Integers, FiniteSetsExt, SequencesExt

CONSTANTS
  Entry, Quantity,          \* waitlist entries and the copies each asks for
  Release, Order, Worker,   \* stock releases, orders rows, staff requests
  NoRelease, NoOrder, NoEntry,
  MaxStock, MaxRelease, MaxBuy,  \* bounds: copies of the book, of a release, of an order
  Excuses                   \* what may leave an invitee refused: of Hazards

(* overallocated: a release of more copies than are unheld.                *)
(* recounted: stock is set below what is promised and set aside.           *)
(* together: two batches are under way at once.                            *)
(* resized: a release is resized or closed while a batch is under way.     *)
(* overbought: an invited customer buys more copies than the entry's.      *)
(* rebuying: an entry that has already bought is in a batch of invites.    *)
(* resold: another order is paid for an entry that has a link or spent it. *)
(* refused: a batch refuses the holder of a link after granting others.    *)
Hazards == {"overallocated", "recounted", "together", "resized", "overbought", "rebuying",
            "resold", "refused"}

ASSUME WaitlistAssumption ==
  /\ Quantity \in [Entry -> Nat \ {0}]
  /\ {MaxStock, MaxRelease, MaxBuy} \subseteq Nat
  /\ IsFiniteSet(Entry) /\ IsFiniteSet(Release)
  /\ NoRelease \notin Release /\ NoOrder \notin Order /\ NoEntry \notin Entry
  /\ Excuses \subseteq Hazards

VARIABLES
  stock,     \* books.stock_quantity
  entry,     \* waitlist_entries
  release,   \* waitlist_allocations
  order,     \* orders of this book
  batch,     \* what each worker's batch of invites has left to do
  resizing,  \* a resize between its read and its UPDATE
  excused    \* history: whether one of Excuses has happened

vars == <<stock, entry, release, order, batch, resizing, excused>>

NoBatch == [release |-> NoRelease, todo |-> {}, texting |-> {}, fresh |-> {}]
NoResize == [release |-> NoRelease, copies |-> 0]

WaitlistTypeOK ==
  /\ stock \in 0..MaxStock
  /\ entry \in [Entry -> [status : {"ABSENT", "PENDING", "NOTIFIED", "CONVERTED", "CANCELLED"},
                          invite : {"none", "live", "lapsed", "spent"},
                          release : Release \cup {NoRelease},  \* invite_allocation_id
                          order : Order \cup {NoOrder},        \* fulfilling_order_id
                          sale : Order \cup {NoOrder}]]        \* converted_order_id
  /\ \A e \in Entry : entry[e].release # NoRelease => entry[e].invite # "none"
  /\ release \in [Release -> [state : {"none", "OPEN", "CLOSED"}, copies : 0..MaxRelease]]
  /\ order \in [Order -> [state : {"none", "PENDING", "PAID", "SENT", "CANCELLED", "REFUNDED"}, copies : 0..MaxBuy,
                          buyer : Entry \cup {NoEntry}]]
  /\ batch \in [Worker -> [release : Release \cup {NoRelease}, todo : SUBSET Entry,
                           texting : SUBSET Entry, fresh : SUBSET Entry]]
  /\ resizing \in [release : Release \cup {NoRelease}, copies : 0..MaxRelease]

Init ==
  /\ stock = MaxStock
  /\ entry = [e \in Entry |-> [status |-> "ABSENT", invite |-> "none", release |-> NoRelease,
                               order |-> NoOrder, sale |-> NoOrder]]
  /\ release = [r \in Release |-> [state |-> "none", copies |-> 0]]
  /\ order = [o \in Order |-> [state |-> "none", copies |-> 0, buyer |-> NoEntry]]
  /\ batch = [w \in Worker |-> NoBatch]
  /\ resizing = NoResize
  /\ excused = FALSE

Excuse(happened) == excused' = (excused \/ happened \cap Excuses # {})
(* The hazard, where the condition holds.                                   *)
When(condition, hazard) == IF condition THEN {hazard} ELSE {}

-----------------------------------------------------------------------------
(* reservations.ts, over the entries `en` as one statement sees them.      *)

(* A sum over rows, counted copy by copy; fewer than none count as none.   *)
CopiesOf(S, n) == Cardinality(UNION {{x} \X (1..n[x]) : x \in S})

Live(en) == {e \in Entry : en[e].invite = "live"}

Reserved(en) == CopiesOf(Live(en), Quantity)

Charged(en, e) ==
  IF en[e].invite # "spent" \/ en[e].sale = NoOrder
  THEN Quantity[e] ELSE order[en[e].sale].copies

(* A mutant: a copy that has sold is no longer charged. *)
Committed_LiveOnly(en, r) ==
  CopiesOf({e \in Live(en) : en[e].release = r}, Quantity)

(* WaitlistAllocationService.committedSql *)
Committed(en, r) ==
  CopiesOf({e \in Entry : en[e].release = r /\ en[e].invite \in {"live", "spent"}},
           [e \in Entry |-> Charged(en, e)])

Open == {r \in Release : release[r].state = "OPEN"}

Ringfenced(en) == CopiesOf(Open, [r \in Release |-> release[r].copies - Committed(en, r)])

Available(en) == stock - Reserved(en) - Ringfenced(en)

-----------------------------------------------------------------------------
(* Releases. *)

Wide(r, n) == n - Committed(entry, r) > stock - Reserved(entry)
Batching == \E w \in Worker : batch[w] # NoBatch

OpenRelease(r, n) ==
  /\ Open = {} /\ release[r].state = "none"
  /\ release' = [release EXCEPT ![r] = [state |-> "OPEN", copies |-> n]]
  /\ Excuse(When(Wide(r, n), "overallocated"))
  /\ UNCHANGED <<stock, entry, order, batch, resizing>>

(* A mutant: any positive size will do. *)
MayResize_Any(r, n) == n >= 1

MayResize(r, n) == n >= 1 /\ n >= Committed(entry, r)

(* resize(): the read and the check, in one statement ...                  *)
StartResize(r, n) ==
  /\ resizing = NoResize /\ r \in Open /\ MayResize(r, n)
  /\ resizing' = [release |-> r, copies |-> n]
  /\ Excuse(When(Batching, "resized"))
  /\ UNCHANGED <<stock, entry, release, order, batch>>

(* ... and the UPDATE in another, guarded on OPEN alone.                   *)
Resize ==
  LET r == resizing.release
      n == resizing.copies
  IN
  /\ resizing # NoResize
  /\ release' = IF r \in Open THEN [release EXCEPT ![r].copies = n] ELSE release
  /\ resizing' = NoResize
  /\ Excuse(When(r \in Open /\ Wide(r, n), "overallocated") \cup
            When(r \in Open /\ Batching, "resized"))
  /\ UNCHANGED <<stock, entry, order, batch>>

CloseRelease(r) ==
  /\ r \in Open
  /\ release' = [release EXCEPT ![r].state = "CLOSED"]
  /\ Excuse(When(Batching, "resized"))
  /\ UNCHANGED <<stock, entry, order, batch, resizing>>

-----------------------------------------------------------------------------
(* AdminWaitlistInviteService.invite. *)

(* spendableByBook, leaving out the entries the batch will rewrite.        *)
Spendable(r, ids) ==
  LET others == [e \in Entry |-> IF e \in ids THEN [entry[e] EXCEPT !.invite = "none"] ELSE entry[e]]
  IN  Max({Min({release[r].copies - Committed(others, r), stock - Reserved(others)}), 0})

(* refuseBeyondAllocation: what is left of the budget after each of the    *)
(* entries, in the order given.  One that is refused keeps its hold, so    *)
(* its copies are charged too.                                             *)
Left(r, ids) ==
  LET left[i \in 0..Len(ids)] ==
        IF i = 0 THEN Spendable(r, ToSet(ids))
        ELSE IF Quantity[ids[i]] <= left[i - 1] \/ entry[ids[i]].invite = "live"
             THEN left[i - 1] - Quantity[ids[i]]
             ELSE left[i - 1]
  IN  left

(* The entries that get a copy. *)
Granted(r, ids) == {ids[i] : i \in {j \in DOMAIN ids : Quantity[ids[j]] <= Left(r, ids)[j - 1]}}

Eligible == {e \in Entry : entry[e].status \in {"PENDING", "NOTIFIED"}}

(* The reads of a batch.  A wave is a batch of those who wait. *)
PlanBatch(w) ==
  \E r \in Open : \E S \in SUBSET Eligible : \E ids \in SetToSeqs(S) :
    /\ batch[w] = NoBatch /\ Granted(r, ids) # {}
    /\ batch' = [batch EXCEPT ![w] =
                   [release |-> r, todo |-> Granted(r, ids), texting |-> {},
                    fresh |-> {e \in Granted(r, ids) : entry[e].status = "PENDING"}]]
    /\ Excuse(When(Batching, "together") \cup When(resizing # NoResize, "resized") \cup
              When(\E e \in S : entry[e].sale # NoOrder, "rebuying") \cup
              When(\E i, j \in DOMAIN ids :
                   i < j /\ ids[i] \in Granted(r, ids) /\ ids[j] \in Live(entry) \ Granted(r, ids), "refused"))
    /\ UNCHANGED <<stock, entry, release, order, resizing>>

(* WaitlistInviteService.issue: an UPDATE by id, whatever the entry has    *)
(* become since.                                                           *)
Issue(w, e) ==
  /\ e \in batch[w].todo
  /\ entry' = [entry EXCEPT ![e].invite = "live", ![e].release = batch[w].release]
  /\ batch' = [batch EXCEPT ![w].todo = @ \ {e}, ![w].texting = @ \cup {e}]
  /\ Excuse(When(entry[e].sale # NoOrder, "rebuying"))
  /\ UNCHANGED <<stock, release, order, resizing>>

(* The text and what is recorded of it: one that does not arrive leaves    *)
(* the status alone, markNotified is an UPDATE by id.                      *)
Text(w, e, arrives) ==
  /\ e \in batch[w].texting
  /\ entry' = IF arrives /\ e \in batch[w].fresh
              THEN [entry EXCEPT ![e].status = "NOTIFIED"] ELSE entry
  /\ batch' = IF batch[w].todo = {} /\ batch[w].texting = {e} THEN [batch EXCEPT ![w] = NoBatch]
              ELSE [batch EXCEPT ![w].texting = @ \ {e}, ![w].fresh = @ \ {e}]
  /\ UNCHANGED <<stock, release, order, resizing, excused>>

(* The process dies: what a batch has not issued or recorded never is.     *)
Crash ==
  /\ Batching \/ resizing # NoResize
  /\ batch' = [w \in Worker |-> NoBatch] /\ resizing' = NoResize
  /\ UNCHANGED <<stock, entry, release, order, excused>>

-----------------------------------------------------------------------------
(* The customer and the desk. *)

Subscribe(e) ==
  /\ entry[e].status = "ABSENT"
  /\ entry' = [entry EXCEPT ![e].status = "PENDING"]
  /\ UNCHANGED <<stock, release, order, batch, resizing, excused>>

(* The window closes: nothing is written, now() has passed a column. *)
Lapse(e) ==
  /\ entry[e].invite = "live"
  /\ entry' = [entry EXCEPT ![e].invite = "lapsed"]
  /\ UNCHANGED <<stock, release, order, batch, resizing, excused>>

(* A mutant: the budget goes on being charged. *)
Revoked_KeepsCharge(it) == IF it.invite = "spent" THEN it ELSE [it EXCEPT !.invite = "none"]

(* WaitlistInviteService.revoke: a spent link is history. *)
Revoked(it) ==
  IF it.invite = "spent" THEN it ELSE [it EXCEPT !.invite = "none", !.release = NoRelease]

(* AdminWaitlistService.update of a status, and notify's by hand. *)
StaffSets(e, s) ==
  /\ entry[e].status \notin {"ABSENT", s}
  /\ entry' = [entry EXCEPT ![e] =
                 LET set == [@ EXCEPT !.status = s]
                 IN  IF s = "CANCELLED" THEN Revoked(set) ELSE set]
  /\ UNCHANGED <<stock, release, order, batch, resizing, excused>>

(* A new stock count from the catalogue editor. *)
SetStock(n) ==
  /\ n # stock /\ stock' = n
  /\ Excuse(When(n < Reserved(entry) + Ringfenced(entry), "recounted"))
  /\ UNCHANGED <<entry, release, order, batch, resizing>>

-----------------------------------------------------------------------------
(* Orders. *)

Place(o, n, e) ==
  /\ order[o].state = "none"
  /\ stock' = stock - n
  /\ order' = [order EXCEPT ![o] = [state |-> "PENDING", copies |-> n, buyer |-> e]]

StrangerBuys(o, n) ==
  /\ n <= Available(entry)
  /\ Place(o, n, NoEntry)
  /\ UNCHANGED <<entry, release, batch, resizing, excused>>

(* consumeInvite or consumeForCustomer, then the decrement, markConverted  *)
(* and markOrdered.  The link allows no more copies than the entry asks    *)
(* for; the phone number alone allows any.                                 *)
InviteeBuys(e, o, n) ==
  LET spent == [entry EXCEPT ![e].invite = "spent"] IN
  /\ entry[e].invite = "live"
  /\ n <= Available(spent)
  /\ Place(o, n, NoEntry)
  /\ entry' = [spent EXCEPT ![e].status = "CONVERTED", ![e].sale = o]
  /\ Excuse(When(n > Quantity[e], "overbought"))
  /\ UNCHANGED <<release, batch, resizing>>

(* markOrdered: whoever waits for the book this phone number buys.         *)
WaiterBuys(e, o, n) ==
  /\ entry[e].invite # "live" /\ entry[e].status \in {"PENDING", "NOTIFIED"}
  /\ n <= Available(entry)
  /\ Place(o, n, e)
  /\ entry' = [entry EXCEPT ![e].order = o]
  /\ UNCHANGED <<release, batch, resizing, excused>>

Released(o, it) == IF it.order = o THEN [it EXCEPT !.order = NoOrder] ELSE it

(* A mutant: those who left the list keep the link.                        *)
Settled_ConvertedOnly(o, it) ==
  IF it.order = o /\ it.status # "CANCELLED"
  THEN [it EXCEPT !.status = "CONVERTED", !.sale = o, !.order = NoOrder] ELSE it

(* settle: a sale, except for those who left the list meanwhile.           *)
Settled(o, it) ==
  IF it.order = o /\ it.status # "CANCELLED"
  THEN [it EXCEPT !.status = "CONVERTED", !.sale = o, !.order = NoOrder]
  ELSE Released(o, it)

OrderPaid(o) ==
  /\ order[o].state = "PENDING"
  /\ order' = [order EXCEPT ![o].state = "PAID"]
  /\ entry' = [e \in Entry |-> Settled(o, entry[e])]
  /\ Excuse(When(\E e \in Entry : entry'[e].sale # entry[e].sale /\ entry[e].invite \in {"live", "spent"},
               "resold"))
  /\ UNCHANGED <<stock, release, batch, resizing>>

(* A sale that comes apart before dispatch gives its copies back; MaxStock *)
(* bounds what is on the shelf.                                            *)
OrderClosed(o, closed) ==
  /\ order[o].state \in IF closed = "REFUNDED" THEN {"PAID"} ELSE {"PENDING", "PAID"}
  /\ stock + order[o].copies <= MaxStock
  /\ order' = [order EXCEPT ![o].state = closed]
  /\ stock' = stock + order[o].copies
  /\ entry' = [e \in Entry |-> Released(o, entry[e])]
  /\ UNCHANGED <<release, batch, resizing, excused>>

(* Dispatched: its copies do not come back, whatever becomes of it. *)
OrderSent(o) ==
  /\ order[o].state = "PAID"
  /\ order' = [order EXCEPT ![o].state = "SENT"]
  /\ UNCHANGED <<stock, entry, release, batch, resizing, excused>>

ConfirmationWithdrawn(o) ==
  /\ order[o].state = "PAID"
  /\ order' = [order EXCEPT ![o].state = "PENDING"]
  /\ UNCHANGED <<stock, entry, release, batch, resizing, excused>>

OrderReopened(o) ==
  /\ order[o].state = "CANCELLED" /\ order[o].copies <= Available(entry)
  /\ order' = [order EXCEPT ![o].state = "PENDING"]
  /\ stock' = stock - order[o].copies
  /\ UNCHANGED <<entry, release, batch, resizing, excused>>

-----------------------------------------------------------------------------
Desk ==
  \/ \E r \in Release :
       \/ \E n \in 1..MaxRelease : OpenRelease(r, n) \/ StartResize(r, n)
       \/ CloseRelease(r)
  \/ Resize
  \/ \E w \in Worker :
       \/ PlanBatch(w)
       \/ \E e \in Entry : Issue(w, e) \/ \E arrives \in BOOLEAN : Text(w, e, arrives)
  \/ \E e \in Entry, s \in {"PENDING", "NOTIFIED", "CONVERTED", "CANCELLED"} : StaffSets(e, s)
  \/ \E n \in 0..MaxStock : SetStock(n)

Customers ==
  \/ \E e \in Entry : Subscribe(e) \/ Lapse(e)
  \/ \E o \in Order, n \in 1..MaxBuy :
       \/ StrangerBuys(o, n)
       \/ \E e \in Entry : InviteeBuys(e, o, n) \/ WaiterBuys(e, o, n)

Lifecycle ==
  \E o \in Order :
    \/ OrderPaid(o) \/ ConfirmationWithdrawn(o) \/ OrderSent(o) \/ OrderReopened(o)
    \/ \E closed \in {"CANCELLED", "REFUNDED"} : OrderClosed(o, closed)

Next == Desk \/ Customers \/ Lifecycle \/ Crash

Spec == Init /\ [][Next]_vars

-----------------------------------------------------------------------------
(* reservations.ts:171: an invited customer is admitted by arithmetic.     *)
(* Spending a link frees its own copies, so the holder of any link finds   *)
(* them as long as what is promised and set aside is on the shelf.  The    *)
(* excuses are all that can come between.                                  *)
InviteesAreAdmitted ==
  excused \/ \A e \in Live(entry) : Quantity[e] <= Available([entry EXCEPT ![e].invite = "spent"])

(* waitlist-allocation.service.ts:181: no release is overdrawn.            *)
NoReleaseIsOverdrawn ==
  excused \/ \A r \in Open : Committed(entry, r) <= release[r].copies

(* An entry is linked to an order only while the order may still be paid:  *)
(* settle and release leave no customer suppressed by a finished order.    *)
LinksAwaitPayment == \A e \in Entry : entry[e].order # NoOrder => order[entry[e].order].state = "PENDING"

-----------------------------------------------------------------------------
(* What the comments of the code promise and the code does not keep        *)
(* (README, section 4).                                                    *)

(* waitlist-lane.ts:22: a copy is off the public shelf if and only if its  *)
(* entry is in the INVITED lane.                                           *)
HeldMeansInvited == \A e \in Live(entry) : entry[e].status \in {"PENDING", "NOTIFIED"}

(* admin-waitlist-invite.service.ts:362: sending the invites moves only    *)
(* PENDING rows to NOTIFIED.                                               *)
OnlyPendingIsNotified ==
  [][\A e \in Entry, w \in Worker :
       e \in batch[w].texting \ batch'[w].texting /\ entry'[e].status # entry[e].status =>
         entry[e].status = "PENDING"]_vars

(* waitlist-fulfillment.service.ts:17: no customer whose order of the book *)
(* was placed from the queue and is paid goes back to wait for it.         *)
NoBuyerIsRequeued ==
  [][\A e \in Entry :
       entry[e].order # NoOrder /\ entry'[e].order = NoOrder /\ entry'[e].status \in {"PENDING", "NOTIFIED"} =>
         ~\E o \in Order : order[o].buyer = e /\ order[o].state \in {"PAID", "SENT"}]_vars

=============================================================================
