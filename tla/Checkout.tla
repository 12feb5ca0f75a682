------------------------------ MODULE Checkout ------------------------------
(***************************************************************************)
(* CheckoutService.writeOrder statement by statement, as PostgreSQL runs   *)
(* several at READ COMMITTED.  Module Orders takes the writes of a         *)
(* checkout in one step; here they are apart, because what matters is what *)
(* happens between them.                                                   *)
(*                                                                         *)
(* A statement sees what was committed when it began, and its own          *)
(* transaction's writes.  An UPDATE locks its row until the transaction    *)
(* ends; one that had to wait for the row checks its WHERE clause again,   *)
(* against the row as it has become, while the subqueries in that clause   *)
(* still answer from the moment the statement began.  What a transaction   *)
(* has written and not committed follows from how far it has come.         *)
(*                                                                         *)
(* Receipts, the history and the lines an order settles for other entries  *)
(* are left to modules Orders and Waitlist.                                *)
(***************************************************************************)
EXTENDS Integers, Sequences, FiniteSets

CONSTANTS
  Worker,      \* requests in progress at one time
  Book, Key,
  Entry,       \* waitlist entries that may be invited
  NoEntry,
  Request,     \* the bodies customers send (and send again)
  NoRequest,
  Wants,       \* the book and the copies each entry asks for
  MaxUses,     \* coupons.max_uses
  MaxLine,     \* MAX_LINE_QUANTITY
  MaxStock     \* bound: copies of a book on the shelf

(* A request's lines are as mergeItems leaves them, in the order the       *)
(* books were put into the cart.                                           *)
ASSUME CheckoutAssumption ==
  /\ Request \subseteq [key : Key, lines : Seq([book : Book, copies : 1..MaxLine]), coupon : BOOLEAN,
                        entry : Entry \cup {NoEntry}, link : BOOLEAN]
  /\ \A r \in Request :
       /\ r.lines # <<>> /\ (r.link => r.entry # NoEntry)
       /\ \A i, j \in DOMAIN r.lines : r.lines[i].book = r.lines[j].book => i = j
  /\ Wants \in [Entry -> [book : Book, copies : 1..MaxLine]]
  /\ IsFiniteSet(Entry)
  /\ NoEntry \notin Entry /\ NoRequest \notin Request
  /\ MaxUses \in Nat /\ MaxLine \in Nat /\ MaxStock \in Nat

VARIABLES
  stock,       \* books.stock_quantity
  bought,      \* the committed order of each idempotency key
  used,        \* coupons.times_used
  invite,      \* of each entry: none, live, lapsed, or spent
  charge,      \* the copies each entry's invite costs its release
  release,     \* of each book: the copies of its open release, 0 if none
  job,         \* what each worker is in the middle of
  surprised    \* books set aside while a checkout was taking copies of them

checkoutVars == <<stock, bought, used, invite, charge, release, job, surprised>>

Idle == [pc |-> "idle", req |-> NoRequest, line |-> 1, seen |-> 0, spent |-> NoEntry]

Jobs == [pc : {"idle", "key", "spend", "price", "line", "wait", "redeem", "insert", "commit"},
         req : Request \cup {NoRequest},
         line : Nat \ {0},             \* the line to decrement next
         seen : Nat,                   \* what the decrement's subqueries answered
         spent : Entry \cup {NoEntry}] \* the invite this transaction has spent

CheckoutInit ==
  /\ stock \in [Book -> 0..MaxStock]
  /\ bought = [k \in Key |-> NoRequest]
  /\ used = 0
  /\ invite = [e \in Entry |-> "none"]
  /\ charge = [e \in Entry |-> 0]
  /\ release = [b \in Book |-> 0]
  /\ job = [w \in Worker |-> Idle]
  /\ surprised = {}

-----------------------------------------------------------------------------
(* What a transaction holds, and who waits for whom. *)

Lines(w) == job[w].req.lines
Line(w) == Lines(w)[job[w].line]

CopiesOf(r, b) ==
  IF \E i \in DOMAIN r.lines : r.lines[i].book = b
  THEN r.lines[CHOOSE i \in DOMAIN r.lines : r.lines[i].book = b].copies ELSE 0

Writing(w) == job[w].pc \in {"line", "wait", "redeem", "insert", "commit"}

(* A mutant: the stock is read, and written later.                         *)
BookLocked_ReadThenWrite(b, w) == FALSE

BookLocked(b, w) == Writing(w) /\ \E i \in DOMAIN Lines(w) : i < job[w].line /\ Lines(w)[i].book = b

CouponLocked(w) == job[w].pc \in {"insert", "commit"} /\ job[w].req.coupon
KeyTaken(k, w) == job[w].pc = "commit" /\ job[w].req.key = k
EntryLocked(e, w) == e # NoEntry /\ job[w].spent = e

WaitsFor(w, v) ==
  /\ v # w
  /\ \/ job[w].pc = "spend" /\ EntryLocked(job[w].req.entry, v)
     \/ job[w].pc = "wait" /\ BookLocked(Line(w).book, v)
     \/ job[w].pc = "redeem" /\ job[w].req.coupon /\ CouponLocked(v)
     \/ job[w].pc = "insert" /\ KeyTaken(job[w].req.key, v)

Waits(w) == \E v \in Worker : WaitsFor(w, v)

(* Everyone in a set of transactions waits for another of the set.         *)
Deadlocked(S) == S # {} /\ \A w \in S : \E v \in S : WaitsFor(w, v)

-----------------------------------------------------------------------------
(* reservations.ts, to one who takes the entries in `mine` for spent. *)

Held(b, mine) == {e \in Entry \ mine : Wants[e].book = b /\ invite[e] = "live"}

(* A sum over entries, counted copy by copy. *)
SumOver(S, n) == Cardinality({p \in S \X (1..MaxLine) : p[2] <= n[p[1]]})

(* reservedQuantitySql *)
Reserved(b, mine) == SumOver(Held(b, mine), [e \in Entry |-> Wants[e].copies])

(* committedSql, of the release that is open: charged while it can still   *)
(* be spent, and once it is.                                               *)
Committed(b) ==
  SumOver({e \in Entry : Wants[e].book = b /\ invite[e] \in {"live", "spent"}}, charge)

(* ringfencedQuantitySql *)
Ringfenced(b) == IF release[b] > Committed(b) THEN release[b] - Committed(b) ELSE 0

(* A mutant: the decrement takes the shelf count for what is left.         *)
Withheld_ShelfOnly(b, mine) == 0

(* What publicAvailableSql subtracts from the stock. *)
Withheld(b, mine) == Reserved(b, mine) + Ringfenced(b)

-----------------------------------------------------------------------------
(* The steps of a checkout. *)

Go(w, pc) == job' = [job EXCEPT ![w].pc = pc]

(* Answered or refused: what was not committed is gone, and the locks.     *)
Finish(w) == job' = [job EXCEPT ![w] = Idle]

shopVars == <<stock, bought, used, invite, charge, release, surprised>>

Start(w, r) ==
  /\ job[w] = Idle
  /\ job' = [job EXCEPT ![w] = [Idle EXCEPT !.pc = "key", !.req = r]]
  /\ UNCHANGED shopVars

FindByIdempotencyKey(w) ==
  /\ job[w].pc = "key"
  /\ IF bought[job[w].req.key] # NoRequest THEN Finish(w) ELSE Go(w, "spend")
  /\ UNCHANGED shopVars

(* consumeInvite: the link must name a live invite and the basket must     *)
(* hold its book, and no more copies than it keeps.                        *)
LinkAccepted(r) ==
  /\ invite[r.entry] = "live"
  /\ CopiesOf(r, Wants[r.entry].book) \in 1..Wants[r.entry].copies

(* consumeForCustomer: whatever the phone number holds of these books.     *)
Recognised(r) == r.entry # NoEntry /\ invite[r.entry] = "live" /\ CopiesOf(r, Wants[r.entry].book) > 0

(* Either UPDATE waits for a row another checkout is spending, and reads   *)
(* it again.                                                               *)
SpendInvite(w) ==
  LET r == job[w].req IN
  /\ job[w].pc = "spend" /\ ~Waits(w)
  /\ IF r.link /\ ~LinkAccepted(r)
     THEN Finish(w)
     ELSE job' = [job EXCEPT ![w].pc = "price",
                             ![w].spent = IF r.link \/ Recognised(r) THEN r.entry ELSE NoEntry]
  /\ UNCHANGED shopVars

(* CouponsService.evaluate, of the use limit.                              *)
CouponApplies(r) == r.coupon => used < MaxUses

(* rejectionFor: pricing subtracts what is promised, not what is set aside. *)
Offered(b, mine) == stock[b] - Reserved(b, mine)

(* repriceForOrder: one line out of stock refuses the order.               *)
Reprice(w) ==
  LET r == job[w].req IN
  /\ job[w].pc = "price"
  /\ IF CouponApplies(r) /\ \A i \in DOMAIN r.lines : Offered(r.lines[i].book, {job[w].spent}) > 0
     THEN Go(w, "line") ELSE Finish(w)
  /\ UNCHANGED shopVars

NextLine(w) ==
  IF job[w].line < Len(Lines(w))
  THEN [job[w] EXCEPT !.pc = "line", !.line = job[w].line + 1]
  ELSE [job[w] EXCEPT !.pc = "redeem", !.line = job[w].line + 1]

(* InventoryService.decrement is sent: its subqueries answer from now.     *)
SendDecrement(w) ==
  /\ job[w].pc = "line"
  /\ job' = [job EXCEPT ![w].pc = "wait", ![w].seen = Withheld(Line(w).book, {job[w].spent})]
  /\ UNCHANGED shopVars

(* The row is its own: taken, or the order is refused.                     *)
Decrement(w) ==
  /\ job[w].pc = "wait" /\ ~Waits(w)
  /\ IF stock[Line(w).book] - job[w].seen >= Line(w).copies
     THEN job' = [job EXCEPT ![w] = NextLine(w)] ELSE Finish(w)
  /\ UNCHANGED shopVars

(* A mutant: the limit was checked when the cart was priced.               *)
MayRedeem_AsPriced(r) == TRUE

(* CouponsService.redeem: the limit is in the WHERE clause.                *)
MayRedeem(r) == r.coupon => used < MaxUses

Redeem(w) ==
  /\ job[w].pc = "redeem" /\ ~Waits(w)
  /\ IF MayRedeem(job[w].req) THEN Go(w, "insert") ELSE Finish(w)
  /\ UNCHANGED shopVars

(* A mutant: every conflict is worth another try.                          *)
InsertOrder_RetriesAny(w) ==
  /\ job[w].pc = "insert" /\ ~Waits(w)
  /\ IF bought[job[w].req.key] = NoRequest THEN Go(w, "commit") ELSE Go(w, "redeem")
  /\ UNCHANGED shopVars

(* insertOrder: the unique index on the key waits for an order that may    *)
(* yet be taken back; if it is not, replayOf answers with it.              *)
InsertOrder(w) ==
  /\ job[w].pc = "insert" /\ ~Waits(w)
  /\ IF bought[job[w].req.key] = NoRequest THEN Go(w, "commit") ELSE Finish(w)
  /\ UNCHANGED shopVars

(* markConverted, and the end of the transaction.                          *)
Commit(w) ==
  LET r == job[w].req
      e == job[w].spent
  IN
  /\ job[w].pc = "commit"
  /\ stock' = [b \in Book |-> stock[b] - CopiesOf(r, b)]
  /\ used' = IF r.coupon THEN used + 1 ELSE used
  /\ bought' = [bought EXCEPT ![r.key] = r]
  /\ IF e = NoEntry THEN UNCHANGED <<invite, charge>>
     ELSE /\ invite' = [invite EXCEPT ![e] = "spent"]
          /\ charge' = [charge EXCEPT ![e] = CopiesOf(r, Wants[e].book)]
  /\ Finish(w)
  /\ UNCHANGED <<release, surprised>>

(* PostgreSQL ends one transaction of a deadlock with 40P01.               *)
DeadlockVictim(w) ==
  /\ \E S \in SUBSET Worker : w \in S /\ Deadlocked(S)
  /\ Finish(w)
  /\ UNCHANGED shopVars

Proceed(w) ==
  \/ FindByIdempotencyKey(w) \/ SpendInvite(w) \/ Reprice(w) \/ SendDecrement(w)
  \/ Decrement(w) \/ Redeem(w) \/ InsertOrder(w) \/ Commit(w)

-----------------------------------------------------------------------------
(* What else writes these rows, each a transaction of one statement. *)

Taking(b) == \E w \in Worker : BookLocked(b, w) \/ (job[w].pc = "wait" /\ Line(w).book = b)

(* Copies that come back with a cancelled order, or from the printer.      *)
Restock(b) ==
  /\ stock[b] < MaxStock /\ \A w \in Worker : ~BookLocked(b, w)
  /\ stock' = [stock EXCEPT ![b] = stock[b] + 1]
  /\ UNCHANGED <<bought, used, invite, charge, release, job, surprised>>

(* Copies are set aside for the queue; staff may set aside any number.  A  *)
(* book's next release starts with no charges, so the bound is one whose   *)
(* entries have not been invited.                                          *)
OpenRelease(b, n) ==
  /\ release[b] = 0 /\ \A e \in Entry : Wants[e].book = b => invite[e] = "none"
  /\ release' = [release EXCEPT ![b] = n]
  /\ surprised' = IF Taking(b) THEN surprised \cup {b} ELSE surprised
  /\ UNCHANGED <<stock, bought, used, invite, charge, job>>

CloseRelease(b) ==
  /\ release[b] > 0
  /\ release' = [release EXCEPT ![b] = 0]
  /\ UNCHANGED <<stock, bought, used, invite, charge, job, surprised>>

(* spendableByBook and issue, for one entry.                               *)
Invite(e) ==
  LET b == Wants[e].book IN
  /\ invite[e] \in {"none", "lapsed"} /\ \A w \in Worker : ~EntryLocked(e, w)
  /\ Wants[e].copies <= release[b] - Committed(b)
  /\ Wants[e].copies <= stock[b] - Reserved(b, {})
  /\ invite' = [invite EXCEPT ![e] = "live"]
  /\ charge' = [charge EXCEPT ![e] = Wants[e].copies]
  /\ UNCHANGED <<stock, bought, used, release, job, surprised>>

(* The window closes: nothing is written, now() has passed a column.  One  *)
(* a checkout has already spent is spent.                                  *)
Lapse(e) ==
  /\ invite[e] = "live" /\ \A w \in Worker : ~EntryLocked(e, w)
  /\ invite' = [invite EXCEPT ![e] = "lapsed"]
  /\ UNCHANGED <<stock, bought, used, charge, release, job, surprised>>

Elsewhere ==
  \/ \E b \in Book : Restock(b) \/ CloseRelease(b) \/ \E n \in 1..MaxStock : OpenRelease(b, n)
  \/ \E e \in Entry : Invite(e) \/ Lapse(e)

CheckoutNext ==
  \/ \E w \in Worker : (\E r \in Request : Start(w, r)) \/ Proceed(w) \/ DeadlockVictim(w)
  \/ Elsewhere

(* PostgreSQL grants a lock in the order it was asked for, and looks for   *)
(* deadlocks once a wait is a second old; the server runs every request.   *)
Fairness == \A w \in Worker : SF_checkoutVars(Proceed(w)) /\ WF_checkoutVars(DeadlockVictim(w))

CheckoutSpec == CheckoutInit /\ [][CheckoutNext]_checkoutVars /\ Fairness

-----------------------------------------------------------------------------
(* Types, and what is left after every line is. *)
CheckoutTypeOK ==
  /\ stock \in [Book -> Nat]
  /\ bought \in [Key -> Request \cup {NoRequest}]
  /\ used \in 0..MaxUses
  /\ invite \in [Entry -> {"none", "live", "lapsed", "spent"}]
  /\ charge \in [Entry -> Nat]
  /\ release \in [Book -> 0..MaxStock]
  /\ job \in [Worker -> Jobs]
  /\ surprised \subseteq Book

(* Whoever holds a live invite can still be sold the copies it keeps: what *)
(* is on the shelf covers every hold, while checkouts that have waited for *)
(* the row decide on holds as they were.  A release opened while a         *)
(* checkout is taking copies does not know of them, and is the one excuse. *)
HoldsAreCovered == \A b \in Book \ surprised : Reserved(b, {}) <= stock[b]

(* A request is answered, whatever it waits for and whoever else asks: no  *)
(* lock outlives its transaction, and a circle of waits is broken.         *)
EveryCheckoutIsAnswered == \A w \in Worker : (job[w] # Idle) ~> (job[w] = Idle)

(* Checkout implements Till: a checkout of many statements that may fail   *)
(* at each sells once for its key, copies that are there, and spends the   *)
(* coupon with the order and within its limit.                             *)
AsAsked(r) == [key |-> r.key, copies |-> [b \in Book |-> CopiesOf(r, b)], coupon |-> r.coupon]

Asks == {AsAsked(r) : r \in Request}

Sales == INSTANCE Till WITH
  Ask <- Asks, NoAsk <- NoRequest,
  shelf <- stock, uses <- used,
  sold <- [k \in Key |-> IF bought[k] = NoRequest THEN NoRequest ELSE AsAsked(bought[k])]

IsATill == Sales!TillSpec

(* checkout.service.ts says lines are taken one by one so that the order   *)
(* of locks does not depend on scheduling, which is how deadlocks between  *)
(* two carts with the same two titles start: no checkouts wait in a circle. *)
CartsNeverDeadlock == \A S \in SUBSET Worker : ~Deadlocked(S)

(* reservations.ts says the cart quote renders from the expression the     *)
(* decrement enforces: what a cart offers may be bought.                   *)
OfferedIsAvailable == \A b \in Book : Offered(b, {}) > 0 => stock[b] - Withheld(b, {}) > 0
=============================================================================
