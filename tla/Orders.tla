------------------------------- MODULE Orders -------------------------------
(***************************************************************************)
(* Orders, their history and the copies they hold: CheckoutService and     *)
(* OrdersService of apps/api/src/orders.                                   *)
(*                                                                         *)
(* A worker is one API request in progress.  A step of a worker is one     *)
(* database statement whose result it acts upon; between two steps of one  *)
(* worker any other worker may run, which is what READ COMMITTED allows.   *)
(* A guarded UPDATE of an orders row takes the row's lock until the        *)
(* transaction ends, so the rows a transaction has written and not yet     *)
(* committed are kept in its own job (`draft`, `returned`) where no other  *)
(* worker can read them, and another worker's UPDATE of the row waits.     *)
(***************************************************************************)
EXTENDS OrderMachine, FiniteSets

CONSTANTS
  Order,          \* the orders rows that can come to exist
  Book,
  Worker,         \* requests in progress at one time
  Cart,           \* the checkout requests customers send (and send again)
  Key, Receipt,   \* idempotency keys and normalised transaction IDs
  NoReceipt, NoOrder, NoCart,
  Printed,        \* copies of each book at the start
  MaxHistory,     \* bound: no request is started on an order this old
  MaxWithheld     \* bound: copies the waitlist keeps from the public shelf

ASSUME OrdersAssumption ==
  /\ Printed \in [Book -> Nat]
  /\ Cart \subseteq [key : Key, receipt : Receipt \cup {NoReceipt}, basket : [Book -> Nat]]
  /\ NoReceipt \notin Receipt /\ NoOrder \notin Order /\ NoCart \notin Cart
  /\ MaxHistory \in Nat /\ MaxWithheld \in Nat

VARIABLES
  status,     \* orders.status, "ABSENT" until the row is inserted
  items,      \* order_items: copies of each book
  receipt,    \* orders.transaction_id_normalised
  key,        \* orders.idempotency_key
  history,    \* order_status_history, oldest first
  stock,      \* books.stock_quantity
  withheld,   \* copies reserved or ringfenced for the waitlist
  job         \* what each worker is in the middle of

orderVars == <<status, items, receipt, key, history>>
vars == <<status, items, receipt, key, history, stock, withheld, job>>

-----------------------------------------------------------------------------
Idle == [op |-> "none", pc |-> "idle", o |-> NoOrder, to |-> "PENDING", cart |-> NoCart,
         from |-> "PENDING", seen |-> "PENDING", route |-> <<>>, draft |-> <<>>,
         returned |-> FALSE]

Job == [op : {"none", "checkout", "move", "advance", "cancel", "reopen"},
        pc : {"idle", "key", "receipt", "write", "before", "read", "update", "walk",
              "commit", "claim", "retake", "announce"},
        o : Order \cup {NoOrder}, to : OrderStatus, cart : Cart \cup {NoCart},
        from : OrderStatus,       \* before.status: what the event will say
        seen : OrderStatus,       \* the status transition() last read or wrote
        route : Seq(OrderStatus), \* statuses still to enter in this transaction
        draft : Seq(OrderStatus), \* statuses entered in this transaction
        returned : BOOLEAN]       \* whether restoreStock has run in it

TypeOK ==
  /\ status \in [Order -> OrderStatus \cup {"ABSENT"}]
  /\ items \in [Order -> [Book -> Nat]]
  /\ receipt \in [Order -> Receipt \cup {NoReceipt}]
  /\ key \in [Order -> Key \cup {"none"}]
  /\ history \in [Order -> Seq(OrderStatus)]
  /\ stock \in [Book -> Nat]
  /\ withheld \in [Book -> 0..MaxWithheld]
  /\ job \in [Worker -> Job]

Init ==
  /\ status = [o \in Order |-> "ABSENT"]
  /\ items = [o \in Order |-> [b \in Book |-> 0]]
  /\ receipt = [o \in Order |-> NoReceipt]
  /\ key = [o \in Order |-> "none"]
  /\ history = [o \in Order |-> <<>>]
  /\ stock = Printed
  /\ withheld = [b \in Book |-> 0]
  /\ job = [w \in Worker |-> Idle]

Exists(o) == status[o] # "ABSENT"

(* A worker whose transaction has updated the row and not committed. *)
LockedBy(w, o) == job[w].o = o /\ job[w].pc \in {"walk", "commit"}
Locked(o) == \E w \in Worker : LockedBy(w, o)

(* orders_transaction_id_live_unique_idx: CANCELLED and REFUNDED let go. *)
RELEASED_STATUSES == {"CANCELLED", "REFUNDED"}
Live(o) == Exists(o) /\ status[o] \notin RELEASED_STATUSES

(* findTransactionIdClaim: another live order quotes this receipt. *)
Claims(r, self) == {o \in Order \ {self} : r # NoReceipt /\ receipt[o] = r /\ Live(o)}

(* A mutant: the guarded UPDATE forgets the copies kept for the waitlist.  *)
Available_Unguarded(basket) == TRUE

(* InventoryService.decrement, for every line of the basket. *)
Available(basket) == \A b \in Book : basket[b] = 0 \/ stock[b] - withheld[b] >= basket[b]

Go(w, pc) == job' = [job EXCEPT ![w].pc = pc]
Finish(w) == job' = [job EXCEPT ![w] = Idle]

-----------------------------------------------------------------------------
(* CheckoutService.placeOrder and writeOrder. *)

(* Bound: order rows, those still absent and not spoken for by a checkout. *)
RoomForOrder ==
  Cardinality({w \in Worker : job[w].op = "checkout"}) < Cardinality({o \in Order : ~Exists(o)})

StartCheckout(w, c) ==
  /\ job[w] = Idle /\ RoomForOrder
  /\ job' = [job EXCEPT ![w] = [Idle EXCEPT !.op = "checkout", !.pc = "key", !.cart = c]]
  /\ UNCHANGED <<orderVars, stock, withheld>>

FindByIdempotencyKey(w) ==
  /\ job[w].pc = "key"
  /\ IF \E o \in Order : key[o] = job[w].cart.key THEN Finish(w) ELSE Go(w, "receipt")
  /\ UNCHANGED <<orderVars, stock, withheld>>

RejectReusedReceipt(w) ==
  /\ job[w].pc = "receipt"
  /\ IF Claims(job[w].cart.receipt, NoOrder) # {} THEN Finish(w) ELSE Go(w, "write")
  /\ UNCHANGED <<orderVars, stock, withheld>>

(* A mutant: the pre-flight read of the receipt is trusted, and no unique  *)
(* index backs it up.                                                      *)
MayInsert_ReceiptIsRead(c) == (\A o \in Order : key[o] # c.key) /\ Available(c.basket)

(* The unique indexes and the guarded decrements, all of which roll the    *)
(* transaction back when they refuse.                                      *)
MayInsert(c) ==
  /\ \A o \in Order : key[o] # c.key
  /\ Claims(c.receipt, NoOrder) = {}
  /\ Available(c.basket)

(* writeOrder from its decrements to its commit.  An INSERT that meets an  *)
(* index entry another transaction is changing waits for that transaction. *)
WriteOrder(w) ==
  LET c == job[w].cart IN
  /\ job[w].pc = "write"
  /\ \A o \in Claims(c.receipt, NoOrder) : ~Locked(o)
  /\ IF MayInsert(c)
     THEN \E o \in Order :
            /\ ~Exists(o)
            /\ stock' = [b \in Book |-> stock[b] - c.basket[b]]
            /\ status' = [status EXCEPT ![o] = "PENDING"]
            /\ items' = [items EXCEPT ![o] = c.basket]
            /\ receipt' = [receipt EXCEPT ![o] = c.receipt]
            /\ key' = [key EXCEPT ![o] = c.key]
            /\ history' = [history EXCEPT ![o] = <<"PENDING">>]
     ELSE UNCHANGED <<orderVars, stock>>
  /\ Finish(w)
  /\ UNCHANGED withheld

-----------------------------------------------------------------------------
(* transitionAndCommit ("move") and advanceAndCommit ("advance").  A       *)
(* caller that owns the transaction and drives transition() itself (a      *)
(* reverted confirmation, a recorded refund) is a move too: its `from` is  *)
(* read before the transaction rather than at its start, which at READ     *)
(* COMMITTED makes no difference.                                          *)

StartMove(w, op, o, to) ==
  /\ job[w] = Idle /\ Exists(o) /\ Len(history[o]) < MaxHistory
  /\ job' = [job EXCEPT ![w] = [Idle EXCEPT !.op = op, !.pc = "before", !.o = o, !.to = to]]
  /\ UNCHANGED <<orderVars, stock, withheld>>

(* The `before` read, and the route walked from it. *)
ReadBefore(w) ==
  LET here == status[job[w].o]
      route == IF job[w].op = "advance" THEN forwardPathTo(here, job[w].to) ELSE <<job[w].to>>
  IN
  /\ job[w].pc = "before"
  /\ IF job[w].op = "advance" /\ (~IsReachable(here, job[w].to) \/ here = job[w].to)
     THEN Finish(w)
     ELSE job' = [job EXCEPT ![w].from = here, ![w].route = route, ![w].pc = "read"]
  /\ UNCHANGED <<orderVars, stock, withheld>>

(* transition(): the read of the current status and the check against the  *)
(* table ...                                                               *)
ReadStatus(w) ==
  LET here == status[job[w].o] IN
  /\ job[w].pc = "read"
  /\ IF canTransition(here, Head(job[w].route))
     THEN job' = [job EXCEPT ![w].seen = here, ![w].pc = "update"]
     ELSE Finish(w)
  /\ UNCHANGED <<orderVars, stock, withheld>>

(* ... the writes of one transition, kept in the job until the commit ...  *)
Enter(w) ==
  LET j == job[w] IN
  job' = [job EXCEPT ![w] =
            [j EXCEPT !.seen = Head(j.route), !.route = Tail(j.route),
                      !.draft = Append(j.draft, Head(j.route)),
                      !.returned = j.returned \/ releasesStock(j.seen, Head(j.route)),
                      !.pc = IF Len(j.route) = 1 THEN "commit" ELSE "walk"]]

(* A mutant: UPDATE ... WHERE id = ?, without the status that was read. *)
StillThere_IdOnly(w) == TRUE

(* The guard of the UPDATE: the row is still in the status that was read. *)
StillThere(w) == status[job[w].o] = job[w].seen

(* ... the guarded UPDATE of the first step: it matches no row, or waits   *)
(* for the row's lock and looks again ...                                  *)
Update(w) ==
  /\ job[w].pc = "update"
  /\ \/ ~StillThere(w) /\ Finish(w)
     \/ StillThere(w) /\ ~Locked(job[w].o) /\ Enter(w)
  /\ UNCHANGED <<orderVars, stock, withheld>>

(* ... and the later steps of a walk, which read what the transaction      *)
(* itself wrote.                                                           *)
Walk(w) ==
  /\ job[w].pc = "walk"
  /\ IF canTransition(job[w].seen, Head(job[w].route)) THEN Enter(w) ELSE Finish(w)
  /\ UNCHANGED <<orderVars, stock, withheld>>

(* A mutant: the copies come back on every exit the job noted, twice over  *)
(* for a walk, because the flag is ignored.                                *)
Restored_Always(w) == [b \in Book |-> stock[b] + items[job[w].o][b]]

(* restoreStock, if a step of the transaction called it. *)
Restored(w) ==
  IF job[w].returned THEN [b \in Book |-> stock[b] + items[job[w].o][b]] ELSE stock

Commit(w) ==
  LET j == job[w] IN
  /\ j.pc = "commit"
  /\ status' = [status EXCEPT ![j.o] = j.seen]
  /\ history' = [history EXCEPT ![j.o] = history[j.o] \o j.draft]
  /\ stock' = Restored(w)
  /\ Go(w, "announce")
  /\ UNCHANGED <<items, receipt, key, withheld>>

(* Emitting the events of a committed change, one per status entered. *)
Announce(w) ==
  /\ job[w].pc = "announce"
  /\ Finish(w)
  /\ UNCHANGED <<orderVars, stock, withheld>>

(* What announcing says, in order: <<from, to>> for each status entered. *)
Announced(j) ==
  LET walk == <<j.from>> \o j.draft IN [i \in 1..Len(j.draft) |-> <<walk[i], walk[i + 1]>>]

-----------------------------------------------------------------------------
(* OrdersService.cancel: SELECT ... FOR UPDATE, the STOCK_HELD check, then *)
(* transition() under the row lock.                                        *)
Cancel(w, o) ==
  /\ job[w] = Idle /\ ~Locked(o)
  /\ status[o] \in STOCK_HELD_STATUSES /\ canTransition(status[o], "CANCELLED")
  /\ job' = [job EXCEPT ![w] =
               [Idle EXCEPT !.op = "cancel", !.pc = "commit", !.o = o, !.from = status[o],
                            !.seen = "CANCELLED", !.draft = <<"CANCELLED">>,
                            !.returned = releasesStock(status[o], "CANCELLED")]]
  /\ UNCHANGED <<orderVars, stock, withheld>>

-----------------------------------------------------------------------------
(* OrdersService.reopen. *)
StartReopen(w, o) ==
  /\ job[w] = Idle /\ Exists(o) /\ Len(history[o]) < MaxHistory
  /\ job' = [job EXCEPT ![w] = [Idle EXCEPT !.op = "reopen", !.pc = "claim", !.o = o]]
  /\ UNCHANGED <<orderVars, stock, withheld>>

ReadForReopen(w) ==
  LET o == job[w].o IN
  /\ job[w].pc = "claim"
  /\ IF status[o] = "CANCELLED" /\ Claims(receipt[o], o) = {}
     THEN Go(w, "retake") ELSE Finish(w)
  /\ UNCHANGED <<orderVars, stock, withheld>>

(* A mutant: the check made before the UPDATE is enough. *)
MayRetake_Checked(o) == Claims(receipt[o], o) = {} /\ Available(items[o])

(* The guarded UPDATE, the partial unique index and the decrements. *)
MayRetake(o) ==
  status[o] = "CANCELLED" /\ Claims(receipt[o], o) = {} /\ Available(items[o])

Retake(w) ==
  LET o == job[w].o IN
  /\ job[w].pc = "retake" /\ ~Locked(o)
  /\ \A other \in Claims(receipt[o], o) : ~Locked(other)
  /\ IF MayRetake(o)
     THEN /\ status' = [status EXCEPT ![o] = "PENDING"]
          /\ history' = [history EXCEPT ![o] = Append(history[o], "PENDING")]
          /\ stock' = [b \in Book |-> stock[b] - items[o][b]]
          /\ job' = [job EXCEPT ![w].from = "CANCELLED", ![w].draft = <<"PENDING">>,
                                ![w].pc = "announce"]
          /\ UNCHANGED <<items, receipt, key>>
     ELSE Finish(w) /\ UNCHANGED <<orderVars, stock>>
  /\ UNCHANGED withheld

-----------------------------------------------------------------------------
(* The waitlist reserving, ringfencing and freeing copies, as seen from    *)
(* here: any change of the number InventoryService subtracts.              *)
WaitlistHolds(b) ==
  /\ \E n \in 0..MaxWithheld : n # withheld[b] /\ withheld' = [withheld EXCEPT ![b] = n]
  /\ UNCHANGED <<orderVars, stock, job>>

(* The process dies: open transactions roll back, unsent events are lost.  *)
Crash ==
  /\ \E w \in Worker : job[w] # Idle
  /\ job' = [w \in Worker |-> Idle]
  /\ UNCHANGED <<orderVars, stock, withheld>>

(* The steps of a request that is in progress, up to its announcement.     *)
Work(w) ==
  \/ FindByIdempotencyKey(w) \/ RejectReusedReceipt(w) \/ WriteOrder(w)
  \/ ReadBefore(w) \/ ReadStatus(w) \/ Update(w) \/ Walk(w) \/ Commit(w)
  \/ ReadForReopen(w) \/ Retake(w)

(* A request arrives.                                                      *)
Arrive(w) ==
  \/ \E c \in Cart : StartCheckout(w, c)
  \/ \E o \in Order :
       \/ \E to \in OrderStatus, op \in {"move", "advance"} : StartMove(w, op, o, to)
       \/ Cancel(w, o)
       \/ StartReopen(w, o)

Serve == \E w \in Worker : Arrive(w) \/ Work(w)

Next ==
  \/ Serve
  \/ \E w \in Worker : Announce(w)
  \/ \E b \in Book : WaitlistHolds(b)
  \/ Crash

Spec == Init /\ [][Next]_vars

-----------------------------------------------------------------------------
Shipped(o) == \E i \in 1..Len(history[o]) : history[o][i] = "SHIPPED"

(* Where the copies of an order are, read off its status and its history.  *)
Place(o) ==
  CASE status[o] = "ABSENT" -> "none"
    [] status[o] # "ABSENT" /\ Shipped(o) -> "gone"
    [] ~Shipped(o) /\ status[o] \in STOCK_HELD_STATUSES -> "held"
    [] OTHER -> "returned"

(* A step of the machine, or the one move that is not an edge of it.       *)
LegalMove(a, b) == canTransition(a, b) \/ (a = "CANCELLED" /\ b = "PENDING")

(* The history is the order's life: it starts at PENDING, ends at the      *)
(* status column, and every entry follows from the one before it.  Two     *)
(* requests that both read a status and both move the order break it       *)
(* unless the loser's UPDATE matches no row.                               *)
HistoryIsTheLife ==
  \A o \in Order :
    IF Exists(o)
    THEN /\ Len(history[o]) > 0 /\ history[o][1] = "PENDING"
         /\ history[o][Len(history[o])] = status[o]
         /\ \A i \in 1..(Len(history[o]) - 1) : LegalMove(history[o][i], history[o][i + 1])
    ELSE history[o] = <<>>

(* One order per idempotency key and one live order per receipt, however   *)
(* checkouts, cancellations and reopenings of the same claim interleave.   *)
ClaimsAreExclusive ==
  \A o1, o2 \in Order :
    o1 # o2 /\ Exists(o1) /\ Exists(o2) =>
      /\ key[o1] # key[o2]
      /\ receipt[o1] # NoReceipt /\ Live(o1) /\ Live(o2) => receipt[o1] # receipt[o2]

(* Every copy printed is on the shelf or with exactly one order: no        *)
(* interleaving of checkouts, cancellations, refunds and reopenings        *)
(* invents a copy or loses one.                                            *)
CopiesWithOrders(b) ==
  UNION {{o} \X (1..items[o][b]) : o \in {x \in Order : Place(x) \in {"held", "gone"}}}

CopiesAreConserved == \A b \in Book : stock[b] + Cardinality(CopiesWithOrders(b)) = Printed[b]

(* Copies move as the ledger says: taken when the order is placed, given   *)
(* back at most once per taking, never after the parcel has shipped.       *)
Ledger == INSTANCE ShelfLedger
            WITH Basket <- {c.basket : c \in Cart}, shelf <- stock, lines <- items,
                 place <- [o \in Order |-> Place(o)]
LedgerSpec == Ledger!LedgerSpec

-----------------------------------------------------------------------------
(* The inductive invariant: what the properties above rest on.             *)

DraftShipped(w) == \E i \in 1..Len(job[w].draft) : job[w].draft[i] = "SHIPPED"

(* The uncommitted statuses of a transaction continue the committed one.   *)
DraftIsAWalk(w) ==
  LET d == job[w].draft IN
  /\ Len(d) > 0 /\ d[Len(d)] = job[w].seen
  /\ canTransition(status[job[w].o], d[1])
  /\ \A i \in 1..(Len(d) - 1) : canTransition(d[i], d[i + 1])

(* Whether the copies are due back is settled by where the walk has got.   *)
DraftPlace(w) ==
  LET seen == job[w].seen
      wasHeld == status[job[w].o] \in STOCK_HELD_STATUSES /\ ~DraftShipped(w)
      isGone == DraftShipped(w) \/ status[job[w].o] \in {"SHIPPED", "DELIVERED"}
  IN
  /\ seen \in STOCK_HELD_STATUSES => wasHeld /\ ~job[w].returned
  /\ seen \in {"SHIPPED", "DELIVERED"} => isGone /\ ~job[w].returned
  /\ seen = "CANCELLED" => wasHeld /\ job[w].returned
  /\ seen = "REFUNDED" => IF job[w].returned THEN wasHeld ELSE isGone

JobOK(w) ==
  LET j == job[w] IN
  /\ j.pc \in {"key", "receipt", "write"} => j.cart \in Cart
  /\ j.pc \in {"before", "read", "update", "walk", "commit", "claim", "retake", "announce"}
       => j.o \in Order /\ Exists(j.o)
  /\ j.pc \in {"before", "read", "update"} => j.draft = <<>> /\ ~j.returned
  /\ j.pc \in {"read", "update", "walk"} => j.route # <<>>
  /\ j.pc = "update" => canTransition(j.seen, Head(j.route))
  /\ j.pc \in {"walk", "commit"} => DraftIsAWalk(w) /\ DraftPlace(w)

(* The row lock: one transaction at a time has rows of an order to commit. *)
OneWriter ==
  \A o \in Order, v, w \in Worker : LockedBy(v, o) /\ LockedBy(w, o) => v = w

ShippedAgrees ==
  \A o \in Order :
    /\ status[o] \in STOCK_HELD_STATUSES \cup {"CANCELLED"} => ~Shipped(o)
    /\ status[o] \in {"SHIPPED", "DELIVERED"} => Shipped(o)

OrdersInv ==
  /\ TypeOK
  /\ \A w \in Worker : JobOK(w)
  /\ OneWriter
  /\ HistoryIsTheLife
  /\ ShippedAgrees

=============================================================================
