# Sakura Book: verification of the shop

TLA+ models of the parts of Sakura Book that can lose money, copies, customers or somebody's
work when two things happen at once: orders and their stock, checkout, payments, the sales
counter, the waitlist that sells a restock to the people who asked for it, staff accounts and
sessions, and the pages of the storefront and the admin panel that drive them. The shop is a
NestJS API on PostgreSQL (`apps/api`) with a Next.js client (`apps/web`); short paths below are
relative to one of the two. `PROJECT.json` holds the machine-readable side of this file: every
definition with the lines it translates, every run, every hazard and every theorem.

## 1. The system

| component | state it keeps | operations | talks to |
|---|---|---|---|
| Order status machine (`orders/order-status.machine.ts`) | none: a table and functions over it | `canTransition`, `forwardPathTo`, `releasesStock` | called by everything that moves an order |
| Orders service (`orders/orders.service.ts`) | `orders`, `order_items`, `order_status_history` | `transition`, `transitionAndCommit`, `advanceAndCommit`, `cancel`, `reopen` | Inventory inside its transactions; events to listeners after the commit |
| Checkout (`orders/checkout.service.ts`) | the same rows, the idempotency key, the normalised transaction ID | `placeOrder` | Inventory, Waitlist, Coupons inside one transaction |
| Inventory (`inventory/inventory.service.ts`, `reservations.ts`) | `books.stock_quantity` | guarded `decrement`, `increment`; availability = stock − reserved − ringfenced | reads waitlist rows in SQL subqueries |
| Sales rollup (`inventory/sales-rollup.listener.ts`, `units-sold-reconciler.ts`) | `books.units_sold` | one UPDATE per status event; a report-and-rewrite by an admin | listens to Orders |
| Payments (`payments/payments.service.ts`) | `payments` rows, unique on (provider, reference) | `apply`, `record`, `recordRefund`, `voidConfirmed` | moves orders through Orders |
| Payment verification (`payments/…`, `order-auto-verify.service.ts`) | a log of checks | ask the wallets, confirm on a match | the wallets' databases, Payments |
| Admin order desk (`admin/orders/*`, the panel's order pages) | audit entries, the internal note | `transition` (two roles), `confirmPayment`, `revertPaymentConfirmation`, `recordRefund`, `reopen`, `updateNote` | judges by a read, then calls Orders and Payments |
| Waitlist (`waitlist/*`, `admin/waitlist/*`) | `waitlist_entries`, `waitlist_allocations` (releases) | sign-up, open/resize/close a release, invites, waves, edits, spend a link, settle or release an entry with its order | Inventory's subqueries, checkout, order transitions, SMS |
| Coupons, pricing, shipping | `coupons.used_count`, rate tables | one guarded UPDATE, arithmetic | checkout, the quote |
| Admin accounts and sessions (`admin/users/*`, `admin/auth/*`) | `admin_users`, `admin_sessions`, two cookies | login, rotating refresh with a leeway, roles, disable, reset | the panel's gate |
| Catalogue, stock and reviews for staff | `books`, `book_reviews` | the book form, counts and releases, moderation | storefront |
| Settings | one row of shop settings, `books.notify…`, audit log | read, save with an audit entry, read again | storefront, waitlist |
| Storefront and panel (`apps/web`) | a persisted cart, forms, query caches, ticked rows | what a person clicks | the API, over a network that loses answers |
| Platform, scripts | configuration, throttling, storage, migrations | I/O | — |

What makes it correct, and what makes that hard:

* **Orders.** A status is entered only from a status the table allows, every entry is in the
  history, and copies come back to the shelf exactly once for each time they were taken and
  never after dispatch. Several requests work on one row under READ COMMITTED, where each
  statement sees what has been committed by its own start; only guarded UPDATEs, two unique
  indexes and row locks stand between them.
* **Checkout.** Some fifteen statements, any of which can refuse, must come to one sale or to
  nothing. An UPDATE that waited for a lock re-checks its WHERE against the new row while its
  subqueries still answer from before; two carts can lock two books in opposite orders.
* **Rollup.** Events are emitted after the commit, not awaited, may be lost and may overtake
  each other.
* **Payments.** The payment row and the order's status are committed in two transactions when
  money arrives and in one when it is withdrawn or refunded. A lookup at the wallets takes
  seconds, in which anything can happen to the order it will confirm.
* **Desk.** Every endpoint judges the request by a status read before the transaction, and every
  page draws its buttons from an answer that may be minutes old.
* **Waitlist.** A release promises copies by arithmetic over three tables, an invite batch is a
  long non-transactional loop, and orders settle entries from the other side.
* **Accounts.** Two administrators may demote each other at once; two tabs refresh one rotating
  token at once.
* **Pages.** Answers arrive late, in another order or not at all; a tick, a form or a total on
  the screen is about rows that have changed since.

## 2. Modules

Dependencies (`<-` is extended by, `..>` implements, `( )` are instances in one MC module):

```
OrderMachine <- Orders <- AdminDesk <- Payments <- MCPayments <- PaymentsProofs
   |              |..> ShelfLedger
   |              |<- MCOrders
   |              |<- SalesRollup <- MCSalesRollup
   |              |<- SalesRollup <- OrdersProofs (also extended by PaymentsProofs)
   |<- OrderPage, Dispatch <- MCBackOffice (ForwardPath) <- BackOfficeProofs
   |<- OrderTracking, ForwardPath, Receipts
Checkout ..> Till
Checkout <- MCCheckout (OrderTracking) <- CheckoutProofs
Storefront <- MCStorefront <- StorefrontProofs
Waitlist <- MCWaitlist <- WaitlistProofs
Accounts <- Panel <- MCStaff <- AccountsProofs
MCDesks (Receipts, StockDesk, WaitlistDesk, BookEditor, ReviewDesk, SettingsDesk) <- DesksProofs
```

`MCBackOffice`, `MCCheckout`, `MCStaff` and `MCDesks` check several *scenes* in one run: the
initial states put one component to work and leave the others at rest, and each component's steps
leave the others' variables alone, so a scene is explored as if it were alone.

### The order side

**OrderMachine** – the table and the pure questions. `forwardPathTo` is *chosen* as a shortest
route; `directionFor` (rollup listener) and `MayReopen` (`order-reopen.ts`) live here too. No
state and no RECURSIVE operator, so that everything above it can be proved about.

**ForwardPath** – the loop of `forwardPathTo` statement by statement: `previous`, `seen`, `queue`
and the rebuilding loop. Successors are scanned in any order, which covers the order of the
code's arrays.

**Orders** – the core. `status`, `items`, `receipt`, `key` are columns of `orders`, `history` is
`order_status_history`, `stock` is `books.stock_quantity`. A *worker* is a request in progress;
`job[w]` is its program counter and locals, and each of its steps is one SQL statement whose
result the code acts on:

| code | actions |
|---|---|
| `placeOrder`, `writeOrder` | `StartCheckout`, `FindByIdempotencyKey`, `RejectReusedReceipt`, `WriteOrder` |
| `transitionAndCommit`, `advanceAndCommit` and `transition` | `StartMove`, `ReadBefore`, `ReadStatus`, `Update`, `Walk`, `Commit` |
| `cancel` | `Cancel` (SELECT … FOR UPDATE and what follows under that lock), `Commit` |
| `reopen` | `StartReopen`, `ReadForReopen`, `Retake` |
| emitting the events | `Announce`, with `Announced` for what they say |
| the process dies | `Crash`: open transactions roll back, unsent events are lost |

Statuses a transaction has entered and not committed sit in `draft`; other workers cannot read
them, and their UPDATE of the row waits (`Locked`). `writeOrder` is one step here, from its
decrements to its commit; Checkout takes it apart. A transaction that belongs to a caller
(`revertPaymentConfirmation`, `recordRefund`) is a move: its `from` is read a little earlier than
a move's own, which READ COMMITTED does not distinguish. `withheld` is all that Orders sees of
the waitlist: any change of the number `InventoryService` subtracts.

**ShelfLedger** – the abstract specification: an order takes its copies once, may give exactly
those back and take exactly those again, and after hand-over nothing comes back. `Orders`
implements it under `place <- Place(o)`, which reads an order's copies off its status and its
history.

**SalesRollup** – Orders plus the listener: `rollups` is, per order, the queue of the directions
whose UPDATE of `units_sold` is on its way, oldest first. `RollUp` performs any of them (in an order
of its own: `overtaken`), `RollUpFails` loses one, `Measure`/`Correct` are the reconciler's two
statements.

**AdminDesk** – Orders plus what the endpoints check before they call it: the route an advance
*would* take, the packers' scope, PENDING excluded from plain moves, `MayReopen`. `errand[w]` is
what a request came for. `rejected` stands for "the audit trail says staff made the last
cancellation", written after the commit by a statement of its own.

**Payments** – AdminDesk plus `payments`: `slip` is the row that holds an order's number, `refunds`
the refund rows, `voids` the uncommitted effect of `voidConfirmed`. Rows written in an order's
transaction commit or roll back with it (`PaymentWork`); the row of `apply` is committed at once
(`Record`).

**Receipts** – `rows` are orders with the receipt they quote, `gateway` is what the wallets know.
A check (`auto` after a checkout, `desk` from a button) reads the order and the other claims to
its receipt, asks the wallets, writes its log and confirms: four steps, between which orders are
placed, rejected, reopened, refunded and checked by the other checker, and in which the process
may die.

**Checkout** – `writeOrder` statement by statement: `SpendInvite`, `Reprice`, per line
`SendDecrement` and `Decrement` (a waiter's WHERE is judged against the committed row, its
subqueries `seen` when it was sent), `Redeem`, `InsertOrder` with its retry of a taken order
number, `Commit`. `WaitsFor` is the lock graph and `DeadlockVictim` the database's way out. Copies
return, releases open and close and invites are issued and lapse from outside (`Elsewhere`);
`surprised` remembers the books where a release has promised copies that were not there.
**Till** is the sale as one step: take the copies, redeem the coupon, at most once per key;
`Checkout` implements it.

**OrderTracking** – the page that follows an order: the form, the card and its timer. Rows of the
history with one timestamp are read in any order, as the query leaves it open.

### The waitlist

**Waitlist** – one book. `entry`, `release` and `order` are rows (an order is seen from here: it
holds copies until it is closed; a checkout or a transition is one step). `Reserved`, `Charged`,
`Committed`, `Ringfenced`, `Available` are the SQL of `reservations.ts` and
`waitlist-allocation.service.ts`. A batch of invites is *not* one transaction: `PlanBatch` is
its reads (`Spendable`, `Granted` with the order of the ids), then `Issue` and `Text` per
entry. `StartResize`/`Resize` are the two statements of `resize`. `Lapse` is the clock: an
invite's window may close at any time.

**WaitlistDesk** – the two pages over several books: `screen` with its ticks, `reloads` in flight,
the `errand` being run (a batch, a wave, a correction). A wave reads its budget (`PlanBudget`), then
in another statement the queue (`Plan`), which it walks in order, skipping whoever does not fit
(`WavePlan`, a recursive function of how many have been asked); the preview above the list reads the
same two. An errand remembers the tab and the book of its press, which is what its reload asks for.
Entries start out new or with links that have lapsed, so that a wave has turns to put in order.

### Staff

**Accounts** – `acct` is `admin_users`, `row` is `admin_sessions`, `token[s]` the newest access token.
Login and refresh read, then write; what another request commits in between is explored.
Transactions that change staff lock the table, so each is one step (`Answer`).
**Panel** – the browser: one cookie `jar` for all tabs, the `/me` and the refresh of each tab, and
the `wire` that delivers late or not at all.

### Pages

Each keeps what the page holds beside what the database holds:

| module | page | the hard part |
|---|---|---|
| Storefront | cart and checkout | quotes are cached per cart and region, the old one stays on the screen while the next is on its way; the customer sends *that* total from a wallet, then presses Place order |
| OrderPage | one order | buttons come from the order last sent; a press is judged again by the endpoint's roles, the service's guards and the table, served, answered, lost; the note is saved without waiting |
| Dispatch | the two lists and the tick that ships | reloads race; a tick is judged on one reading and carried out on another |
| StockDesk | counts and releases | acts on the row it was last sent; the share of a spent release is saved by two requests |
| BookEditor | the book form | sends all of itself; a save is read, write, read back, in three transactions; deletion counts, then deletes |
| ReviewDesk | testimonials | the server judges "published" from the row it read |
| SettingsDesk | settings | a save reads, begins, upserts (waiting for the row), commits with its audit entry, reads again; the log's time is that of BEGIN; the titles are saved under row locks |

## 3. Runs

`tlc -workers 2 -config <run>.cfg <module>`; each is over in under five minutes.

| run | question | instance |
|---|---|---|
| `Orders_two` | claims stay exclusive and copies conserved with two customers on one receipt and two copies, so that both orders can be live, each with retries | 2 orders, 2 requests, history 3 |
| `Payments_rows` | the proofs' invariant of Orders and its refinement of `ShelfLedger`; no refund row without its REFUNDED order; a payment is voided only by the commit that withdraws it; a packer's request never closes an order, withdraws a confirmation or gives copies back | 1 order, 2 requests, both roles, crashes, history 5 |
| `Payments_applied` | *liveness*: a payment being applied takes its order out of PENDING | 1 order, 2 requests, no crash, history 3 |
| `Payments_replay` | *expected violation*, section 4 | 1 order, 2 requests, a crash |
| `SalesRollup_exact` | `units_sold` equals the orders when nothing is under way, unless an event was lost, overtaken or stale or a reconciliation raced one | 1 order, 2 requests, 1 reconciliation |
| `Checkout` | checkouts of many statements implement the one-step till; holders of live invites find their copies; nobody waits for ever, deadlocks included; the tracking card reads the history aright and shows the news | 2 requests, 2 books, 3 keys, 1 entry, coupon of one use, 4 outside events |
| `Storefront` | nobody is told to send a sum other than the cart's total; a receipt buys one order; only the bought is cleared; every press is answered | 2 books, 2 zones, one edit, one more quote, two presses |
| `Waitlist_promises` | every holder of a link finds its copies; no release is overdrawn | entries of 2 and 1 copies, 2 copies, 2 releases, 1 order, 1 batch |
| `Waitlist_links` | an entry is held back by an order only while that order awaits payment; nothing is excused | 1 entry, 2 orders |
| `Staff` | an administrator is always left; no tab is shown the login page for no reason | 3 accounts, 2 sessions, 2 tabs, one other desk |
| `BackOffice` | an action on an order that stands as the page has it is turned down only for what was sent with it, for STAFF at the two endpoints of ADMIN, or for a receipt shown to be another's; an answer shows its action; reasons are kept; a reported shipment has shipped; `forwardPathTo` returns a shortest legal route or there is none; what begins ends | 2 requests out, 2 changes elsewhere; 1 parcel, 2 loads; all 49 pairs |
| `Desks` | one paid order per receipt; automatic grants were paid; a saved share is the share drawn; ticks are of shown rows; waves keep the queue; slugs are unique and ordered books stay; a verdict survives a colleague's edit; the audit log has the save in force, and above it only saves that overlapped it | two of most things, one of each bound |

Deadlock is checked except in `BackOffice` and `Desks`, where a scene's people may all be done.

**Bounds.** `MaxHistory` stops new requests on an old order, not those in progress; 5 lets an
order be placed, confirmed, dispatched and delivered or refunded, or withdrawn, rejected, reopened
and confirmed again. `MaxWithheld = 1` makes a decrement that ignores the waitlist visible. Two
workers are enough for every race found, since each is between a read and one other commit; carts
cover a retry by letting either worker send the same cart again. `MaxRelease` may exceed what is on
the shelf, because the count can be lowered and copies sold before a release is opened; an order of
`MaxBuy = 2` lets an invitee take all of an entry of two, less than it, or more than an entry of
one. In `Checkout` two books are what a lock cycle needs, `MaxLine = 2` what a partial sale needs,
and four outside events a release, an invite, its lapse and a restock. In `Staff` the clock
stands still (`MaxSecond = 0`), so a token outlives the sign-out of its second and ends by expiry;
what is proved there holds for any clock. In the desks `MaxTurns = 2` and
links lapsed before the start let a wave meet entries of different turns; `MaxClock = 2` is a
transaction's BEGIN for each of two saves. The desks' bounds count what somebody *else* does; two such changes put one before
and one after the read a page acts on. Every property is broken by at least one plausible bug
(`PROJECT.json`, `mutants`) within these bounds. Symmetry is used over sets no property or constant
tells apart.

**Hazards as excuses.** Some promises hold only as long as something does not happen (an event
overtakes another; a resize slips into a batch; an answer is lost). Those conditions are written
down as named hazards (`Hazards` in SalesRollup and Waitlist, `Faults` in Panel), a history variable
`excused` records whether one of them has happened, and the property says "unless excused".
Section 4 names, for each that is a defect, the run that breaks when it is taken off `Excuses`.
Those that are none: `recounted` (staff set the stock below what is promised), `lost` (an UPDATE
fails, which the listener logs and swallows; an answer to a refresh that never comes) and `slow`
(a refresh slower than the leeway that exists for it). `Waitlist_promises` cuts the search at
states already excused (`CONSTRAINT Unexcused`): they satisfy the properties by definition, and
being excused is never undone. (In SalesRollup it is, by a reconciliation with nothing under way,
so nothing is cut there.) Beside the `Faults`, `Panel` excuses a tab that signs in while another tab
of its browser has a request out (`PairArrives`): the answer to that one sets or clears the cookies
the login has just set.

**Fairness**, and why the code has it:

| where | assumed | because |
|---|---|---|
| `Payments_applied` | weak fairness of each request's next statement and announcement; no crash | a promise chain in one process; the database answers each statement and hands on a lock when its holder ends |
| Checkout | strong fairness of a request's next statement, weak of `DeadlockVictim` | the queue for a row lock is first come, first served; the database looks for cycles |
| OrderTracking | weak fairness of `Poll`, strong of `Answer` | a timer asks; not every answer is lost |
| Storefront | weak fairness of serving, arriving, or failing of a press | a fetch settles |
| OrderPage, Dispatch | weak fairness of a request's serving and settling | a fetch settles |
| ForwardPath | weak fairness of the loop | a function runs |

Nothing is assumed of arriving customers, of staff, or of requests being sent.

## 4. What the code does not keep

One departure has a run of its own; the line it contradicts is quoted in `PROJECT.json` under
`findings`. `Payments_replay` (`ReplayMeansConfirmed`): a crash between the payment row and the
transition leaves an order PENDING whose every confirmation is answered as a replay. Without a
crash and with `Outcomes = {"SUCCEEDED", "FAILED"}` the row of a FAILED event does the same: it
takes the reference the later success needs.

The others are stated in the modules, below the properties that hold, and are found by changing
a configuration as the last column says. For a run of scenes, restrict `Init` of the MC module to
the scene named; a property of an instance is named through it (`BookEditor!BlankMeansZero`), by a
definition in the MC module. Drop `SYMMETRY` for a PROPERTY.

**Orders, payments, sales**

| departure | code | how to see it |
|---|---|---|
| an event names a `from` the order had left, and the sale of an order back at PENDING stays counted | `orders.service.ts:380` | `SalesRollup_exact` with `Excuses <- NotStale` |
| the reconciler's report need not describe its write: two statements, READ COMMITTED | `units-sold-reconciler.ts:69` | `SalesRollup_exact` with PROPERTY `ReportIsTheWrite` |
| a confirmation between `voidConfirmed` and the withdrawal's transition leaves a SUCCEEDED row on a PENDING order | `admin-orders.service.ts:693`, `payments.service.ts:223` | `Payments_rows` with PROPERTY `WithdrawalFreesTheReference` |
| a packer's advance, recomputed after the desk has withdrawn the confirmation, enters PAYMENT_CONFIRMED on the way to SHIPPED | `orders.service.ts:436`, `fulfillment-scope.ts:91` | … INVARIANT `PackersEnterTheirTwo` |
| the plain transition endpoint reaches REFUNDED with no refund row | `admin-orders.service.ts:525` | … INVARIANT `RefundedHasARefundRow` |
| an advance to PENDING of a pending order, harmless when judged, withdraws a confirmation that commits first | `admin-orders.service.ts:482` | … `Roles = {"desk"}`, INVARIANT `PlainMovesWithdrawNothing` |
| a second reopening of one rejection goes through after the customer has cancelled | `admin-orders.service.ts:764` | … PROPERTY `OnlyRejectionsReopen` |
| refunded money may be claimed by another order | `transaction-id-claim.ts:11` | `Desks`, receipts: PROPERTY `RefundedMoneyBuysNothing` |
| two carts of the same two books can lock each other out; one is answered with an error | `checkout.service.ts:182` | `Checkout`: INVARIANT `CartsNeverDeadlock` |
| the page offers copies that a release has promised | `catalog/books.service.ts:71`, `reservations.ts:16` | … INVARIANT `OfferedIsAvailable` |
| a withdrawn confirmation still dates the estimated arrival | `dates.ts:52` | `Checkout`, tracking: INVARIANT `EstimateMeansPaid` |
| rows of one timestamp are shown in any order | `order.mapper.ts:75`, `orders.service.ts:408` | … INVARIANT `TimelineIsInOrder` |
| the page stops asking at a closed status, which reopening leaves | `order-detail-view.tsx:41` | … PROPERTY `ClosedMeansClosed` |

**Waitlist**

| departure | code | how to see it |
|---|---|---|
| a release larger than the shelf turns invitees away from the copies their links hold | `reservations.ts:184` | `Waitlist_promises` with `Excuses <- NotOverallocated` |
| two batches spend one budget | `admin-waitlist-invite.service.ts:106` | … `NotTogether`, `Worker = {w1, w2}` |
| what an invited customer buys beyond the entry is charged to the release | `reservations.ts:140` | … `NotOverbought` |
| a link is issued to an entry that has bought since the batch was read | `waitlist-invite.service.ts:91` | … `NotRebuying` |
| a refused holder is charged after the entries before it have spent its copies | `admin-waitlist-invite.service.ts:203` | … `NotRefused` |
| another order's payment replaces the sale an invite is charged by | `waitlist-fulfillment.service.ts:138` | … `NotResold` |
| a resize or a close slips between a batch's budget and its links | `waitlist-allocation.service.ts:249` | … `NotResized` |
| CONVERTED by hand keeps a live link's copy held outside the INVITED lane | `admin-waitlist.service.ts:310` | `Waitlist_links` with INVARIANT `HeldMeansInvited` |
| the outcome of a text overwrites a cancellation made while it was sent | `admin-waitlist-invite.service.ts:435` | … PROPERTY `OnlyPendingIsNotified` |
| a customer who paid one of two orders is put back in the queue when the other is cancelled | `waitlist-fulfillment.service.ts:94` | … PROPERTY `NoBuyerIsRequeued` |
| a reload clears the rows at once and the ticks only when it succeeds | `waitlist/page.tsx:142` | `Desks`, waitlist: INVARIANT `ListTicksAreShown` |
| the wave that is sent is of the book the filter was set to after the question was asked | `waitlist/page.tsx:262` | … `Book = {b1, b2}`, INVARIANT `ConfirmedWaveIsSent` |
| an entry is edited under an invite issued after the edit was judged | `admin-waitlist.service.ts:374` | … PROPERTY `HoldsKeepTheirTerms` |
| Remove is offered for a bought entry, and Restore puts the buyer back in line | `waitlist/page.tsx:873` | … `Tabs = {"CONVERTED"}`, `MaxChanges = 4`, PROPERTY `BuyersStayBuyers` |

**Pages and staff**

| departure | code | how to see it |
|---|---|---|
| the revocation of a replayed token's family is rolled back by the refusal thrown in the same transaction | `admin-auth.service.ts:201` | `Staff`: PROPERTY `ReplayEndsTheFamily` |
| the invite page shows a total of nothing when no quote was ever taken | `invite-checkout-view.tsx:251` | `Storefront`: INVARIANT `ShownTotalsWereQuoted` |
| a failed quote is shown as an empty cart | `checkout-view.tsx:447` | … INVARIANT `FailureIsNotAnEmptyCart` |
| two removals from one quote's lines empty the cart in the middle of checkout | `checkout-items.tsx:39` | … PROPERTY `RemovingLeavesALine` |
| a note's late answer shows the order as it was before the action in between | `orders/[orderNumber]/page.tsx:211` | `BackOffice`, page: PROPERTY `ThePageNeverGoesBack` |
| a tick walks an order whose confirmation was withdrawn since through PAYMENT_CONFIRMED and ships it unpaid | `accepted-orders/page.tsx:29` | `BackOffice`, lists: PROPERTY `ATickShipsWhatWasPaid` |
| a late reload shows the rows of another tab | `accepted-orders/page.tsx:258` | … PROPERTY `RowsAreOfTheTab` |
| the count above a list is not of the list | `accepted-orders/page.tsx:292` | … INVARIANT `HeadingMatchesTable` |
| a book that is coming soon can have stock | `db/schema/catalog/book.ts:28` | `Desks`, books (`MaxEdits = 2`, `Clerk = {p1}`): INVARIANT `ComingSoonHasNoStock` |
| a blank stock field is saved as the number it had; what is typed while a save runs is lost | `book-form.tsx:874` | … PROPERTIES `BlankMeansZero`, `TypedIsKept` |
| rows shown are of the tab before; a form pressed twice is stored twice | `reviews/page.tsx:153`, `review-form.tsx:189` | `Desks`, reviews: INVARIANTS `RowsAreOfTheirTab`, `AFormIsStoredOnce` |
| a save writes every field of its group, also those loaded long ago and not touched | contracts `payment-numbers.ts:41`, `shipping-terms.service.ts:102` | `Desks`, settings (`MaxTyped = 2`, `Shelf = {o1, o2}`): PROPERTY `OnlyTheTypedIsWritten` |
| a page whose load failed saves rates nobody typed; "saved by" names whoever saved any group last | `admin-settings.service.ts` | … INVARIANTS `NothingBlankIsSaved`, `SavedByTheirSaver` |
| of two saves that overlap, the one that began first may be written last: the newest entry of the log, which is listed by BEGIN, is then not the row | `audit-log.ts:80`, `audit.service.ts:76`, `:147` | … INVARIANT `NewestEntryIsTheRow` |
| two saves of the selected titles leave the titles of both | `waitlist-books.service.ts:59` | … INVARIANT `SelectionIsOneSave` |
| a delivery typed on an old row undoes the sales since | `stock/page.tsx:483` | `Desks`, stock: PROPERTY `ADeliveryIsAdded` |
| after the second of two requests has failed, the save cannot be repeated | `stock/page.tsx:149` | … PROPERTY `AFailedSaveCanBeRepeated` |

Met while reading, and smaller than a property: a fresh idempotency key is made per press
(`checkout-view.tsx:202`), so the key never catches a second press; the panel's sign-out asks a
POST-only route with GET (`lib/api/admin.ts:397`), so the API keeps the session; a login or refresh
in flight across a disable, a change of role or a reset outlives the sign-out of its account
(`admin-users.service.ts:48`); `upgradeHash` writes by id and may overwrite a reset; a repeated
creation after a lost answer makes a second book; a book, a note and a category are last write
wins; the Reject button of an old page cancels an order confirmed since; the form of a refund is
cleared when the refund fails (`orders/[orderNumber]/page.tsx:243`); Refund and the withdrawal of a
payment are drawn for STAFF, whom both endpoints turn away (`admin-orders.controller.ts:212`, `:259`;
`page.tsx:209` says so of the withdrawal), and the box that overrides a duplicate receipt is drawn on
orders that can have none: it stands beside Accept, on an order that is live, and of a live order's
receipt `orders_transaction_id_live_unique_idx` keeps one.

## 5. Proofs

Eight modules of proofs, checked by TLAPS for every value of the constants that satisfies the
modules' assumptions (which say that constants have their types, that bounds are natural numbers,
that the "none" values are outside the sets they stand beside, and that the sets SQL sums over are
finite). Everything proved is also checked on the instances above, which is how the invariants were
found. `PROJECT.json` lists each result in a sentence; here is what each argument rests on.

**OrdersProofs** (`OrdersInvariant`, `TypeCorrect`, `HistoryIsAlwaysTheLife`, `ClaimsStayExclusive`,
`OrdersKeepTheLedger`, `CopiesStayConserved`, `RollupFollowsTheOrders`, `RollupIsTyped`,
`RollupStaysExact`). "The history is a walk of the machine that ends at
the status" is not inductive: a commit appends statuses that were judged long before. What makes the
commit legal is that the row cannot have moved since the guarded UPDATE, so the invariant adds
`OneWriter` (the row lock admits one transaction with uncommitted statuses) and, in `JobOK`,
`DraftIsAWalk` (the uncommitted statuses continue the *committed* one). The proof has one step per
action; those that change only `job` share one lemma. For the ledger two more facts are needed:
`ShippedAgrees` (the status tells whether the parcel has gone) and `DraftPlace` (how far a walk has
got tells whether `restoreStock` has run in it), so that each commit is exactly one of `Return`,
`HandOver` or a stutter. `ClaimsAreExclusive` needs only the three actions that write the columns:
`WriteOrder` and `Retake` are guarded by the indexes, and `Commit` never makes a released order live
again because CANCELLED and REFUNDED are terminal in the table. Copies are conserved because each
action moves as many from the shelf as it adds to the sum over the orders. The rollup is exact
because, until it is excused, there is a set of orders the column counts (`applied`) and a set it
will count once every UPDATE under way has run (`emitted`): per order the UPDATEs under way count it
and un-count it in turn, and an announcement still to come says what leads from `emitted` to the
status (`Accounts`). An UPDATE that un-counts an order therefore finds its copies in the column and
the floor at zero never bites. The theorem assumes that the four hazards are excused
(`Hazards \subseteq Excuses`).

**PaymentsProofs** (`DeskInvariant`, `DeskRefinesOrders`, `PackersGoForward`, `PaymentsInvariant`,
`PaymentsRefineTheDesk`, `RowsStaySound`, `WithdrawnTogether`, `PaymentsKeepTheLedger`). Requests of
the desk are requests of Orders with an errand, so `DeskInv` is `OrdersInv` with `ErrandFits`: what a
request came for binds what its transaction enters, at each program counter. That packers only go
forward then needs a fact of the table: a shortest route to SHIPPED or DELIVERED enters nothing
but the way there (`Predecessors`). Payments adds `VoidsHeld`: a voided row is the SUCCEEDED row of
the order being withdrawn, and one open transaction has it. Because both modules are shown to take only steps of the one
below, everything proved of Orders, the ledger included, holds with payments at work.

**CheckoutProofs** (`CheckoutsAreTyped`, `CheckoutImplementsTill`, `HoldsInvariant`,
`HoldsStayCovered`, `TheCardReadsTheHistory`). For the refinement, `CInv` says what each program
counter still knows (`Sane`) and that two transactions hold no row in common (`Apart`): a guard
passed under a lock is still true at the commit, which is the one step of the till. For the holds,
`HInv` adds `SawEnough`: what a decrement saw withheld, or made sure of, is still at least what is
withheld, so the stale subqueries of a waiter err on the safe side. The sums over the entries are
counted as sets of copies. For the card, a history is in the order of its stamps up to ties, and
the latest confirmation and the last note do not depend on how ties are read.

**WaitlistProofs** (`LinksStaySound`, `BudgetCovers`, `NoReleaseOverdraws`,
`InviteesFindTheirCopies`). Three invariants. `LinksInv` (types, links await payment) holds whatever
is excused. `BooksInv` holds a release to its budget: `Fits` charges a release with what is drawn,
*and*, for a batch under way, with every grant it has not issued yet, *and*, for a resize
between its two statements, against the size it is about to write; `Honest` and `Alone` are what the
excuses rule out. It is conditional on being unexcused, and `NoReleaseOverdraws` assumes that
six of the eight hazards are excused, which is what the code needs; section 4 shows each of them
breaking it. `ShelfInv` is the shelf: what live links hold, of open and of closed releases, and what
open releases have left, is at most the stock; its theorem assumes all eight. Sums (`Total`) are counted
copy by copy, and changing one entry moves a sum by that entry's part (`OneEntryChanges`).
`BudgetCovers` is the arithmetic of `refuseBeyondAllocation` for a batch in any order; the recursive
function behind it is handled by a least counterexample (`ThereIsAFirst`), which needs no induction.

**AccountsProofs** (`AccountsAreTyped`, `TheShopAlwaysHasAnAdmin`, `StaffIsWellFormed`,
`ThePanelUsesTheAccounts`, `NobodyIsShownOut`). An administrator is lost only by a transaction that
saw another one under the table's lock. The panel's typing needs `OneRequest`: a tab has one request
of a session under way, on the wire or being served. Every step of the panel is a step of Accounts
or leaves it alone. That nobody is shown out for no reason takes two invariants more. `CarriedInv`
holds of everybody: sessions in the jar, on a wire or in a request are rows there were, and a pair
on its way is of a session *nobody else has yet*, so that no other refresh can spend it. `ReliedInv`
holds of whoever is not excused: his pair is still as it was issued (`FreshPairs`), and as long as
somebody relies on the jar, no refusal is on its way, every request under way will be answered with a
pair, and the jar's session is live, or just spent while a pair that replaces it is on its way
(`AllIsWell`) – the leeway is what makes that second case serve. A tab that is signing in relies on
its own pair alone, since the login overwrites whatever was in the jar. The theorem assumes that both
faults are excused (`Faults \subseteq Excuses`); without either of them TLC finds a tab shown out. It
is about `PanelSpec`, every request of the panel and any clock, of which the run's scene is a part.

**StorefrontProofs** (`StorefrontInvariant`, `TransfersAreTheTotal`, `ReceiptsStaySound`,
`BoughtIsCleared`). A quote and an order are priced by one function of the shop (`PricesStay`), so a
quote on the screen is right for as long as nothing was edited and nothing was sold; `SInv` says
which cart, region and edition of the shop every cached quote is of, and that a form with a receipt
in hand is still the cart that was paid for.

**BackOfficeProofs** (`BackOfficeInvariant`, `BackOfficeIsTyped`, `ReportsAreTrue`, `RefusalsAreCaused`,
`AnswersArrive`, `ReasonsStay`). `PageInv` says of every request that is out that it asks what some
reading offered, of every answer that it shows what it did, and that the buttons wait for exactly
one action; an order's revision (`rev`) makes "has this action in it" a comparison. What a reading
offers depends on its status and the reader's role alone, so an order that has come back to what the
page shows is judged as the page judged it; and another order takes a receipt only from one that is
over (`NothingMovesTheClaimed`), so the guard of the receipt bars nothing but a reopening the page
could see to be barred. `ListsInv`: what a tick has
committed, or a list reports, has left the house, and nothing comes back from there. `RouteInv` types
the search.

**DesksProofs** (`DesksInvariant`, `ScenesAreWellFormed`, `ReceiptsBuyOnce`, `GrantsWerePaid`,
`SharesAreAsDrawn`, `BatchesAreShown`, `WavesAreInLine`, `CatalogueStaysSound`, `VerdictsAreKept`,
`LogsTellTheRow`). The desks share no variable, so each has its inductive invariant and a step of one is a stutter of the
others. Receipts: a check that has been told MATCHED knows of a receipt that was paid in full
(`TheCheckKnows`). Stock: as long as nothing disturbed a save, the count and the promised copies are
those of its row, also between the two halves of a replacement (`TaskIsFresh`). Waves: what the walk
has been past is before what it has not, and of those it has taken whoever still found their copies
there (`WalkInv`); that the recursive function keeps this at every length of the queue is shown by a
least counterexample. It needs that the queue is a line, which is what `DesksAssumption` says of
`Queue`: entries have ids of their own. The plan is judged against the budget it read and the queue it
then found. Settings: groups
share no column, and no transaction, under way or in the log, began later than the clock says
(`BegunByNow`); so when a save takes effect, whatever is listed above its entry had begun.

**Only model-checked, and why**

Every safety invariant and action property of a passing run is proved but one; what is left to TLC:

* *Liveness* (`PaymentReachesTheOrder`, `NobodyWaitsForever`, `EveryPressIsAnswered`,
  `WhatBeginsEnds`): fairness and ENABLED are outside what the proof system handles.
* `RouteIsRight` has no parameter: TLC's 49 pairs and all scan orders are all there is. It says
  the loop answers one of the shortest routes; the operator `forwardPathTo` is one of those too.
* `ReplayMeansConfirmed` is violated.

## 6. Not modelled, and why

* *Platform, scripts* – I/O, wiring, and what is run by hand on a quiet database.
* *Provider parsing, signatures, payloads* – pure functions; which statuses they can carry reaches `Record`.
* *Coupons*: percentage and dates, arithmetic on one row; the guarded UPDATE is in Checkout. The web client sends none.
* *Waitlist*: several books (in the queue's model; the desk has them), entries without a book, two
  entries of one phone, joining again after a purchase. A checkout and a transition are one step there, and
  the stock check one committed state; Checkout has the statements.
* *Orders*: runs use one book; lock cycles between carts are Checkout's.
* *Storefront*: the order is one step there; one receipt per customer; the persisted cart of another
  tab is "any cart" on a reload; a zone is chosen directly instead of down the tree of regions.
* *Desks*: the packers' one-week window of shipped orders, messages, totals, export, searching and
  paging, counts; `describe()` of a settings page is one read; one page per manager.
* *Catalogue, dashboards, printing, translations* – they only show.

## 7. Plan

Done, most important first: order machine, Orders with its ledger, SalesRollup, AdminDesk, Payments,
Waitlist, Checkout with its locks, Accounts and Panel, Storefront, the orders desk's pages, the
other desks, and the proofs above. Next:

1. *Waitlist with orders*: `withheld` computed by a composition, so that a checkout's statements
   interleave with a batch's.
2. *Several books in one queue*, and entries of one phone, in the module of the queue.
