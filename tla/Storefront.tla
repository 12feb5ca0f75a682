----------------------------- MODULE Storefront -----------------------------
(***************************************************************************)
(* The shop as one browser tab sees it: a cart kept in the browser, quotes *)
(* the API gives for it, and a checkout whose customer first sends the     *)
(* amount on the screen from a wallet and then places the order with the   *)
(* receipt.  The same form is reached with a cart (checkout-view.tsx) or   *)
(* with an invite link (invite-checkout-view.tsx).  Staff edit prices and  *)
(* rates meanwhile, answers are lost, another tab writes the saved cart.   *)
(*                                                                         *)
(* A query of React Query holds the last answer for its key; while the     *)
(* first answer for a key is awaited the screen keeps the answer to the    *)
(* previous key (keepPreviousData), and once it has failed it has none.    *)
(* The customer has one receipt, which stays good for one order.           *)
(* The order is one step here: modules Checkout and Orders take it apart.  *)
(***************************************************************************)
EXTENDS Integers, Sequences, FiniteSets, FiniteSetsExt

CONSTANTS
  Book, Zone,
  NoZone, NoQuote, NoReceipt,
  Invited,       \* the book of the invite link
  Prices,        \* prices and rates staff may set
  Flat,          \* shop_settings.delivery_flat_cents
  Threshold,     \* free_delivery_threshold_cents
  FirstZone,     \* checkoutDefaults.region
  MaxQuantity,   \* MAX_LINE_QUANTITY
  MaxEdits,      \* bound: edits by staff
  MaxQuotes,     \* bound: answers React Query keeps
  MaxPresses     \* bound: times Place order is pressed

ASSUME StorefrontAssumption ==
  /\ Invited \in Book /\ FirstZone \in Zone /\ NoZone \notin Zone
  /\ Prices \subseteq Nat /\ {Flat, Threshold, MaxEdits, MaxQuotes, MaxPresses} \subseteq Nat
  /\ MaxQuantity \in Nat \ {0}

VARIABLES
  shop,      \* price of each book, whether it can be bought, rate of each zone
  link,      \* TRUE: the customer came by an invite link
  spent,     \* the invite has been spent
  screen,    \* what the tab holds
  paid,      \* what the customer sent from the wallet, and for which screen
  orders     \* the orders placed

storefrontVars == <<shop, link, spent, screen, paid, orders>>

Carts == [Book -> 0..MaxQuantity]
NoItems == [b \in Book |-> 0]
Closed == -1     \* the rate of a zone that is not active
Flatly == -2     \* the rate of a zone without one of its own

FreshScreen(items) ==
  [view |-> "catalog", items |-> items, chosen |-> FALSE, region |-> FirstZone, step |-> "delivery",
   quotes |-> {}, last |-> NoQuote, failed |-> FALSE, sent |-> "no", presses |-> 0]

FirstItems == IF link THEN [NoItems EXCEPT ![Invited] = 1] ELSE NoItems

StorefrontInit ==
  /\ shop = [price |-> [b \in Book |-> 1], open |-> [b \in Book |-> TRUE],
             rate |-> [z \in Zone |-> Flatly], edition |-> 0]
  /\ link \in BOOLEAN
  /\ spent = FALSE
  /\ screen = FreshScreen(FirstItems)
  /\ paid = NoReceipt
  /\ orders = <<>>

-----------------------------------------------------------------------------
(* The API: a quote and an order are priced by the same function. *)

Wanted(items) == {b \in Book : items[b] > 0}

(* rejectionFor; the bearer of a live invite is not refused its copies.    *)
Orderable(b) == shop.open[b] \/ (link /\ b = Invited /\ ~spent)

PricedLines(items) == {b \in Wanted(items) : Orderable(b)}

(* deliveryRateFor, and the flat rate for whatever has none.               *)
RateFor(z) == IF z \in Zone /\ shop.rate[z] >= 0 THEN shop.rate[z] ELSE Flat

Subtotal(items) == FoldSet(LAMBDA b, sum : sum + shop.price[b] * items[b], 0, PricedLines(items))

(* ShippingPolicy.quote *)
Delivery(items, z) ==
  IF PricedLines(items) = {} \/ Subtotal(items) >= Threshold THEN 0 ELSE RateFor(z)

(* priceCart *)
PriceCart(items, z) ==
  [items |-> items, region |-> z, lines |-> PricedLines(items),
   total |-> Subtotal(items) + Delivery(items, z), edition |-> shop.edition]

-----------------------------------------------------------------------------
(* useCart and the quote query of the invite page. *)

(* A mutant: the region is not part of the key.                            *)
QueryRegion_Left(s) == NoZone

(* A query's key is the entries and, once a division is chosen, the region. *)
QueryRegion(s) == IF s.view = "checkout" /\ s.chosen THEN s.region ELSE NoZone

AnswersTo(s, z) == {q \in s.quotes : q.items = s.items /\ q.region = z}
Answers == AnswersTo(screen, QueryRegion(screen))

Priced == Answers # {}
Pending == ~Priced /\ ~screen.failed

(* data: the answer, the previous one while it is awaited, or none.        *)
Shown == IF Priced THEN CHOOSE q \in Answers : TRUE
         ELSE IF Pending THEN screen.last ELSE NoQuote

ShownLines == IF Shown = NoQuote THEN {} ELSE Shown.lines
IsPlaceholder == Pending /\ screen.last # NoQuote

Skeleton == Pending /\ Shown = NoQuote

(* Either view leaves the form out where it has nothing to show; the cart  *)
(* checkout also where no line is left.                                    *)
FormShown ==
  /\ screen.view = "checkout" /\ ~Skeleton
  /\ ~link => Wanted(screen.items) # {} /\ ShownLines # {}

(* A mutant: a chosen division is enough.                                  *)
DeliveryKnown_Chosen == screen.chosen

(* checkout-view asks for a quote that priced this very key, the invite    *)
(* page only for one that is not a placeholder.                            *)
DeliveryKnown == screen.chosen /\ (IF link THEN ~IsPlaceholder ELSE Priced)

ShownTotal == IF Shown = NoQuote THEN 0 ELSE Shown.total

-----------------------------------------------------------------------------
(* The cart. *)

(* Another key is asked for: no error of its own yet, and what was on      *)
(* screen is the placeholder until it is answered.                         *)
Rekeyed(s) ==
  [s EXCEPT !.failed = FALSE,
            !.last = IF AnswersTo(s, QueryRegion(s)) # {} THEN NoQuote
                     ELSE IF Shown = NoQuote THEN screen.last ELSE Shown]

SetItems(items) ==
  /\ screen' = Rekeyed([screen EXCEPT !.items = items])
  /\ UNCHANGED <<shop, link, spent, paid, orders>>

(* The modal covers the page from the press to the customer's click.       *)
Editable == screen.sent = "no"

AddToCart(b) ==
  /\ ~link /\ screen.view = "catalog" /\ screen.items[b] = 0
  /\ SetItems([screen.items EXCEPT ![b] = 1])

(* A mutant: the page stays open to edits while the order is placed.       *)
EditsItems_Always == screen.view = "cart" \/ (FormShown /\ screen.step = "delivery") \/ screen.sent # "no"

(* The cart page lists the lines that are still entries, the checkout the  *)
(* lines of the quote; both steppers and buttons are built from them.      *)
EditsItems == Editable /\ (screen.view = "cart" \/ (FormShown /\ screen.step = "delivery"))

SetQuantity(b, n) ==
  /\ EditsItems /\ b \in ShownLines /\ n > 0 /\ screen.items[b] \notin {0, n}
  /\ SetItems([screen.items EXCEPT ![b] = n])

(* An extra book of the invite page; the invited one stays.                *)
SetExtra(b, n) ==
  /\ link /\ b # Invited /\ EditsItems /\ screen.items[b] # n
  /\ SetItems([screen.items EXCEPT ![b] = n])

Remove(b) ==
  /\ ~link /\ EditsItems /\ b \in ShownLines /\ screen.items[b] > 0
  /\ screen.view = "checkout" => Cardinality(ShownLines) > 1
  /\ SetItems([screen.items EXCEPT ![b] = 0])

(* A mutant: the form lives on behind the page that is opened.              *)
Goto_KeepsTheForm(view) ==
  /\ screen.view # view /\ (link => view # "cart")
  /\ screen' = Rekeyed([screen EXCEPT !.view = view])
  /\ UNCHANGED <<shop, link, spent, paid, orders>>

(* A page of the site is opened; a form that is left keeps nothing, and an *)
(* answer to it finds no one.                                              *)
Goto(view) ==
  /\ screen.view # view /\ (link => view # "cart")
  /\ screen' = [FreshScreen(screen.items) EXCEPT
       !.view = view, !.quotes = screen.quotes, !.presses = screen.presses]
  /\ UNCHANGED <<shop, link, spent, paid, orders>>

(* Loaded again: the entries are what redux-persist finds in localStorage, *)
(* which any tab of this browser may have written last.                    *)
Reload(items) ==
  /\ screen' = [FreshScreen(IF link THEN FirstItems ELSE items) EXCEPT !.presses = screen.presses]
  /\ UNCHANGED <<shop, link, spent, paid, orders>>

-----------------------------------------------------------------------------
(* The quote. *)

Asks == screen.view # "catalog" /\ Wanted(screen.items) # {}

(* The page asks for its key, and the badge in the header for the cart     *)
(* without a region.  React Query drops answers nobody looks at; the bound *)
(* drops the others.                                                       *)
QuoteArrives(z) ==
  /\ IF z = QueryRegion(screen) THEN Asks \/ ~link ELSE z = NoZone /\ ~link
  /\ Wanted(screen.items) # {}
  /\ \E kept \in SUBSET (screen.quotes \ AnswersTo(screen, z)) :
       /\ Cardinality(kept) < MaxQuotes
       /\ z # QueryRegion(screen) => Answers \subseteq kept
       /\ screen' = IF z = QueryRegion(screen)
                    THEN [screen EXCEPT !.quotes = kept \cup {PriceCart(screen.items, z)}, !.failed = FALSE, !.last = NoQuote]
                    ELSE [screen EXCEPT !.quotes = kept \cup {PriceCart(screen.items, z)}]
       /\ screen' # screen
  /\ UNCHANGED <<shop, link, spent, paid, orders>>

(* The retries ran out; what this key was answered before stays.           *)
QuoteFails ==
  /\ Asks /\ ~screen.failed
  /\ screen' = [screen EXCEPT !.failed = TRUE]
  /\ UNCHANGED <<shop, link, spent, paid, orders>>

(* The window is looked at again.                                          *)
AskAgain ==
  /\ Asks /\ screen.failed /\ ~Priced
  /\ screen' = [screen EXCEPT !.failed = FALSE]
  /\ UNCHANGED <<shop, link, spent, paid, orders>>

-----------------------------------------------------------------------------
(* The form. *)

OnForm == FormShown /\ Editable

(* ShippingFields resolves the division to a zone.                         *)
ChooseDivision(z) ==
  /\ OnForm /\ screen.step = "delivery" /\ ~(screen.chosen /\ screen.region = z)
  /\ screen' = Rekeyed([screen EXCEPT !.chosen = TRUE, !.region = z])
  /\ UNCHANGED <<shop, link, spent, paid, orders>>

(* goToPayment: the address needs a division; the total need not be known. *)
GoToPayment ==
  /\ OnForm /\ screen.step = "delivery" /\ screen.chosen
  /\ screen' = [screen EXCEPT !.step = "payment"]
  /\ UNCHANGED <<shop, link, spent, paid, orders>>

Back ==
  /\ OnForm /\ screen.step = "payment"
  /\ screen' = [screen EXCEPT !.step = "delivery"]
  /\ UNCHANGED <<shop, link, spent, paid, orders>>

(* The customer sends the amount on the screen, and has a receipt for it.  *)
Transfer ==
  /\ OnForm /\ screen.step = "payment" /\ DeliveryKnown /\ paid = NoReceipt
  /\ paid' = [amount |-> ShownTotal, items |-> screen.items, region |-> screen.region,
              edition |-> IF Shown = NoQuote THEN shop.edition ELSE Shown.edition, quoted |-> Shown # NoQuote]
  /\ UNCHANGED <<shop, link, spent, screen, orders>>

(* placeOrder: a key of its own for every press, the entries as they are.  *)
PlaceOrder ==
  /\ OnForm /\ screen.step = "payment" /\ paid # NoReceipt /\ screen.presses < MaxPresses
  /\ screen' = [screen EXCEPT !.sent = "sent", !.presses = screen.presses + 1]
  /\ UNCHANGED <<shop, link, spent, paid, orders>>

(* A line that cannot be had, or a zone that is closed.                    *)
NotOrderable == shop.rate[screen.region] = Closed \/ \E b \in Wanted(screen.items) : ~Orderable(b)

(* A mutant: a key of its own makes it an order of its own.                *)
Refused_KeyOnly == (link /\ spent) \/ NotOrderable

(* writeOrder: also where the receipt has paid for an order, or the invite *)
(* is spent.                                                               *)
Refused == orders # <<>> \/ (link /\ spent) \/ NotOrderable

ServeOrder ==
  /\ screen.sent = "sent"
  /\ IF Refused
     THEN /\ screen' = [screen EXCEPT !.sent = "refused"]
          /\ UNCHANGED <<spent, orders>>
     ELSE /\ orders' = Append(orders, PriceCart(screen.items, screen.region))
          /\ spent' = link
          /\ screen' = [screen EXCEPT !.sent = "placed"]
  /\ UNCHANGED <<shop, link, paid>>

(* The request or its answer is lost, or too late for the browser.         *)
AnswerLost ==
  /\ screen.sent \in {"sent", "refused", "placed"}
  /\ screen' = [screen EXCEPT !.sent = "lost"]
  /\ UNCHANGED <<shop, link, spent, paid, orders>>

(* A mutant: only an answer of the API is caught.                          *)
Catch_ApiErrors ==
  /\ screen.sent = "refused"
  /\ screen' = [screen EXCEPT !.sent = "no"]
  /\ UNCHANGED <<shop, link, spent, paid, orders>>

(* The catch of placeOrder takes the modal away.                           *)
Catch ==
  /\ screen.sent \in {"refused", "lost"}
  /\ screen' = [screen EXCEPT !.sent = "no"]
  /\ UNCHANGED <<shop, link, spent, paid, orders>>

OrderArrives ==
  /\ screen.sent = "placed"
  /\ screen' = [screen EXCEPT !.sent = "shown"]
  /\ UNCHANGED <<shop, link, spent, paid, orders>>

(* seeOrder: now the cart is emptied.                                      *)
SeeOrder ==
  /\ screen.sent = "shown"
  /\ screen' = [FreshScreen(IF link THEN screen.items ELSE NoItems) EXCEPT
       !.quotes = screen.quotes, !.presses = screen.presses]
  /\ UNCHANGED <<shop, link, spent, paid, orders>>

-----------------------------------------------------------------------------
(* Staff, and customers elsewhere. *)

Edit(change) ==
  /\ shop.edition < MaxEdits /\ change # shop
  /\ shop' = [change EXCEPT !.edition = shop.edition + 1]
  /\ UNCHANGED <<link, spent, screen, paid, orders>>

Edits ==
  \/ \E b \in Book, p \in Prices : Edit([shop EXCEPT !.price[b] = p])
  \/ \E b \in Book : Edit([shop EXCEPT !.open[b] = ~shop.open[b]])
  \/ \E z \in Zone, r \in Prices \cup {Closed, Flatly} : Edit([shop EXCEPT !.rate[z] = r])

Customer ==
  \/ \E b \in Book : AddToCart(b) \/ Remove(b) \/ \E n \in 0..MaxQuantity : SetQuantity(b, n) \/ SetExtra(b, n)
  \/ \E v \in {"catalog", "cart", "checkout"} : Goto(v)
  \/ \E z \in Zone : ChooseDivision(z)
  \/ \E items \in Carts : Reload(items)
  \/ AskAgain \/ GoToPayment \/ Back \/ Transfer \/ PlaceOrder \/ SeeOrder

Network ==
  \/ \E z \in Zone \cup {NoZone} : QuoteArrives(z)
  \/ QuoteFails \/ ServeOrder \/ AnswerLost \/ Catch \/ OrderArrives

StorefrontNext == Customer \/ Network \/ Edits

(* A request ends in an answer or in an error of the browser's.            *)
StorefrontSpec ==
  /\ StorefrontInit /\ [][StorefrontNext]_storefrontVars
  /\ WF_storefrontVars(ServeOrder \/ OrderArrives \/ Catch)

-----------------------------------------------------------------------------
(* Types, and a form that is out only of the checkout page and with the    *)
(* receipt it needs.                                                       *)
StorefrontTypeOK ==
  /\ shop.price \in [Book -> Nat] /\ shop.open \in [Book -> BOOLEAN] /\ shop.edition \in 0..MaxEdits
  /\ shop.rate \in [Zone -> Nat \cup {Closed, Flatly}]
  /\ screen.items \in Carts /\ Cardinality(screen.quotes) <= MaxQuotes
  /\ screen.view \in {"catalog", "cart", "checkout"} /\ screen.step \in {"delivery", "payment"}
  /\ screen.sent \in {"no", "sent", "refused", "placed", "lost", "shown"}
  /\ screen.sent # "no" => screen.view = "checkout" /\ paid # NoReceipt

(* The customer sends the amount the screen gives as the total, before the *)
(* order exists.  If the order is for the same items and region, and staff *)
(* changed nothing since the quote on that screen was taken, that amount   *)
(* is its total.  (An amount that was no quote's is ShownTotalsWereQuoted.) *)
TransferIsTheTotal ==
  \A i \in DOMAIN orders :
    /\ paid.quoted /\ paid.edition = orders[i].edition
    /\ paid.items = orders[i].items /\ paid.region = orders[i].region
    => orders[i].total = paid.amount

(* Every press carries a key of its own, so an answer that was lost and a  *)
(* second press are two requests to the API: the one receipt still buys    *)
(* once.                                                                   *)
AReceiptBuysOnce == Len(orders) <= 1

(* The cart is emptied when the customer has seen the order, long after it *)
(* was sent: what is dropped is what was bought.                           *)
OnlyTheBoughtIsCleared ==
  [][~link /\ SeeOrder => orders[Len(orders)].items = screen.items]_storefrontVars

(* The modal that covers the page while an order is placed goes away.      *)
EveryPressIsAnswered == (screen.sent \notin {"no", "shown"}) ~> (screen.sent \in {"no", "shown"})

(* invite-checkout-view.tsx says the total waits for a quote taken for     *)
(* what is on screen; it is also shown when there is none.                 *)
ShownTotalsWereQuoted == paid # NoReceipt => paid.quoted

(* checkout-items.tsx says removing must not empty the cart mid-checkout.  *)
RemovingLeavesALine ==
  [][screen.view = "checkout" /\ screen'.view = "checkout" /\ Wanted(screen.items) # {}
     => Wanted(screen'.items) # {}]_storefrontVars

(* checkout-view.tsx says a quote that could not be taken is shown as such: *)
(* a cart with books in it is not shown as empty.                          *)
FailureIsNotAnEmptyCart ==
  (screen.failed /\ screen.view = "checkout" /\ ~link /\ Wanted(screen.items) # {}) => FormShown
=============================================================================
