-------------------------- MODULE StorefrontProofs --------------------------
(***************************************************************************)
(* Theorems about Storefront, for every shop: any books, zones, prices and *)
(* number of edits, quotes and presses.  The argument about money is that  *)
(* a quote and an order are priced by one function of the shop, so that a  *)
(* quote is right for as long as nothing was edited and nothing was sold.  *)
(***************************************************************************)
EXTENDS MCStorefront, FiniteSetTheorems, TLAPS

Shops == [price : [Book -> Nat], open : [Book -> BOOLEAN], rate : [Zone -> Nat \cup {Closed, Flatly}],
          edition : 0 .. MaxEdits]

(* The parts of a screen, and the types of those that have one here.       *)
ScreenIs(s) ==
  /\ s = [view |-> s.view, items |-> s.items, chosen |-> s.chosen, region |-> s.region, step |-> s.step,
          quotes |-> s.quotes, last |-> s.last, failed |-> s.failed, sent |-> s.sent, presses |-> s.presses]
  /\ s.items \in Carts
  /\ s.view \in {"catalog", "cart", "checkout"} /\ s.step \in {"delivery", "payment"}
  /\ s.sent \in {"no", "sent", "refused", "placed", "lost", "shown"}
  /\ IsFiniteSet(s.quotes) /\ Cardinality(s.quotes) <= MaxQuotes

(* A quote taken since the last edit is what an order would cost now.      *)
Honest(q) ==
  /\ q.edition \in 0 .. shop.edition
  /\ q.edition = shop.edition /\ orders = <<>> => q.total = PriceCart(q.items, q.region).total

QuotesAreHonest(s) == \A q \in s.quotes \cup {s.last} : q # NoQuote => Honest(q)

(* So is the receipt, of a quote for what it was sent for.                 *)
ReceiptIsHonest ==
  paid # NoReceipt =>
    /\ paid.edition \in 0 .. shop.edition
    /\ paid.quoted /\ paid.edition = shop.edition /\ orders = <<>> =>
         paid.amount = PriceCart(paid.items, paid.region).total

FormIsPaid(s) == s.sent # "no" => s.view = "checkout" /\ paid # NoReceipt

OrdersAreOne ==
  /\ orders = <<>> => ~spent
  /\ orders # <<>> => paid # NoReceipt /\ orders = <<orders[1]>>

OrderIsTheCart(s) == s.sent \in {"placed", "shown"} => orders # <<>> /\ orders[1].items = s.items

SInv ==
  /\ shop \in Shops /\ link \in BOOLEAN
  /\ ScreenIs(screen) /\ QuotesAreHonest(screen) /\ FormIsPaid(screen) /\ OrderIsTheCart(screen)
  /\ ReceiptIsHonest
  /\ OrdersAreOne
  /\ TransferIsTheTotal

-----------------------------------------------------------------------------
(* Prices depend on the shop and the invite alone.                         *)
LEMMA PricesStay ==
  ASSUME UNCHANGED <<shop, link, spent>>, NEW items, NEW z
  PROVE  PriceCart(items, z)' = PriceCart(items, z)
<1>1. PricedLines(items)' = PricedLines(items)
  BY DEF PricedLines, Orderable
<1>2. RateFor(z)' = RateFor(z)
  BY DEF RateFor
<1>3. Subtotal(items)' = Subtotal(items)
  BY <1>1 DEF Subtotal, FoldSet, MapThenFoldSet
<1> QED BY <1>1, <1>2, <1>3 DEF PriceCart, Delivery

LEMMA HonestyStays ==
  ASSUME UNCHANGED <<shop, link, spent, orders>>, NEW q, Honest(q)
  PROVE  Honest(q)'
BY PricesStay DEF Honest

LEMMA APriceIsHonest ==
  ASSUME SInv, NEW items, NEW z
  PROVE  /\ Honest(PriceCart(items, z))
         /\ PriceCart(items, z).items = items /\ PriceCart(items, z).region = z
         /\ PriceCart(items, z).edition = shop.edition
<1>1. shop.edition \in 0 .. shop.edition
  BY DEF SInv, Shops
<1>2. /\ PriceCart(items, z).items = items /\ PriceCart(items, z).region = z
      /\ PriceCart(items, z).edition = shop.edition
  BY DEF PriceCart
<1> QED BY <1>1, <1>2 DEF Honest

(* What is on screen is a quote the tab holds, or none.                    *)
LEMMA ShownIsHeld ==
  ASSUME SInv
  PROVE  /\ Shown # NoQuote => Shown \in screen.quotes \cup {screen.last} /\ Honest(Shown)
         /\ Priced => Shown \in screen.quotes /\ Shown.items = screen.items
                      /\ Shown.region = QueryRegion(screen)
<1>1. Priced => Shown \in Answers
  BY DEF Shown, Priced
<1>2. Answers \subseteq {q \in screen.quotes : q.items = screen.items /\ q.region = QueryRegion(screen)}
  BY DEF Answers, AnswersTo
<1>3. ~Priced => Shown \in {screen.last, NoQuote}
  BY DEF Shown
<1> QED BY <1>1, <1>2, <1>3 DEF SInv, QuotesAreHonest

-----------------------------------------------------------------------------
(* A step of the screen alone, after which nothing is under way.           *)
LEMMA QuietStep ==
  ASSUME SInv, UNCHANGED <<shop, link, spent, paid, orders>>,
         ScreenIs(screen'), screen'.sent = "no",
         screen'.quotes \subseteq screen.quotes, screen'.last \in {NoQuote, screen.last, Shown}
  PROVE  SInv'
<1>1. QuotesAreHonest(screen)'
  BY ShownIsHeld, HonestyStays DEF SInv, QuotesAreHonest
<1>2. ReceiptIsHonest'
  BY PricesStay DEF SInv, ReceiptIsHonest
<1>3. OrdersAreOne' /\ TransferIsTheTotal'
  BY DEF SInv, OrdersAreOne, TransferIsTheTotal
<1> QED BY <1>1, <1>2, <1>3 DEF SInv, ScreenIs, FormIsPaid, OrderIsTheCart

(* A step of the screen alone while an order may be under way: the items   *)
(* stay as they were sent.                                                 *)
LEMMA BusyStep ==
  ASSUME SInv, UNCHANGED <<shop, link, spent, paid, orders>>,
         ScreenIs(screen'), screen'.view = screen.view, screen'.items = screen.items,
         screen'.last \in {NoQuote, screen.last},
         \A q \in screen'.quotes : q \in screen.quotes \/ Honest(q),
         \/ screen'.sent = screen.sent
         \/ screen'.sent = "shown" /\ screen.sent = "placed"
         \/ screen'.sent = "lost" /\ screen.sent # "no"
         \/ screen'.sent = "sent" /\ screen.view = "checkout" /\ paid # NoReceipt
  PROVE  SInv'
<1>1. QuotesAreHonest(screen)'
  BY HonestyStays DEF SInv, QuotesAreHonest
<1>2. ReceiptIsHonest'
  BY PricesStay DEF SInv, ReceiptIsHonest
<1>3. OrdersAreOne' /\ TransferIsTheTotal'
  BY DEF SInv, OrdersAreOne, TransferIsTheTotal
<1>4. FormIsPaid(screen)' /\ OrderIsTheCart(screen)'
  BY DEF SInv, FormIsPaid, OrderIsTheCart
<1> QED BY <1>1, <1>2, <1>3, <1>4 DEF SInv, ScreenIs

-----------------------------------------------------------------------------
LEMMA StorefrontBegins == StorefrontInit => SInv
<1> SUFFICES ASSUME StorefrontInit PROVE SInv
  OBVIOUS
<1> USE DEF StorefrontInit
<1>1. FirstItems \in Carts
  BY StorefrontAssumption DEF FirstItems, NoItems, Carts
<1>2. ScreenIs(screen) /\ screen.sent = "no" /\ screen.quotes = {} /\ screen.last = NoQuote
  BY <1>1, FS_EmptySet, StorefrontAssumption DEF FreshScreen, ScreenIs
<1>3. shop \in Shops /\ link \in BOOLEAN
  BY StorefrontAssumption DEF Shops
<1>4. QuotesAreHonest(screen) /\ FormIsPaid(screen) /\ OrderIsTheCart(screen)
  BY <1>2 DEF QuotesAreHonest, FormIsPaid, OrderIsTheCart
<1>5. ReceiptIsHonest /\ OrdersAreOne /\ TransferIsTheTotal
  BY DEF ReceiptIsHonest, OrdersAreOne, TransferIsTheTotal
<1> QED BY <1>2, <1>3, <1>4, <1>5 DEF SInv

(* A new screen, with the quotes of the old one or without.                *)
Fresh(s) == ScreenIs(s) /\ s.sent = "no" /\ s.quotes \subseteq screen.quotes /\ s.last = NoQuote

OpenedAt(items, view, presses) ==
  [FreshScreen(items) EXCEPT !.view = view, !.quotes = screen.quotes, !.presses = presses]
Opened(items, presses) == [FreshScreen(items) EXCEPT !.quotes = screen.quotes, !.presses = presses]
Loaded(items, presses) == [FreshScreen(items) EXCEPT !.presses = presses]

LEMMA AFreshScreen ==
  ASSUME SInv, NEW items \in Carts, NEW view \in {"catalog", "cart", "checkout"}, NEW presses
  PROVE  Fresh(OpenedAt(items, view, presses)) /\ Fresh(Opened(items, presses)) /\ Fresh(Loaded(items, presses))
<1>1. ScreenIs(FreshScreen(items))
  BY FS_EmptySet, StorefrontAssumption DEF ScreenIs, FreshScreen
<1>2. /\ FreshScreen(items).sent = "no" /\ FreshScreen(items).quotes = {}
      /\ FreshScreen(items).last = NoQuote
  BY DEF FreshScreen
<1> DEFINE fresh == FreshScreen(items)
<1> HIDE DEF fresh
<1>3. ASSUME NEW at, Fresh(at)
      PROVE  Fresh([at EXCEPT !.quotes = screen.quotes, !.presses = presses])
  <2> DEFINE with == [at EXCEPT !.quotes = screen.quotes]
  <2>1. Fresh(with)
    BY <1>3 DEF Fresh, ScreenIs, SInv
  <2> HIDE DEF with
  <2>2. Fresh([with EXCEPT !.presses = presses])
    BY <2>1 DEF Fresh, ScreenIs
  <2> QED BY <2>2 DEF with
<1>4. Fresh(fresh)
  BY <1>1, <1>2 DEF fresh, Fresh
<1> DEFINE at == [fresh EXCEPT !.view = view]
<1>5. Fresh(at)
  BY <1>4 DEF Fresh, ScreenIs
<1> HIDE DEF at
<1>6. Fresh([at EXCEPT !.quotes = screen.quotes, !.presses = presses])
  BY <1>3, <1>5
<1>7. Fresh([fresh EXCEPT !.quotes = screen.quotes, !.presses = presses])
  BY <1>3, <1>4
<1>8. Fresh([fresh EXCEPT !.presses = presses])
  BY <1>4 DEF Fresh, ScreenIs
<1> QED BY <1>6, <1>7, <1>8 DEF fresh, at, OpenedAt, Opened, Loaded

(* What a new key makes of a screen.                                       *)
LEMMA ANewKey ==
  ASSUME SInv, NEW s, ScreenIs(s)
  PROVE  LET r == Rekeyed(s)
         IN  /\ ScreenIs(r) /\ r.sent = s.sent /\ r.quotes = s.quotes
             /\ r.last \in {NoQuote, screen.last, Shown}
<1> DEFINE last == IF AnswersTo(s, QueryRegion(s)) # {} THEN NoQuote
                   ELSE IF Shown = NoQuote THEN screen.last ELSE Shown
<1>1. last \in {NoQuote, screen.last, Shown}
  OBVIOUS
<1>2. Rekeyed(s) = [s EXCEPT !.failed = FALSE, !.last = last]
  BY DEF Rekeyed
<1> HIDE DEF last
<1> QED BY <1>1, <1>2 DEF ScreenIs

-----------------------------------------------------------------------------
(* The customer's steps. *)

LEMMA CartSteps ==
  ASSUME SInv, NEW x \in Book, NEW n \in 0 .. MaxQuantity,
         AddToCart(x) \/ Remove(x) \/ SetQuantity(x, n) \/ SetExtra(x, n)
  PROVE  SInv'
<1>1. PICK m \in 0 .. MaxQuantity : SetItems([screen.items EXCEPT ![x] = m])
  BY StorefrontAssumption DEF AddToCart, Remove, SetQuantity, SetExtra
<1>2. screen.sent = "no"
  BY DEF AddToCart, Remove, SetQuantity, SetExtra, EditsItems, Editable, SInv, FormIsPaid
<1> DEFINE s == [screen EXCEPT !.items = [screen.items EXCEPT ![x] = m]]
<1>3. ScreenIs(s) /\ s.sent = "no" /\ s.quotes = screen.quotes
  <2>1. [screen.items EXCEPT ![x] = m] \in Carts
    BY DEF SInv, ScreenIs, Carts
  <2> QED BY <1>2, <2>1 DEF SInv, ScreenIs
<1>4. screen' = Rekeyed(s) /\ UNCHANGED <<shop, link, spent, paid, orders>>
  BY <1>1 DEF SetItems
<1> HIDE DEF s
<1> QED BY <1>3, <1>4, ANewKey, QuietStep

LEMMA PageSteps ==
  ASSUME SInv, \/ \E v \in {"catalog", "cart", "checkout"} : Goto(v)
               \/ \E items \in Carts : Reload(items)
               \/ SeeOrder
  PROVE  SInv'
<1>0. ASSUME Fresh(screen'), UNCHANGED <<shop, link, spent, paid, orders>> PROVE SInv'
  BY <1>0, QuietStep DEF Fresh
<1>1. screen.items \in Carts /\ FirstItems \in Carts /\ NoItems \in Carts
  BY StorefrontAssumption DEF SInv, ScreenIs, FirstItems, NoItems, Carts
<1>2. CASE \E v \in {"catalog", "cart", "checkout"} : Goto(v)
  <2>1. PICK v \in {"catalog", "cart", "checkout"} : Goto(v)
    BY <1>2
  <2>2. /\ screen' = OpenedAt(screen.items, v, screen.presses)
        /\ UNCHANGED <<shop, link, spent, paid, orders>>
    BY <2>1 DEF Goto, OpenedAt
  <2>3. Fresh(screen')
    BY <1>1, <2>2, AFreshScreen
  <2> QED BY <1>0, <2>2, <2>3
<1>3. CASE \E items \in Carts : Reload(items)
  <2>1. PICK items \in Carts : screen' = Loaded(items, screen.presses)
    BY <1>1, <1>3 DEF Reload, Loaded
  <2>2. Fresh(screen')
    BY <2>1, AFreshScreen
  <2> QED BY <1>0, <1>3, <2>2 DEF Reload
<1>4. CASE SeeOrder
  <2>1. PICK items \in Carts : screen' = Opened(items, screen.presses)
    BY <1>1, <1>4 DEF SeeOrder, Opened
  <2>2. Fresh(screen')
    BY <2>1, AFreshScreen
  <2> QED BY <1>0, <1>4, <2>2 DEF SeeOrder
<1> QED BY <1>2, <1>3, <1>4

LEMMA FormSteps ==
  ASSUME SInv, (\E z \in Zone : ChooseDivision(z)) \/ GoToPayment \/ Back \/ PlaceOrder \/ AskAgain
  PROVE  SInv'
<1>0. ScreenIs(screen)
  BY DEF SInv
<1>1. CASE \E z \in Zone : ChooseDivision(z)
  <2>1. PICK z \in Zone : ChooseDivision(z)
    BY <1>1
  <2> DEFINE chosen == [screen EXCEPT !.chosen = TRUE]
             s == [chosen EXCEPT !.region = z]
  <2>11. screen.sent = "no"
    BY <2>1 DEF ChooseDivision, OnForm, Editable
  <2>12. ScreenIs(chosen) /\ chosen.sent = "no" /\ chosen.quotes = screen.quotes
    <3>1. \A x : LET c == [screen EXCEPT !.chosen = x]
                 IN  ScreenIs(c) /\ c.sent = "no" /\ c.quotes = screen.quotes
      BY <1>0, <2>11 DEF ScreenIs
    <3> QED BY <3>1
  <2>2. ScreenIs(s) /\ s.sent = "no" /\ s.quotes = screen.quotes
    <3> HIDE DEF chosen
    <3> QED BY <2>12 DEF ScreenIs
  <2>3. screen' = Rekeyed(s) /\ UNCHANGED <<shop, link, spent, paid, orders>>
    BY <2>1 DEF ChooseDivision
  <2> HIDE DEF s
  <2> QED BY <2>2, <2>3, ANewKey, QuietStep
<1>2. CASE GoToPayment \/ Back
  <2>1. PICK step \in {"delivery", "payment"} : screen' = [screen EXCEPT !.step = step]
    BY <1>2 DEF GoToPayment, Back
  <2>2. ScreenIs(screen') /\ screen'.sent = "no" /\ screen'.quotes = screen.quotes /\ screen'.last = screen.last
    BY <1>0, <1>2, <2>1 DEF ScreenIs, GoToPayment, Back, OnForm, Editable
  <2> QED BY <1>2, <2>2, QuietStep DEF GoToPayment, Back
<1>3. CASE PlaceOrder
  <2>1. screen' = [screen EXCEPT !.sent = "sent", !.presses = screen.presses + 1]
    BY <1>3 DEF PlaceOrder
  <2>2. /\ ScreenIs(screen') /\ screen'.sent = "sent" /\ screen'.quotes = screen.quotes
        /\ screen'.last = screen.last /\ screen'.view = screen.view /\ screen'.items = screen.items
    BY <1>0, <2>1 DEF ScreenIs
  <2>3. screen.view = "checkout" /\ paid # NoReceipt /\ UNCHANGED <<shop, link, spent, paid, orders>>
    BY <1>3 DEF PlaceOrder, OnForm, FormShown
  <2> QED BY <2>2, <2>3, BusyStep
<1>4. CASE AskAgain
  <2>1. screen' = [screen EXCEPT !.failed = FALSE]
    BY <1>4 DEF AskAgain
  <2>2. /\ ScreenIs(screen') /\ screen'.sent = screen.sent /\ screen'.quotes = screen.quotes
        /\ screen'.last = screen.last /\ screen'.view = screen.view /\ screen'.items = screen.items
    BY <1>0, <2>1 DEF ScreenIs
  <2> QED BY <1>4, <2>2, BusyStep DEF AskAgain
<1> QED BY <1>1, <1>2, <1>3, <1>4

(* The amount sent is what the screen shows: a quote for what is on it.    *)
LEMMA TransferStep ==
  ASSUME SInv, Transfer
  PROVE  SInv'
<1>1. /\ paid' = [amount |-> ShownTotal, items |-> screen.items, region |-> screen.region,
                  edition |-> IF Shown = NoQuote THEN shop.edition ELSE Shown.edition,
                  quoted |-> Shown # NoQuote]
      /\ paid = NoReceipt /\ UNCHANGED <<shop, link, spent, screen, orders>>
  BY DEF Transfer
<1>2. orders = <<>> /\ screen.sent = "no"
  BY <1>1 DEF SInv, OrdersAreOne, FormIsPaid
<1>3. shop.edition \in 0 .. shop.edition
  BY DEF SInv, Shops
<1>4. Shown # NoQuote => Priced
  BY DEF Transfer, DeliveryKnown, IsPlaceholder, Shown, Pending
<1>5. QueryRegion(screen) = screen.region
  BY DEF Transfer, OnForm, FormShown, DeliveryKnown, QueryRegion
<1>6. ASSUME Shown # NoQuote
      PROVE  /\ Shown.edition \in 0 .. shop.edition
             /\ Shown.edition = shop.edition => Shown.total = PriceCart(screen.items, screen.region).total
  BY <1>2, <1>4, <1>5, <1>6, ShownIsHeld DEF Honest
<1>7. ReceiptIsHonest'
  <2>1. CASE Shown = NoQuote
    BY <1>1, <1>3, <2>1 DEF ReceiptIsHonest
  <2>2. CASE Shown # NoQuote
    <3>1. /\ paid'.edition = Shown.edition /\ paid'.amount = Shown.total /\ paid'.items = screen.items
          /\ paid'.region = screen.region
      BY <1>1, <2>2 DEF ShownTotal
    <3>2. PriceCart(screen.items, screen.region)' = PriceCart(screen.items, screen.region)
      BY <1>1, PricesStay
    <3>3. PriceCart(paid.items, paid.region)' = PriceCart(screen.items, screen.region)
      BY <1>1, <3>1, PricesStay
    <3> QED BY <1>1, <1>6, <2>2, <3>1, <3>3 DEF ReceiptIsHonest
  <2> QED BY <2>1, <2>2
<1>8. QuotesAreHonest(screen)'
  BY <1>1, HonestyStays DEF SInv, QuotesAreHonest
<1> QED BY <1>1, <1>2, <1>7, <1>8 DEF SInv, ScreenIs, FormIsPaid, OrderIsTheCart, OrdersAreOne, TransferIsTheTotal

-----------------------------------------------------------------------------
(* The network's. *)

LEMMA QuoteSteps ==
  ASSUME SInv, (\E z \in Zone \cup {NoZone} : QuoteArrives(z)) \/ QuoteFails
  PROVE  SInv'
<1>0. ScreenIs(screen)
  BY DEF SInv
<1>1. CASE QuoteFails
  <2>1. screen' = [screen EXCEPT !.failed = TRUE]
    BY <1>1 DEF QuoteFails
  <2>2. /\ ScreenIs(screen') /\ screen'.sent = screen.sent /\ screen'.quotes = screen.quotes
        /\ screen'.last = screen.last /\ screen'.view = screen.view /\ screen'.items = screen.items
    BY <1>0, <2>1 DEF ScreenIs
  <2> QED BY <1>1, <2>2, BusyStep DEF QuoteFails
<1>2. CASE \E z \in Zone \cup {NoZone} : QuoteArrives(z)
  <2>1. PICK z \in Zone \cup {NoZone} : QuoteArrives(z)
    BY <1>2
  <2>2. PICK kept \in SUBSET (screen.quotes \ AnswersTo(screen, z)) :
          /\ Cardinality(kept) < MaxQuotes
          /\ \/ screen' = [screen EXCEPT !.quotes = kept \cup {PriceCart(screen.items, z)},
                                         !.failed = FALSE, !.last = NoQuote]
             \/ screen' = [screen EXCEPT !.quotes = kept \cup {PriceCart(screen.items, z)}]
    BY <2>1 DEF QuoteArrives
  <2> DEFINE quotes == kept \cup {PriceCart(screen.items, z)}
             asked == [screen EXCEPT !.quotes = quotes]
             calm == [asked EXCEPT !.failed = FALSE]
  <2>3. IsFiniteSet(kept) /\ Cardinality(kept) \in Nat
    BY <1>0, FS_Subset, FS_CardinalityType DEF ScreenIs
  <2>4. IsFiniteSet(quotes) /\ Cardinality(quotes) <= MaxQuotes
    <3>1. Cardinality(quotes) \in {Cardinality(kept), Cardinality(kept) + 1} /\ IsFiniteSet(quotes)
      BY <2>3, FS_AddElement
    <3> HIDE DEF quotes
    <3> QED BY <2>2, <2>3, <3>1, StorefrontAssumption
  <2>5. \A q \in quotes : q \in screen.quotes \/ Honest(q)
    BY APriceIsHonest
  <2>6. screen' = asked \/ screen' = [calm EXCEPT !.last = NoQuote]
    BY <2>2
  <2> HIDE DEF quotes
  <2>7. /\ ScreenIs(asked) /\ asked.sent = screen.sent /\ asked.quotes = quotes
        /\ asked.last = screen.last /\ asked.view = screen.view /\ asked.items = screen.items
    BY <1>0, <2>4 DEF ScreenIs
  <2> HIDE DEF asked
  <2>8. /\ ScreenIs(calm) /\ calm.sent = screen.sent /\ calm.quotes = quotes
        /\ calm.last = screen.last /\ calm.view = screen.view /\ calm.items = screen.items
    <3>1. \A x : LET c == [asked EXCEPT !.failed = x]
                 IN  /\ ScreenIs(c) /\ c.sent = screen.sent /\ c.quotes = quotes
                     /\ c.last = screen.last /\ c.view = screen.view /\ c.items = screen.items
      BY <2>7 DEF ScreenIs
    <3> QED BY <3>1
  <2> HIDE DEF calm
  <2>9. /\ ScreenIs(screen') /\ screen'.sent = screen.sent /\ screen'.quotes = quotes
        /\ screen'.last \in {NoQuote, screen.last} /\ screen'.view = screen.view
        /\ screen'.items = screen.items
    BY <2>6, <2>7, <2>8 DEF ScreenIs
  <2> QED BY <2>1, <2>5, <2>9, BusyStep DEF QuoteArrives
<1> QED BY <1>1, <1>2

LEMMA AnswerSteps ==
  ASSUME SInv, AnswerLost \/ Catch \/ OrderArrives
  PROVE  SInv'
<1>1. PICK sent \in {"no", "lost", "shown"} : screen' = [screen EXCEPT !.sent = sent]
  BY DEF AnswerLost, Catch, OrderArrives
<1>2. /\ ScreenIs(screen') /\ screen'.sent = sent /\ screen'.quotes = screen.quotes
      /\ screen'.last = screen.last /\ screen'.view = screen.view /\ screen'.items = screen.items
  BY <1>1 DEF SInv, ScreenIs
<1>3. UNCHANGED <<shop, link, spent, paid, orders>>
  BY DEF AnswerLost, Catch, OrderArrives
<1>4. sent = "no" \/ (sent = "lost" /\ screen.sent # "no") \/ (sent = "shown" /\ screen.sent = "placed")
  <2>1. screen'.sent = sent
    BY <1>2
  <2> QED BY <1>1, <2>1 DEF AnswerLost, Catch, OrderArrives, SInv, ScreenIs
<1>5. CASE sent = "no"
  BY <1>2, <1>3, <1>5, QuietStep
<1>6. CASE sent # "no"
  BY <1>2, <1>3, <1>4, <1>6, BusyStep
<1> QED BY <1>5, <1>6

(* An order is the first, priced as the quotes and the receipt of the      *)
(* current edition were.                                                   *)
LEMMA ServeStep ==
  ASSUME SInv, ServeOrder
  PROVE  SInv'
<1>0. ScreenIs(screen) /\ screen.sent = "sent" /\ paid # NoReceipt /\ UNCHANGED <<shop, link, paid>>
  BY DEF ServeOrder, SInv, FormIsPaid
<1>1. CASE Refused
  <2>1. screen' = [screen EXCEPT !.sent = "refused"] /\ UNCHANGED <<spent, orders>>
    BY <1>1 DEF ServeOrder
  <2>2. /\ ScreenIs(screen') /\ screen'.sent = "refused" /\ screen'.quotes = screen.quotes
        /\ screen'.last = screen.last /\ screen'.view = screen.view /\ screen'.items = screen.items
    BY <1>0, <2>1 DEF ScreenIs
  <2>3. QuotesAreHonest(screen)' /\ ReceiptIsHonest'
    BY <1>0, <2>1, <2>2, HonestyStays, PricesStay DEF SInv, QuotesAreHonest, ReceiptIsHonest
  <2>4. FormIsPaid(screen)' /\ OrderIsTheCart(screen)' /\ OrdersAreOne' /\ TransferIsTheTotal'
    BY <1>0, <2>1, <2>2 DEF SInv, FormIsPaid, OrderIsTheCart, OrdersAreOne, TransferIsTheTotal
  <2> QED BY <1>0, <2>2, <2>3, <2>4 DEF SInv, ScreenIs
<1>2. CASE ~Refused
  <2> DEFINE order == PriceCart(screen.items, screen.region)
  <2>1. /\ orders' = Append(orders, order) /\ orders = <<>>
        /\ screen' = [screen EXCEPT !.sent = "placed"]
    BY <1>2 DEF ServeOrder, Refused
  <2>2. orders' = <<order>> /\ orders' # <<>> /\ orders'[1] = order
    BY <2>1
  <2>3. order.items = screen.items /\ order.region = screen.region /\ order.edition = shop.edition
    BY APriceIsHonest
  <2>4. /\ ScreenIs(screen') /\ screen'.sent = "placed" /\ screen'.quotes = screen.quotes
        /\ screen'.last = screen.last /\ screen'.view = screen.view /\ screen'.items = screen.items
    BY <1>0, <2>1 DEF ScreenIs
  <2>5. QuotesAreHonest(screen)' /\ ReceiptIsHonest'
    BY <1>0, <2>2, <2>4 DEF SInv, QuotesAreHonest, Honest, ReceiptIsHonest
  <2>6. TransferIsTheTotal'
    <3> SUFFICES ASSUME NEW i \in DOMAIN orders', paid.quoted, paid.edition = orders'[i].edition,
                        paid.items = orders'[i].items, paid.region = orders'[i].region
                 PROVE  orders'[i].total = paid.amount
      BY <1>0 DEF TransferIsTheTotal
    <3>1. orders'[i] = order
      BY <2>2
    <3> QED BY <1>0, <2>1, <2>3, <3>1 DEF SInv, ReceiptIsHonest
  <2> HIDE DEF order
  <2>7. FormIsPaid(screen)' /\ OrderIsTheCart(screen)' /\ OrdersAreOne'
    BY <1>0, <2>2, <2>3, <2>4 DEF SInv, FormIsPaid, OrderIsTheCart, OrdersAreOne
  <2> QED BY <1>0, <2>4, <2>5, <2>6, <2>7 DEF SInv, ScreenIs
<1> QED BY <1>1, <1>2

-----------------------------------------------------------------------------
(* After an edit no quote is of the current edition.                       *)
LEMMA EditStep ==
  ASSUME SInv, Edits
  PROVE  SInv'
<1>0. shop \in Shops
  BY DEF SInv
<1>1. PICK change : /\ Edit(change)
                    /\ \/ \E x \in Book, p \in Prices : change = [shop EXCEPT !.price[x] = p]
                       \/ \E x \in Book : change = [shop EXCEPT !.open[x] = ~shop.open[x]]
                       \/ \E z \in Zone, r \in Prices \cup {Closed, Flatly} : change = [shop EXCEPT !.rate[z] = r]
  BY DEF Edits
<1>2. change \in Shops
  <2>1. CASE \E x \in Book, p \in Prices : change = [shop EXCEPT !.price[x] = p]
    BY <1>0, <2>1, StorefrontAssumption DEF Shops
  <2>2. CASE \E x \in Book : change = [shop EXCEPT !.open[x] = ~shop.open[x]]
    <3>1. PICK x \in Book : change = [shop EXCEPT !.open = [shop.open EXCEPT ![x] = ~shop.open[x]]]
      BY <2>2
    <3>2. [shop.open EXCEPT ![x] = ~shop.open[x]] \in [Book -> BOOLEAN]
      BY <1>0 DEF Shops
    <3> QED BY <1>0, <3>1, <3>2 DEF Shops
  <2>3. CASE \E z \in Zone, r \in Prices \cup {Closed, Flatly} : change = [shop EXCEPT !.rate[z] = r]
    BY <1>0, <2>3, StorefrontAssumption DEF Shops
  <2> QED BY <1>1, <2>1, <2>2, <2>3
<1>3. shop.edition \in Nat /\ shop.edition < MaxEdits /\ shop.edition + 1 \in 0 .. MaxEdits
  BY <1>0, <1>1, StorefrontAssumption DEF Edit, Shops
<1>4. shop' = [change EXCEPT !.edition = shop.edition + 1] /\ UNCHANGED <<link, spent, screen, paid, orders>>
  BY <1>1 DEF Edit
<1>5. shop' \in Shops /\ shop'.edition = shop.edition + 1
  BY <1>2, <1>3, <1>4 DEF Shops
<1>6. \A e \in 0 .. shop.edition : e \in 0 .. shop'.edition /\ e # shop'.edition
  BY <1>3, <1>5
<1>7. QuotesAreHonest(screen)' /\ ReceiptIsHonest'
  BY <1>4, <1>6 DEF SInv, QuotesAreHonest, Honest, ReceiptIsHonest
<1> QED BY <1>4, <1>5, <1>7 DEF SInv, ScreenIs, FormIsPaid, OrderIsTheCart, OrdersAreOne, TransferIsTheTotal

LEMMA StorefrontSteps ==
  ASSUME SInv, [StorefrontNext]_storefrontVars
  PROVE  SInv'
<1>1. CASE Customer
  <2>1. ASSUME NEW x \in Book, AddToCart(x) \/ Remove(x) PROVE SInv'
    BY <2>1, CartSteps, StorefrontAssumption
  <2> QED BY <1>1, <2>1, CartSteps, PageSteps, FormSteps, TransferStep DEF Customer
<1>2. CASE Network
  BY <1>2, QuoteSteps, AnswerSteps, ServeStep DEF Network
<1>3. CASE Edits
  BY <1>3, EditStep
<1>4. CASE UNCHANGED storefrontVars
  <2>1. QuotesAreHonest(screen)' /\ ReceiptIsHonest'
    BY <1>4, HonestyStays, PricesStay DEF storefrontVars, SInv, QuotesAreHonest, ReceiptIsHonest
  <2> QED BY <1>4, <2>1 DEF storefrontVars, SInv, ScreenIs, FormIsPaid, OrderIsTheCart, OrdersAreOne,
        TransferIsTheTotal
<1> QED BY <1>1, <1>2, <1>3, <1>4 DEF StorefrontNext

THEOREM StorefrontInvariant == StorefrontSpec => []SInv
<1> QED BY StorefrontBegins, StorefrontSteps, PTL DEF StorefrontSpec

(* The amount that was sent from the screen is the order's total, if the   *)
(* order is for the same and nothing was edited since the quote.           *)
THEOREM TransfersAreTheTotal == StorefrontSpec => []TransferIsTheTotal
<1>1. SInv => TransferIsTheTotal
  BY DEF SInv
<1> QED BY <1>1, StorefrontInvariant, PTL

(* The types; and one receipt buys one order, however often it is sent.    *)
THEOREM ReceiptsStaySound == StorefrontSpec => []ReceiptsAreSound
<1>1. SInv => ReceiptsAreSound
  <2> SUFFICES ASSUME SInv PROVE ReceiptsAreSound
    OBVIOUS
  <2>1. StorefrontTypeOK
    BY DEF SInv, Shops, ScreenIs, FormIsPaid, StorefrontTypeOK
  <2>2. Len(orders) <= 1
    <3>1. orders = <<>> \/ orders = <<orders[1]>>
      BY DEF SInv, OrdersAreOne
    <3> QED BY <3>1
  <2> QED BY <2>1, <2>2 DEF ReceiptsAreSound, AReceiptBuysOnce
<1> QED BY <1>1, StorefrontInvariant, PTL

(* The cart is emptied of what was bought, and of nothing else.            *)
THEOREM BoughtIsCleared == StorefrontSpec => OnlyTheBoughtIsCleared
<1>1. SInv => [~link /\ SeeOrder => orders[Len(orders)].items = screen.items]_storefrontVars
  <2> SUFFICES ASSUME SInv, SeeOrder PROVE orders[Len(orders)].items = screen.items
    OBVIOUS
  <2>1. orders = <<orders[1]>> /\ orders[1].items = screen.items
    BY DEF SInv, OrdersAreOne, OrderIsTheCart, SeeOrder
  <2>2. Len(orders) = 1
    BY <2>1
  <2> QED BY <2>1, <2>2
<1> QED BY <1>1, StorefrontInvariant, PTL DEF OnlyTheBoughtIsCleared
=============================================================================
