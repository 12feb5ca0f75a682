------------------------------- MODULE MCDesks -------------------------------
(***************************************************************************)
(* Small instances of the components that share nothing with one another,  *)
(* as scenes of one state space: the check of a receipt, the Stock and     *)
(* Waitlist pages, the book editor, the testimonials and the settings.     *)
(* While one is on, the others have nothing in them.                       *)
(***************************************************************************)
EXTENDS Integers, Sequences, FiniteSets, TLC

CONSTANTS
  Order, Receipt, NoReceipt, Stages, MaxWithdrawn,
  MaxCopies, MaxReleases, MaxMoves,
  Queue, Quantity, Book, NoBook, Load, Tabs, MaxRelease, MaxTurns, MaxChanges,
  e1, e2,
  Title, NoTitle, Clerk, MaxPrint, MaxEdits,
  Review, NoReview, ReviewTabs, MaxActs,
  Manager, Nobody, Shelf, MaxTyped, MaxClock

VARIABLES
  scene,
  rows, gateway, check, log,
  shop, desk, task,
  entry, copies, screen, reloads, errand, changes,
  books, desks, saves, edits,
  reviews, form, page, act, done,
  row, by, trail, offered, titles, panel, asks, typed, clock

Receipts == INSTANCE Receipts
StockDesk == INSTANCE StockDesk
WaitlistDesk == INSTANCE WaitlistDesk
BookEditor == INSTANCE BookEditor
ReviewDesk == INSTANCE ReviewDesk WITH Tabs <- ReviewTabs
SettingsDesk == INSTANCE SettingsDesk

ASSUME DesksAssumption ==
  /\ NoReceipt \notin Receipt
  /\ MaxCopies \in Nat \ {0} /\ MaxReleases \in Nat
  /\ Queue \in Seq({Queue[i] : i \in DOMAIN Queue})
  /\ \A i, j \in DOMAIN Queue : Queue[i] = Queue[j] => i = j
  /\ Tabs \subseteq WaitlistDesk!ListTabs
  /\ NoBook \notin Book /\ Quantity \subseteq Nat \ {0} /\ MaxRelease \in Nat /\ MaxTurns \in Nat \ {0}
  /\ NoTitle \notin Title /\ IsFiniteSet(Title) /\ MaxPrint \in Nat
  /\ Nobody \notin Manager

receiptVars == <<rows, gateway, check, log>>
stockVars == <<shop, desk, task>>
waitlistVars == <<entry, copies, screen, reloads, errand, changes>>
bookVars == <<books, desks, saves, edits>>
reviewVars == <<reviews, form, page, act, done>>
settingsVars == <<row, by, trail, offered, titles, panel, asks, typed, clock>>
vars == <<scene, receiptVars, stockVars, waitlistVars, bookVars, reviewVars, settingsVars>>

TwoEntries == <<e1, e2>>
(* The scenes share their model values, so two permutations serve them all. *)
Symmetry == Permutations(Order) \cup Permutations(Clerk)

(* A scene that is not on has nothing in it.                               *)
Nothing == <<>>
NoReceipts == rows = Nothing /\ gateway = Nothing /\ check = Nothing /\ log = {}
NoStock == shop = Nothing /\ desk = Nothing /\ task = Nothing
NoWaitlist ==
  /\ entry = Nothing /\ copies = Nothing /\ screen = Nothing /\ reloads = Nothing /\ errand = Nothing
  /\ changes = 0
NoBooks == books = Nothing /\ desks = Nothing /\ saves = Nothing /\ edits = 0
NoReviews == reviews = Nothing /\ form = "none" /\ page = Nothing /\ act = Nothing /\ done = 0
NoSettings ==
  /\ row = Nothing /\ by = Nobody /\ trail = Nothing /\ offered = {} /\ titles = {}
  /\ panel = Nothing /\ asks = Nothing /\ typed = 0 /\ clock = 0

(* Bound: whoever signed up first asked for more, and not both let a link  *)
(* lapse.                                                                  *)
AskForUnlike ==
  entry[e1].quantity > entry[e2].quantity /\ {entry[e1].invite, entry[e2].invite} # {"lapsed"}

Init ==
  /\ scene \in {"receipts", "stock", "waitlist", "books", "reviews", "settings"}
  /\ IF scene = "receipts" THEN Receipts!ReceiptsInit ELSE NoReceipts
  /\ IF scene = "stock" THEN StockDesk!StockDeskInit ELSE NoStock
  /\ IF scene = "waitlist" THEN WaitlistDesk!WaitlistDeskInit /\ AskForUnlike ELSE NoWaitlist
  /\ IF scene = "books" THEN BookEditor!BookEditorInit ELSE NoBooks
  /\ IF scene = "reviews" THEN ReviewDesk!ReviewDeskInit ELSE NoReviews
  /\ IF scene = "settings" THEN SettingsDesk!SettingsInit ELSE NoSettings

Next ==
  /\ UNCHANGED scene
  /\ \/ /\ scene = "receipts" /\ Receipts!ReceiptsNext
        /\ UNCHANGED <<stockVars, waitlistVars, bookVars, reviewVars, settingsVars>>
     \/ /\ scene = "stock" /\ StockDesk!StockDeskNext
        /\ UNCHANGED <<receiptVars, waitlistVars, bookVars, reviewVars, settingsVars>>
     \/ /\ scene = "waitlist" /\ WaitlistDesk!WaitlistDeskNext
        /\ UNCHANGED <<receiptVars, stockVars, bookVars, reviewVars, settingsVars>>
     \/ /\ scene = "books" /\ BookEditor!BookEditorNext
        /\ UNCHANGED <<receiptVars, stockVars, waitlistVars, reviewVars, settingsVars>>
     \/ /\ scene = "reviews" /\ ReviewDesk!ReviewDeskNext
        /\ UNCHANGED <<receiptVars, stockVars, waitlistVars, bookVars, settingsVars>>
     \/ /\ scene = "settings" /\ SettingsDesk!SettingsNext
        /\ UNCHANGED <<receiptVars, stockVars, waitlistVars, bookVars, reviewVars>>

Spec == Init /\ [][Next]_vars

-----------------------------------------------------------------------------
(* Every component is well formed while its scene is on.                   *)
WellFormed ==
  CASE scene = "receipts" -> Receipts!ReceiptsTypeOK
    [] scene = "stock"    -> StockDesk!StockDeskTypeOK
    [] scene = "waitlist" -> WaitlistDesk!WaitlistDeskTypeOK
    [] scene = "books"    -> BookEditor!BookEditorTypeOK
    [] scene = "reviews"  -> ReviewDesk!ReviewDeskTypeOK
    [] scene = "settings" -> SettingsDesk!SettingsTypeOK

(* Receipts: the automatic check confirms no order but one still pending,  *)
(* whose receipt came to the whole price and buys no other live order.     *)
AutoGrantsWerePaid == [][scene = "receipts" => Receipts!GrantWasPaid]_vars

(* Receipts: of two orders on one receipt, one has let go of it.           *)
OnePaidOrderPerReceipt == scene = "receipts" => Receipts!OnePaidOrderPerReceipt

(* StockDesk: a saved share is the share that was drawn, and an undisturbed *)
(* shelf keeps the rest.                                                   *)
TheShelfIsAsDrawn == [][scene = "stock" => StockDesk!ShelfIsAsDrawn]_vars

(* WaitlistDesk: nothing is ticked on the batch page that is not shown.    *)
BatchTicksAreShown == scene = "waitlist" => WaitlistDesk!BatchTicksAreShown

(* WaitlistDesk: a wave stays within the budget it read and passes over    *)
(* nobody in the line whose copies were left of it.                        *)
WavesKeepTheQueue == [][scene = "waitlist" => WaitlistDesk!WaveKeepsTheQueue]_vars

(* BookEditor: one slug names one book, whoever created another of its     *)
(* title at the same time, and what was ordered is never deleted.          *)
CatalogueIsSound == scene = "books" => BookEditor!CatalogueIsSound

(* ReviewDesk: featuring or annotating a testimonial leaves a colleague's  *)
(* verdict on it standing.                                                 *)
VerdictsStand == [][scene = "reviews" => ReviewDesk!VerdictStands]_vars

(* SettingsDesk: the audit log has the entry of the save in force, and     *)
(* lists above it only saves that overlapped that one.                     *)
TheLogTellsTheRow == scene = "settings" => SettingsDesk!TheLogTellsTheRow
=============================================================================
