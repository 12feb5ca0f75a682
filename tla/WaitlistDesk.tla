----------------------------- MODULE WaitlistDesk -----------------------------
(***************************************************************************)
(* The panel's Waitlist page and its Invite-batch page (apps/web           *)
(* admin/waitlist), the waves they send and the corrections they make      *)
(* (AdminWaitlistWaveService, AdminWaitlistService).  A list is reloaded   *)
(* by every change of tab; no reload waits for the one before.  Requests   *)
(* that change something go one at a time.  Module Waitlist opens up what  *)
(* is one step here, a link and its text, and follows the copies of stock: *)
(* here a release is spendable until its own copies are.                   *)
(***************************************************************************)
EXTENDS Integers, FiniteSetsExt, Functions

CONSTANTS
  Queue,       \* the entries, as they signed up
  Quantity,    \* the copies an entry may ask for
  Book, NoBook,
  Load,        \* the reloads that can be out at once
  Tabs,        \* bound: the tabs of the list that are opened
  MaxRelease,  \* bound: copies of a release
  MaxTurns,    \* bound: links issued to one entry
  MaxChanges   \* bound: what is changed, from the page and elsewhere

ListTabs == {"WAITING", "INVITED", "EXPIRED", "ORDERED", "CONVERTED", "CANCELLED"}

VARIABLES
  entry,    \* waitlist_entries
  copies,   \* of the open release of each book; zero is none
  screen,   \* the page's state
  reloads,  \* its reloads
  errand,   \* the request it is busy with
  changes

waitlistDeskVars == <<entry, copies, screen, reloads, errand, changes>>

Entry == Range(Queue)
BatchTabs == {"new", "reinvite"}
NoReload == [stage |-> "none", tab |-> "none", book |-> NoBook, spendable |-> 0]
(* What an edit sends: NoBook and zero are a field left as it was.         *)
Patch == [book : Book \cup {NoBook}, quantity : Quantity \cup {0}]
NoPatch == [book |-> NoBook, quantity |-> 0]
NoErrand == [kind |-> "none", ids |-> {}, book |-> NoBook, patch |-> NoPatch,
             tab |-> "none", filter |-> NoBook, spendable |-> 0]
NoHeader == [book |-> NoBook, wave |-> FALSE]

(* Some have signed up, some let the link of an earlier wave lapse.        *)
InLine(b) ==
  {r \in [book : {b}, quantity : Quantity, status : {"PENDING", "NOTIFIED"}, invite : {"none", "lapsed"},
           ordered : {FALSE}, failed : {FALSE}, turns : {0, 1}] :
     <<r.status, r.invite, r.turns>> \in {<<"PENDING", "none", 0>>, <<"NOTIFIED", "lapsed", 1>>}}

WaitlistDeskInit ==
  /\ \E b \in Book : entry \in [Entry -> InLine(b)]
  /\ copies = [b \in Book |-> MaxRelease]
  /\ \E page \in {"list", "batch"} :
       screen = [page |-> page, tab |-> IF page = "list" THEN "WAITING" ELSE "new", book |-> NoBook,
                 items |-> {}, selected |-> {}, header |-> NoHeader]
  /\ reloads = [l \in Load |-> NoReload]
  /\ errand = NoErrand
  /\ changes = 0

busy == errand # NoErrand

(* Bound: one more thing is changed, from the page or elsewhere.           *)
Once == changes < MaxChanges /\ changes' = changes + 1

-----------------------------------------------------------------------------
(* waitlistLaneSql *)
Lane(e) ==
  CASE entry[e].status = "CANCELLED" -> "CANCELLED"
    [] entry[e].status = "CONVERTED" -> "CONVERTED"
    [] entry[e].status \notin {"CANCELLED", "CONVERTED"} /\ entry[e].invite = "live" -> "INVITED"
    [] entry[e].status \notin {"CANCELLED", "CONVERTED"} /\ entry[e].invite # "live" ->
         IF entry[e].ordered THEN "ORDERED"
         ELSE IF entry[e].invite = "lapsed" THEN "EXPIRED" ELSE "WAITING"

TabLanes(tab) ==
  CASE tab = "new" -> {"WAITING"} [] tab = "reinvite" -> {"INVITED", "EXPIRED"} [] OTHER -> {tab}

Row(e) == [id |-> e, lane |-> Lane(e), failed |-> entry[e].failed]

CopiesOf(S) == Cardinality(UNION {{e} \X (1..entry[e].quantity) : e \in S})

(* committedSql and describe, of the copies of a release alone.            *)
Spendable(b) ==
  Max({copies[b] - CopiesOf({e \in Entry : entry[e].book = b /\ entry[e].invite \in {"live", "spent"}}), 0})

(* AdminWaitlistWaveService.plan: fewest turns first, then as signed up.   *)
Before(d, e) ==
  \/ entry[d].turns < entry[e].turns
  \/ entry[d].turns = entry[e].turns
     /\ \E i, j \in DOMAIN Queue : i < j /\ Queue[i] = d /\ Queue[j] = e

Candidates(b) == {e \in Entry : entry[e].book = b /\ Lane(e) \in {"WAITING", "EXPIRED"}}

(* A mutant: the wave counts people, not their copies.                     *)
Walk_Heads(plan, e) ==
  IF plan.quantity + entry[e].quantity > plan.spendable THEN plan
  ELSE [plan EXCEPT !.ids = plan.ids \cup {e}, !.quantity = plan.quantity + 1]

Walk(plan, e) ==
  IF plan.quantity + entry[e].quantity > plan.spendable THEN plan
  ELSE [plan EXCEPT !.ids = plan.ids \cup {e}, !.quantity = plan.quantity + entry[e].quantity]

First(S) == CHOOSE e \in S : \A d \in S \ {e} : Before(e, d)

(* Who is taken of the line as it stands, within a budget read before it.  *)
WavePlan(b, spendable) ==
  LET walked[n \in 0..Cardinality(Candidates(b))] ==
        IF n = 0
        THEN [left |-> Candidates(b), ids |-> {}, quantity |-> 0, spendable |-> spendable]
        ELSE LET e == First(walked[n - 1].left)
             IN  Walk([walked[n - 1] EXCEPT !.left = walked[n - 1].left \ {e}], e)
  IN  walked[Cardinality(Candidates(b))].ids

-----------------------------------------------------------------------------
(* The lists. *)
Ask(tab, book) ==
  \E l \in Load : /\ reloads[l] = NoReload
                  /\ reloads' = [reloads EXCEPT ![l] = [NoReload EXCEPT !.stage = "sent",
                                                          !.tab = tab, !.book = book]]

(* Waitlist page, setTab and its effect, Search and the pager: load.       *)
LoadList(tab) ==
  /\ screen.page = "list"
  /\ Ask(tab, screen.book)
  /\ screen' = [screen EXCEPT !.tab = tab, !.items = {}]
  /\ UNCHANGED <<entry, copies, errand, changes>>

(* A mutant: the rows go, the ticks stay.                                  *)
SwitchTab_KeepsSelection(tab) == [screen EXCEPT !.tab = tab, !.items = {}]

SwitchTab(tab) == [screen EXCEPT !.tab = tab, !.items = {}, !.selected = {}]

(* Invite-batch page: switchTab, and loadBatch by its own button.          *)
ChooseBatchTab(tab) ==
  /\ screen.page = "batch" /\ tab # screen.tab
  /\ screen' = SwitchTab(tab)
  /\ UNCHANGED <<entry, copies, reloads, errand, changes>>

LoadBatch ==
  /\ screen.page = "batch"
  /\ Ask(screen.tab, NoBook)
  /\ UNCHANGED <<entry, copies, screen, errand, changes>>

(* The filter changes nothing but the select, until the next load.         *)
SelectBook(b) ==
  /\ screen.page = "list" /\ screen.book # b
  /\ screen' = [screen EXCEPT !.book = b]
  /\ UNCHANGED <<entry, copies, reloads, errand, changes>>

(* AdminWaitlistService.list *)
Rows(tab, book) ==
  {Row(e) : e \in {d \in Entry : Lane(d) \in TabLanes(tab) /\ book \in {NoBook, entry[d].book}}}

needsAnotherLink(row) == row.lane = "EXPIRED" \/ row.failed

(* The answer replaces rows and ticks together; the batch page ticks those *)
(* the tab is for.  A failure leaves both as they are.                     *)
ReloadArrives(l) ==
  LET rows == Rows(reloads[l].tab, reloads[l].book)
      ticked == CASE screen.page = "list" -> {}
                  [] reloads[l].tab = "reinvite" -> {r \in rows : needsAnotherLink(r)}
                  [] reloads[l].tab = "new" -> rows
  IN
  /\ reloads[l].stage = "sent"
  /\ \/ screen' = [screen EXCEPT !.items = rows, !.selected = {r.id : r \in ticked}]
     \/ UNCHANGED screen
  /\ reloads' = [reloads EXCEPT ![l] = IF screen.page = "list" THEN [reloads[l] EXCEPT !.stage = "header"]
                                                               ELSE NoReload]
  /\ UNCHANGED <<entry, copies, errand, changes>>

(* Then the release and the next wave of the book that was asked for; the  *)
(* plan reads the budget and then, in a query of its own, the line.        *)
HeaderIsRead(l) ==
  LET b == reloads[l].book IN
  /\ reloads[l].stage = "header" /\ b # NoBook /\ copies[b] > 0
  /\ reloads' = [reloads EXCEPT ![l].stage = "plan", ![l].spendable = Spendable(b)]
  /\ UNCHANGED <<entry, copies, screen, errand, changes>>

HeaderArrives(l) ==
  LET b == reloads[l].book IN
  /\ reloads[l].stage \in {"header", "plan"}
  /\ \E header \in {NoHeader} \cup
          (IF b = NoBook \/ reloads[l].stage = "header" THEN {}
           ELSE {[book |-> b, wave |-> WavePlan(b, reloads[l].spendable) # {}]}) :
       screen' = [screen EXCEPT !.header = header]
  /\ reloads' = [reloads EXCEPT ![l] = NoReload]
  /\ UNCHANGED <<entry, copies, errand, changes>>

Toggle(ids) ==
  /\ ids \subseteq {r.id : r \in screen.items} /\ ids # {}
  /\ screen' = [screen EXCEPT !.selected = SymDiff(screen.selected, ids)]
  /\ UNCHANGED <<entry, copies, reloads, errand, changes>>

-----------------------------------------------------------------------------
(* What the pages ask for. *)
Begin(kind, ids, book, patch) ==
  /\ ~busy /\ Once
  /\ errand' = [NoErrand EXCEPT !.kind = kind, !.ids = ids, !.book = book, !.patch = patch,
                                 !.tab = screen.tab, !.filter = screen.book]
  /\ UNCHANGED <<entry, copies, screen, reloads>>

InviteSelected == screen.selected # {} /\ Begin("invite", screen.selected, NoBook, NoPatch)

InviteRow(row) ==
  /\ screen.page = "list" /\ row.lane \notin {"CANCELLED", "CONVERTED"}
  /\ Begin("invite", {row.id}, NoBook, NoPatch)

MarkSelected ==
  screen.page = "list" /\ screen.selected # {} /\ Begin("notify", screen.selected, NoBook, NoPatch)

(* sendWave: the plan on screen decides whether, the select which book.    *)
SendWave ==
  /\ screen.page = "list" /\ screen.book # NoBook /\ screen.header.wave
  /\ Begin("plan", {}, screen.book, NoPatch)

SetStatus(row) ==
  /\ screen.page = "list"
  /\ Begin(IF row.lane = "CANCELLED" THEN "restore" ELSE "remove", {row.id}, NoBook, NoPatch)

(* WaitlistEntryDialog: opened on a row; book and quantity are locked for  *)
(* one that was holding a copy or had bought.                              *)
SaveEntry(row, patch) ==
  /\ screen.page = "list" /\ row.lane \notin {"CONVERTED", "INVITED"} /\ patch # NoPatch
  /\ Begin("edit", {row.id}, NoBook, patch)

-----------------------------------------------------------------------------
(* The services. *)

(* The check of resolveDetails, before the transaction that writes.        *)
MayEdit(e) == entry[e].invite \notin {"spent", "live"} /\ entry[e].status # "CONVERTED" /\ ~entry[e].ordered

Step(kind, ids) == errand' = [errand EXCEPT !.kind = kind, !.ids = ids]

(* plan reads the open release's budget; without one there is no wave.     *)
PlanBudget ==
  /\ errand.kind = "plan"
  /\ IF copies[errand.book] = 0 THEN Step("refused", {})
     ELSE errand' = [errand EXCEPT !.kind = "budgeted", !.spendable = Spendable(errand.book)]
  /\ UNCHANGED <<entry, copies, screen, reloads, changes>>

(* Then the line, and the wave's row; the send loop takes the ids.         *)
Plan ==
  /\ errand.kind = "budgeted"
  /\ LET ids == WavePlan(errand.book, errand.spendable)
     IN  IF ids = {} THEN Step("refused", {}) ELSE Step("wave", ids)
  /\ UNCHANGED <<entry, copies, screen, reloads, changes>>

(* AdminWaitlistInviteService.invite, a link and its text at a time, for   *)
(* entries whose book still has the copies.                                *)
Invite(e) ==
  /\ errand.kind \in {"invite", "wave"} /\ e \in errand.ids
  /\ IF \/ entry[e].status \in {"CANCELLED", "CONVERTED"} \/ entry[e].turns = MaxTurns
        \/ entry[e].quantity > Spendable(entry[e].book) + (IF entry[e].invite = "live" THEN entry[e].quantity ELSE 0)
     THEN UNCHANGED entry
     ELSE \E failed \in BOOLEAN :
            entry' = [entry EXCEPT ![e].invite = "live", ![e].turns = entry[e].turns + 1, ![e].failed = failed,
                                   ![e].status = IF failed THEN entry[e].status ELSE "NOTIFIED"]
  /\ IF errand.ids = {e} THEN Step("answered", {}) ELSE Step(errand.kind, errand.ids \ {e})
  /\ UNCHANGED <<copies, screen, reloads, changes>>

(* revoke, of an invite that is not spent.                                 *)
Revoked(e) == IF entry[e].invite = "spent" THEN "spent" ELSE "none"

Edited(e, patch) ==
  [entry[e] EXCEPT !.book = IF patch.book = NoBook THEN entry[e].book ELSE patch.book,
                   !.quantity = IF patch.quantity = 0 THEN entry[e].quantity ELSE patch.quantity,
                   !.invite = IF patch.book \notin {NoBook, entry[e].book} THEN Revoked(e) ELSE entry[e].invite]

(* notify and update; an edit is judged first, and written by the next.    *)
Update ==
  /\ \E e \in errand.ids :
       \/ /\ errand.kind = "notify"
          /\ entry' = [d \in Entry |-> IF d \in errand.ids /\ entry[d].status = "PENDING"
                                       THEN [entry[d] EXCEPT !.status = "NOTIFIED"] ELSE entry[d]]
          /\ Step("answered", {})
       \/ /\ errand.kind = "remove"
          /\ entry' = [entry EXCEPT ![e].status = "CANCELLED", ![e].invite = Revoked(e)]
          /\ Step("answered", {})
       \/ /\ errand.kind = "restore"
          /\ entry' = [entry EXCEPT ![e].status = "PENDING"]
          /\ Step("answered", {})
       \/ /\ errand.kind = "edit"
          /\ IF MayEdit(e) THEN Step("judged", {e}) ELSE Step("refused", {})
          /\ UNCHANGED entry
       \/ /\ errand.kind = "judged"
          /\ entry' = [entry EXCEPT ![e] = Edited(e, errand.patch)]
          /\ Step("answered", {})
  /\ UNCHANGED <<copies, screen, reloads, changes>>

(* The answer, after which the list is loaded again as it was set when the *)
(* request was sent; or none, and what the request still does is then one  *)
(* of the things that happen elsewhere.                                    *)
Answered ==
  /\ busy
  /\ errand' = NoErrand
  /\ \/ /\ errand.kind = "answered"
        /\ Ask(errand.tab, errand.filter)
        /\ screen' = IF screen.page = "list" THEN [screen EXCEPT !.items = {}] ELSE screen
     \/ UNCHANGED <<reloads, screen>>
  /\ UNCHANGED <<entry, copies, changes>>

(* Links lapse, customers order and pay, colleagues invite and release.    *)
Elsewhere ==
  /\ Once
  /\ \/ \E e \in Entry :
          /\ \/ entry[e].invite = "live" /\ entry' = [entry EXCEPT ![e].invite = "lapsed"]
             \/ entry[e].invite = "live" /\ entry' = [entry EXCEPT ![e].invite = "spent", ![e].ordered = TRUE]
             \/ entry[e].ordered /\ entry' = [entry EXCEPT ![e].status = "CONVERTED", ![e].ordered = FALSE]
             \/ /\ entry[e].status \notin {"CANCELLED", "CONVERTED"} /\ entry[e].turns < MaxTurns
                /\ entry' = [entry EXCEPT ![e].invite = "live", ![e].turns = entry[e].turns + 1]
          /\ UNCHANGED copies
     \/ \E b \in Book, n \in 0..MaxRelease : copies' = [copies EXCEPT ![b] = n] /\ UNCHANGED entry
  /\ UNCHANGED <<screen, reloads, errand>>

WaitlistDeskNext ==
  \/ \E tab \in Tabs : LoadList(tab)
  \/ \E tab \in BatchTabs : ChooseBatchTab(tab)
  \/ LoadBatch \/ InviteSelected \/ MarkSelected \/ SendWave \/ PlanBudget \/ Plan \/ Update \/ Answered \/ Elsewhere
  \/ \E b \in Book \cup {NoBook} : SelectBook(b)
  \/ \E l \in Load : ReloadArrives(l) \/ HeaderIsRead(l) \/ HeaderArrives(l)
  \/ \E ids \in SUBSET Entry : Toggle(ids)
  \/ \E row \in screen.items : InviteRow(row) \/ SetStatus(row) \/ \E patch \in Patch : SaveEntry(row, patch)
  \/ \E e \in Entry : Invite(e)

WaitlistDeskSpec == WaitlistDeskInit /\ [][WaitlistDeskNext]_waitlistDeskVars

-----------------------------------------------------------------------------
WaitlistDeskTypeOK ==
  /\ \A e \in Entry : entry[e].book \in Book /\ entry[e].quantity \in Quantity /\ entry[e].turns \in 0..MaxTurns
  /\ screen.tab \in IF screen.page = "list" THEN ListTabs ELSE BatchTabs
  /\ {r.id : r \in screen.items} \cup screen.selected \cup errand.ids \subseteq Entry
  /\ screen.header.wave => screen.header.book # NoBook
  /\ errand.kind \in {"wave", "invite"} => errand.ids # {}

(* The batch page sends to what is ticked, and nothing is ticked that is   *)
(* not on the screen: through late answers of the other tab, reloads that  *)
(* fail and switches in the middle of one.                                 *)
BatchTicksAreShown ==
  screen.page = "batch" => screen.selected \subseteq {r.id : r \in screen.items}

(* A wave keeps the queue's promise: of the line as it then stands, lapsed *)
(* links and new arrivals since the budget was read included, whoever it   *)
(* takes fits in that budget after those taken before them, and whoever it *)
(* passes over does not.  The release may have been spent or resized since *)
(* it was read: the wave does not go back on that, each sending judges it. *)
WaveKeepsTheQueue ==
  errand.kind = "budgeted" /\ errand'.kind = "wave" =>
    LET chosen == errand'.ids
        TakenBefore(e) == CopiesOf({d \in chosen : Before(d, e)})
    IN  \A e \in Candidates(errand.book) :
          e \in chosen <=> TakenBefore(e) + entry[e].quantity <= errand.spendable
WavesKeepTheQueue == [][WaveKeepsTheQueue]_waitlistDeskVars

-----------------------------------------------------------------------------
(* What the comments promise and the code does not keep (README, 4).       *)

(* waitlist/page.tsx:142: the ticks are cleared whenever the list changes. *)
(* A reload clears the rows at once, and the ticks only when it succeeds.  *)
ListTicksAreShown == screen.page = "list" => screen.selected \subseteq {r.id : r \in screen.items}

(* waitlist/page.tsx:266 asks the member of staff about the wave on the    *)
(* screen, and posts whichever book the filter has been set to since.      *)
ConfirmedWaveIsSent == errand.kind = "plan" => errand.book = screen.header.book

(* admin-waitlist.service.ts:416: a book or quantity is never edited under *)
(* a live invite.  One that is issued after the check is.                  *)
HoldsKeepTheirTerms ==
  [][\A e \in Entry :
       entry[e].invite = "live" /\ entry'[e].invite = "live" =>
         entry'[e].book = entry[e].book /\ entry'[e].quantity = entry[e].quantity]_waitlistDeskVars

(* admin-waitlist.service.ts:416: what was bought is no form.  Remove is   *)
(* offered for a bought entry, and Restore puts the buyer back in line.    *)
BuyersStayBuyers ==
  [][\A e \in Entry : entry[e].status = "CONVERTED" => entry'[e].status = "CONVERTED"]_waitlistDeskVars
===============================================================================
