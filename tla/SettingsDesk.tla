----------------------------- MODULE SettingsDesk -----------------------------
(***************************************************************************)
(* The shop's settings: AdminSettingsService, the one row that every page  *)
(* of them writes a part of, the delivery regions, and the titles on offer *)
(* at the notify page.  Each save reads what was there, writes in a        *)
(* transaction that records the change in the audit log, and reads once    *)
(* more for its answer; colleagues save in between, and transactions       *)
(* overlap.  The log is listed by the time its transactions began.         *)
(*                                                                         *)
(* "terms" stands for the pages whose columns fall back on the environment *)
(* (shipping, payments), "sim" for those of one nullable column (sms, the  *)
(* reopening date, the life of an invite), "inside" for a region's rate.   *)
(* What a member of staff types is called by their name.                   *)
(***************************************************************************)
EXTENDS Naturals

CONSTANTS
  Manager,    \* who has the pages open
  Nobody,
  Shelf,      \* the titles there are
  MaxTyped,   \* bound: fields typed, boxes ticked, titles deleted
  MaxClock    \* bound: saves that begin their transaction

VARIABLES
  row,        \* shop_settings and the region's override; "null" is NULL
  by,         \* updated_by
  trail,      \* the audit entries of each group
  offered,    \* titles with waitlist_enabled
  titles,     \* titles that are there
  panel,      \* the page each manager has open
  asks,       \* the save each page waits for
  typed,
  clock       \* of the database: ticks as a save begins its transaction

settingsVars == <<row, by, trail, offered, titles, panel, asks, typed, clock>>

Group == {"terms", "sim", "inside"}
Fields(g) == IF g = "terms" THEN {"flat", "free"} ELSE {g}
Field == UNION {Fields(g) : g \in Group}
Cut(form, g) == [f \in Fields(g) |-> form[f]]

(* current: a column nobody has saved is the environment's.                *)
Shown(f) == IF row[f] = "null" /\ f \in Fields("terms") THEN "default" ELSE row[f]
Describe(g) == [f \in Fields(g) |-> Shown(f)]

(* What a form holds that was never filled, as it would be written: a blank *)
(* rate is Number(""), a blank date and no SIM are NULL.                   *)
BlankForm == [f \in Field |-> IF f \in Fields("terms") THEN "zero" ELSE "null"]

NoAsk == [step |-> "none"]

SettingsInit ==
  /\ row = [f \in Field |-> "null"] /\ by = Nobody
  /\ trail = [g \in Group \cup {"books"} |-> {}]
  /\ titles = Shelf /\ offered \in SUBSET Shelf
  /\ panel = [p \in Manager |-> [open |-> {}, form |-> BlankForm, ticks |-> {}, list |-> {}]]
  /\ asks = [p \in Manager |-> [g \in Group \cup {"books"} |-> NoAsk]]
  /\ typed = 0 /\ clock = 0

Once == typed < MaxTyped /\ typed' = typed + 1
Step(p, g) == asks[p][g].step
Put(p, g, ask) == asks' = [asks EXCEPT ![p][g] = ask]
Into(form, part) == [f \in Field |-> IF f \in DOMAIN part THEN part[f] ELSE form[f]]

-----------------------------------------------------------------------------
(* The page of a manager.  A load that fails leaves an empty form, with    *)
(* its button, and no regions.                                             *)
LoadSettings(p) ==
  /\ panel[p].open = {}
  /\ \E groups \in {{"terms", "inside"}, {"sim"}, {"books"}} :
       LET part == [f \in UNION {Fields(g) : g \in groups \cap Group} |-> Shown(f)]
           ticked == IF "books" \in groups THEN offered ELSE {}
           loaded == [open |-> groups, form |-> Into(BlankForm, part), ticks |-> ticked, list |-> ticked] IN
       panel' \in {[panel EXCEPT ![p] = loaded],
                   [panel EXCEPT ![p].open = groups \ {"inside"}]}
  /\ UNCHANGED <<row, by, trail, offered, titles, asks, typed, clock>>

TypeSetting(p, f) ==
  /\ \E g \in panel[p].open \cap {"terms", "inside"} : f \in Fields(g)
  /\ Once
  /\ panel' = [panel EXCEPT ![p].form[f] = p]
  /\ UNCHANGED <<row, by, trail, offered, titles, asks, clock>>

SaveSettings(p, g) ==
  /\ g \in panel[p].open \cap {"terms", "inside"} /\ Step(p, g) = "none"
  /\ Put(p, g, [step |-> "before", sent |-> Cut(panel[p].form, g)])
  /\ UNCHANGED <<row, by, trail, offered, titles, panel, typed, clock>>

(* The SMS page saves on the press, and shows the choice already.          *)
ChooseSim(p, value) ==
  /\ "sim" \in panel[p].open /\ Step(p, "sim") = "none" /\ Once
  /\ panel' = [panel EXCEPT ![p].form["sim"] = value]
  /\ Put(p, "sim", [step |-> "before", sent |-> [f \in {"sim"} |-> value]])
  /\ UNCHANGED <<row, by, trail, offered, titles, clock>>

ToggleTitle(p, b) ==
  /\ "books" \in panel[p].open /\ Once
  /\ panel' = [panel EXCEPT ![p].ticks = IF b \in panel[p].ticks THEN panel[p].ticks \ {b} ELSE panel[p].ticks \cup {b}]
  /\ UNCHANGED <<row, by, trail, offered, titles, asks, clock>>

SaveTitles(p) ==
  /\ Step(p, "books") = "none" /\ panel[p].ticks # panel[p].list
  /\ Put(p, "books", [step |-> "before", sent |-> panel[p].ticks])
  /\ UNCHANGED <<row, by, trail, offered, titles, panel, typed, clock>>

-----------------------------------------------------------------------------
(* The service. *)

(* created_at is the time the transaction began; that of its commit is in  *)
(* no column.                                                              *)
Entry(p, g) ==
  [trail EXCEPT ![g] = trail[g] \cup
     {[start |-> asks[p][g].start, commit |-> clock, before |-> asks[p][g].before,
       after |-> asks[p][g].sent, by |-> p]}]

(* A mutant: the entry is written when the change has been committed.      *)
TrailAt_Detached(p, g, step) == IF step = "after" THEN Entry(p, g) ELSE trail

(* The entry commits with the change.                                      *)
TrailAt(p, g, step) == IF step = "written" THEN Entry(p, g) ELSE trail

(* BEGIN, of a transaction that has read what it is to replace.            *)
Started(ask) == [step |-> "begun", sent |-> ask.sent, before |-> ask.before, start |-> clock']
Begins == clock < MaxClock /\ clock' = clock + 1

(* All the pages but a region's write the one row of shop_settings.        *)
Table(g) == IF g = "inside" THEN "delivery_regions" ELSE "shop_settings"
RowIsFree(g) == \A q \in Manager, h \in Group : Table(h) = Table(g) => Step(q, h) # "written"

(* Only the columns that were sent are written, by a statement that waits  *)
(* for the row and shows nobody anything until the commit; a region has no *)
(* updated_by, and its row, as written, is the answer.                     *)
UpdateGroup(p, g) ==
  LET ask == asks[p][g] IN
  /\ \/ /\ ask.step = "before"
        /\ Put(p, g, [step |-> "tx", sent |-> ask.sent, before |-> Describe(g)])
        /\ UNCHANGED <<row, by, trail, clock>>
     \/ /\ ask.step = "tx" /\ Begins
        /\ Put(p, g, Started(ask))
        /\ UNCHANGED <<row, by, trail>>
     \/ /\ ask.step = "begun" /\ RowIsFree(g)
        /\ Put(p, g, [ask EXCEPT !.step = "written"])
        /\ UNCHANGED <<row, by, trail, clock>>
     \/ /\ ask.step = "written"
        /\ row' = Into(row, ask.sent)
        /\ by' = IF g = "inside" THEN by ELSE p
        /\ trail' = TrailAt(p, g, "written")
        /\ Put(p, g, [ask EXCEPT !.step = "after"])
        /\ UNCHANGED clock
     \/ /\ ask.step \in {"begun", "written"}
        /\ Put(p, g, [step |-> "refused"])
        /\ UNCHANGED <<row, by, trail, clock>>
     \/ /\ ask.step = "after"
        /\ trail' = TrailAt(p, g, "after")
        /\ Put(p, g, [step |-> "done", reply |-> IF g = "inside" THEN ask.sent ELSE Describe(g)])
        /\ UNCHANGED <<row, by, clock>>
  /\ UNCHANGED <<offered, titles, panel, typed>>

(* setSelection: two statements in one transaction, each of which sees what *)
(* was committed when it began and waits for the rows another has locked.  *)
Locked(p) == UNION {asks[q]["books"].cleared : q \in {m \in Manager \ {p} : Step(m, "books") = "set"}}

UpdateTitles(p) ==
  LET ask == asks[p]["books"] IN
  /\ \/ /\ ask.step = "before"
        /\ Put(p, "books", [step |-> "tx", sent |-> ask.sent, before |-> offered])
        /\ UNCHANGED <<offered, trail, clock>>
     \/ /\ ask.step = "tx" /\ Begins
        /\ Put(p, "books", Started(ask))
        /\ UNCHANGED <<offered, trail>>
     \/ /\ ask.step = "begun"
        /\ Put(p, "books", [step |-> "clear", sent |-> ask.sent, before |-> ask.before,
                            start |-> ask.start, cleared |-> offered])
        /\ UNCHANGED <<offered, trail, clock>>
     \/ /\ ask.step = "clear" /\ ask.cleared \cap Locked(p) = {}
        /\ Put(p, "books", [ask EXCEPT !.step = "set", !.cleared = ask.cleared \cap offered])
        /\ UNCHANGED <<offered, trail, clock>>
     \/ /\ ask.step = "set" /\ ask.sent \cap Locked(p) = {} /\ ask.sent \subseteq titles
        /\ offered' = (offered \ ask.cleared) \cup ask.sent
        /\ trail' = Entry(p, "books")
        /\ Put(p, "books", [step |-> "after"])
        /\ UNCHANGED clock
     \/ /\ ask.step = "set" /\ ask.sent \cap Locked(p) = {} /\ ~(ask.sent \subseteq titles)
        /\ Put(p, "books", [step |-> "refused"])
        /\ UNCHANGED <<offered, trail, clock>>
     \/ /\ ask.step = "after"
        /\ Put(p, "books", [step |-> "done", reply |-> offered])
        /\ UNCHANGED <<offered, trail, clock>>
  /\ UNCHANGED <<row, by, titles, panel, typed>>

(* The answer fills the form anew, over what was typed meanwhile; a refusal *)
(* or no answer leaves it.                                                 *)
SettingsAnswered(p, g) ==
  LET ask == asks[p][g] IN
  /\ ask.step \in {"done", "refused"}
  /\ Put(p, g, NoAsk)
  /\ \/ /\ ask.step = "done"
        /\ panel' = IF g = "books" THEN [panel EXCEPT ![p].ticks = ask.reply, ![p].list = ask.reply]
                    ELSE [panel EXCEPT ![p].form = Into(panel[p].form, ask.reply)]
     \/ UNCHANGED panel
  /\ UNCHANGED <<row, by, trail, offered, titles, typed, clock>>

(* A title is deleted from the catalogue, when nobody has its row.         *)
TitleGoes(b) ==
  /\ b \in titles /\ Once
  /\ \A p \in Manager : Step(p, "books") = "set" => b \notin asks[p]["books"].cleared
  /\ titles' = titles \ {b} /\ offered' = offered \ {b}
  /\ UNCHANGED <<row, by, trail, panel, asks, clock>>

SettingsNext ==
  \/ \E p \in Manager :
       \/ LoadSettings(p) \/ SaveTitles(p) \/ UpdateTitles(p)
       \/ \E f \in Field : TypeSetting(p, f)
       \/ \E g \in Group : SaveSettings(p, g) \/ UpdateGroup(p, g)
       \/ \E g \in Group \cup {"books"} : SettingsAnswered(p, g)
       \/ \E value \in {p, "null"} : ChooseSim(p, value)
       \/ \E b \in Shelf : ToggleTitle(p, b)
  \/ \E b \in Shelf : TitleGoes(b)

SettingsSpec == SettingsInit /\ [][SettingsNext]_settingsVars

-----------------------------------------------------------------------------
SettingsTypeOK ==
  /\ \A f \in Field : row[f] \in Manager \cup {"null", "default", "zero"}
  /\ offered \subseteq titles /\ titles \subseteq Shelf

(* No change is without its entry and no entry without its change, however *)
(* the saves of a group overlap: unless it was never saved, an entry says  *)
(* what it is, and one listed above that entry is of a save that had begun *)
(* before it took effect.  So the newest entry of saves that did not       *)
(* overlap is the one in force.                                            *)
InForce(e, g) ==
  /\ e.after = Cut(row, g)
  /\ \A d \in trail[g] : d.start > e.start => d.start <= e.commit

TheLogTellsTheRow ==
  \A g \in Group : \/ trail[g] = {} /\ \A f \in Fields(g) : row[f] = "null"
                   \/ \E e \in trail[g] : InForce(e, g)

-----------------------------------------------------------------------------
(* What is promised and the code does not keep (README, 4).                *)

(* audit.service.ts:76: the log never disagrees with the data.  It is read *)
(* newest first by when a transaction began, and of two saves that overlap *)
(* the one that began first may be the one that was written last.          *)
Newest(g) == CHOOSE e \in trail[g] : \A d \in trail[g] : d.start <= e.start
NewestEntryIsTheRow == \A g \in Group : trail[g] # {} => Newest(g).after = Cut(row, g)

(* contracts payment-numbers.ts:44: a save does not promote whatever the   *)
(* form happened to have loaded.  Both pages send every field they have.   *)
OnlyTheTypedIsWritten ==
  [][\A p \in Manager : asks[p]["terms"].step = "written" /\ asks'[p]["terms"].step = "after" =>
       \A f \in Fields("terms") : row'[f] # row[f] => row'[f] = p]_settingsVars

(* Nor does a page whose load failed write a rate nobody typed.            *)
NothingBlankIsSaved == \A f \in Fields("terms") : row[f] # "zero"

(* "Saved by": the name is that of whoever saved any group last.           *)
SavedByTheirSaver == trail["sim"] # {} => \E e \in trail["sim"] : by = e.by

(* waitlist-books.service.ts:59: the selection is exactly what was saved.  *)
(* Two saves at once can leave the titles of both.                         *)
SelectionIsOneSave == trail["books"] # {} => \E e \in trail["books"] : offered \subseteq e.after
=============================================================================
