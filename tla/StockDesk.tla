------------------------------ MODULE StockDesk ------------------------------
(***************************************************************************)
(* The panel's Stock page (apps/web admin/stock, stock-release-dialog.tsx) *)
(* and what it calls: AdminStockService, AdminWaitlistAllocationService    *)
(* and the count of AdminBooksService.  One book and one member of staff   *)
(* at the page.  The page acts on the row it was last sent, a dialog on    *)
(* the row it was opened with, and a share of a spent release is saved by  *)
(* two requests; meanwhile customers, invites and colleagues move all of   *)
(* the figures.  Module Waitlist opens up what is one step here: a resize  *)
(* and the issue of a link.                                                *)
(***************************************************************************)
EXTENDS Integers

CONSTANTS
  MaxCopies,   \* bound: copies of the book
  MaxReleases, \* bound: releases of it
  MaxMoves     \* bound: what customers and colleagues do

VARIABLES
  shop, \* stock; links of the open release, of closed ones; copies sold of the open one; release
  desk, \* the page: row, open dialog
  task  \* what the page is waiting for

stockVars == <<shop, desk, task>>

NoRow == [onHand |-> 0, promised |-> 0, reserved |-> 0, onShelf |-> 0, allocation |-> 0, spent |-> FALSE]
NoTask == [step |-> "none", row |-> NoRow, hold |-> 0, fresh |-> FALSE]
NoDialog == [kind |-> "none", row |-> NoRow]

Least(a, b) == IF a < b THEN a ELSE b
Most(a, b) == IF a < b THEN b ELSE a

(* reservedQuantitySql, committedSql, ringfencedQuantitySql                *)
Held(s) == s.live + s.old
Committed(s) == s.live + s.sold
Ringfenced(s) == IF s.release = 0 THEN 0 ELSE Most(s.copies - Committed(s), 0)
OnShelf(s) == s.stock - Held(s) - Ringfenced(s)

(* AdminStockService.list *)
RowOf(s) ==
  [onHand |-> s.stock, promised |-> Held(s), reserved |-> Ringfenced(s), onShelf |-> OnShelf(s),
   allocation |-> s.release,
   spent |-> s.release # 0 /\ Ringfenced(s) = 0 /\ OnShelf(s) > 0]

StockDeskInit ==
  /\ shop = [stock |-> MaxCopies, live |-> 0, old |-> 0, sold |-> 0, release |-> 0, copies |-> 0,
             opened |-> 0, moves |-> 0]
  /\ desk = [row |-> NoRow, loaded |-> FALSE, dialog |-> NoDialog]
  /\ task = [NoTask EXCEPT !.step = "load"]

busy == task.step \notin {"none", "load"}

-----------------------------------------------------------------------------
(* StockReleaseDialog *)

free(row) == Most(row.onHand - row.promised, 0)
isNew(row) == row.allocation = 0 \/ row.spent

(* The shares the dialog offers. *)
Offered(row) == (IF isNew(row) THEN Least(1, free(row)) ELSE 0)..free(row)

nothingToGive(row) == isNew(row) /\ free(row) = 0

(* A dialog opens on the row of the panel, and keeps it.                   *)
OpenDialog(kind) ==
  /\ desk.loaded /\ ~busy /\ desk.dialog = NoDialog
  /\ desk' = [desk EXCEPT !.dialog = [kind |-> kind, row |-> desk.row]]
  /\ UNCHANGED <<shop, task>>

CloseDialog ==
  /\ desk.dialog # NoDialog /\ ~busy
  /\ desk' = [desk EXCEPT !.dialog = NoDialog]
  /\ UNCHANGED <<shop, task>>

Start(step, row, hold) ==
  task' = [step |-> step, row |-> row, hold |-> hold, fresh |-> row = RowOf(shop)]

(* saveStock: a delivery is added to the row's count, a correction is not. *)
SaveStock ==
  /\ desk.dialog.kind \in {"receive", "correct"} /\ ~busy
  /\ \E n \in 0..MaxCopies :
       /\ desk.dialog.kind = "receive" => n > 0 /\ desk.dialog.row.onHand + n <= MaxCopies
       /\ Start("count", desk.dialog.row,
                IF desk.dialog.kind = "receive" THEN desk.dialog.row.onHand + n ELSE n)
  /\ UNCHANGED <<shop, desk>>

(* saveShare: a spent release is replaced, a live one resized.             *)
FirstRequest(row) ==
  IF row.allocation # 0 THEN IF row.spent THEN "replace" ELSE "resize" ELSE "open"

SaveShare ==
  /\ desk.dialog.kind = "share" /\ ~busy /\ ~nothingToGive(desk.dialog.row)
  /\ \E hold \in Offered(desk.dialog.row) : Start(FirstRequest(desk.dialog.row), desk.dialog.row, hold)
  /\ UNCHANGED <<shop, desk>>

(* closeShare, from the panel. *)
CloseShare ==
  /\ desk.loaded /\ ~busy /\ desk.row.allocation # 0 /\ desk.dialog = NoDialog
  /\ Start("close", desk.row, 0)
  /\ UNCHANGED <<shop, desk>>

-----------------------------------------------------------------------------
(* WaitlistAllocationService. *)

(* A mutant: the browser's share is taken for the size of the release.     *)
ResizedTo_Total(hold) == hold

ResizedTo(hold) == Committed(shop) + hold

Closed(s) == [s EXCEPT !.release = 0, !.copies = 0, !.old = s.old + s.live, !.live = 0, !.sold = 0]

Opened(s, copies) == [s EXCEPT !.release = s.opened + 1, !.opened = s.opened + 1, !.copies = copies]

IsOpen(allocation) == allocation # 0 /\ shop.release = allocation

(* What the request makes of the shop, if it is not refused.               *)
Accepted ==
  CASE task.step = "count"                -> TRUE
    [] task.step = "open"                 -> shop.release = 0 /\ shop.opened < MaxReleases /\ task.hold >= 1
    [] task.step \in {"close", "replace"} -> IsOpen(task.row.allocation)
    [] task.step = "resize"               -> IsOpen(task.row.allocation) /\ ResizedTo(task.hold) >= 1
    [] OTHER                              -> FALSE

Effect ==
  CASE task.step = "count"                -> [shop EXCEPT !.stock = task.hold]
    [] task.step = "open"                 -> Opened(shop, task.hold)
    [] task.step \in {"close", "replace"} -> Closed(shop)
    [] task.step = "resize"               -> [shop EXCEPT !.copies = ResizedTo(task.hold)]

(* Served; the answer may be lost on the way, or the request before that.  *)
Serve ==
  /\ busy /\ task.step # "failed"
  /\ \/ /\ Accepted
        /\ shop' = Effect
        /\ \/ task' = [task EXCEPT !.step = IF task.step = "replace" THEN "open" ELSE "load"]
           \/ task' = [task EXCEPT !.step = "failed"]
     \/ task' = [task EXCEPT !.step = "failed"] /\ UNCHANGED shop
  /\ desk' = IF task'.step = "load" THEN [desk EXCEPT !.dialog = NoDialog] ELSE desk

(* The catch and finally of the handler: dialog and row stay as they were. *)
Failed ==
  /\ task.step = "failed"
  /\ task' = NoTask
  /\ UNCHANGED <<shop, desk>>

(* load: the panel's row is the one just read.                             *)
Reread ==
  /\ task.step = "load"
  /\ \/ desk' = [desk EXCEPT !.row = RowOf(shop), !.loaded = TRUE]
     \/ UNCHANGED desk
  /\ task' = NoTask
  /\ UNCHANGED shop

-----------------------------------------------------------------------------
(* Customers, invites and colleagues. *)
Moves(s) ==
  {t \in {[s EXCEPT !.stock = s.stock - 1],                                      \* sold
          [s EXCEPT !.stock = s.stock + 1],                                      \* returned
          [s EXCEPT !.live = s.live + 1],                                        \* invited
          [s EXCEPT !.live = s.live - 1],  [s EXCEPT !.old = s.old - 1],         \* lapsed
          [s EXCEPT !.live = s.live - 1, !.stock = s.stock - 1, !.sold = s.sold + 1],  \* bought
          [s EXCEPT !.old = s.old - 1, !.stock = s.stock - 1]} :
     /\ t.live >= 0 /\ t.old >= 0 /\ t.stock \in 0..MaxCopies
     /\ t = [s EXCEPT !.stock = s.stock - 1] => OnShelf(s) > 0
     /\ t.live > s.live => s.release # 0 /\ Least(s.copies - Committed(s), s.stock - Held(s)) > 0}

Elsewhere ==
  /\ shop.moves < MaxMoves
  /\ \E t \in Moves(shop) \cup (IF shop.release = 0 THEN {} ELSE {Closed(shop)})
              \cup (IF shop.release # 0 \/ shop.opened = MaxReleases THEN {} ELSE {Opened(shop, 1)}) :
       shop' = [t EXCEPT !.moves = shop.moves + 1]
  /\ task' = [task EXCEPT !.fresh = FALSE]
  /\ UNCHANGED desk

StockDeskNext ==
  \/ \E kind \in {"receive", "correct", "share"} : OpenDialog(kind)
  \/ CloseDialog \/ SaveStock \/ SaveShare \/ CloseShare \/ Serve \/ Failed \/ Reread \/ Elsewhere

StockDeskSpec == StockDeskInit /\ [][StockDeskNext]_stockVars

-----------------------------------------------------------------------------
StockDeskTypeOK ==
  /\ shop.stock \in 0..MaxCopies /\ shop.release \in 0..MaxReleases /\ shop.release <= shop.opened
  /\ shop.release = 0 => shop.live = 0 /\ shop.sold = 0 /\ shop.copies = 0
  /\ desk.dialog.kind \in {"none", "receive", "correct", "share"}
  /\ task.hold \in 0..MaxCopies

(* The dialog draws the book in three parts and one slider moves the last  *)
(* of them.  By whichever of three routes the share is saved, that many    *)
(* free copies are then the queue's, however stale the row was; and if     *)
(* nothing else moved the book meanwhile the shelf keeps what was drawn.   *)
ShelfIsAsDrawn ==
  task.step \in {"open", "resize"} /\ task'.step = "load" =>
    /\ Ringfenced(shop') = task.hold
    /\ task.fresh /\ task.row.promised <= task.row.onHand =>
         OnShelf(shop') = free(task.row) - task.hold /\ OnShelf(shop') >= 0
TheShelfIsAsDrawn == [][ShelfIsAsDrawn]_stockVars

-----------------------------------------------------------------------------
(* What the comments promise and the code does not keep (README, 4).       *)

(* stock/page.tsx:483: a delivery is "additive".  It is added to the count *)
(* of the row, and the sales since the row was read are undone.            *)
ADeliveryIsAdded ==
  [][task.step = "count" /\ desk.dialog.kind = "receive" /\ shop' # shop /\ shop'.moves = shop.moves =>
       shop'.stock > shop.stock]_stockVars

(* stock/page.tsx:149: a spent release is closed and its successor opened. *)
(* When the second request fails the book is left without one, and the     *)
(* page, which still shows the first, can only ask to close it again.      *)
AFailedSaveCanBeRepeated ==
  [][task.step = "failed" /\ desk.dialog.kind = "share" /\ task.fresh /\ desk.dialog.row.spent =>
       shop.release = desk.dialog.row.allocation]_stockVars
===============================================================================
