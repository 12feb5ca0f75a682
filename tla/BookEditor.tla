----------------------------- MODULE BookEditor -----------------------------
(***************************************************************************)
(* The catalogue as staff edit it: the panel's list of books, its form for *)
(* a new and an old one (apps/web admin/books, book-form.tsx,              *)
(* file-upload.tsx) and AdminBooksService.  The form is filled from the    *)
(* row once and sends all of itself; a save reads, writes and reads back   *)
(* in three transactions, a deletion counts orders in one and deletes in   *)
(* the next.  Meanwhile customers order, the Stock page saves counts, and  *)
(* a colleague is at another page.                                         *)
(*                                                                         *)
(* Every book here has one title.  "note" stands for each optional field,  *)
(* "cover" for each required one.                                          *)
(***************************************************************************)
EXTENDS Integers, FiniteSets

CONSTANTS
  Title,     \* ids of books
  NoTitle,
  Clerk,     \* the pages open
  MaxPrint,  \* bound: copies of a book
  MaxEdits   \* bound: fields changed in forms, and changes from elsewhere

VARIABLES
  books,     \* the rows
  desks,     \* what is on each page
  saves,     \* the request each page waits for
  edits

bookVars == <<books, desks, saves, edits>>

Blank == -1
NoBookRow == [state |-> "never", slug |-> 0, stock |-> 0, availability |-> "in_stock", note |-> "none",
              used |-> "nowhere"]
NoSave == [step |-> "none", form |-> <<>>, book |-> NoTitle, slug |-> 0]

emptyForm == [stock |-> 0, availability |-> "in_stock", note |-> "none", cover |-> FALSE, covered |-> FALSE]

fromDetail(row) ==
  [stock |-> row.stock, availability |-> row.availability, note |-> row.note, cover |-> TRUE, covered |-> TRUE]

ListPage == [at |-> "list", book |-> NoTitle, form |-> emptyForm, categories |-> "loading",
             upload |-> "none", items |-> {}, target |-> NoTitle]

Live(b) == books[b].state = "live"

BookEditorInit ==
  /\ \E old \in Title \cup {NoTitle} :
       books = [b \in Title |-> IF b = old THEN [NoBookRow EXCEPT !.state = "live", !.slug = 1, !.stock = MaxPrint]
                                ELSE NoBookRow]
  /\ desks = [p \in Clerk |-> ListPage]
  /\ saves = [p \in Clerk |-> NoSave]
  /\ edits = 0

Once == edits < MaxEdits /\ edits' = edits + 1
saving(p) == saves[p].step # "none"
Show(p, page) == desks' = [desks EXCEPT ![p] = page]
Request(p, step) == saves' = [saves EXCEPT ![p].step = step]

-----------------------------------------------------------------------------
(* The form. *)
OpenNew(p) ==
  /\ desks[p].at = "list" /\ ~saving(p)
  /\ Show(p, [ListPage EXCEPT !.at = "new"])
  /\ UNCHANGED <<books, saves, edits>>

EditPage(b) == [ListPage EXCEPT !.at = "edit", !.book = b, !.form = fromDetail(books[b])]

OpenEdit(p, b) ==
  /\ b \in desks[p].items /\ desks[p].at = "list" /\ Live(b) /\ ~saving(p)
  /\ Show(p, EditPage(b))
  /\ UNCHANGED <<books, saves, edits>>

(* fetchCategories, and its Retry. *)
FetchCategories(p) ==
  /\ desks[p].at # "list" /\ desks[p].categories # "ready"
  /\ \E came \in {"ready", "failed"} : Show(p, [desks[p] EXCEPT !.categories = came])
  /\ UNCHANGED <<books, saves, edits>>

(* A field is changed, also while the form is being saved.                 *)
SetField(p, form) ==
  /\ desks[p].at # "list" /\ Once
  /\ Show(p, [desks[p] EXCEPT !.form = form])
  /\ UNCHANGED <<books, saves>>

TypeNote(p, text) == SetField(p, [desks[p].form EXCEPT !.note = text])
TypeStock(p, n) ==
  desks[p].form.availability # "coming_soon" /\ SetField(p, [desks[p].form EXCEPT !.stock = n])
SetAvailability(p, value) ==
  SetField(p, [desks[p].form EXCEPT !.availability = value,
                                    !.stock = IF value = "coming_soon" THEN 0 ELSE desks[p].form.stock])
ToggleCategory(p) ==
  /\ desks[p].categories = "ready" /\ ~desks[p].form.covered
  /\ Show(p, [desks[p] EXCEPT !.form.covered = TRUE])
  /\ UNCHANGED <<books, saves, edits>>

(* The file is stored before its URL is put in the form; it may not be.    *)
UploadCover(p) ==
  /\ desks[p].at # "list"
  /\ \/ desks[p].upload = "none" /\ ~desks[p].form.cover /\ Show(p, [desks[p] EXCEPT !.upload = "going"])
     \/ desks[p].upload = "going" /\ Show(p, [desks[p] EXCEPT !.upload = "none"])
     \/ desks[p].upload = "going" /\ Show(p, [desks[p] EXCEPT !.upload = "none", !.form.cover = TRUE])
  /\ UNCHANGED <<books, saves, edits>>

Submit(p) ==
  /\ desks[p].at # "list" /\ ~saving(p)
  /\ desks[p].form.cover /\ desks[p].form.covered /\ desks[p].categories = "ready"
  /\ saves' = [saves EXCEPT ![p] = [NoSave EXCEPT !.step = IF desks[p].at = "new" THEN "create" ELSE "update",
                                                  !.form = desks[p].form, !.book = desks[p].book]]
  /\ UNCHANGED <<books, desks, edits>>

-----------------------------------------------------------------------------
(* AdminBooksService *)
comingSoonHasNoStock(form) == form.availability = "coming_soon" => form.stock <= 0

Slugs == {books[b].slug : b \in {c \in Title : Live(c)}}

(* uniqueSlug: the title, or the first of its numbers that is free.        *)
uniqueSlug == CHOOSE n \in 1..(Cardinality(Title) + 1) : n \notin Slugs /\ \A k \in 1..(n - 1) : k \in Slugs

createColumns(form) ==
  [state |-> "live", slug |-> 0, stock |-> IF form.stock = Blank THEN 0 ELSE form.stock,
   availability |-> form.availability, note |-> form.note, used |-> "nowhere"]

(* A field that is blank is not sent, and one that is not sent is kept.    *)
updateColumns(row, form) ==
  [row EXCEPT !.stock = CASE form.stock # Blank -> form.stock
                          [] form.stock = Blank /\ form.availability = "coming_soon" -> 0
                          [] OTHER -> row.stock,
              !.availability = form.availability,
              !.note = IF form.note = "none" THEN row.note ELSE form.note]

(* A mutant: books_slug_idx is no unique index.                            *)
SlugIsFree_Looked(slug) == TRUE

SlugIsFree(slug) == slug \notin Slugs

Create(p) ==
  LET save == saves[p] IN
  /\ \/ /\ save.step = "create"
        /\ saves' = [saves EXCEPT ![p].step = IF comingSoonHasNoStock(save.form) THEN "insert" ELSE "refused",
                                  ![p].slug = uniqueSlug]
        /\ UNCHANGED books
     \/ /\ save.step = "insert" /\ ~SlugIsFree(save.slug)
        /\ Request(p, "refused")
        /\ UNCHANGED books
     \/ /\ save.step = "insert" /\ SlugIsFree(save.slug)
        /\ \E b \in Title :
             /\ books[b].state = "never"
             /\ books' = [books EXCEPT ![b] = [createColumns(save.form) EXCEPT !.slug = save.slug]]
             /\ saves' = [saves EXCEPT ![p].step = "saved", ![p].book = b]
  /\ UNCHANGED <<desks, edits>>

(* A book deleted in between has no row to write, or to link authors to.   *)
Update(p) ==
  LET save == saves[p]  b == save.book IN
  /\ \/ /\ save.step = "update"
        /\ Request(p, IF Live(b) /\ comingSoonHasNoStock(save.form) THEN "write" ELSE "refused")
        /\ UNCHANGED books
     \/ /\ save.step = "write"
        /\ IF Live(b) THEN books' = [books EXCEPT ![b] = updateColumns(books[b], save.form)] ELSE UNCHANGED books
        /\ Request(p, IF Live(b) THEN "saved" ELSE "refused")
  /\ UNCHANGED <<desks, edits>>

(* A mutant: the row goes whatever still refers to it.                     *)
MayGo_Counted(b) == TRUE

(* order_items and waitlist_allocations refer to the row.                  *)
MayGo(b) == books[b].used = "nowhere"

Remove(p) ==
  LET save == saves[p]  b == save.book IN
  /\ \/ /\ save.step = "remove"
        /\ Request(p, IF Live(b) /\ books[b].used # "ordered" THEN "delete" ELSE "refused")
        /\ UNCHANGED books
     \/ /\ save.step = "delete"
        /\ IF Live(b) /\ MayGo(b) THEN books' = [books EXCEPT ![b].state = "deleted"] ELSE UNCHANGED books
        /\ Request(p, IF Live(b) /\ ~MayGo(b) THEN "refused" ELSE "removed")
  /\ UNCHANGED <<desks, edits>>

(* The answer reaches the page: the row, read once more, fills a new form; *)
(* or a refusal, or nothing, which leave the form alone.                   *)
Answered(p) ==
  LET save == saves[p] IN
  /\ saving(p)
  /\ saves' = [saves EXCEPT ![p] = NoSave]
  /\ \/ /\ save.step = "saved" /\ Live(save.book)
        /\ Show(p, EditPage(save.book))
     \/ /\ save.step = "removed"
        /\ Show(p, [desks[p] EXCEPT !.items = desks[p].items \ {save.book}, !.target = NoTitle])
     \/ /\ save.step \in {"saved", "removed", "refused"}
        /\ UNCHANGED desks
  /\ UNCHANGED <<books, edits>>

-----------------------------------------------------------------------------
(* The list. *)
LoadList(p) ==
  /\ ~saving(p)
  /\ Show(p, [ListPage EXCEPT !.items = {b \in Title : Live(b)}])
  /\ UNCHANGED <<books, saves, edits>>

(* The dialog may be closed and opened on another book during a deletion.  *)
AskDelete(p, b) ==
  /\ desks[p].at = "list" /\ b \in desks[p].items \cup {NoTitle} /\ b # desks[p].target
  /\ Show(p, [desks[p] EXCEPT !.target = b])
  /\ UNCHANGED <<books, saves, edits>>

ConfirmDelete(p) ==
  /\ desks[p].at = "list" /\ desks[p].target # NoTitle /\ ~saving(p)
  /\ saves' = [saves EXCEPT ![p] = [NoSave EXCEPT !.step = "remove", !.book = desks[p].target]]
  /\ UNCHANGED <<books, desks, edits>>

-----------------------------------------------------------------------------
(* A customer orders the book, a release of it is opened, or the Stock     *)
(* page sends a count and nothing else.                                    *)
Elsewhere(b) ==
  /\ Live(b) /\ Once
  /\ \/ /\ books[b].availability # "coming_soon" /\ books[b].stock > 0
        /\ books' = [books EXCEPT ![b].used = "ordered", ![b].stock = books[b].stock - 1]
     \/ books[b].used = "nowhere" /\ books' = [books EXCEPT ![b].used = "released"]
     \/ \E n \in 0..MaxPrint : books' = [books EXCEPT ![b].stock = n]
  /\ UNCHANGED <<desks, saves>>

BookEditorNext ==
  \/ \E p \in Clerk :
       \/ OpenNew(p) \/ FetchCategories(p) \/ ToggleCategory(p) \/ UploadCover(p) \/ Submit(p)
       \/ Create(p) \/ Update(p) \/ Remove(p) \/ Answered(p) \/ LoadList(p) \/ ConfirmDelete(p)
       \/ \E b \in Title : OpenEdit(p, b)
       \/ \E b \in Title \cup {NoTitle} : AskDelete(p, b)
       \/ \E text \in {"none", "text"} : TypeNote(p, text)
       \/ \E n \in {Blank} \cup 0..MaxPrint : TypeStock(p, n)
       \/ \E value \in {"in_stock", "coming_soon"} : SetAvailability(p, value)
  \/ \E b \in Title : Elsewhere(b)

BookEditorSpec == BookEditorInit /\ [][BookEditorNext]_bookVars

-----------------------------------------------------------------------------
BookEditorTypeOK ==
  /\ \A b \in Title : books[b].stock \in 0..MaxPrint /\ (books[b].state = "never" <=> books[b].slug = 0)
  /\ \A p \in Clerk : desks[p].at = "edit" <=> desks[p].book # NoTitle

(* Two clerks create one title at once, each having looked for a free slug *)
(* before either row was there; and a book is deleted on a count of its    *)
(* orders that was taken before one came in.  Still a slug names one book, *)
(* and what orders or a release refer to is never deleted.                 *)
CatalogueIsSound ==
  /\ \A b, c \in Title : b # c /\ Live(b) /\ Live(c) => books[b].slug # books[c].slug
  /\ \A b \in Title : books[b].state = "deleted" => books[b].used = "nowhere"

-----------------------------------------------------------------------------
(* What is promised and the code does not keep (README, 4).                *)

(* db/schema/catalog/book.ts:28: a coming_soon row always carries zero     *)
(* stock.  The Stock page's count is judged without the availability.      *)
ComingSoonHasNoStock == \A b \in Title : books[b].availability = "coming_soon" => books[b].stock = 0

(* book-form.tsx:874: blank means 0.  On an edit it means: as it was.      *)
BlankMeansZero ==
  [][\A p \in Clerk : saves[p].step = "write" /\ saves'[p].step = "saved" /\ saves[p].form.stock = Blank =>
       books'[saves[p].book].stock = 0]_bookVars

(* edit/page.tsx: what is typed while the form is saved is thrown away     *)
(* under the word "Saved.".                                                *)
TypedIsKept ==
  [][\A p \in Clerk : saves[p].step = "saved" /\ desks[p].at = "edit" /\ desks'[p] # desks[p] =>
       desks[p].form = saves[p].form]_bookVars
=============================================================================
