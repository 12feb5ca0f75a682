----------------------------- MODULE DesksProofs -----------------------------
(***************************************************************************)
(* Theorems about the scenes of MCDesks, for every value of its constants: *)
(* any number of orders and receipts, books, clerks, testimonials,         *)
(* managers and titles.  The scenes share no variable, so each has its     *)
(* inductive invariant, and a step of one is a stutter of the others.      *)
(***************************************************************************)
EXTENDS MCDesks, Integers, FiniteSets, FiniteSetTheorems, WellFoundedInduction, TLAPS

-----------------------------------------------------------------------------
(* The book editor. *)

BookRow == [state : {"never", "live", "deleted"}, slug : Nat, stock : 0 .. MaxPrint,
            availability : {"in_stock", "coming_soon"}, note : {"none", "text"},
            used : {"nowhere", "released", "ordered"}]

BookForm == [stock : -1 .. MaxPrint, availability : {"in_stock", "coming_soon"},
             note : {"none", "text"}, cover : BOOLEAN, covered : BOOLEAN]

BookPage == [at : {"list", "new", "edit"}, book : Title \cup {NoTitle}, form : BookForm,
             categories : {"loading", "ready", "failed"}, upload : {"none", "going"},
             items : SUBSET Title, target : Title \cup {NoTitle}]

BookSave == [step : {"none", "create", "insert", "update", "write", "remove", "delete",
                     "saved", "removed", "refused"},
             form : BookForm \cup {<<>>}, book : Title \cup {NoTitle}, slug : Nat]

(* What a save still needs is in it: the form until it is written, the     *)
(* book from the moment there is one, the number of the slug it looked up. *)
SaveIsWhole(save) ==
  /\ save.step \in {"create", "insert", "update", "write"} => save.form \in BookForm
  /\ save.step \in {"update", "write", "saved"} => save.book # NoTitle
  /\ save.step = "insert" => save.slug # 0

BookTypes ==
  /\ books \in [Title -> BookRow]
  /\ desks \in [Clerk -> BookPage]
  /\ saves \in [Clerk -> BookSave]

BooksAreWhole ==
  /\ \A b \in Title : books[b].state = "never" <=> books[b].slug = 0
  /\ \A p \in Clerk : desks[p].at = "edit" <=> desks[p].book # NoTitle
  /\ \A p \in Clerk : SaveIsWhole(saves[p])

BookInv == BookTypes /\ BooksAreWhole /\ BookEditor!CatalogueIsSound

(* There is always a free number for a slug: there are more of them than   *)
(* titles.                                                                 *)
LEMMA ASlugIsFound ==
  ASSUME BookTypes, IsFiniteSet(Title)
  PROVE  BookEditor!uniqueSlug \in Nat \ {0}
<1> DEFINE N == Cardinality(Title) + 1
           S == BookEditor!Slugs
           T == {n \in 1 .. N : n \notin S}
<1>1. N \in Nat /\ N > Cardinality(Title) /\ Cardinality(Title) \in Nat
  BY FS_CardinalityType
<1>2. T # {}
  <2> SUFFICES ASSUME T = {} PROVE FALSE
    OBVIOUS
  <2>1. \A n \in 1 .. N : \E b \in Title : books[b].slug = n
    BY DEF BookEditor!Slugs
  <2> DEFINE f == [n \in 1 .. N |-> CHOOSE b \in Title : books[b].slug = n]
  <2>2. \A n \in 1 .. N : f[n] \in Title /\ books[f[n]].slug = n
    BY <2>1
  <2>3. f \in [1 .. N -> Title]
    BY <2>2
  <2>4. IsFiniteSet(1 .. N) /\ Cardinality(1 .. N) = N
    BY <1>1, FS_Interval
  <2> HIDE DEF f
  <2>5. \E x, y \in 1 .. N : x # y /\ f[x] = f[y]
    BY <1>1, <2>3, <2>4, FS_PigeonHole
  <2> QED BY <2>2, <2>5
<1>3. PICK n \in T : \A k \in T : ~(<<k, n>> \in OpToRel(<, Nat))
  <2>1. T \subseteq Nat
    OBVIOUS
  <2> HIDE DEF T
  <2> QED BY <1>2, <2>1, NatLessThanWellFounded, WFMin
<1>4. \A k \in T : ~(k < n)
  <2>1. T \subseteq Nat
    BY <1>1
  <2> HIDE DEF T
  <2> QED BY <1>3, <2>1 DEF OpToRel
<1>5. n \in 1 .. N /\ n \notin S /\ \A k \in 1 .. (n - 1) : k \in S
  BY <1>1, <1>4
<1>6. \E m \in 1 .. N : m \notin S /\ \A k \in 1 .. (m - 1) : k \in S
  BY <1>5
<1> HIDE DEF S
<1>7. BookEditor!uniqueSlug \in 1 .. N
  BY <1>6 DEF BookEditor!uniqueSlug, S, BookEditor!Cardinality, Cardinality, BookEditor!IsFiniteSet, IsFiniteSet
<1> QED BY <1>1, <1>7

LEMMA BookInit ==
  ASSUME BookEditor!BookEditorInit, NoTitle \notin Title, MaxPrint \in Nat
  PROVE  BookInv
<1> USE DEF BookEditor!BookEditorInit
<1>1. books \in [Title -> BookRow]
  <2>1. BookEditor!NoBookRow \in BookRow
    BY DEF BookRow, BookEditor!NoBookRow
  <2> DEFINE first == [BookEditor!NoBookRow EXCEPT !.state = "live", !.slug = 1, !.stock = MaxPrint]
  <2>2. first \in BookRow
    <3> DEFINE live == [BookEditor!NoBookRow EXCEPT !.state = "live"]
               named == [live EXCEPT !.slug = 1]
    <3>1. live \in BookRow
      BY <2>1 DEF BookRow
    <3> HIDE DEF live
    <3>2. named \in BookRow
      BY <3>1 DEF BookRow
    <3> HIDE DEF named
    <3>3. [named EXCEPT !.stock = MaxPrint] \in BookRow
      BY <3>2 DEF BookRow
    <3> QED BY <3>3 DEF live, named
  <2>3. PICK old \in Title \cup {NoTitle} :
          books = [b \in Title |-> IF b = old THEN first ELSE BookEditor!NoBookRow]
    OBVIOUS
  <2> HIDE DEF first
  <2> QED BY <2>1, <2>2, <2>3
<1>2. BookEditor!emptyForm \in BookForm
  BY DEF BookForm, BookEditor!emptyForm
<1>3. desks \in [Clerk -> BookPage]
  BY <1>2 DEF BookPage, BookEditor!ListPage
<1>4. saves \in [Clerk -> BookSave]
  BY DEF BookSave, BookEditor!NoSave
<1>5. BooksAreWhole
  BY DEF BooksAreWhole, SaveIsWhole, BookEditor!NoBookRow, BookEditor!ListPage, BookEditor!NoSave
<1>6. BookEditor!CatalogueIsSound
  BY DEF BookEditor!CatalogueIsSound, BookEditor!Live, BookEditor!NoBookRow
<1> QED BY <1>1, <1>3, <1>4, <1>5, <1>6 DEF BookInv, BookTypes

(* A page that goes on is whole, and the rows are as they were.            *)
PageIsWhole(pg) == pg \in BookPage /\ (pg.at = "edit" <=> pg.book # NoTitle)

LEMMA PageSteps ==
  ASSUME BookInv, NEW p \in Clerk, NEW pg, PageIsWhole(pg),
         desks' = [desks EXCEPT ![p] = pg], UNCHANGED <<books, saves>>
  PROVE  BookInv'
<1>1. BookTypes'
  BY DEF BookInv, BookTypes, PageIsWhole
<1>2. BooksAreWhole'
  BY DEF BookInv, BookTypes, BooksAreWhole, PageIsWhole, SaveIsWhole
<1>3. BookEditor!CatalogueIsSound'
  BY DEF BookInv, BookEditor!CatalogueIsSound, BookEditor!Live
<1> QED BY <1>1, <1>2, <1>3 DEF BookInv

(* So is a save, while the rows stay.                                      *)
LEMMA SaveSteps ==
  ASSUME BookInv, NEW p \in Clerk, NEW save \in BookSave, SaveIsWhole(save),
         saves' = [saves EXCEPT ![p] = save], UNCHANGED <<books, desks>>
  PROVE  BookInv'
<1>1. BookTypes'
  BY DEF BookInv, BookTypes
<1>2. BooksAreWhole'
  BY DEF BookInv, BookTypes, BooksAreWhole, SaveIsWhole
<1>3. BookEditor!CatalogueIsSound'
  BY DEF BookInv, BookEditor!CatalogueIsSound, BookEditor!Live
<1> QED BY <1>1, <1>2, <1>3 DEF BookInv

(* A row is written: as it was but for its figures, or gone unused, or for *)
(* the first time under a slug no live row has.                            *)
RowIsSound(b, new) ==
  /\ new \in BookRow
  /\ new.state = "never" <=> new.slug = 0
  /\ new.state = "deleted" => new.used = "nowhere"
  /\ new.state = "live" => \A c \in Title \ {b} : BookEditor!Live(c) => books[c].slug # new.slug

LEMMA RowSteps ==
  ASSUME BookInv, NEW b \in Title, NEW new, RowIsSound(b, new), NEW p \in Clerk,
         NEW save \in BookSave, SaveIsWhole(save),
         books' = [books EXCEPT ![b] = new],
         UNCHANGED saves \/ saves' = [saves EXCEPT ![p] = save], UNCHANGED desks
  PROVE  BookInv'
<1>1. BookTypes'
  BY DEF BookInv, BookTypes, RowIsSound
<1>2. BooksAreWhole'
  BY DEF BookInv, BookTypes, BooksAreWhole, RowIsSound, SaveIsWhole
<1>3. BookEditor!CatalogueIsSound'
  BY DEF BookInv, BookTypes, RowIsSound, BookEditor!CatalogueIsSound, BookEditor!Live
<1> QED BY <1>1, <1>2, <1>3 DEF BookInv

(* A page on which nothing was ever typed, and the page of a book.         *)
LEMMA Pages ==
  ASSUME BookInv, NoTitle \notin Title, MaxPrint \in Nat
  PROVE  /\ BookEditor!emptyForm \in BookForm
         /\ PageIsWhole(BookEditor!ListPage)
         /\ \A b \in Title : PageIsWhole(BookEditor!EditPage(b))
<1>1. BookEditor!emptyForm \in BookForm
  BY DEF BookForm, BookEditor!emptyForm
<1>2. PageIsWhole(BookEditor!ListPage)
  BY <1>1 DEF PageIsWhole, BookPage, BookEditor!ListPage
<1>3. ASSUME NEW b \in Title PROVE PageIsWhole(BookEditor!EditPage(b))
  <2>1. BookEditor!fromDetail(books[b]) \in BookForm
    BY DEF BookInv, BookTypes, BookRow, BookForm, BookEditor!fromDetail
  <2> QED BY <1>2, <2>1 DEF PageIsWhole, BookPage, BookEditor!EditPage, BookEditor!ListPage
<1> QED BY <1>1, <1>2, <1>3

LEMMA FormActions ==
  ASSUME BookInv, NoTitle \notin Title, MaxPrint \in Nat, NEW p \in Clerk,
         \/ BookEditor!OpenNew(p) \/ BookEditor!FetchCategories(p)
         \/ BookEditor!ToggleCategory(p) \/ BookEditor!UploadCover(p) \/ BookEditor!LoadList(p)
         \/ \E b \in Title : BookEditor!OpenEdit(p, b)
         \/ \E b \in Title \cup {NoTitle} : BookEditor!AskDelete(p, b)
         \/ \E text \in {"none", "text"} : BookEditor!TypeNote(p, text)
         \/ \E n \in {BookEditor!Blank} \cup 0 .. MaxPrint : BookEditor!TypeStock(p, n)
         \/ \E value \in {"in_stock", "coming_soon"} : BookEditor!SetAvailability(p, value)
  PROVE  BookInv'
<1> DEFINE pg == desks[p]
<1>0. PageIsWhole(pg) /\ pg \in BookPage /\ pg.form \in BookForm
  BY DEF BookInv, BookTypes, BooksAreWhole, PageIsWhole, BookPage
<1> SUFFICES \E new : PageIsWhole(new) /\ desks' = [desks EXCEPT ![p] = new] /\ UNCHANGED <<books, saves>>
  BY PageSteps
<1> USE DEF BookEditor!Show
<1>1. CASE BookEditor!OpenNew(p)
  <2>1. PageIsWhole([BookEditor!ListPage EXCEPT !.at = "new"])
    BY Pages DEF PageIsWhole, BookPage, BookEditor!ListPage
  <2> QED BY <1>1, <2>1 DEF BookEditor!OpenNew
<1>2. CASE BookEditor!FetchCategories(p)
  <2>1. \A came \in {"ready", "failed"} : PageIsWhole([pg EXCEPT !.categories = came])
    BY <1>0 DEF PageIsWhole, BookPage
  <2> QED BY <1>2, <2>1 DEF BookEditor!FetchCategories
<1>3. CASE BookEditor!ToggleCategory(p)
  <2>1. PageIsWhole([pg EXCEPT !.form.covered = TRUE])
    BY <1>0 DEF PageIsWhole, BookPage, BookForm
  <2> QED BY <1>3, <2>1 DEF BookEditor!ToggleCategory
<1>4. CASE BookEditor!UploadCover(p)
  <2>1. /\ PageIsWhole([pg EXCEPT !.upload = "going"])
        /\ PageIsWhole([pg EXCEPT !.upload = "none"])
        /\ PageIsWhole([pg EXCEPT !.upload = "none", !.form.cover = TRUE])
    BY <1>0 DEF PageIsWhole, BookPage, BookForm
  <2> QED BY <1>4, <2>1 DEF BookEditor!UploadCover
<1>5. CASE BookEditor!LoadList(p)
  <2>1. PageIsWhole([BookEditor!ListPage EXCEPT !.items = {b \in Title : BookEditor!Live(b)}])
    BY Pages DEF PageIsWhole, BookPage, BookEditor!ListPage
  <2> QED BY <1>5, <2>1 DEF BookEditor!LoadList
<1>6. CASE \E b \in Title : BookEditor!OpenEdit(p, b)
  BY <1>6, Pages DEF BookEditor!OpenEdit
<1>7. CASE \E b \in Title \cup {NoTitle} : BookEditor!AskDelete(p, b)
  <2>1. \A b \in Title \cup {NoTitle} : PageIsWhole([pg EXCEPT !.target = b])
    BY <1>0 DEF PageIsWhole, BookPage
  <2> QED BY <1>7, <2>1 DEF BookEditor!AskDelete
<1> DEFINE Filled(f) == [pg EXCEPT !.form = f]
<1>8. \A f \in BookForm : PageIsWhole(Filled(f))
  BY <1>0 DEF PageIsWhole, BookPage
<1>9. ASSUME NEW f \in BookForm, BookEditor!SetField(p, f)
      PROVE  \E new : PageIsWhole(new) /\ desks' = [desks EXCEPT ![p] = new] /\ UNCHANGED <<books, saves>>
  BY <1>8, <1>9 DEF BookEditor!SetField
<1>10. CASE \E text \in {"none", "text"} : BookEditor!TypeNote(p, text)
  <2>1. \A text \in {"none", "text"} : [pg.form EXCEPT !.note = text] \in BookForm
    BY <1>0 DEF BookForm
  <2> QED BY <1>9, <1>10, <2>1 DEF BookEditor!TypeNote
<1>11. CASE \E n \in {BookEditor!Blank} \cup 0 .. MaxPrint : BookEditor!TypeStock(p, n)
  <2>1. \A n \in {BookEditor!Blank} \cup 0 .. MaxPrint : [pg.form EXCEPT !.stock = n] \in BookForm
    BY <1>0 DEF BookForm, BookEditor!Blank
  <2> QED BY <1>9, <1>11, <2>1 DEF BookEditor!TypeStock
<1>12. CASE \E value \in {"in_stock", "coming_soon"} : BookEditor!SetAvailability(p, value)
  <2>1. ASSUME NEW value \in {"in_stock", "coming_soon"}
        PROVE  [pg.form EXCEPT !.availability = value,
                               !.stock = IF value = "coming_soon" THEN 0 ELSE pg.form.stock] \in BookForm
    <3> DEFINE n == IF value = "coming_soon" THEN 0 ELSE pg.form.stock
    <3>1. n \in -1 .. MaxPrint
      BY <1>0 DEF BookForm
    <3> HIDE DEF n
    <3>2. [pg.form EXCEPT !.availability = value, !.stock = n] \in BookForm
      BY <1>0, <3>1 DEF BookForm
    <3> QED BY <3>2 DEF n
  <2> QED BY <1>9, <1>12, <2>1 DEF BookEditor!SetAvailability
<1> QED BY <1>1, <1>2, <1>3, <1>4, <1>5, <1>6, <1>7, <1>10, <1>11, <1>12

(* What a save has become, while it waits for its next step.               *)
LEMMA Saves ==
  ASSUME BookInv, NEW p \in Clerk
  PROVE  /\ saves[p] \in BookSave /\ SaveIsWhole(saves[p])
         /\ \A step \in {"refused", "removed", "remove", "delete"} :
              LET save == [saves[p] EXCEPT !.step = step] IN save \in BookSave /\ SaveIsWhole(save)
         /\ BookEditor!NoSave \in BookSave /\ SaveIsWhole(BookEditor!NoSave)
<1>1. saves[p] \in BookSave /\ SaveIsWhole(saves[p])
  BY DEF BookInv, BookTypes, BooksAreWhole
<1>2. ASSUME NEW step \in {"refused", "removed", "remove", "delete"}
      PROVE  LET save == [saves[p] EXCEPT !.step = step] IN save \in BookSave /\ SaveIsWhole(save)
  BY <1>1 DEF BookSave, SaveIsWhole
<1>3. BookEditor!NoSave \in BookSave /\ SaveIsWhole(BookEditor!NoSave)
  BY DEF BookSave, SaveIsWhole, BookEditor!NoSave
<1> QED BY <1>1, <1>2, <1>3

LEMMA SubmitActions ==
  ASSUME BookInv, NoTitle \notin Title, MaxPrint \in Nat, NEW p \in Clerk,
         BookEditor!Submit(p) \/ BookEditor!ConfirmDelete(p)
  PROVE  BookInv'
<1>0. desks[p] \in BookPage /\ (desks[p].at = "edit" <=> desks[p].book # NoTitle)
  BY DEF BookInv, BookTypes, BooksAreWhole
<1>1. CASE BookEditor!Submit(p)
  <2> DEFINE save == [BookEditor!NoSave EXCEPT !.step = IF desks[p].at = "new" THEN "create" ELSE "update",
                                               !.form = desks[p].form, !.book = desks[p].book]
  <2>1. save \in BookSave
    BY <1>0 DEF BookSave, BookPage, BookEditor!NoSave
  <2>2. SaveIsWhole(save)
    BY <1>0, <1>1 DEF SaveIsWhole, BookPage, BookEditor!NoSave, BookEditor!Submit
  <2>3. saves' = [saves EXCEPT ![p] = save] /\ UNCHANGED <<books, desks>>
    BY <1>1 DEF BookEditor!Submit
  <2> HIDE DEF save
  <2> QED BY <2>1, <2>2, <2>3, SaveSteps
<1>2. CASE BookEditor!ConfirmDelete(p)
  <2> DEFINE save == [BookEditor!NoSave EXCEPT !.step = "remove", !.book = desks[p].target]
  <2>1. save \in BookSave /\ SaveIsWhole(save)
    BY <1>0 DEF BookSave, BookPage, SaveIsWhole, BookEditor!NoSave
  <2>2. saves' = [saves EXCEPT ![p] = save] /\ UNCHANGED <<books, desks>>
    BY <1>2 DEF BookEditor!ConfirmDelete
  <2> HIDE DEF save
  <2> QED BY <2>1, <2>2, SaveSteps
<1> QED BY <1>1, <1>2

LEMMA CreateAction ==
  ASSUME BookInv, NoTitle \notin Title, MaxPrint \in Nat, IsFiniteSet(Title),
         NEW p \in Clerk, BookEditor!Create(p)
  PROVE  BookInv'
<1> DEFINE s == saves[p]
<1>0. s \in BookSave /\ SaveIsWhole(s)
  BY Saves
<1>1. CASE s.step = "create"
  <2> DEFINE step == IF BookEditor!comingSoonHasNoStock(s.form) THEN "insert" ELSE "refused"
             save == [s EXCEPT !.step = step, !.slug = BookEditor!uniqueSlug]
  <2>1. BookEditor!uniqueSlug \in Nat \ {0}
    BY ASlugIsFound DEF BookInv
  <2>2. save \in BookSave /\ SaveIsWhole(save)
    BY <1>0, <1>1, <2>1 DEF BookSave, SaveIsWhole
  <2>3. saves' = [saves EXCEPT ![p] = save] /\ UNCHANGED <<books, desks>>
    BY <1>1 DEF BookEditor!Create, BookInv, BookTypes
  <2> HIDE DEF save
  <2> QED BY <2>2, <2>3, SaveSteps
<1>2. CASE s.step = "insert" /\ ~BookEditor!SlugIsFree(s.slug)
  <2>1. saves' = [saves EXCEPT ![p] = [s EXCEPT !.step = "refused"]] /\ UNCHANGED <<books, desks>>
    BY <1>2 DEF BookEditor!Create, BookEditor!Request, BookInv, BookTypes
  <2> QED BY <2>1, Saves, SaveSteps
<1>3. CASE s.step = "insert" /\ BookEditor!SlugIsFree(s.slug)
  <2>1. PICK b \in Title :
          /\ books' = [books EXCEPT ![b] = [BookEditor!createColumns(s.form) EXCEPT !.slug = s.slug]]
          /\ saves' = [saves EXCEPT ![p] = [s EXCEPT !.step = "saved", !.book = b]]
          /\ UNCHANGED desks
    BY <1>3 DEF BookEditor!Create, BookInv, BookTypes
  <2> DEFINE new == [BookEditor!createColumns(s.form) EXCEPT !.slug = s.slug]
             save == [s EXCEPT !.step = "saved", !.book = b]
  <2>2. s.form \in BookForm /\ s.slug \in Nat /\ s.slug # 0
    BY <1>0, <1>3 DEF SaveIsWhole, BookSave
  <2>3. new \in BookRow /\ new.state = "live" /\ new.slug = s.slug
    BY <2>2 DEF BookRow, BookForm, BookEditor!createColumns, BookEditor!Blank
  <2>4. RowIsSound(b, new)
    BY <1>3, <2>2, <2>3 DEF RowIsSound, BookEditor!SlugIsFree, BookEditor!Slugs
  <2>5. save \in BookSave /\ SaveIsWhole(save)
    BY <1>0 DEF BookSave, SaveIsWhole
  <2> HIDE DEF new, save
  <2>6. books' = [books EXCEPT ![b] = new] /\ saves' = [saves EXCEPT ![p] = save]
    BY <2>1 DEF new, save
  <2>7. UNCHANGED desks
    BY <2>1
  <2> QED BY <2>4, <2>5, <2>6, <2>7, RowSteps
<1> QED BY <1>1, <1>2, <1>3 DEF BookEditor!Create

LEMMA UpdateAction ==
  ASSUME BookInv, NoTitle \notin Title, MaxPrint \in Nat, NEW p \in Clerk, BookEditor!Update(p)
  PROVE  BookInv'
<1> DEFINE s == saves[p]
           b == s.book
<1>0. s \in BookSave /\ SaveIsWhole(s)
  BY Saves
<1>1. CASE s.step = "update"
  <2>1. PICK step \in {"write", "refused"} :
          saves' = [saves EXCEPT ![p] = [s EXCEPT !.step = step]] /\ UNCHANGED <<books, desks>>
    BY <1>1 DEF BookEditor!Update, BookEditor!Request, BookInv, BookTypes
  <2>2. [s EXCEPT !.step = step] \in BookSave /\ SaveIsWhole([s EXCEPT !.step = step])
    BY <1>0, <1>1 DEF BookSave, SaveIsWhole
  <2> QED BY <2>1, <2>2, SaveSteps
<1>2. CASE s.step = "write" /\ ~BookEditor!Live(b)
  <2>1. saves' = [saves EXCEPT ![p] = [s EXCEPT !.step = "refused"]] /\ UNCHANGED <<books, desks>>
    BY <1>2 DEF BookEditor!Update, BookEditor!Request, BookInv, BookTypes
  <2> QED BY <2>1, Saves, SaveSteps
<1>3. CASE s.step = "write" /\ BookEditor!Live(b)
  <2> DEFINE new == BookEditor!updateColumns(books[b], s.form)
             save == [s EXCEPT !.step = "saved"]
  <2>1. b \in Title /\ s.form \in BookForm
    BY <1>0, <1>3 DEF SaveIsWhole, BookSave
  <2>2. books[b] \in BookRow
    BY <2>1 DEF BookInv, BookTypes
  <2>3. /\ new \in BookRow /\ new.slug = books[b].slug
        /\ new.state = books[b].state /\ new.used = books[b].used
    <3> DEFINE n == CASE s.form.stock # BookEditor!Blank -> s.form.stock
                      [] s.form.stock = BookEditor!Blank /\ s.form.availability = "coming_soon" -> 0
                      [] OTHER -> books[b].stock
               text == IF s.form.note = "none" THEN books[b].note ELSE s.form.note
    <3>1. n \in 0 .. MaxPrint
      BY <2>1, <2>2 DEF BookRow, BookForm, BookEditor!Blank
    <3>2. text \in {"none", "text"}
      BY <2>1, <2>2 DEF BookRow, BookForm
    <3>3. new = [books[b] EXCEPT !.stock = n, !.availability = s.form.availability, !.note = text]
      BY DEF BookEditor!updateColumns
    <3> HIDE DEF n, text, new
    <3> QED BY <2>1, <2>2, <3>1, <3>2, <3>3 DEF BookRow, BookForm
  <2>4. RowIsSound(b, new)
    <3> HIDE DEF new
    <3> QED BY <1>3, <2>1, <2>3
            DEF RowIsSound, BookInv, BooksAreWhole, BookEditor!CatalogueIsSound, BookEditor!Live
  <2>5. save \in BookSave /\ SaveIsWhole(save)
    BY <1>0, <1>3 DEF BookSave, SaveIsWhole
  <2>6. /\ books' = [books EXCEPT ![b] = new] /\ saves' = [saves EXCEPT ![p] = save]
        /\ UNCHANGED desks
    BY <1>3 DEF BookEditor!Update, BookEditor!Request, BookInv, BookTypes
  <2> HIDE DEF new, save
  <2> QED BY <2>1, <2>4, <2>5, <2>6, RowSteps
<1> QED BY <1>1, <1>2, <1>3 DEF BookEditor!Update

LEMMA RemoveAction ==
  ASSUME BookInv, NoTitle \notin Title, MaxPrint \in Nat, NEW p \in Clerk, BookEditor!Remove(p)
  PROVE  BookInv'
<1> DEFINE s == saves[p]
           b == s.book
<1>0. s \in BookSave /\ SaveIsWhole(s)
  BY Saves
<1>1. ASSUME UNCHANGED <<books, desks>> PROVE BookInv'
  <2>1. PICK step \in {"delete", "refused", "removed"} : saves' = [saves EXCEPT ![p] = [s EXCEPT !.step = step]]
    BY DEF BookEditor!Remove, BookEditor!Request, BookInv, BookTypes
  <2> QED BY <1>1, <2>1, Saves, SaveSteps
<1>2. CASE s.step = "delete" /\ BookEditor!Live(b) /\ BookEditor!MayGo(b) /\ b \in Title
  <2> DEFINE new == [books[b] EXCEPT !.state = "deleted"]
             save == [s EXCEPT !.step = "removed"]
  <2>1. books[b] \in BookRow /\ (books[b].state = "never" <=> books[b].slug = 0)
    BY <1>2 DEF BookInv, BookTypes, BooksAreWhole
  <2>2. RowIsSound(b, new)
    BY <1>2, <2>1 DEF RowIsSound, BookRow, BookEditor!Live, BookEditor!MayGo
  <2>3. save \in BookSave /\ SaveIsWhole(save)
    BY Saves
  <2>4. /\ books' = [books EXCEPT ![b] = new] /\ saves' = [saves EXCEPT ![p] = save]
        /\ UNCHANGED desks
    BY <1>2, <2>1 DEF BookEditor!Remove, BookEditor!Request, BookInv, BookTypes
  <2> HIDE DEF new, save
  <2> QED BY <1>2, <2>2, <2>3, <2>4, RowSteps
<1>3. CASE b \notin Title
  <2>1. UNCHANGED <<books, desks>>
    BY <1>3 DEF BookEditor!Remove, BookInv, BookTypes
  <2> QED BY <1>1, <2>1
<1>4. CASE ~(s.step = "delete" /\ BookEditor!Live(b) /\ BookEditor!MayGo(b))
  <2>1. UNCHANGED <<books, desks>>
    BY <1>4 DEF BookEditor!Remove
  <2> QED BY <1>1, <2>1
<1> QED BY <1>2, <1>3, <1>4

LEMMA AnsweredAction ==
  ASSUME BookInv, NoTitle \notin Title, MaxPrint \in Nat, NEW p \in Clerk, BookEditor!Answered(p)
  PROVE  BookInv'
<1> DEFINE s == saves[p]
           pg == desks[p]
<1>1. \/ UNCHANGED desks
      \/ \E new : PageIsWhole(new) /\ desks' = [desks EXCEPT ![p] = new]
  <2>0. PageIsWhole(pg) /\ pg \in BookPage
    BY DEF BookInv, BookTypes, BooksAreWhole, PageIsWhole
  <2>1. s.step = "saved" => s.book \in Title
    BY Saves DEF SaveIsWhole, BookSave
  <2>2. PageIsWhole([pg EXCEPT !.items = pg.items \ {s.book}, !.target = NoTitle])
    BY <2>0 DEF PageIsWhole, BookPage
  <2> QED BY <2>1, <2>2, Pages DEF BookEditor!Answered, BookEditor!Show
<1>2. saves' = [saves EXCEPT ![p] = BookEditor!NoSave] /\ UNCHANGED books
  BY DEF BookEditor!Answered
<1>3. BookTypes'
  BY <1>1, <1>2, Saves DEF BookInv, BookTypes, PageIsWhole
<1>4. BooksAreWhole'
  <2>1. \A q \in Clerk : SaveIsWhole(saves'[q])
    BY <1>2, Saves DEF BookInv, BookTypes
  <2>2. \A q \in Clerk : desks'[q].at = "edit" <=> desks'[q].book # NoTitle
    BY <1>1 DEF BookInv, BookTypes, BooksAreWhole, PageIsWhole
  <2> QED BY <1>2, <2>1, <2>2 DEF BookInv, BooksAreWhole, SaveIsWhole
<1>5. BookEditor!CatalogueIsSound'
  BY <1>2 DEF BookInv, BookEditor!CatalogueIsSound, BookEditor!Live
<1> QED BY <1>3, <1>4, <1>5 DEF BookInv

LEMMA ElsewhereAction ==
  ASSUME BookInv, NoTitle \notin Title, MaxPrint \in Nat, NEW b \in Title, BookEditor!Elsewhere(b)
  PROVE  BookInv'
<1>0. books[b] \in BookRow /\ (books[b].state = "never" <=> books[b].slug = 0)
  BY DEF BookInv, BookTypes, BooksAreWhole
<1>1. PICK n \in 0 .. MaxPrint, used \in {"nowhere", "released", "ordered"} :
        books' = [books EXCEPT ![b] = [books[b] EXCEPT !.stock = n, !.used = used]]
  <2>1. CASE books' = [books EXCEPT ![b].used = "ordered", ![b].stock = books[b].stock - 1] /\ books[b].stock > 0
    <3>1. books[b].stock - 1 \in 0 .. MaxPrint
      BY <1>0, <2>1 DEF BookRow
    <3>2. books' = [books EXCEPT ![b] = [books[b] EXCEPT !.stock = books[b].stock - 1, !.used = "ordered"]]
      BY <1>0, <2>1 DEF BookInv, BookTypes, BookRow
    <3> QED BY <3>1, <3>2
  <2>2. CASE books' = [books EXCEPT ![b].used = "released"]
    <3>1. books' = [books EXCEPT ![b] = [books[b] EXCEPT !.stock = books[b].stock, !.used = "released"]]
      BY <1>0, <2>2 DEF BookInv, BookTypes, BookRow
    <3> QED BY <1>0, <3>1 DEF BookRow
  <2>3. CASE \E n \in 0 .. MaxPrint : books' = [books EXCEPT ![b].stock = n]
    <3>1. PICK n \in 0 .. MaxPrint : books' = [books EXCEPT ![b].stock = n]
      BY <2>3
    <3>2. books' = [books EXCEPT ![b] = [books[b] EXCEPT !.stock = n, !.used = books[b].used]]
      BY <1>0, <3>1 DEF BookInv, BookTypes, BookRow
    <3> QED BY <1>0, <3>2 DEF BookRow
  <2> QED BY <2>1, <2>2, <2>3 DEF BookEditor!Elsewhere
<1> DEFINE new == [books[b] EXCEPT !.stock = n, !.used = used]
<1>2. new \in BookRow /\ new.state = books[b].state /\ new.slug = books[b].slug
  BY <1>0 DEF BookRow
<1>3. BookEditor!Live(b) /\ UNCHANGED <<desks, saves>>
  BY DEF BookEditor!Elsewhere
<1> HIDE DEF new
<1>4. RowIsSound(b, new)
  BY <1>0, <1>2, <1>3 DEF RowIsSound, BookInv, BookEditor!CatalogueIsSound, BookEditor!Live
<1>5. books' = [books EXCEPT ![b] = new]
  BY <1>1 DEF new
<1>6. BookTypes'
  BY <1>3, <1>5, <1>2 DEF BookInv, BookTypes
<1>7. BooksAreWhole'
  BY <1>3, <1>4, <1>5 DEF BookInv, BookTypes, BooksAreWhole, RowIsSound, SaveIsWhole
<1>8. BookEditor!CatalogueIsSound'
  BY <1>4, <1>5 DEF BookInv, BookTypes, RowIsSound, BookEditor!CatalogueIsSound, BookEditor!Live
<1> QED BY <1>6, <1>7, <1>8 DEF BookInv

LEMMA BookSteps ==
  ASSUME BookInv, NoTitle \notin Title, MaxPrint \in Nat, IsFiniteSet(Title),
         BookEditor!BookEditorNext
  PROVE  BookInv'
BY FormActions, SubmitActions, CreateAction, UpdateAction, RemoveAction, AnsweredAction, ElsewhereAction
   DEF BookEditor!BookEditorNext

-----------------------------------------------------------------------------
(* Receipts. *)

ReceiptRow == [status : Receipts!OrderStatus \cup {"ABSENT"}, receipt : Receipt \cup {NoReceipt},
               paid : BOOLEAN, by : {"auto", "desk", "nobody"}, rejected : BOOLEAN, withdrawn : Nat]
CheckStep == {"none", "claim", "ask", "MATCHED", "UNMATCHED", "pay", "move"}

ReceiptTypes ==
  /\ rows \in [Order -> ReceiptRow]
  /\ gateway \in [Receipt -> {"none", "short", "full"}]
  /\ check \in [Order -> [{"auto", "desk"} -> CheckStep]]
  /\ log \subseteq Order

PlacedHaveReceipts ==
  \A o \in Order :
    /\ Receipts!Placed(o) <=> rows[o].receipt \in Receipt
    /\ ~Receipts!Placed(o) => check[o] = [c \in {"auto", "desk"} |-> "none"]

(* From the wallets' answer on, the automatic check holds one that was, and *)
(* so is, the whole price: receipts on orders and wallet records only come. *)
TheCheckKnows ==
  \A o \in Order : check[o]["auto"] \in {"MATCHED", "pay", "move"} => gateway[rows[o].receipt] = "full"

ReceiptInv == ReceiptTypes /\ PlacedHaveReceipts /\ TheCheckKnows /\ Receipts!OnePaidOrderPerReceipt

(* What the table says of the steps that matter here.                      *)
LEMMA ReceiptTransitions ==
  ASSUME NEW from \in Receipts!OrderStatus, NEW to, Receipts!canTransition(from, to)
  PROVE  /\ to \in Receipts!OrderStatus
         /\ from \notin {"CANCELLED", "REFUNDED"}
         /\ to = "PAYMENT_CONFIRMED" => from = "PENDING"
BY DEF Receipts!canTransition, Receipts!ORDER_STATUS_TRANSITIONS, Receipts!OrderStatus

LEMMA ReceiptsBegin ==
  ASSUME Receipts!ReceiptsInit, NoReceipt \notin Receipt
  PROVE  ReceiptInv
<1> USE DEF Receipts!ReceiptsInit, Receipts!NoRow, Receipts!Checker
<1>1. ReceiptTypes
  BY DEF ReceiptTypes, ReceiptRow, CheckStep
<1>2. PlacedHaveReceipts /\ TheCheckKnows /\ Receipts!OnePaidOrderPerReceipt
  BY DEF PlacedHaveReceipts, TheCheckKnows, Receipts!OnePaidOrderPerReceipt, Receipts!Placed
<1> QED BY <1>1, <1>2 DEF ReceiptInv

(* A check goes one step further, and nothing else happens.                *)
LEMMA CheckGoesOn ==
  ASSUME ReceiptInv, NEW o \in Order, NEW c \in {"auto", "desk"}, NEW pc \in CheckStep,
         check' = [check EXCEPT ![o][c] = pc], UNCHANGED <<rows, gateway>>, log' \subseteq Order,
         Receipts!Placed(o),
         c = "auto" /\ pc \in {"MATCHED", "pay", "move"} => gateway[rows[o].receipt] = "full"
  PROVE  ReceiptInv'
<1>1. ReceiptTypes'
  BY DEF ReceiptInv, ReceiptTypes
<1>2. PlacedHaveReceipts'
  BY DEF ReceiptInv, ReceiptTypes, PlacedHaveReceipts, Receipts!Placed
<1>3. TheCheckKnows'
  BY DEF ReceiptInv, ReceiptTypes, TheCheckKnows
<1>4. Receipts!OnePaidOrderPerReceipt'
  BY DEF ReceiptInv, Receipts!OnePaidOrderPerReceipt, Receipts!Placed
<1> QED BY <1>1, <1>2, <1>3, <1>4 DEF ReceiptInv

LEMMA CheckActions ==
  ASSUME ReceiptInv, NEW o \in Order, NEW c \in {"auto", "desk"}, NEW override \in BOOLEAN,
         \/ Receipts!ReadClaim(o) \/ Receipts!VerifyPayment(o) \/ Receipts!Ask(o, c)
         \/ Receipts!Record(o, c) \/ Receipts!ConfirmPayment(o, override)
  PROVE  ReceiptInv'
<1>1. \A d \in {"auto", "desk"} : check[o][d] # "none" => Receipts!Placed(o)
  BY DEF ReceiptInv, PlacedHaveReceipts
<1>2. check[o]["auto"] \in {"MATCHED", "pay", "move"} => gateway[rows[o].receipt] = "full"
  BY DEF ReceiptInv, TheCheckKnows
<1>3. log \subseteq Order
  BY DEF ReceiptInv, ReceiptTypes
<1> USE DEF Receipts!Now, CheckStep
<1>4. CASE Receipts!ReadClaim(o)
  <2>1. PICK pc \in {"ask", "none"} : check' = [check EXCEPT ![o]["auto"] = pc]
    BY <1>4 DEF Receipts!ReadClaim
  <2> QED BY <1>1, <1>3, <1>4, <2>1, CheckGoesOn DEF Receipts!ReadClaim
<1>5. CASE Receipts!VerifyPayment(o)
  BY <1>3, <1>5, CheckGoesOn DEF Receipts!VerifyPayment
<1>6. CASE Receipts!Ask(o, c)
  <2>1. PICK pc \in {"MATCHED", "UNMATCHED"} :
          check' = [check EXCEPT ![o][c] = pc] /\ (pc = "MATCHED" => gateway[rows[o].receipt] = "full")
    BY <1>6 DEF Receipts!Ask, Receipts!Verdict
  <2> QED BY <1>1, <1>3, <1>6, <2>1, CheckGoesOn DEF Receipts!Ask
<1>7. CASE Receipts!Record(o, c)
  <2>1. PICK pc \in {"pay", "none"} :
          check' = [check EXCEPT ![o][c] = pc] /\ (pc = "pay" => c = "auto" /\ check[o][c] = "MATCHED")
    BY <1>7 DEF Receipts!Record
  <2>2. log' \subseteq Order /\ check[o][c] # "none" /\ UNCHANGED <<rows, gateway>>
    BY <1>3, <1>7 DEF Receipts!Record, Receipts!Outcome
  <2> QED BY <1>1, <1>2, <2>1, <2>2, CheckGoesOn
<1>8. CASE Receipts!ConfirmPayment(o, override)
  BY <1>3, <1>8, CheckGoesOn DEF Receipts!ConfirmPayment
<1> QED BY <1>4, <1>5, <1>6, <1>7, <1>8

(* An order changes: it keeps its receipt, unless it is placed, and if it   *)
(* is live again the receipt is free of live orders.                        *)
OrderMayBecome(o, new) ==
  /\ new \in ReceiptRow /\ new.receipt \in Receipt /\ new.status # "ABSENT"
  /\ Receipts!Placed(o) => new.receipt = rows[o].receipt
  /\ \/ new.status \in {"CANCELLED", "REFUNDED"}
     \/ Receipts!Placed(o) /\ rows[o].status \notin {"CANCELLED", "REFUNDED"}
     \/ Receipts!Claims(new.receipt, o) = {}

LEMMA OrderChanges ==
  ASSUME ReceiptInv, NEW o \in Order, NEW new, OrderMayBecome(o, new),
         rows' = [rows EXCEPT ![o] = new], UNCHANGED gateway, log' \subseteq Order,
         \/ UNCHANGED check
         \/ \E c \in {"auto", "desk"}, pc \in CheckStep :
              /\ check' = [check EXCEPT ![o][c] = pc]
              /\ pc \in {"MATCHED", "pay", "move"} => Receipts!Placed(o) /\ check[o][c] = "pay"
  PROVE  ReceiptInv'
<1>1. ReceiptTypes'
  BY DEF ReceiptInv, ReceiptTypes, OrderMayBecome
<1>2. PlacedHaveReceipts'
  BY DEF ReceiptInv, ReceiptTypes, PlacedHaveReceipts, OrderMayBecome, Receipts!Placed
<1>3. TheCheckKnows'
  <2>1. \A i \in Order : check'[i]["auto"] \in {"MATCHED", "pay", "move"} =>
          check[i]["auto"] \in {"MATCHED", "pay", "move"} /\ (i = o => Receipts!Placed(o))
    BY DEF ReceiptInv, ReceiptTypes, PlacedHaveReceipts
  <2>2. \A i \in Order : (i = o => Receipts!Placed(o)) => rows'[i].receipt = rows[i].receipt
    BY DEF ReceiptInv, ReceiptTypes, OrderMayBecome
  <2> QED BY <2>1, <2>2 DEF ReceiptInv, TheCheckKnows
<1>4. Receipts!OnePaidOrderPerReceipt'
  <2>1. ASSUME NEW i \in Order, i # o, rows[i].receipt = new.receipt, Receipts!Placed(i)
        PROVE  new.status \in {"CANCELLED", "REFUNDED"} \/ rows[i].status \in {"CANCELLED", "REFUNDED"}
    BY <2>1 DEF ReceiptInv, OrderMayBecome, Receipts!OnePaidOrderPerReceipt, Receipts!Claims,
       Receipts!RELEASED_STATUSES
  <2>2. \A i \in Order : i # o => rows'[i] = rows[i]
    BY DEF ReceiptInv, ReceiptTypes
  <2>3. rows'[o] = new
    BY DEF ReceiptInv, ReceiptTypes
  <2>4. \A i \in Order : rows[i].receipt \in Receipt => Receipts!Placed(i)
    BY DEF ReceiptInv, PlacedHaveReceipts
  <2>5. \A i \in Order : Receipts!Placed(i) => rows[i].receipt \in Receipt
    BY DEF ReceiptInv, PlacedHaveReceipts
  <2> SUFFICES ASSUME NEW i \in Order, NEW j \in Order, i # j, rows'[i].status # "ABSENT",
                      rows'[i].receipt = rows'[j].receipt
               PROVE  \E k \in {i, j} : rows'[k].status \in {"CANCELLED", "REFUNDED"}
    BY DEF Receipts!OnePaidOrderPerReceipt, Receipts!Placed
  <2>6. CASE i = o
    BY <2>1, <2>2, <2>3, <2>4, <2>6 DEF OrderMayBecome
  <2>7. CASE j = o
    BY <2>1, <2>2, <2>3, <2>7 DEF Receipts!Placed
  <2>8. CASE i # o /\ j # o
    BY <2>2, <2>8 DEF ReceiptInv, Receipts!OnePaidOrderPerReceipt, Receipts!Placed
  <2> QED BY <2>6, <2>7, <2>8
<1> QED BY <1>1, <1>2, <1>3, <1>4 DEF ReceiptInv

LEMMA PaymentActions ==
  ASSUME ReceiptInv, NEW o \in Order, NEW c \in {"auto", "desk"},
         Receipts!RecordPayment(o, c) \/ Receipts!Confirm(o, c)
  PROVE  ReceiptInv'
<1>0. /\ Receipts!Placed(o) /\ rows[o] \in ReceiptRow /\ rows[o].receipt \in Receipt
      /\ rows[o].status \in Receipts!OrderStatus /\ log \subseteq Order
  BY DEF ReceiptInv, ReceiptTypes, PlacedHaveReceipts, ReceiptRow, Receipts!Placed,
     Receipts!RecordPayment, Receipts!Confirm
<1>1. CASE Receipts!RecordPayment(o, c)
  <2> DEFINE new == [rows[o] EXCEPT !.paid = TRUE]
             pc == IF rows[o].paid THEN "none" ELSE "move"
  <2>1. rows' = [rows EXCEPT ![o] = new] /\ check' = [check EXCEPT ![o][c] = pc]
    BY <1>1 DEF Receipts!RecordPayment, Receipts!SetRow, Receipts!Now
  <2>2. /\ new \in ReceiptRow /\ new.receipt = rows[o].receipt /\ new.status = rows[o].status
        /\ pc \in CheckStep /\ check[o][c] = "pay" /\ UNCHANGED <<gateway, log>>
    BY <1>0, <1>1 DEF ReceiptRow, CheckStep, Receipts!RecordPayment
  <2> HIDE DEF new, pc
  <2>3. OrderMayBecome(o, new)
    BY <1>0, <2>2 DEF OrderMayBecome, Receipts!Placed
  <2> QED BY <1>0, <2>1, <2>2, <2>3, OrderChanges
<1>2. CASE Receipts!Confirm(o, c) /\ Receipts!Confirms(o)
  <2> DEFINE new == [rows[o] EXCEPT !.status = "PAYMENT_CONFIRMED", !.by = c]
  <2>1. rows' = [rows EXCEPT ![o] = new] /\ check' = [check EXCEPT ![o][c] = "none"]
    BY <1>2 DEF Receipts!Confirm, Receipts!SetRow, Receipts!Now
  <2>2. rows[o].status = "PENDING"
    BY <1>0, <1>2, ReceiptTransitions DEF Receipts!Confirms
  <2>3. /\ new \in ReceiptRow /\ new.receipt = rows[o].receipt /\ new.status = "PAYMENT_CONFIRMED"
        /\ "none" \in CheckStep /\ UNCHANGED <<gateway, log>>
    BY <1>0, <1>2 DEF ReceiptRow, CheckStep, Receipts!Confirm, Receipts!OrderStatus
  <2> HIDE DEF new
  <2>4. OrderMayBecome(o, new)
    BY <1>0, <2>2, <2>3 DEF OrderMayBecome, Receipts!Placed
  <2> QED BY <1>0, <2>1, <2>3, <2>4, OrderChanges
<1>3. CASE Receipts!Confirm(o, c) /\ ~Receipts!Confirms(o)
  <2>1. check' = [check EXCEPT ![o][c] = "none"] /\ UNCHANGED <<rows, gateway, log>>
    BY <1>3 DEF Receipts!Confirm, Receipts!Now
  <2> QED BY <1>0, <2>1, CheckGoesOn DEF CheckStep
<1> QED BY <1>1, <1>2, <1>3

LEMMA PlaceAction ==
  ASSUME ReceiptInv, NEW o \in Order, NEW r \in Receipt, Receipts!PlaceManualTransfer(o, r)
  PROVE  ReceiptInv'
<1> DEFINE new == [Receipts!NoRow EXCEPT !.status = "PENDING", !.receipt = r]
<1>1. rows' = [rows EXCEPT ![o] = new] /\ check' = [check EXCEPT ![o]["auto"] = "claim"]
  BY DEF Receipts!PlaceManualTransfer, Receipts!SetRow, Receipts!Now
<1>2. new \in ReceiptRow /\ new.receipt = r /\ new.status = "PENDING" /\ "claim" \in CheckStep
  BY DEF ReceiptRow, CheckStep, Receipts!NoRow, Receipts!OrderStatus
<1>3. /\ ~Receipts!Placed(o) /\ Receipts!Claims(r, o) = {} /\ UNCHANGED <<gateway, log>>
      /\ log \subseteq Order
  BY DEF ReceiptInv, ReceiptTypes, Receipts!PlaceManualTransfer
<1> HIDE DEF new
<1>4. OrderMayBecome(o, new)
  BY <1>2, <1>3 DEF OrderMayBecome
<1> QED BY <1>1, <1>2, <1>3, <1>4, OrderChanges

LEMMA DeskActions ==
  ASSUME ReceiptInv, NEW o \in Order, NEW byStaff \in BOOLEAN,
         \/ Receipts!Cancelled(o, byStaff) \/ Receipts!Fulfil(o) \/ Receipts!RecordRefund(o)
         \/ Receipts!RevertConfirmation(o) \/ Receipts!Reopen(o)
  PROVE  ReceiptInv' /\ UNCHANGED <<check, gateway>> /\ (rows'[o].by = "auto" => rows[o].by = "auto")
<1>0. /\ Receipts!Placed(o) /\ rows[o] \in ReceiptRow /\ rows[o].receipt \in Receipt
      /\ rows[o].status \in Receipts!OrderStatus /\ log \subseteq Order /\ rows \in [Order -> ReceiptRow]
  <2>1. Receipts!Placed(o)
    BY DEF Receipts!Cancelled, Receipts!Fulfil, Receipts!RecordRefund, Receipts!RevertConfirmation,
       Receipts!Reopen
  <2> QED BY <2>1 DEF ReceiptInv, ReceiptTypes, PlacedHaveReceipts, ReceiptRow, Receipts!Placed
<1>1. ASSUME NEW new \in ReceiptRow, Receipts!Becomes(o, new), new.receipt = rows[o].receipt,
             new.by = "auto" => rows[o].by = "auto"
      PROVE  ReceiptInv' /\ UNCHANGED <<check, gateway>> /\ (rows'[o].by = "auto" => rows[o].by = "auto")
  <2>1. /\ rows' = [rows EXCEPT ![o] = new] /\ UNCHANGED <<gateway, check, log>>
        /\ Receipts!canTransition(rows[o].status, new.status)
    BY <1>1 DEF Receipts!Becomes, Receipts!SetRow
  <2>2. new.status \in Receipts!OrderStatus /\ rows[o].status \notin {"CANCELLED", "REFUNDED"}
    BY <1>0, <2>1, ReceiptTransitions
  <2>3. OrderMayBecome(o, new)
    BY <1>0, <1>1, <2>2 DEF OrderMayBecome, Receipts!OrderStatus
  <2> QED BY <1>0, <1>1, <2>1, <2>3, OrderChanges
<1>2. CASE Receipts!Cancelled(o, byStaff)
  <2> DEFINE new == [rows[o] EXCEPT !.status = "CANCELLED",
                                    !.rejected = byStaff /\ rows[o].status = "PENDING"]
  <2>1. new \in ReceiptRow /\ new.receipt = rows[o].receipt /\ new.by = rows[o].by
    BY <1>0 DEF ReceiptRow, Receipts!OrderStatus
  <2>2. Receipts!Becomes(o, new)
    BY <1>2 DEF Receipts!Cancelled
  <2> HIDE DEF new
  <2> QED BY <1>1, <2>1, <2>2
<1>3. CASE Receipts!Fulfil(o)
  <2>1. PICK to \in Stages : Receipts!Becomes(o, [rows[o] EXCEPT !.status = to])
    BY <1>3 DEF Receipts!Fulfil
  <2> DEFINE new == [rows[o] EXCEPT !.status = to]
  <2>2. new.status = to /\ new.receipt = rows[o].receipt /\ new.by = rows[o].by
    BY <1>0 DEF ReceiptRow
  <2>3. to \in Receipts!OrderStatus
    BY <1>0, <2>1, <2>2, ReceiptTransitions DEF Receipts!Becomes
  <2>4. new \in ReceiptRow
    BY <1>0, <2>3 DEF ReceiptRow
  <2> HIDE DEF new
  <2> QED BY <1>1, <2>1, <2>2, <2>4 DEF new
<1>4. CASE Receipts!RecordRefund(o)
  <2> DEFINE new == [rows[o] EXCEPT !.status = "REFUNDED"]
  <2>1. new \in ReceiptRow /\ new.receipt = rows[o].receipt /\ new.by = rows[o].by
    BY <1>0 DEF ReceiptRow, Receipts!OrderStatus
  <2>2. Receipts!Becomes(o, new)
    BY <1>4 DEF Receipts!RecordRefund
  <2> HIDE DEF new
  <2> QED BY <1>1, <2>1, <2>2
<1>5. CASE Receipts!RevertConfirmation(o)
  <2> DEFINE new == [rows[o] EXCEPT !.status = "PENDING", !.paid = FALSE, !.by = "nobody",
                                    !.withdrawn = rows[o].withdrawn + 1]
  <2>1. new \in ReceiptRow /\ new.receipt = rows[o].receipt /\ new.by = "nobody"
    <3>1. /\ rows[o] \in ReceiptRow /\ rows[o].withdrawn + 1 \in Nat
          /\ "PENDING" \in Receipts!OrderStatus
      BY <1>0 DEF ReceiptRow, Receipts!OrderStatus
    <3> DEFINE pending == [rows[o] EXCEPT !.status = "PENDING", !.paid = FALSE]
               free == [pending EXCEPT !.by = "nobody"]
    <3>2. /\ pending \in ReceiptRow /\ pending.receipt = rows[o].receipt
          /\ pending.withdrawn = rows[o].withdrawn
      BY <3>1 DEF ReceiptRow
    <3> HIDE DEF pending
    <3>3. free \in ReceiptRow /\ free.receipt = rows[o].receipt /\ free.by = "nobody"
      BY <3>2 DEF ReceiptRow
    <3> HIDE DEF free
    <3>4. LET last == [free EXCEPT !.withdrawn = rows[o].withdrawn + 1]
          IN  last \in ReceiptRow /\ last.receipt = rows[o].receipt /\ last.by = "nobody"
      BY <3>1, <3>3 DEF ReceiptRow
    <3> QED BY <3>4 DEF pending, free
  <2>2. Receipts!Becomes(o, new)
    BY <1>5 DEF Receipts!RevertConfirmation
  <2> HIDE DEF new
  <2> QED BY <1>1, <2>1, <2>2
<1>6. CASE Receipts!Reopen(o)
  <2> DEFINE new == [rows[o] EXCEPT !.status = "PENDING", !.rejected = FALSE]
  <2>1. /\ new \in ReceiptRow /\ new.receipt = rows[o].receipt /\ new.by = rows[o].by
        /\ new.status = "PENDING"
    BY <1>0 DEF ReceiptRow, Receipts!OrderStatus
  <2>2. /\ rows' = [rows EXCEPT ![o] = new] /\ UNCHANGED <<gateway, check, log>>
        /\ Receipts!Claims(rows[o].receipt, o) = {}
    BY <1>6 DEF Receipts!Reopen, Receipts!SetRow, Receipts!MayReclaim
  <2> HIDE DEF new
  <2>3. OrderMayBecome(o, new)
    BY <1>0, <2>1, <2>2 DEF OrderMayBecome
  <2> QED BY <1>0, <2>1, <2>2, <2>3, OrderChanges
<1> QED BY <1>2, <1>3, <1>4, <1>5, <1>6

LEMMA OutsideActions ==
  ASSUME ReceiptInv,
         Receipts!Crash \/ \E r \in Receipt, came \in {"short", "full"} : Receipts!MoneyArrives(r, came)
  PROVE  ReceiptInv' /\ UNCHANGED rows
<1>1. UNCHANGED <<rows, log>>
  BY DEF Receipts!Crash, Receipts!MoneyArrives
<1>2. ReceiptTypes'
  BY <1>1 DEF ReceiptInv, ReceiptTypes, CheckStep, Receipts!Crash, Receipts!MoneyArrives, Receipts!Checker
<1>3. PlacedHaveReceipts'
  BY <1>1 DEF ReceiptInv, PlacedHaveReceipts, Receipts!Placed, Receipts!Crash, Receipts!MoneyArrives,
     Receipts!Checker
<1>4. TheCheckKnows'
  <2>1. CASE Receipts!Crash
    BY <2>1 DEF TheCheckKnows, Receipts!Crash, Receipts!Checker
  <2>2. CASE \E r \in Receipt, came \in {"short", "full"} : Receipts!MoneyArrives(r, came)
    <3>1. \A x : gateway[x] = "full" => gateway'[x] = "full"
      BY <2>2 DEF Receipts!MoneyArrives, ReceiptInv, ReceiptTypes
    <3> QED BY <1>1, <2>2, <3>1 DEF ReceiptInv, TheCheckKnows, Receipts!MoneyArrives
  <2> QED BY <2>1, <2>2
<1>5. Receipts!OnePaidOrderPerReceipt'
  BY <1>1 DEF ReceiptInv, Receipts!OnePaidOrderPerReceipt, Receipts!Placed
<1> QED BY <1>1, <1>2, <1>3, <1>4, <1>5 DEF ReceiptInv

LEMMA ReceiptSteps ==
  ASSUME ReceiptInv, Receipts!ReceiptsNext
  PROVE  ReceiptInv'
BY CheckActions, PaymentActions, PlaceAction, DeskActions, OutsideActions
   DEF Receipts!ReceiptsNext, Receipts!Checker

(* Only a confirmation by the automatic check makes an order its own.      *)
LEMMA GrantStep ==
  ASSUME ReceiptInv, Receipts!ReceiptsNext
  PROVE  Receipts!GrantWasPaid
<1> SUFFICES ASSUME NEW o \in Order, rows'[o].by = "auto", rows[o].by # "auto"
             PROVE  /\ rows[o].status = "PENDING"
                    /\ gateway[rows[o].receipt] = "full" /\ Receipts!Claims(rows[o].receipt, o) = {}
  BY DEF Receipts!GrantWasPaid
<1>0. /\ rows \in [Order -> ReceiptRow]
      /\ \A i \in Order : \A new : rows' = [rows EXCEPT ![i] = new] => i = o /\ new.by = "auto"
  BY DEF ReceiptInv, ReceiptTypes
<1>1. Receipts!Confirm(o, "auto") /\ Receipts!Confirms(o)
  <2>1. ASSUME NEW i \in Order, NEW r \in Receipt, Receipts!PlaceManualTransfer(i, r) PROVE FALSE
    <3>1. rows' = [rows EXCEPT ![i] = [Receipts!NoRow EXCEPT !.status = "PENDING", !.receipt = r]]
      BY <2>1 DEF Receipts!PlaceManualTransfer, Receipts!SetRow
    <3> QED BY <1>0, <3>1 DEF Receipts!NoRow
  <2>2. ASSUME NEW i \in Order, NEW c \in {"auto", "desk"}, Receipts!RecordPayment(i, c) PROVE FALSE
    <3>1. rows' = [rows EXCEPT ![i] = [rows[i] EXCEPT !.paid = TRUE]]
      BY <2>2 DEF Receipts!RecordPayment, Receipts!SetRow
    <3> QED BY <1>0, <3>1 DEF ReceiptRow
  <2>3. ASSUME NEW i \in Order, NEW c \in {"auto", "desk"}, Receipts!Confirm(i, c)
        PROVE  i = o /\ c = "auto" /\ Receipts!Confirms(i)
    <3>1. \/ rows' = [rows EXCEPT ![i] = [rows[i] EXCEPT !.status = "PAYMENT_CONFIRMED", !.by = c]]
             /\ Receipts!Confirms(i)
          \/ UNCHANGED rows
      BY <2>3 DEF Receipts!Confirm, Receipts!SetRow
    <3> DEFINE new == [rows[i] EXCEPT !.status = "PAYMENT_CONFIRMED", !.by = c]
    <3>2. new.by = c
      BY <1>0 DEF ReceiptRow
    <3>3. rows' = [rows EXCEPT ![i] = new] /\ Receipts!Confirms(i)
      BY <3>1
    <3> HIDE DEF new
    <3> QED BY <1>0, <3>2, <3>3
  <2>4. ASSUME NEW i \in Order, NEW flag \in BOOLEAN,
               \/ Receipts!Cancelled(i, flag) \/ Receipts!Fulfil(i) \/ Receipts!RecordRefund(i)
               \/ Receipts!RevertConfirmation(i) \/ Receipts!Reopen(i)
        PROVE  FALSE
    <3>1. \E new : rows' = [rows EXCEPT ![i] = new]
      BY <2>4 DEF Receipts!Cancelled, Receipts!Fulfil, Receipts!RecordRefund, Receipts!RevertConfirmation,
         Receipts!Reopen, Receipts!Becomes, Receipts!SetRow
    <3> QED BY <1>0, <2>4, <3>1, DeskActions
  <2>5. ASSUME UNCHANGED rows PROVE FALSE
    BY <2>5
  <2>6. ASSUME NEW i \in Order, NEW c \in {"auto", "desk"}, NEW flag \in BOOLEAN,
               \/ Receipts!ReadClaim(i) \/ Receipts!VerifyPayment(i) \/ Receipts!Ask(i, c)
               \/ Receipts!Record(i, c) \/ Receipts!ConfirmPayment(i, flag)
        PROVE  FALSE
    BY <2>5, <2>6 DEF Receipts!ReadClaim, Receipts!VerifyPayment, Receipts!Ask, Receipts!Record,
       Receipts!ConfirmPayment
  <2> QED BY <2>1, <2>2, <2>3, <2>4, <2>5, <2>6, OutsideActions DEF Receipts!ReceiptsNext, Receipts!Checker
<1>2. check[o]["auto"] = "move"
  BY <1>1 DEF Receipts!Confirm
<1>3. /\ gateway[rows[o].receipt] = "full" /\ Receipts!Placed(o)
      /\ rows[o].status \in Receipts!OrderStatus
  BY <1>2 DEF ReceiptInv, ReceiptTypes, TheCheckKnows, PlacedHaveReceipts, ReceiptRow, Receipts!Placed
<1>4. rows[o].status = "PENDING"
  BY <1>1, <1>3, ReceiptTransitions DEF Receipts!Confirms
<1>5. Receipts!Claims(rows[o].receipt, o) = {}
  BY <1>3, <1>4 DEF Receipts!Claims, Receipts!RELEASED_STATUSES, ReceiptInv, Receipts!OnePaidOrderPerReceipt
<1> QED BY <1>3, <1>4, <1>5

-----------------------------------------------------------------------------
(* Testimonials. *)

Testimonial == [status : ReviewDesk!ReviewStatus \cup {"never", "deleted"}, published : BOOLEAN,
                featured : BOOLEAN, note : {"none", "text"}]

(* A request names a testimonial, and carries a value its kind can have.   *)
ActIsWhole ==
  /\ act = [step |-> act.step, kind |-> act.kind, value |-> act.value, review |-> act.review,
            tab |-> act.tab, seen |-> act.seen]
  /\ act.step \in {"read", "write"} =>
       /\ act.review \in Review /\ act.kind \in {"status", "featured", "note"}
       /\ act.kind = "status" => act.value \in ReviewDesk!ReviewStatus
       /\ act.kind = "note" => act.value = "text"
  /\ act.step \in {"written", "delete"} => act.review \in Review

ReviewInv == reviews \in [Review -> Testimonial] /\ ActIsWhole /\ ReviewDesk!ReviewDeskTypeOK

LEMMA ReviewsBegin ==
  ASSUME ReviewDesk!ReviewDeskInit
  PROVE  ReviewInv
BY DEF ReviewDesk!ReviewDeskInit, ReviewInv, ActIsWhole, Testimonial, ReviewDesk!ReviewDeskTypeOK,
   ReviewDesk!NoTestimonial, ReviewDesk!NoAct, ReviewDesk!ReviewStatus

(* A testimonial is written over, dated as its status asks.                *)
TestimonialIsSound(new) == new \in Testimonial /\ (new.published <=> new.status = "APPROVED")

LEMMA TestimonialWritten ==
  ASSUME NEW old \in Testimonial, TestimonialIsSound(old), NEW a,
         a.kind \in {"status", "featured", "note"},
         a.kind = "status" => a.value \in ReviewDesk!ReviewStatus,
         a.kind = "note" => a.value = "text"
  PROVE  /\ TestimonialIsSound(ReviewDesk!Written(old, a))
         /\ a.kind # "status" => ReviewDesk!Written(old, a).status = old.status
<1>1. CASE a.kind = "status"
  <2>1. ReviewDesk!Written(old, a) = [old EXCEPT !.status = a.value, !.published = (a.value = "APPROVED")]
    BY <1>1 DEF ReviewDesk!Written
  <2> QED BY <1>1, <2>1 DEF TestimonialIsSound, Testimonial
<1>2. CASE a.kind = "featured"
  <2>1. ReviewDesk!Written(old, a) = [old EXCEPT !.featured = (a.value = "yes")]
    BY <1>2 DEF ReviewDesk!Written
  <2> QED BY <1>2, <2>1 DEF TestimonialIsSound, Testimonial
<1>3. CASE a.kind = "note"
  <2>1. ReviewDesk!Written(old, a) = [old EXCEPT !.note = a.value]
    BY <1>3 DEF ReviewDesk!Written
  <2> QED BY <1>3, <2>1 DEF TestimonialIsSound, Testimonial
<1> QED BY <1>1, <1>2, <1>3

LEMMA ReviewWrites ==
  ASSUME ReviewInv, NEW r \in Review, NEW new, TestimonialIsSound(new),
         reviews' = [reviews EXCEPT ![r] = new], ActIsWhole'
  PROVE  ReviewInv'
BY DEF ReviewInv, TestimonialIsSound, ReviewDesk!ReviewDeskTypeOK

LEMMA ReviewSteps ==
  ASSUME ReviewInv, ReviewDesk!ReviewDeskNext
  PROVE  ReviewInv' /\ ReviewDesk!VerdictStands
<1> DEFINE Goal == ReviewInv' /\ ReviewDesk!VerdictStands
<1>0. \A r \in Review : TestimonialIsSound(reviews[r])
  BY DEF ReviewInv, TestimonialIsSound, ReviewDesk!ReviewDeskTypeOK
(* The rows stay, or the act is not one that writes.                       *)
<1>1. ASSUME UNCHANGED reviews, ActIsWhole' PROVE Goal
  BY <1>1 DEF ReviewInv, ReviewDesk!ReviewDeskTypeOK, ReviewDesk!VerdictStands, ReviewDesk!Published,
     ReviewDesk!Listed
<1>2. ASSUME NEW r \in Review, NEW new, TestimonialIsSound(new), ActIsWhole',
             reviews' = [reviews EXCEPT ![r] = new], act' = act \/ act.step # "write"
      PROVE  Goal
  BY <1>2, ReviewWrites DEF ReviewDesk!VerdictStands
<1>3. ASSUME UNCHANGED act PROVE ActIsWhole'
  BY <1>3 DEF ReviewInv, ActIsWhole
<1>4. CASE ReviewDesk!Visitor
  <2>1. CASE UNCHANGED reviews
    BY <1>1, <1>3, <1>4, <2>1 DEF ReviewDesk!Visitor
  <2>2. CASE ReviewDesk!StoreReview /\ ~UNCHANGED reviews
    <3>1. PICK r \in Review : /\ reviews[r].status = "never"
                              /\ reviews' = [reviews EXCEPT ![r].status = "PENDING"]
      BY <2>2 DEF ReviewDesk!StoreReview
    <3>2. TestimonialIsSound([reviews[r] EXCEPT !.status = "PENDING"])
      BY <1>0, <3>1 DEF TestimonialIsSound, Testimonial, ReviewDesk!ReviewStatus
    <3>3. reviews' = [reviews EXCEPT ![r] = [reviews[r] EXCEPT !.status = "PENDING"]]
      BY <3>1
    <3> QED BY <1>2, <1>3, <1>4, <3>2, <3>3 DEF ReviewDesk!Visitor
  <2> QED BY <1>4, <2>1, <2>2
          DEF ReviewDesk!Visitor, ReviewDesk!SubmitReview, ReviewDesk!FormAnswered
<1>5. CASE ReviewDesk!UpdateReview
  <2> DEFINE r == act.review
  <2>1. CASE act.step = "read"
    BY <1>1, <1>5, <2>1 DEF ReviewDesk!UpdateReview, ReviewInv, ActIsWhole
  <2>2. CASE act.step = "write"
    <3>1. act' = [act EXCEPT !.step = "written"] /\ r \in Review
      BY <1>5, <2>2 DEF ReviewDesk!UpdateReview, ReviewInv, ActIsWhole
    <3>2. ActIsWhole'
      BY <3>1 DEF ReviewInv, ActIsWhole
    <3>3. CASE ~ReviewDesk!Kept(r)
      BY <1>1, <1>5, <2>2, <3>2, <3>3 DEF ReviewDesk!UpdateReview
    <3>4. CASE ReviewDesk!Kept(r)
      <4> DEFINE new == ReviewDesk!Written(reviews[r], act)
      <4>1. reviews' = [reviews EXCEPT ![r] = new]
        BY <1>5, <2>2, <3>4 DEF ReviewDesk!UpdateReview
      <4>2. TestimonialIsSound(new) /\ (act.kind # "status" => new.status = reviews[r].status)
        <5>1. reviews[r] \in Testimonial /\ TestimonialIsSound(reviews[r])
          BY <1>0, <3>1 DEF TestimonialIsSound
        <5> QED BY <2>2, <5>1, TestimonialWritten DEF ReviewInv, ActIsWhole
      <4> HIDE DEF new
      <4>3. ReviewInv'
        BY <3>1, <3>2, <4>1, <4>2, ReviewWrites
      <4>4. ASSUME act.kind # "status" PROVE \A i \in Review : reviews'[i].status = reviews[i].status
        BY <4>1, <4>2, <4>4 DEF ReviewInv
      <4>5. ReviewDesk!VerdictStands
        BY <4>4 DEF ReviewDesk!VerdictStands, ReviewDesk!Published, ReviewDesk!Listed
      <4> QED BY <4>3, <4>5
    <3> QED BY <3>3, <3>4
  <2>3. CASE act.step = "written"
    BY <1>1, <1>5, <2>3 DEF ReviewDesk!UpdateReview, ReviewInv, ActIsWhole
  <2> QED BY <1>5, <2>1, <2>2, <2>3 DEF ReviewDesk!UpdateReview
<1>6. CASE ReviewDesk!DeleteReview
  <2> DEFINE r == act.review
             new == ReviewDesk!Deleted(reviews[r])
  <2>1. ActIsWhole' /\ r \in Review /\ act.step # "write"
    BY <1>6 DEF ReviewDesk!DeleteReview, ReviewInv, ActIsWhole
  <2>2. TestimonialIsSound(new)
    BY <1>0, <2>1 DEF TestimonialIsSound, Testimonial, ReviewDesk!Deleted
  <2>3. reviews' = [reviews EXCEPT ![r] = new] \/ UNCHANGED reviews
    BY <1>6 DEF ReviewDesk!DeleteReview
  <2> HIDE DEF new
  <2> QED BY <1>1, <1>2, <2>1, <2>2, <2>3
<1>7. CASE ReviewDesk!ReviewAnswered
  <2>1. ActIsWhole'
    BY <1>7 DEF ReviewDesk!ReviewAnswered, ReviewInv, ActIsWhole, ReviewDesk!NoAct
  <2> QED BY <1>1, <1>7, <2>1 DEF ReviewDesk!ReviewAnswered
<1>8. ASSUME NEW tab, ReviewDesk!SwitchReviewTab(tab) \/ ReviewDesk!LoadArrives(tab) PROVE Goal
  <2>1. ActIsWhole'
    BY <1>8 DEF ReviewDesk!SwitchReviewTab, ReviewDesk!LoadArrives, ReviewInv, ActIsWhole, ReviewDesk!NoAct
  <2> QED BY <1>1, <1>8, <2>1 DEF ReviewDesk!SwitchReviewTab, ReviewDesk!LoadArrives
<1>9. ASSUME NEW r \in Review, NEW kind, NEW value, ReviewDesk!Press(r, kind, value),
             kind \in {"status", "featured", "note", "delete"},
             kind = "status" => value \in ReviewDesk!ReviewStatus, kind = "note" => value = "text"
      PROVE  Goal
  <2>1. ActIsWhole'
    BY <1>9 DEF ReviewDesk!Press, ActIsWhole
  <2> QED BY <1>1, <1>9, <2>1 DEF ReviewDesk!Press
<1>10. ASSUME NEW r \in Review,
              \/ ReviewDesk!ToggleFeatured(r) \/ ReviewDesk!EditNote(r) \/ ReviewDesk!RemoveReview(r)
              \/ \E status \in ReviewDesk!ReviewStatus \ {"PENDING"} : ReviewDesk!SetReviewStatus(r, status)
       PROVE  Goal
  BY <1>9, <1>10 DEF ReviewDesk!ToggleFeatured, ReviewDesk!EditNote, ReviewDesk!RemoveReview,
     ReviewDesk!SetReviewStatus
<1>11. ASSUME NEW r \in Review, ReviewDesk!Colleague(r) PROVE Goal
  <2> DEFINE Wanted(kind, value) == [ReviewDesk!NoAct EXCEPT !.kind = kind, !.value = value,
                                                             !.seen = reviews[r].status]
  <2>1. /\ UNCHANGED act
        /\ \E new \in {ReviewDesk!Written(reviews[r], Wanted("status", status)) : status \in ReviewDesk!ReviewStatus}
                 \cup {ReviewDesk!Written(reviews[r], Wanted("featured", v)) : v \in {"yes", "no"}}
                 \cup {ReviewDesk!Deleted(reviews[r])} :
             reviews' = [reviews EXCEPT ![r] = new]
    BY <1>11 DEF ReviewDesk!Colleague
  <2>2. reviews[r] \in Testimonial /\ TestimonialIsSound(reviews[r])
    BY <1>0 DEF TestimonialIsSound
  <2>3. \A kind, value : Wanted(kind, value).kind = kind /\ Wanted(kind, value).value = value
    BY DEF ReviewDesk!NoAct
  <2> HIDE DEF Wanted
  <2>4. \A status \in ReviewDesk!ReviewStatus :
          TestimonialIsSound(ReviewDesk!Written(reviews[r], Wanted("status", status)))
    BY <2>2, <2>3, TestimonialWritten
  <2>5. \A v : TestimonialIsSound(ReviewDesk!Written(reviews[r], Wanted("featured", v)))
    BY <2>2, <2>3, TestimonialWritten
  <2>6. TestimonialIsSound(ReviewDesk!Deleted(reviews[r]))
    BY <2>2 DEF TestimonialIsSound, Testimonial, ReviewDesk!Deleted
  <2> QED BY <1>2, <1>3, <2>1, <2>4, <2>5, <2>6
<1> QED BY <1>4, <1>5, <1>6, <1>7, <1>8, <1>10, <1>11 DEF ReviewDesk!ReviewDeskNext

-----------------------------------------------------------------------------
(* The settings. *)

SettingValue == Manager \cup {"null", "default", "zero"}
Columns(g) == [SettingsDesk!Fields(g) -> SettingValue]

SettingsPage == [open : SUBSET {"terms", "sim", "inside", "books"}, form : [SettingsDesk!Field -> SettingValue],
                 ticks : SUBSET Shelf, list : SUBSET Shelf]

(* A save of a group on its way: what was sent, then what was before, then *)
(* when its transaction began, then the answer.                            *)
GroupSave(g) ==
  {SettingsDesk!NoAsk, [step |-> "refused"]} \cup [step : {"before"}, sent : Columns(g)]
    \cup [step : {"tx"}, sent : Columns(g), before : Columns(g)]
    \cup [step : {"begun", "written", "after"}, sent : Columns(g), before : Columns(g), start : Nat]
    \cup [step : {"done"}, reply : Columns(g)]

TitlesSave ==
  {SettingsDesk!NoAsk, [step |-> "after"], [step |-> "refused"]}
    \cup [step : {"before"}, sent : SUBSET Shelf]
    \cup [step : {"tx"}, sent : SUBSET Shelf, before : SUBSET Shelf]
    \cup [step : {"begun"}, sent : SUBSET Shelf, before : SUBSET Shelf, start : Nat]
    \cup [step : {"clear", "set"}, sent : SUBSET Shelf, before : SUBSET Shelf, start : Nat, cleared : SUBSET Shelf]
    \cup [step : {"done"}, reply : SUBSET Shelf]

(* A transaction that may still write its entry began before now.          *)
Begun(ask, now) == ask.step \in {"begun", "written"} => ask.start \in 0..now

SettingsSaves ==
  /\ asks \in [Manager -> [SettingsDesk!Group \cup {"books"} -> (UNION {GroupSave(g) : g \in SettingsDesk!Group}) \cup TitlesSave]]
  /\ \A p \in Manager : asks[p]["books"] \in TitlesSave /\ \A g \in SettingsDesk!Group : asks[p][g] \in GroupSave(g)

(* So has every transaction that wrote one.                                *)
BegunByNow ==
  /\ clock \in Nat
  /\ \A p \in Manager, g \in SettingsDesk!Group : Begun(asks[p][g], clock)
  /\ \A g \in SettingsDesk!Group : \A d \in trail[g] : d.start \in 0..clock

SettingsInv ==
  /\ row \in [SettingsDesk!Field -> SettingValue]
  /\ DOMAIN trail = SettingsDesk!Group \cup {"books"}
  /\ panel \in [Manager -> SettingsPage]
  /\ SettingsSaves
  /\ SettingsDesk!SettingsTypeOK
  /\ BegunByNow
  /\ SettingsDesk!TheLogTellsTheRow

(* The groups share no column.                                             *)
LEMMA Groups ==
  /\ SettingsDesk!Group = {"terms", "sim", "inside"}
  /\ SettingsDesk!Fields("terms") = {"flat", "free"}
  /\ SettingsDesk!Fields("sim") = {"sim"}
  /\ SettingsDesk!Fields("inside") = {"inside"}
  /\ SettingsDesk!Field = {"flat", "free", "sim", "inside"}
  /\ \A g \in SettingsDesk!Group : SettingsDesk!Fields(g) \subseteq SettingsDesk!Field
  /\ \A g, h \in SettingsDesk!Group : g # h => SettingsDesk!Fields(g) \cap SettingsDesk!Fields(h) = {}
<1>1. /\ SettingsDesk!Group = {"terms", "sim", "inside"}
      /\ SettingsDesk!Fields("terms") = {"flat", "free"}
      /\ SettingsDesk!Fields("sim") = {"sim"}
      /\ SettingsDesk!Fields("inside") = {"inside"}
  BY DEF SettingsDesk!Group, SettingsDesk!Fields
<1>2. SettingsDesk!Field = {"flat", "free", "sim", "inside"}
  BY <1>1 DEF SettingsDesk!Field
<1> QED BY <1>1, <1>2

(* What a save is at each of its steps.                                    *)
LEMMA SaveKinds ==
  ASSUME NEW g \in SettingsDesk!Group, NEW ask \in GroupSave(g)
  PROVE  /\ ask.step = "before" => ask.sent \in Columns(g)
         /\ ask.step = "tx" => ask.sent \in Columns(g) /\ ask.before \in Columns(g)
         /\ ask.step \in {"begun", "written", "after"} =>
              ask \in [step : {"begun", "written", "after"}, sent : Columns(g), before : Columns(g), start : Nat]
         /\ ask.step = "done" => ask.reply \in Columns(g)
BY DEF GroupSave, SettingsDesk!NoAsk

LEMMA TitlesSaveKinds ==
  ASSUME NEW ask \in TitlesSave
  PROVE  /\ ask.step = "before" => ask.sent \in SUBSET Shelf
         /\ ask.step \in {"tx", "begun"} => ask.sent \in SUBSET Shelf /\ ask.before \in SUBSET Shelf
         /\ ask.step = "begun" => ask.start \in Nat
         /\ ask.step \in {"clear", "set"} =>
              ask \in [step : {"clear", "set"}, sent : SUBSET Shelf, before : SUBSET Shelf, start : Nat,
                       cleared : SUBSET Shelf]
         /\ ask.step = "done" => ask.reply \in SUBSET Shelf
BY DEF TitlesSave, SettingsDesk!NoAsk

(* Putting one save puts the saves.                                        *)
LEMMA SavePut ==
  ASSUME SettingsInv, NEW p \in Manager, NEW g \in SettingsDesk!Group \cup {"books"}, NEW ask,
         IF g = "books" THEN ask \in TitlesSave ELSE ask \in GroupSave(g),
         asks' = [asks EXCEPT ![p][g] = ask]
  PROVE  SettingsSaves'
<1>1. ask \in (UNION {GroupSave(h) : h \in SettingsDesk!Group}) \cup TitlesSave
  <2>1. CASE g = "books"
    BY <2>1
  <2>2. CASE g # "books"
    <3>1. g \in SettingsDesk!Group /\ ask \in GroupSave(g)
      BY <2>2
    <3> QED BY <3>1
  <2> QED BY <2>1, <2>2
<1>2. \A h \in SettingsDesk!Group : h # "books"
  BY Groups
<1> DEFINE All == (UNION {GroupSave(h) : h \in SettingsDesk!Group}) \cup TitlesSave
<1>3. asks \in [Manager -> [SettingsDesk!Group \cup {"books"} -> All]]
  BY DEF SettingsInv, SettingsSaves
<1> HIDE DEF All
<1>4. asks' \in [Manager -> [SettingsDesk!Group \cup {"books"} -> All]]
  BY <1>1, <1>3 DEF All
<1>5. \A q \in Manager, h \in SettingsDesk!Group \cup {"books"} :
        asks'[q][h] = IF q = p /\ h = g THEN ask ELSE asks[q][h]
  BY <1>3
<1>6. \A q \in Manager : asks'[q]["books"] \in TitlesSave /\ \A h \in SettingsDesk!Group : asks'[q][h] \in GroupSave(h)
  BY <1>2, <1>5 DEF SettingsInv, SettingsSaves
<1> QED BY <1>4, <1>6 DEF SettingsSaves, All

(* And leaves every other as it is.                                        *)
LEMMA OtherSavesStand ==
  ASSUME SettingsInv, NEW p \in Manager, NEW g \in SettingsDesk!Group \cup {"books"}, NEW ask,
         asks' = [asks EXCEPT ![p][g] = ask]
  PROVE  \A q \in Manager, h \in SettingsDesk!Group :
           asks'[q][h] = asks[q][h] \/ (q = p /\ h = g /\ asks'[q][h] = ask)
<1> DEFINE All == (UNION {GroupSave(h) : h \in SettingsDesk!Group}) \cup TitlesSave
<1>1. asks \in [Manager -> [SettingsDesk!Group \cup {"books"} -> All]]
  BY DEF SettingsInv, SettingsSaves
<1> HIDE DEF All
<1> QED BY <1>1

(* Time goes on: what had begun has.                                       *)
LEMMA TimeGoesOn ==
  ASSUME SettingsInv, clock' \in Nat, clock <= clock',
         \A q \in Manager, h \in SettingsDesk!Group : asks'[q][h] = asks[q][h] \/ Begun(asks'[q][h], clock'),
         \A h \in SettingsDesk!Group : \A d \in trail'[h] : d \in trail[h] \/ d.start \in 0..clock'
  PROVE  BegunByNow'
BY DEF SettingsInv, BegunByNow, Begun

LEMMA SettingsBegin ==
  ASSUME SettingsDesk!SettingsInit
  PROVE  SettingsInv
<1> USE DEF SettingsDesk!SettingsInit
<1>1. row \in [SettingsDesk!Field -> SettingValue] /\ DOMAIN trail = SettingsDesk!Group \cup {"books"}
  BY DEF SettingValue
<1>2. SettingsDesk!BlankForm \in [SettingsDesk!Field -> SettingValue]
  BY DEF SettingsDesk!BlankForm, SettingValue
<1>3. panel \in [Manager -> SettingsPage]
  BY <1>2 DEF SettingsPage
<1>4. \A g \in SettingsDesk!Group : SettingsDesk!NoAsk \in GroupSave(g)
  BY DEF GroupSave
<1>5. SettingsDesk!NoAsk \in TitlesSave
  BY DEF TitlesSave
<1>6. SettingsSaves
  <2> DEFINE All == (UNION {GroupSave(g) : g \in SettingsDesk!Group}) \cup TitlesSave
  <2>1. SettingsDesk!NoAsk \in All
    BY <1>5
  <2>2. asks = [p \in Manager |-> [g \in SettingsDesk!Group \cup {"books"} |-> SettingsDesk!NoAsk]]
    OBVIOUS
  <2> HIDE DEF All
  <2>3. asks \in [Manager -> [SettingsDesk!Group \cup {"books"} -> All]]
    BY <2>1, <2>2
  <2> QED BY <1>4, <1>5, <2>2, <2>3 DEF SettingsSaves, All
<1>7. SettingsDesk!SettingsTypeOK
  BY <1>1 DEF SettingsDesk!SettingsTypeOK, SettingValue
<1>8. SettingsDesk!TheLogTellsTheRow
  BY Groups DEF SettingsDesk!TheLogTellsTheRow
<1>9. BegunByNow
  BY DEF BegunByNow, Begun, SettingsDesk!NoAsk
<1> QED BY <1>1, <1>3, <1>6, <1>7, <1>8, <1>9 DEF SettingsInv

(* A page changes, and what it waits for perhaps; the shop does not.       *)
LEMMA SettingsPageGoesOn ==
  ASSUME SettingsInv, panel' \in [Manager -> SettingsPage], SettingsSaves', BegunByNow', UNCHANGED <<row, trail, offered, titles>>
  PROVE  SettingsInv'
BY DEF SettingsInv, SettingsDesk!SettingsTypeOK, SettingsDesk!TheLogTellsTheRow, SettingsDesk!InForce, SettingsDesk!Cut

(* The save of a page is put, and the shop is as it was.                   *)
LEMMA SettingsSaveGoesOn ==
  ASSUME SettingsInv, NEW p \in Manager, NEW g \in SettingsDesk!Group \cup {"books"}, NEW ask,
         IF g = "books" THEN ask \in TitlesSave ELSE ask \in GroupSave(g),
         g # "books" => Begun(ask, clock'),
         asks' = [asks EXCEPT ![p][g] = ask],
         panel' \in [Manager -> SettingsPage], UNCHANGED <<row, trail, offered, titles>>,
         clock' \in Nat, clock <= clock'
  PROVE  SettingsInv'
<1>1. SettingsSaves'
  BY SavePut
<1>11. \A q \in Manager, h \in SettingsDesk!Group :
         asks'[q][h] = asks[q][h] \/ (q = p /\ h = g /\ asks'[q][h] = ask)
  BY OtherSavesStand
<1>2. \A h \in SettingsDesk!Group : h # "books"
  BY Groups
<1>3. \A q \in Manager, h \in SettingsDesk!Group : asks'[q][h] = asks[q][h] \/ Begun(asks'[q][h], clock')
  BY <1>11, <1>2
<1>4. BegunByNow'
  BY <1>3, TimeGoesOn
<1> QED BY <1>1, <1>4, SettingsPageGoesOn

LEMMA ShownIsAValue ==
  ASSUME row \in [SettingsDesk!Field -> SettingValue]
  PROVE  /\ \A f \in SettingsDesk!Field : SettingsDesk!Shown(f) \in SettingValue
         /\ \A g \in SettingsDesk!Group : SettingsDesk!Describe(g) \in Columns(g)
<1>1. \A f \in SettingsDesk!Field : SettingsDesk!Shown(f) \in SettingValue
  BY DEF SettingsDesk!Shown, SettingValue
<1> QED BY <1>1, Groups DEF SettingsDesk!Describe, Columns

LEMMA SettingsPageSteps ==
  ASSUME SettingsInv, NEW p \in Manager,
         \/ SettingsDesk!LoadSettings(p) \/ SettingsDesk!SaveTitles(p)
         \/ \E f \in SettingsDesk!Field : SettingsDesk!TypeSetting(p, f)
         \/ \E g \in SettingsDesk!Group : SettingsDesk!SaveSettings(p, g)
         \/ \E g \in SettingsDesk!Group \cup {"books"} : SettingsDesk!SettingsAnswered(p, g)
         \/ \E value \in {p, "null"} : SettingsDesk!ChooseSim(p, value)
         \/ \E b \in Shelf : SettingsDesk!ToggleTitle(p, b)
  PROVE  SettingsInv'
<1> DEFINE pg == panel[p]
<1>0. /\ panel \in [Manager -> SettingsPage] /\ pg \in SettingsPage
      /\ pg.form \in [SettingsDesk!Field -> SettingValue]
      /\ row \in [SettingsDesk!Field -> SettingValue]
      /\ asks[p]["books"] \in TitlesSave /\ \A g \in SettingsDesk!Group : asks[p][g] \in GroupSave(g)
      /\ offered \subseteq Shelf
      /\ UNCHANGED asks => SettingsSaves'
  BY DEF SettingsInv, SettingsPage, SettingsSaves, SettingsDesk!SettingsTypeOK
<1>01. /\ clock \in Nat /\ clock <= clock
       /\ UNCHANGED <<asks, clock, trail>> => BegunByNow'
  BY DEF SettingsInv, BegunByNow, Begun
<1>00. ASSUME NEW part, DOMAIN part \subseteq SettingsDesk!Field, \A f \in DOMAIN part : part[f] \in SettingValue,
              NEW f0 \in [SettingsDesk!Field -> SettingValue]
       PROVE  SettingsDesk!Into(f0, part) \in [SettingsDesk!Field -> SettingValue]
  BY <1>00 DEF SettingsDesk!Into
<1> USE DEF SettingsDesk!Put
<1>1. CASE SettingsDesk!LoadSettings(p)
  <2>1. PICK groups \in {{"terms", "inside"}, {"sim"}, {"books"}} :
          LET part == [f \in UNION {SettingsDesk!Fields(g) : g \in groups \cap SettingsDesk!Group} |-> SettingsDesk!Shown(f)]
              ticked == IF "books" \in groups THEN offered ELSE {}
              loaded == [open |-> groups, form |-> SettingsDesk!Into(SettingsDesk!BlankForm, part),
                         ticks |-> ticked, list |-> ticked] IN
          panel' \in {[panel EXCEPT ![p] = loaded], [panel EXCEPT ![p].open = groups \ {"inside"}]}
    BY <1>1 DEF SettingsDesk!LoadSettings
  <2> DEFINE part == [f \in UNION {SettingsDesk!Fields(g) : g \in groups \cap SettingsDesk!Group} |-> SettingsDesk!Shown(f)]
             ticked == IF "books" \in groups THEN offered ELSE {}
             filled == SettingsDesk!Into(SettingsDesk!BlankForm, part)
  <2>2. filled \in [SettingsDesk!Field -> SettingValue]
    <3>1. DOMAIN part \subseteq SettingsDesk!Field /\ \A f \in DOMAIN part : part[f] = SettingsDesk!Shown(f)
      BY Groups
    <3>2. SettingsDesk!BlankForm \in [SettingsDesk!Field -> SettingValue]
      BY DEF SettingsDesk!BlankForm, SettingValue
    <3> HIDE DEF part
    <3> QED BY <1>0, <1>00, <3>1, <3>2, ShownIsAValue
  <2>3. [open |-> groups, form |-> filled, ticks |-> ticked, list |-> ticked] \in SettingsPage
    BY <1>0, <2>2 DEF SettingsPage
  <2>4. [pg EXCEPT !.open = groups \ {"inside"}] \in SettingsPage
    BY <1>0 DEF SettingsPage
  <2>5. \E new \in SettingsPage : panel' = [panel EXCEPT ![p] = new]
    BY <2>1, <2>3, <2>4
  <2>6. panel' \in [Manager -> SettingsPage]
    BY <1>0, <2>5
  <2> QED BY <1>0, <1>01, <1>1, <2>6, SettingsPageGoesOn DEF SettingsDesk!LoadSettings
<1>2. CASE SettingsDesk!SaveTitles(p)
  <2>1. [step |-> "before", sent |-> pg.ticks] \in TitlesSave
    BY <1>0 DEF TitlesSave, SettingsPage
  <2> QED BY <1>0, <1>01, <1>2, <2>1, SettingsSaveGoesOn DEF SettingsDesk!SaveTitles
<1>3. CASE \E f \in SettingsDesk!Field : SettingsDesk!TypeSetting(p, f)
  <2>1. PICK f \in SettingsDesk!Field : panel' = [panel EXCEPT ![p].form[f] = p]
    BY <1>3 DEF SettingsDesk!TypeSetting
  <2>2. [pg.form EXCEPT ![f] = p] \in [SettingsDesk!Field -> SettingValue]
    BY <1>0 DEF SettingValue
  <2>3. [pg EXCEPT !.form = [pg.form EXCEPT ![f] = p]] \in SettingsPage
    BY <1>0, <2>2 DEF SettingsPage
  <2>4. panel' \in [Manager -> SettingsPage]
    BY <1>0, <2>1, <2>3
  <2> QED BY <1>0, <1>01, <1>3, <2>4, SettingsPageGoesOn DEF SettingsDesk!TypeSetting
<1>4. CASE \E g \in SettingsDesk!Group : SettingsDesk!SaveSettings(p, g)
  <2>1. PICK g \in SettingsDesk!Group : SettingsDesk!SaveSettings(p, g)
    BY <1>4
  <2>2. SettingsDesk!Cut(pg.form, g) \in Columns(g)
    BY <1>0, Groups DEF SettingsDesk!Cut, Columns
  <2>3. [step |-> "before", sent |-> SettingsDesk!Cut(pg.form, g)] \in GroupSave(g)
    BY <2>2 DEF GroupSave
  <2> DEFINE ask == [step |-> "before", sent |-> SettingsDesk!Cut(pg.form, g)]
  <2>31. asks' = [asks EXCEPT ![p][g] = ask]
    BY <2>1 DEF SettingsDesk!SaveSettings
  <2>32. g # "books" /\ g \in SettingsDesk!Group \cup {"books"} /\ Begun(ask, clock')
    BY Groups DEF Begun
  <2>33. ask \in GroupSave(g)
    BY <2>3
  <2> HIDE DEF ask
  <2> QED BY <1>0, <1>01, <2>1, <2>31, <2>32, <2>33, SettingsSaveGoesOn DEF SettingsDesk!SaveSettings
<1>5. CASE \E g \in SettingsDesk!Group \cup {"books"} : SettingsDesk!SettingsAnswered(p, g)
  <2>1. PICK g \in SettingsDesk!Group \cup {"books"} : SettingsDesk!SettingsAnswered(p, g)
    BY <1>5
  <2>2. /\ IF g = "books" THEN SettingsDesk!NoAsk \in TitlesSave ELSE SettingsDesk!NoAsk \in GroupSave(g)
        /\ asks' = [asks EXCEPT ![p][g] = SettingsDesk!NoAsk]
        /\ Begun(SettingsDesk!NoAsk, clock')
    BY <2>1 DEF SettingsDesk!SettingsAnswered, TitlesSave, GroupSave, Begun, SettingsDesk!NoAsk
  <2>3. panel' \in [Manager -> SettingsPage]
    <3>1. CASE UNCHANGED panel
      BY <1>0, <3>1
    <3>2. CASE asks[p][g].step = "done" /\ g = "books" /\
               panel' = [panel EXCEPT ![p].ticks = asks[p][g].reply, ![p].list = asks[p][g].reply]
      <4>1. asks[p][g].reply \in SUBSET Shelf
        BY <1>0, <3>2, TitlesSaveKinds
      <4>2. [pg EXCEPT !.ticks = asks[p][g].reply, !.list = asks[p][g].reply] \in SettingsPage
        BY <1>0, <4>1 DEF SettingsPage
      <4>3. panel' = [panel EXCEPT ![p] = [pg EXCEPT !.ticks = asks[p][g].reply, !.list = asks[p][g].reply]]
        BY <1>0, <3>2
      <4> QED BY <1>0, <4>2, <4>3
    <3>3. CASE asks[p][g].step = "done" /\ g # "books" /\
               panel' = [panel EXCEPT ![p].form = SettingsDesk!Into(panel[p].form, asks[p][g].reply)]
      <4>1. asks[p][g].reply \in Columns(g) /\ g \in SettingsDesk!Group
        BY <1>0, <3>3, SaveKinds
      <4>2. SettingsDesk!Into(pg.form, asks[p][g].reply) \in [SettingsDesk!Field -> SettingValue]
        BY <1>0, <1>00, <4>1, Groups DEF Columns
      <4>3. [pg EXCEPT !.form = SettingsDesk!Into(pg.form, asks[p][g].reply)] \in SettingsPage
        BY <1>0, <4>2 DEF SettingsPage
      <4> QED BY <1>0, <3>3, <4>3
    <3> QED BY <2>1, <3>1, <3>2, <3>3 DEF SettingsDesk!SettingsAnswered
  <2> QED BY <1>0, <1>01, <2>1, <2>2, <2>3, SettingsSaveGoesOn DEF SettingsDesk!SettingsAnswered
<1>6. CASE \E value \in {p, "null"} : SettingsDesk!ChooseSim(p, value)
  <2>1. PICK value \in {p, "null"} : SettingsDesk!ChooseSim(p, value)
    BY <1>6
  <2>2. [step |-> "before", sent |-> [f \in {"sim"} |-> value]] \in GroupSave("sim")
    BY Groups DEF GroupSave, Columns, SettingValue
  <2> DEFINE ask == [step |-> "before", sent |-> [f \in {"sim"} |-> value]]
  <2>21. asks' = [asks EXCEPT ![p]["sim"] = ask]
    BY <2>1 DEF SettingsDesk!ChooseSim
  <2>22. "sim" \in SettingsDesk!Group \cup {"books"} /\ Begun(ask, clock')
    BY Groups DEF Begun
  <2>23. ask \in GroupSave("sim")
    BY <2>2
  <2> HIDE DEF ask
  <2>4. [pg.form EXCEPT !["sim"] = value] \in [SettingsDesk!Field -> SettingValue]
    BY <1>0, Groups DEF SettingValue
  <2>5. [pg EXCEPT !.form = [pg.form EXCEPT !["sim"] = value]] \in SettingsPage
    BY <1>0, <2>4 DEF SettingsPage
  <2>6. panel' \in [Manager -> SettingsPage]
    BY <1>0, <2>1, <2>5 DEF SettingsDesk!ChooseSim
  <2> QED BY <1>0, <1>01, <2>1, <2>21, <2>22, <2>23, <2>6, SettingsSaveGoesOn DEF SettingsDesk!ChooseSim
<1>7. CASE \E b \in Shelf : SettingsDesk!ToggleTitle(p, b)
  <2>1. PICK b \in Shelf : SettingsDesk!ToggleTitle(p, b)
    BY <1>7
  <2>2. PICK ticks \in SUBSET Shelf : panel' = [panel EXCEPT ![p].ticks = ticks]
    BY <1>0, <2>1 DEF SettingsDesk!ToggleTitle, SettingsPage
  <2>3. [pg EXCEPT !.ticks = ticks] \in SettingsPage
    BY <1>0 DEF SettingsPage
  <2>4. panel' \in [Manager -> SettingsPage]
    BY <1>0, <2>2, <2>3
  <2> QED BY <1>0, <1>01, <2>1, <2>4, SettingsPageGoesOn DEF SettingsDesk!ToggleTitle
<1> QED BY <1>1, <1>2, <1>3, <1>4, <1>5, <1>6, <1>7

(* The transaction of a group writes its columns and their entry together, *)
(* and no entry there is of a transaction that has yet to begin; it leaves *)
(* the columns of the other groups, and so what their entries say, alone.  *)
LEMMA GroupIsSaved ==
  ASSUME SettingsInv, NEW p \in Manager, NEW g \in SettingsDesk!Group, SettingsDesk!UpdateGroup(p, g)
  PROVE  SettingsInv'
<1> DEFINE ask == asks[p][g]
<1>0. /\ ask \in GroupSave(g) /\ row \in [SettingsDesk!Field -> SettingValue]
      /\ DOMAIN trail = SettingsDesk!Group \cup {"books"} /\ UNCHANGED <<offered, titles, panel>>
      /\ panel \in [Manager -> SettingsPage] /\ panel' \in [Manager -> SettingsPage]
      /\ g # "books" /\ g \in SettingsDesk!Group \cup {"books"}
      /\ clock \in Nat /\ clock <= clock /\ Begun(ask, clock)
  BY Groups DEF SettingsInv, SettingsSaves, SettingsDesk!UpdateGroup, BegunByNow
<1> USE DEF SettingsDesk!Put
<1>1. CASE ask.step = "before"
  <2> DEFINE new == [step |-> "tx", sent |-> ask.sent, before |-> SettingsDesk!Describe(g)]
  <2>1. new \in GroupSave(g) /\ Begun(new, clock')
    BY <1>0, <1>1, SaveKinds, ShownIsAValue DEF GroupSave, Begun
  <2>2. asks' = [asks EXCEPT ![p][g] = new] /\ UNCHANGED <<row, trail, clock>>
    BY <1>1 DEF SettingsDesk!UpdateGroup
  <2> HIDE DEF new
  <2> QED BY <1>0, <2>1, <2>2, SettingsSaveGoesOn
<1>2. CASE ask.step = "tx"
  <2> DEFINE new == SettingsDesk!Started(ask)
  <2>1. asks' = [asks EXCEPT ![p][g] = new] /\ UNCHANGED <<row, trail>> /\ clock' = clock + 1
    BY <1>2 DEF SettingsDesk!UpdateGroup, SettingsDesk!Begins
  <2>2. clock' \in Nat /\ clock <= clock'
    BY <1>0, <2>1
  <2>3. new \in GroupSave(g) /\ Begun(new, clock')
    BY <1>0, <1>2, <2>2, SaveKinds DEF GroupSave, Begun, SettingsDesk!Started
  <2> HIDE DEF new
  <2> QED BY <1>0, <2>1, <2>2, <2>3, SettingsSaveGoesOn
<1>3. CASE /\ ask.step = "begun" /\ asks' = [asks EXCEPT ![p][g] = [ask EXCEPT !.step = "written"]]
           /\ UNCHANGED <<row, trail, clock>>
  <2> DEFINE new == [ask EXCEPT !.step = "written"]
  <2>1. ask \in [step : {"begun", "written", "after"}, sent : Columns(g), before : Columns(g), start : Nat]
    BY <1>0, <1>3, SaveKinds
  <2>2. new \in GroupSave(g) /\ Begun(new, clock')
    BY <1>0, <1>3, <2>1 DEF GroupSave, Begun
  <2>3. asks' = [asks EXCEPT ![p][g] = new]
    BY <1>3
  <2> HIDE DEF new
  <2> QED BY <1>0, <1>3, <2>2, <2>3, SettingsSaveGoesOn
<1>4. CASE /\ ask.step = "written" /\ row' = SettingsDesk!Into(row, ask.sent)
           /\ trail' = SettingsDesk!TrailAt(p, g, "written")
           /\ asks' = [asks EXCEPT ![p][g] = [ask EXCEPT !.step = "after"]] /\ UNCHANGED clock
  <2> DEFINE new == [ask EXCEPT !.step = "after"]
  <2>1. ask \in [step : {"begun", "written", "after"}, sent : Columns(g), before : Columns(g), start : Nat]
    BY <1>0, <1>4, SaveKinds
  <2>2. new \in GroupSave(g) /\ Begun(new, clock')
    BY <2>1 DEF GroupSave, Begun
  <2>3. /\ asks' = [asks EXCEPT ![p][g] = new]
        /\ trail' = SettingsDesk!Entry(p, g)
    BY <1>4 DEF SettingsDesk!TrailAt
  <2>30. PICK e : /\ e = [start |-> ask.start, commit |-> clock, before |-> ask.before, after |-> ask.sent, by |-> p]
                  /\ trail' = [trail EXCEPT ![g] = trail[g] \cup {e}]
    BY <2>3 DEF SettingsDesk!Entry
  <2>31. e.start \in 0..clock /\ e.commit = clock /\ e.after = ask.sent
    BY <1>0, <1>4, <2>30 DEF Begun
  <2> HIDE DEF new
  <2>4. SettingsSaves'
    BY <1>0, <2>2, <2>3, SavePut
  <2>41. \A q \in Manager, h \in SettingsDesk!Group :
           asks'[q][h] = asks[q][h] \/ (q = p /\ h = g /\ asks'[q][h] = new)
    BY <1>0, <2>3, OtherSavesStand
  <2>5. ask.sent \in [SettingsDesk!Fields(g) -> SettingValue] /\ SettingsDesk!Fields(g) \subseteq SettingsDesk!Field
    BY <2>1, Groups DEF Columns
  <2>6. row' \in [SettingsDesk!Field -> SettingValue]
    BY <1>0, <1>4, <2>5 DEF SettingsDesk!Into
  <2>7. SettingsDesk!SettingsTypeOK'
    BY <1>0, <2>6 DEF SettingsInv, SettingsDesk!SettingsTypeOK, SettingValue
  <2>8. \A h \in SettingsDesk!Group : trail'[h] = IF h = g THEN trail[g] \cup {e} ELSE trail[h]
    BY <1>0, <2>30
  <2>9. BegunByNow'
    <3>1. \A h \in SettingsDesk!Group : \A d \in trail'[h] : d \in trail[h] \/ d.start \in 0..clock'
      BY <1>4, <2>8, <2>31
    <3>2. \A q \in Manager, h \in SettingsDesk!Group : asks'[q][h] = asks[q][h] \/ Begun(asks'[q][h], clock')
      BY <2>2, <2>41
    <3> QED BY <1>0, <1>4, <3>1, <3>2, TimeGoesOn
  <2>10. SettingsDesk!TheLogTellsTheRow'
    <3> SUFFICES ASSUME NEW h \in SettingsDesk!Group
                 PROVE  \/ trail'[h] = {} /\ \A f \in SettingsDesk!Fields(h) : row'[f] = "null"
                        \/ \E d \in trail'[h] : SettingsDesk!InForce(d, h)'
      BY DEF SettingsDesk!TheLogTellsTheRow
    <3>1. CASE h = g
      <4>1. SettingsDesk!Cut(row', h) = ask.sent
        BY <1>4, <2>5, <3>1 DEF SettingsDesk!Cut, SettingsDesk!Into
      <4>2. \A d \in trail'[h] : d.start \in 0..clock
        BY <2>8, <2>31, <3>1 DEF SettingsInv, BegunByNow
      <4>3. \A d \in trail'[h] : d.start <= e.commit
        BY <1>0, <2>31, <4>2
      <4>4. SettingsDesk!InForce(e, h)'
        BY <2>31, <4>1, <4>3 DEF SettingsDesk!InForce, SettingsDesk!Cut
      <4> QED BY <2>8, <3>1, <4>4
    <3>2. CASE h # g
      <4>1. trail'[h] = trail[h]
        BY <2>8, <3>2
      <4>2. SettingsDesk!Fields(h) \subseteq SettingsDesk!Field /\ SettingsDesk!Fields(h) \cap SettingsDesk!Fields(g) = {}
        BY <3>2, Groups
      <4>3. \A f \in SettingsDesk!Fields(h) : row'[f] = row[f]
        BY <1>4, <2>5, <4>2 DEF SettingsDesk!Into
      <4>4. SettingsDesk!Cut(row', h) = SettingsDesk!Cut(row, h)
        BY <4>3 DEF SettingsDesk!Cut
      <4> QED BY <4>1, <4>3, <4>4 DEF SettingsInv, SettingsDesk!TheLogTellsTheRow, SettingsDesk!InForce
    <3> QED BY <3>1, <3>2
  <2>11. DOMAIN trail' = SettingsDesk!Group \cup {"books"}
    BY <1>0, <2>30
  <2> QED BY <1>0, <2>4, <2>6, <2>7, <2>9, <2>10, <2>11 DEF SettingsInv
<1>5. CASE asks' = [asks EXCEPT ![p][g] = [step |-> "refused"]] /\ UNCHANGED <<row, trail, clock>>
  <2>1. [step |-> "refused"] \in GroupSave(g) /\ Begun([step |-> "refused"], clock')
    BY DEF GroupSave, Begun
  <2> QED BY <1>0, <1>5, <2>1, SettingsSaveGoesOn
<1>6. CASE ask.step = "after"
  <2> DEFINE new == [step |-> "done", reply |-> IF g = "inside" THEN ask.sent ELSE SettingsDesk!Describe(g)]
  <2>1. ask.sent \in Columns(g)
    BY <1>0, <1>6, SaveKinds
  <2>2. new \in GroupSave(g) /\ Begun(new, clock')
    BY <1>0, <2>1, ShownIsAValue DEF GroupSave, Begun
  <2>3. asks' = [asks EXCEPT ![p][g] = new] /\ UNCHANGED <<row, trail, clock>>
    BY <1>6 DEF SettingsDesk!UpdateGroup, SettingsDesk!TrailAt
  <2> HIDE DEF new
  <2> QED BY <1>0, <2>2, <2>3, SettingsSaveGoesOn
<1> QED BY <1>1, <1>2, <1>3, <1>4, <1>5, <1>6 DEF SettingsDesk!UpdateGroup

LEMMA TitlesAreSaved ==
  ASSUME SettingsInv, NEW p \in Manager, SettingsDesk!UpdateTitles(p)
  PROVE  SettingsInv'
<1> DEFINE ask == asks[p]["books"]
<1>0. /\ ask \in TitlesSave /\ UNCHANGED <<row, titles, panel>>
      /\ offered \subseteq titles /\ titles \subseteq Shelf /\ clock \in Nat
  BY DEF SettingsInv, SettingsSaves, SettingsDesk!SettingsTypeOK, SettingsDesk!UpdateTitles, BegunByNow
<1>01. clock' \in Nat /\ clock <= clock'
  BY <1>0 DEF SettingsDesk!UpdateTitles, SettingsDesk!Begins
<1>1. \E new \in TitlesSave : asks' = [asks EXCEPT ![p]["books"] = new]
  <2> USE DEF SettingsDesk!UpdateTitles, SettingsDesk!Put
  <2>1. CASE ask.step = "before"
    <3>1. [step |-> "tx", sent |-> ask.sent, before |-> offered] \in TitlesSave
      BY <1>0, <2>1, TitlesSaveKinds DEF TitlesSave
    <3> QED BY <2>1, <3>1
  <2>2. CASE ask.step = "tx"
    <3>1. SettingsDesk!Started(ask) \in TitlesSave
      BY <1>0, <1>01, <2>2, TitlesSaveKinds DEF TitlesSave, SettingsDesk!Started
    <3> QED BY <2>2, <3>1
  <2>3. CASE ask.step = "begun"
    <3>1. [step |-> "clear", sent |-> ask.sent, before |-> ask.before, start |-> ask.start,
           cleared |-> offered] \in TitlesSave
      BY <1>0, <2>3, TitlesSaveKinds DEF TitlesSave
    <3> QED BY <2>3, <3>1
  <2>4. CASE ask.step = "clear"
    <3>1. ask \in [step : {"clear", "set"}, sent : SUBSET Shelf, before : SUBSET Shelf, start : Nat,
                   cleared : SUBSET Shelf]
      BY <1>0, <2>4, TitlesSaveKinds
    <3>2. [ask EXCEPT !.step = "set", !.cleared = ask.cleared \cap offered] \in TitlesSave
      BY <3>1 DEF TitlesSave
    <3> QED BY <2>4, <3>2
  <2>5. CASE ask.step = "set"
    <3>1. [step |-> "after"] \in TitlesSave /\ [step |-> "refused"] \in TitlesSave
      BY DEF TitlesSave
    <3> QED BY <2>5, <3>1
  <2>6. CASE ask.step = "after"
    <3>1. [step |-> "done", reply |-> offered] \in TitlesSave
      BY <1>0 DEF TitlesSave
    <3> QED BY <2>6, <3>1
  <2> QED BY <2>1, <2>2, <2>3, <2>4, <2>5, <2>6
<1>2. SettingsSaves'
  BY <1>1, SavePut
<1>21. \A q \in Manager, h \in SettingsDesk!Group : asks'[q][h] = asks[q][h]
  BY <1>1, Groups, OtherSavesStand
<1>3. /\ offered' \subseteq titles
      /\ UNCHANGED trail \/ trail' = SettingsDesk!Entry(p, "books")
  BY <1>0 DEF SettingsDesk!UpdateTitles
<1>4. SettingsDesk!SettingsTypeOK'
  BY <1>0, <1>3 DEF SettingsInv, SettingsDesk!SettingsTypeOK
<1>5. \A g \in SettingsDesk!Group : trail'[g] = trail[g]
  BY <1>3, Groups DEF SettingsDesk!Entry, SettingsInv
<1>6. SettingsDesk!TheLogTellsTheRow' /\ DOMAIN trail' = DOMAIN trail
  BY <1>0, <1>3, <1>5 DEF SettingsInv, SettingsDesk!TheLogTellsTheRow, SettingsDesk!InForce, SettingsDesk!Cut,
     SettingsDesk!Entry
<1>7. BegunByNow'
  BY <1>01, <1>21, <1>5, TimeGoesOn
<1> QED BY <1>0, <1>2, <1>4, <1>6, <1>7 DEF SettingsInv

LEMMA SettingsSteps ==
  ASSUME SettingsInv, SettingsDesk!SettingsNext
  PROVE  SettingsInv'
<1>1. ASSUME NEW b \in Shelf, SettingsDesk!TitleGoes(b) PROVE SettingsInv'
  BY <1>1 DEF SettingsDesk!TitleGoes, SettingsInv, SettingsSaves, SettingsDesk!SettingsTypeOK, BegunByNow,
     Begun, SettingsDesk!TheLogTellsTheRow, SettingsDesk!InForce, SettingsDesk!Cut
<1> QED BY <1>1, SettingsPageSteps, GroupIsSaved, TitlesAreSaved DEF SettingsDesk!SettingsNext

-----------------------------------------------------------------------------
(* The Stock page. *)

ShopRow == [stock : 0 .. MaxCopies, live : Nat, old : Nat, sold : Nat, release : 0 .. MaxReleases,
            copies : Nat, opened : 0 .. MaxReleases, moves : Nat]

StockRow == [onHand : 0 .. MaxCopies, promised : Nat, reserved : Nat, onShelf : Int,
             allocation : 0 .. MaxReleases, spent : BOOLEAN]

StockPage == [row : StockRow, loaded : BOOLEAN,
              dialog : [kind : {"none", "receive", "correct", "share"}, row : StockRow]]

StockTask == [step : {"none", "load", "failed", "count", "open", "close", "replace", "resize"},
              row : StockRow, hold : 0 .. MaxCopies, fresh : BOOLEAN]

Asking == {"count", "open", "close", "replace", "resize"}

(* While a request is under way that nothing disturbed, the count and the  *)
(* copies promised are those of its row, also between the two halves of a  *)
(* replacement; and a share is never more than the row had free.           *)
TaskIsFresh ==
  /\ task.fresh /\ task.step \in Asking => task.row.onHand = shop.stock /\ task.row.promised = StockDesk!Held(shop)
  /\ task.step \in {"open", "resize", "replace"} => task.hold <= StockDesk!free(task.row)

StockInv ==
  /\ shop \in ShopRow /\ desk \in StockPage /\ task \in StockTask
  /\ shop.release <= shop.opened
  /\ shop.release = 0 => shop.live = 0 /\ shop.sold = 0 /\ shop.copies = 0
  /\ TaskIsFresh

LEMMA RowOfIsARow ==
  ASSUME NEW s \in ShopRow
  PROVE  /\ StockDesk!RowOf(s) \in StockRow
         /\ StockDesk!RowOf(s).onHand = s.stock /\ StockDesk!RowOf(s).promised = StockDesk!Held(s)
<1>1. StockDesk!Held(s) \in Nat /\ StockDesk!Ringfenced(s) \in Nat /\ StockDesk!OnShelf(s) \in Int
  BY DEF ShopRow, StockDesk!Held, StockDesk!Ringfenced, StockDesk!OnShelf, StockDesk!Committed, StockDesk!Most
<1> QED BY <1>1 DEF ShopRow, StockRow, StockDesk!RowOf

LEMMA FreeIsWithinBounds ==
  ASSUME NEW r \in StockRow, MaxCopies \in Nat
  PROVE  StockDesk!free(r) \in 0 .. MaxCopies
BY DEF StockRow, StockDesk!free, StockDesk!Most

LEMMA StockBegins ==
  ASSUME StockDesk!StockDeskInit, MaxCopies \in Nat, MaxReleases \in Nat
  PROVE  StockInv
<1> USE DEF StockDesk!StockDeskInit
<1>1. StockDesk!NoRow \in StockRow
  BY DEF StockRow, StockDesk!NoRow
<1>2. shop \in ShopRow
  BY DEF ShopRow
<1>3. desk \in StockPage
  BY <1>1 DEF StockPage, StockDesk!NoDialog
<1>4. StockDesk!NoTask \in StockTask
  BY <1>1 DEF StockTask, StockDesk!NoTask
<1>5. task \in StockTask /\ task.step = "load"
  BY <1>4 DEF StockTask
<1> QED BY <1>2, <1>3, <1>5 DEF StockInv, TaskIsFresh, Asking

(* A request starts on a row of the page, fresh if the row still is.       *)
LEMMA StockRequest ==
  ASSUME StockInv, MaxCopies \in Nat, NEW step \in Asking, NEW r \in StockRow, NEW hold \in 0 .. MaxCopies,
         step \in {"open", "resize", "replace"} => hold <= StockDesk!free(r),
         StockDesk!Start(step, r, hold), UNCHANGED <<shop, desk>>
  PROVE  StockInv'
<1>1. task' = [step |-> step, row |-> r, hold |-> hold, fresh |-> r = StockDesk!RowOf(shop)]
  BY DEF StockDesk!Start
<1>2. task' \in StockTask
  BY <1>1 DEF StockTask, Asking
<1>3. TaskIsFresh'
  BY <1>1, RowOfIsARow DEF StockInv, TaskIsFresh, StockDesk!Held, StockDesk!free
<1> QED BY <1>2, <1>3 DEF StockInv

LEMMA StockPageSteps ==
  ASSUME StockInv, MaxCopies \in Nat, MaxReleases \in Nat,
         \/ \E kind \in {"receive", "correct", "share"} : StockDesk!OpenDialog(kind)
         \/ StockDesk!CloseDialog \/ StockDesk!SaveStock \/ StockDesk!SaveShare \/ StockDesk!CloseShare
         \/ StockDesk!Failed \/ StockDesk!Reread
  PROVE  StockInv'
<1>0. /\ desk \in StockPage /\ desk.row \in StockRow /\ desk.dialog.row \in StockRow
      /\ shop \in ShopRow /\ StockDesk!NoRow \in StockRow /\ StockDesk!NoTask \in StockTask
  BY DEF StockInv, StockPage, StockTask, StockRow, StockDesk!NoTask, StockDesk!NoRow
<1>1. ASSUME desk' \in StockPage, UNCHANGED shop, task' \in {task, StockDesk!NoTask} PROVE StockInv'
  <2>1. CASE task' = task
    BY <1>0, <1>1, <2>1 DEF StockInv, TaskIsFresh, StockDesk!Held
  <2>2. CASE task' = StockDesk!NoTask
    <3>1. task'.fresh = FALSE /\ task'.step = "none"
      BY <2>2 DEF StockDesk!NoTask
    <3>2. TaskIsFresh'
      BY <3>1 DEF TaskIsFresh
    <3> QED BY <1>0, <1>1, <2>2, <3>2 DEF StockInv
  <2> QED BY <1>1, <2>1, <2>2
<1>2. CASE \E kind \in {"receive", "correct", "share"} : StockDesk!OpenDialog(kind)
  <2>1. desk' \in StockPage
    BY <1>0, <1>2 DEF StockPage, StockDesk!OpenDialog
  <2> QED BY <1>1, <1>2, <2>1 DEF StockDesk!OpenDialog
<1>3. CASE StockDesk!CloseDialog
  <2>1. desk' \in StockPage
    BY <1>0, <1>3 DEF StockPage, StockDesk!CloseDialog, StockDesk!NoDialog
  <2> QED BY <1>1, <1>3, <2>1 DEF StockDesk!CloseDialog
<1>4. CASE StockDesk!SaveStock
  <2>1. PICK n \in 0 .. MaxCopies :
          /\ desk.dialog.kind = "receive" => n > 0 /\ desk.dialog.row.onHand + n <= MaxCopies
          /\ StockDesk!Start("count", desk.dialog.row,
                 IF desk.dialog.kind = "receive" THEN desk.dialog.row.onHand + n ELSE n)
    BY <1>4 DEF StockDesk!SaveStock
  <2> DEFINE hold == IF desk.dialog.kind = "receive" THEN desk.dialog.row.onHand + n ELSE n
  <2>2. hold \in 0 .. MaxCopies
    BY <1>0, <2>1 DEF StockRow
  <2> HIDE DEF hold
  <2> QED BY <1>0, <1>4, <2>1, <2>2, StockRequest DEF StockDesk!SaveStock, Asking, hold
<1>5. CASE StockDesk!SaveShare
  <2>1. PICK hold \in StockDesk!Offered(desk.dialog.row) :
          StockDesk!Start(StockDesk!FirstRequest(desk.dialog.row), desk.dialog.row, hold)
    BY <1>5 DEF StockDesk!SaveShare
  <2>2. hold \in 0 .. MaxCopies /\ hold <= StockDesk!free(desk.dialog.row)
    BY <1>0, FreeIsWithinBounds DEF StockDesk!Offered, StockDesk!Least
  <2>3. StockDesk!FirstRequest(desk.dialog.row) \in Asking
    BY DEF StockDesk!FirstRequest, Asking
  <2> QED BY <1>0, <1>5, <2>1, <2>2, <2>3, StockRequest DEF StockDesk!SaveShare
<1>6. CASE StockDesk!CloseShare
  BY <1>0, <1>6, StockRequest DEF StockDesk!CloseShare, Asking
<1>7. CASE StockDesk!Failed
  BY <1>0, <1>1, <1>7 DEF StockDesk!Failed
<1>8. CASE StockDesk!Reread
  <2>1. desk' \in StockPage
    BY <1>0, <1>8, RowOfIsARow DEF StockPage, StockDesk!Reread
  <2> QED BY <1>1, <1>8, <2>1 DEF StockDesk!Reread
<1> QED BY <1>2, <1>3, <1>4, <1>5, <1>6, <1>7, <1>8

(* What a request makes of the shop.                                       *)
ShopIsSound(s) ==
  s \in ShopRow /\ s.release <= s.opened /\ (s.release = 0 => s.live = 0 /\ s.sold = 0 /\ s.copies = 0)

LEMMA ClosedAndOpened ==
  ASSUME NEW s, ShopIsSound(s), MaxReleases \in Nat
  PROVE  /\ ShopIsSound(StockDesk!Closed(s))
         /\ StockDesk!Closed(s).stock = s.stock /\ StockDesk!Held(StockDesk!Closed(s)) = StockDesk!Held(s)
         /\ \A copies0 \in Nat : s.release = 0 /\ s.opened < MaxReleases =>
              /\ ShopIsSound(StockDesk!Opened(s, copies0))
              /\ StockDesk!Opened(s, copies0).copies = copies0 /\ StockDesk!Opened(s, copies0).release # 0
              /\ StockDesk!Opened(s, copies0).stock = s.stock
              /\ StockDesk!Opened(s, copies0).live = 0 /\ StockDesk!Opened(s, copies0).sold = 0
              /\ StockDesk!Held(StockDesk!Opened(s, copies0)) = StockDesk!Held(s)
<1>1. s \in ShopRow /\ s.release <= s.opened /\ (s.release = 0 => s.live = 0 /\ s.sold = 0 /\ s.copies = 0)
  BY DEF ShopIsSound
<1>2. /\ ShopIsSound(StockDesk!Closed(s))
      /\ StockDesk!Closed(s).stock = s.stock /\ StockDesk!Held(StockDesk!Closed(s)) = StockDesk!Held(s)
  <2>1. /\ s.live \in Nat /\ s.old \in Nat /\ s.stock \in 0 .. MaxCopies /\ s.opened \in 0 .. MaxReleases
        /\ s.moves \in Nat /\ s.old + s.live \in Nat
    BY <1>1 DEF ShopRow
  <2> DEFINE out == [s EXCEPT !.release = 0]
             shut == [out EXCEPT !.copies = 0]
             moved == [shut EXCEPT !.old = s.old + s.live]
             last == [moved EXCEPT !.live = 0, !.sold = 0]
  <2>11. out \in ShopRow /\ out.release = 0 /\ out.stock = s.stock /\ out.opened = s.opened
    BY <1>1, <2>1 DEF ShopRow
  <2> HIDE DEF out
  <2>2. /\ shut \in ShopRow /\ shut.release = 0 /\ shut.copies = 0 /\ shut.stock = s.stock
        /\ shut.opened = s.opened
    BY <2>11 DEF ShopRow
  <2> HIDE DEF shut
  <2>3. /\ moved \in ShopRow /\ moved.release = 0 /\ moved.copies = 0 /\ moved.stock = s.stock
        /\ moved.opened = s.opened /\ moved.old = s.old + s.live
    BY <2>1, <2>2 DEF ShopRow
  <2> HIDE DEF moved
  <2>4. /\ last \in ShopRow /\ last.release = 0 /\ last.copies = 0 /\ last.stock = s.stock
        /\ last.opened = s.opened /\ last.old = s.old + s.live /\ last.live = 0 /\ last.sold = 0
    BY <2>3 DEF ShopRow
  <2>5. StockDesk!Closed(s) = last
    BY DEF StockDesk!Closed, out, shut, moved
  <2> HIDE DEF last
  <2> QED BY <2>1, <2>4, <2>5 DEF ShopIsSound, StockDesk!Held
<1>3. ASSUME NEW copies0 \in Nat, s.release = 0, s.opened < MaxReleases
      PROVE  /\ ShopIsSound(StockDesk!Opened(s, copies0))
             /\ StockDesk!Opened(s, copies0).copies = copies0 /\ StockDesk!Opened(s, copies0).release # 0
             /\ StockDesk!Opened(s, copies0).stock = s.stock
             /\ StockDesk!Opened(s, copies0).live = 0 /\ StockDesk!Opened(s, copies0).sold = 0
             /\ StockDesk!Held(StockDesk!Opened(s, copies0)) = StockDesk!Held(s)
  <2>1. /\ s.live = 0 /\ s.sold = 0 /\ s.old \in Nat /\ s.stock \in 0 .. MaxCopies
        /\ s.opened + 1 \in 0 .. MaxReleases /\ s.opened + 1 # 0 /\ s.moves \in Nat
    BY <1>1, <1>3 DEF ShopRow
  <2> DEFINE open == [s EXCEPT !.release = s.opened + 1, !.opened = s.opened + 1]
             last == [open EXCEPT !.copies = copies0]
  <2>2. /\ open \in ShopRow /\ open.release = s.opened + 1 /\ open.opened = s.opened + 1
        /\ open.stock = s.stock /\ open.live = 0 /\ open.sold = 0 /\ open.old = s.old
    BY <1>1, <2>1 DEF ShopRow
  <2> HIDE DEF open
  <2>3. /\ last \in ShopRow /\ last.release = s.opened + 1 /\ last.opened = s.opened + 1
        /\ last.stock = s.stock /\ last.live = 0 /\ last.sold = 0 /\ last.old = s.old
        /\ last.copies = copies0
    BY <1>3, <2>2 DEF ShopRow
  <2>4. StockDesk!Opened(s, copies0) = last
    BY DEF StockDesk!Opened, open
  <2> HIDE DEF last
  <2> QED BY <1>3, <2>1, <2>3, <2>4 DEF ShopIsSound, StockDesk!Held
<1> QED BY <1>2, <1>3

LEMMA StockServed ==
  ASSUME StockInv, MaxCopies \in Nat, MaxReleases \in Nat, StockDesk!Serve
  PROVE  StockInv' /\ StockDesk!ShelfIsAsDrawn
<1>0. /\ ShopIsSound(shop) /\ shop \in ShopRow /\ task \in StockTask /\ desk \in StockPage
      /\ task.step \in Asking /\ task.row \in StockRow /\ task.hold \in 0 .. MaxCopies
  BY DEF StockInv, ShopIsSound, StockTask, Asking, StockDesk!Serve, StockDesk!busy
<1>1. desk' \in StockPage
  <2>1. desk' \in {desk, [desk EXCEPT !.dialog = StockDesk!NoDialog]}
    BY DEF StockDesk!Serve
  <2>2. StockDesk!NoDialog.row \in StockRow
    BY DEF StockRow, StockDesk!NoDialog, StockDesk!NoRow
  <2> QED BY <1>0, <2>1, <2>2 DEF StockPage, StockDesk!NoDialog
<1>2. \A step \in {"load", "failed", "open"} : [task EXCEPT !.step = step] \in StockTask
  BY <1>0 DEF StockTask
<1>3. \E step \in {"load", "failed", "open"} :
        task' = [task EXCEPT !.step = step] /\ (step = "open" => task.step = "replace")
  BY DEF StockDesk!Serve
<1>4. task' \in StockTask /\ task'.row = task.row /\ task'.hold = task.hold /\ task'.fresh = task.fresh
      /\ task'.step \in {"load", "failed", "open"}
      /\ (task'.step = "open" => task.step = "replace" /\ StockDesk!Accepted /\ shop' = StockDesk!Effect)
  BY <1>0, <1>2, <1>3 DEF StockTask, StockDesk!Serve
<1>5. CASE UNCHANGED shop /\ task'.step = "failed"
  BY <1>0, <1>1, <1>4, <1>5 DEF StockInv, TaskIsFresh, Asking, StockDesk!ShelfIsAsDrawn
<1>6. CASE StockDesk!Accepted /\ shop' = StockDesk!Effect
  <2>1. CASE task.step = "count"
    <3>1. shop' = [shop EXCEPT !.stock = task.hold]
      BY <1>6, <2>1 DEF StockDesk!Effect
    <3>2. ShopIsSound(shop')
      BY <1>0, <3>1 DEF ShopIsSound, ShopRow
    <3> QED BY <1>1, <1>4, <2>1, <3>2 DEF StockInv, ShopIsSound, TaskIsFresh, Asking, StockDesk!ShelfIsAsDrawn
  <2>2. CASE task.step \in {"close", "replace"}
    <3>1. shop' = StockDesk!Closed(shop)
      BY <1>6, <2>2 DEF StockDesk!Effect
    <3>2. /\ ShopIsSound(shop') /\ shop'.stock = shop.stock
          /\ StockDesk!Held(shop') = StockDesk!Held(shop)
      BY <1>0, <3>1, ClosedAndOpened
    <3>3. TaskIsFresh'
      BY <1>4, <2>2, <3>2 DEF StockInv, TaskIsFresh, Asking, StockDesk!Held, StockDesk!free
    <3> QED BY <1>1, <1>4, <2>2, <3>2, <3>3 DEF StockInv, ShopIsSound, StockDesk!ShelfIsAsDrawn
  <2>3. ASSUME task.step \in {"open", "resize"}, ShopIsSound(shop'), shop'.stock = shop.stock,
               StockDesk!Held(shop') = StockDesk!Held(shop), shop'.release # 0,
               shop'.copies = StockDesk!Committed(shop') + task.hold
        PROVE  StockInv' /\ StockDesk!ShelfIsAsDrawn
    <3>1. TaskIsFresh'
      BY <1>4, <2>3 DEF TaskIsFresh, Asking
    <3>2. StockDesk!Ringfenced(shop') = task.hold
      BY <1>0, <2>3 DEF StockDesk!Ringfenced, StockDesk!Most, StockDesk!Committed, ShopIsSound, ShopRow
    <3>3. task.hold <= StockDesk!free(task.row)
      BY <2>3 DEF StockInv, TaskIsFresh
    <3>4. ASSUME task.fresh, task.row.promised <= task.row.onHand
          PROVE  StockDesk!OnShelf(shop') = StockDesk!free(task.row) - task.hold /\ StockDesk!OnShelf(shop') >= 0
      <4>1. task.row.onHand = shop.stock /\ task.row.promised = StockDesk!Held(shop)
        BY <2>3, <3>4 DEF StockInv, TaskIsFresh, Asking
      <4>2. StockDesk!free(task.row) = shop.stock - StockDesk!Held(shop)
        BY <1>0, <3>4, <4>1 DEF StockDesk!free, StockDesk!Most, StockRow
      <4>3. StockDesk!OnShelf(shop') = shop.stock - StockDesk!Held(shop) - task.hold
        BY <2>3, <3>2 DEF StockDesk!OnShelf
      <4>4. StockDesk!Held(shop) \in Nat /\ shop.stock \in Nat
        BY <1>0 DEF ShopRow, StockDesk!Held
      <4> QED BY <1>0, <3>3, <4>2, <4>3, <4>4
    <3> QED BY <1>1, <1>4, <2>3, <3>1, <3>2, <3>4 DEF StockInv, ShopIsSound, StockDesk!ShelfIsAsDrawn
  <2>4. CASE task.step = "open"
    <3>1. shop' = StockDesk!Opened(shop, task.hold) /\ shop.release = 0 /\ shop.opened < MaxReleases
      BY <1>6, <2>4 DEF StockDesk!Effect, StockDesk!Accepted
    <3> QED BY <1>0, <2>3, <2>4, <3>1, ClosedAndOpened DEF StockDesk!Committed
  <2>5. CASE task.step = "resize"
    <3>1. /\ shop' = [shop EXCEPT !.copies = StockDesk!Committed(shop) + task.hold]
          /\ shop.release # 0
      BY <1>6, <2>5 DEF StockDesk!Effect, StockDesk!Accepted, StockDesk!ResizedTo, StockDesk!IsOpen
    <3>2. StockDesk!Committed(shop) \in Nat
      BY <1>0 DEF StockDesk!Committed, ShopRow
    <3>3. ShopIsSound(shop')
      BY <1>0, <3>1, <3>2 DEF ShopIsSound, ShopRow
    <3>4. /\ shop'.stock = shop.stock /\ shop'.live = shop.live /\ shop'.old = shop.old
          /\ shop'.sold = shop.sold /\ shop'.release = shop.release
          /\ shop'.copies = StockDesk!Committed(shop) + task.hold
      BY <1>0, <3>1 DEF ShopRow
    <3> QED BY <2>3, <2>5, <3>1, <3>3, <3>4 DEF StockDesk!Held, StockDesk!Committed
  <2> QED BY <1>0, <2>1, <2>2, <2>4, <2>5 DEF Asking
<1>7. (UNCHANGED shop /\ task'.step = "failed") \/ (StockDesk!Accepted /\ shop' = StockDesk!Effect)
  BY <1>0 DEF StockDesk!Serve, StockTask
<1> QED BY <1>5, <1>6, <1>7

LEMMA StockMoves ==
  ASSUME StockInv, MaxCopies \in Nat, MaxReleases \in Nat, StockDesk!Elsewhere
  PROVE  StockInv'
<1>0. ShopIsSound(shop) /\ shop \in ShopRow /\ task \in StockTask
  BY DEF StockInv, ShopIsSound
<1>1. PICK t \in StockDesk!Moves(shop) \cup (IF shop.release = 0 THEN {} ELSE {StockDesk!Closed(shop)})
              \cup (IF shop.release # 0 \/ shop.opened = MaxReleases THEN {} ELSE {StockDesk!Opened(shop, 1)}) :
        shop' = [t EXCEPT !.moves = shop.moves + 1]
  BY DEF StockDesk!Elsewhere
<1>2. ShopIsSound(t)
  <2>1. CASE t \in StockDesk!Moves(shop)
    <3>1. t.live >= 0 /\ t.old >= 0 /\ t.stock \in 0 .. MaxCopies /\ (t.live > shop.live => shop.release # 0)
      BY <2>1 DEF StockDesk!Moves
    <3>2. t \in {[shop EXCEPT !.stock = shop.stock - 1], [shop EXCEPT !.stock = shop.stock + 1],
                 [shop EXCEPT !.live = shop.live + 1], [shop EXCEPT !.live = shop.live - 1],
                 [shop EXCEPT !.old = shop.old - 1],
                 [shop EXCEPT !.live = shop.live - 1, !.stock = shop.stock - 1, !.sold = shop.sold + 1],
                 [shop EXCEPT !.old = shop.old - 1, !.stock = shop.stock - 1]}
      BY <2>1 DEF StockDesk!Moves
    <3>21. \/ t \in {[shop EXCEPT !.stock = shop.stock - 1], [shop EXCEPT !.stock = shop.stock + 1],
                      [shop EXCEPT !.live = shop.live + 1], [shop EXCEPT !.live = shop.live - 1],
                      [shop EXCEPT !.old = shop.old - 1]}
           \/ t = [shop EXCEPT !.live = shop.live - 1, !.stock = shop.stock - 1, !.sold = shop.sold + 1]
           \/ t = [shop EXCEPT !.old = shop.old - 1, !.stock = shop.stock - 1]
      BY <3>2
    <3>3. CASE t \in {[shop EXCEPT !.stock = shop.stock - 1], [shop EXCEPT !.stock = shop.stock + 1]}
      BY <1>0, <3>1, <3>3 DEF ShopIsSound, ShopRow
    <3>4. CASE t \in {[shop EXCEPT !.live = shop.live + 1], [shop EXCEPT !.live = shop.live - 1]}
      BY <1>0, <3>1, <3>4 DEF ShopIsSound, ShopRow
    <3>5. CASE t = [shop EXCEPT !.old = shop.old - 1]
      BY <1>0, <3>1, <3>5 DEF ShopIsSound, ShopRow
    <3>6. CASE t = [shop EXCEPT !.live = shop.live - 1, !.stock = shop.stock - 1, !.sold = shop.sold + 1]
      <4> DEFINE bought == [shop EXCEPT !.live = shop.live - 1]
                 gone == [bought EXCEPT !.stock = shop.stock - 1]
      <4>1. /\ shop.live - 1 >= 0 /\ shop.stock - 1 \in 0 .. MaxCopies /\ shop.sold + 1 \in Nat
        BY <1>0, <3>1, <3>6 DEF ShopRow
      <4>11. bought \in ShopRow /\ bought.release = shop.release /\ bought.opened = shop.opened
        BY <1>0, <4>1 DEF ShopRow
      <4> HIDE DEF bought
      <4>2. gone \in ShopRow /\ gone.release = shop.release /\ gone.opened = shop.opened
        BY <4>1, <4>11 DEF ShopRow
      <4>3. shop.release # 0
        BY <1>0, <4>1 DEF ShopIsSound, ShopRow
      <4>4. t = [gone EXCEPT !.sold = shop.sold + 1]
        BY <3>6 DEF bought
      <4> HIDE DEF gone
      <4>5. t \in ShopRow /\ t.release = shop.release /\ t.opened = shop.opened
        BY <4>1, <4>2, <4>4 DEF ShopRow
      <4> QED BY <1>0, <4>3, <4>5 DEF ShopIsSound
    <3>7. CASE t = [shop EXCEPT !.old = shop.old - 1, !.stock = shop.stock - 1]
      <4> DEFINE bought == [shop EXCEPT !.old = shop.old - 1]
      <4>1. shop.old - 1 >= 0 /\ shop.stock - 1 \in 0 .. MaxCopies
        BY <1>0, <3>1, <3>7 DEF ShopRow
      <4>2. /\ bought \in ShopRow /\ bought.release = shop.release /\ bought.opened = shop.opened
            /\ bought.live = shop.live /\ bought.sold = shop.sold /\ bought.copies = shop.copies
        BY <1>0, <4>1 DEF ShopRow
      <4>3. t = [bought EXCEPT !.stock = shop.stock - 1]
        BY <3>7
      <4> HIDE DEF bought
      <4>4. /\ t \in ShopRow /\ t.release = shop.release /\ t.opened = shop.opened
            /\ t.live = shop.live /\ t.sold = shop.sold /\ t.copies = shop.copies
        BY <4>1, <4>2, <4>3 DEF ShopRow
      <4> QED BY <1>0, <4>4 DEF ShopIsSound
    <3> QED BY <3>21, <3>3, <3>4, <3>5, <3>6, <3>7
  <2>2. CASE t = StockDesk!Closed(shop)
    BY <1>0, <2>2, ClosedAndOpened
  <2>3. CASE t = StockDesk!Opened(shop, 1) /\ shop.release = 0 /\ shop.opened # MaxReleases
    <3>1. shop.opened < MaxReleases
      BY <1>0, <2>3 DEF ShopRow
    <3> QED BY <1>0, <2>3, <3>1, ClosedAndOpened
  <2> QED BY <1>1, <2>1, <2>2, <2>3
<1>3. ShopIsSound(shop')
  BY <1>0, <1>1, <1>2 DEF ShopIsSound, ShopRow
<1>4. task' \in StockTask /\ ~task'.fresh /\ task'.row = task.row /\ task'.hold = task.hold /\ task'.step = task.step
  BY <1>0 DEF StockTask, StockDesk!Elsewhere
<1>5. UNCHANGED desk
  BY DEF StockDesk!Elsewhere
<1> QED BY <1>3, <1>4, <1>5 DEF StockInv, ShopIsSound, TaskIsFresh

LEMMA StockSteps ==
  ASSUME StockInv, MaxCopies \in Nat, MaxReleases \in Nat, StockDesk!StockDeskNext
  PROVE  StockInv' /\ StockDesk!ShelfIsAsDrawn
<1>1. ASSUME StockInv', task'.step # "load" \/ task.step \notin {"open", "resize"}
      PROVE  StockInv' /\ StockDesk!ShelfIsAsDrawn
  BY <1>1 DEF StockDesk!ShelfIsAsDrawn
<1>2. CASE StockDesk!Serve
  BY <1>2, StockServed
<1>3. CASE StockDesk!Elsewhere
  <2>1. task'.step = task.step
    BY <1>3 DEF StockDesk!Elsewhere, StockInv, StockTask
  <2> QED BY <1>1, <1>3, <2>1, StockMoves
<1>4. CASE \/ \E kind \in {"receive", "correct", "share"} : StockDesk!OpenDialog(kind)
           \/ StockDesk!CloseDialog \/ StockDesk!SaveStock \/ StockDesk!SaveShare \/ StockDesk!CloseShare
           \/ StockDesk!Failed \/ StockDesk!Reread
  <2>1. task'.step # "load" \/ task.step \notin {"open", "resize"}
    BY <1>4 DEF StockDesk!OpenDialog, StockDesk!CloseDialog, StockDesk!SaveStock, StockDesk!SaveShare,
       StockDesk!CloseShare, StockDesk!Failed, StockDesk!Reread, StockDesk!busy, StockDesk!NoTask
  <2> QED BY <1>1, <1>4, <2>1, StockPageSteps
<1> QED BY <1>2, <1>3, <1>4 DEF StockDesk!StockDeskNext

-----------------------------------------------------------------------------
(* The Invite-batch page. *)

(* The page and its rows have the parts they have; the Invite-batch page   *)
(* only ever asks for its two tabs.                                        *)
ScreenPage ==
  screen = [page |-> screen.page, tab |-> screen.tab, book |-> screen.book, items |-> screen.items,
            selected |-> screen.selected, header |-> screen.header]
BatchReload ==
  {WaitlistDesk!NoReload} \cup [stage : {"sent"}, tab : {"new", "reinvite"}, book : {NoBook}, spendable : {0}]

BatchInv ==
  /\ ScreenPage
  /\ screen.page = "batch" =>
       /\ screen.tab \in {"new", "reinvite"}
       /\ reloads \in [Load -> BatchReload]
       /\ screen.selected \subseteq {r.id : r \in screen.items}

LEMMA BatchBegins ==
  ASSUME WaitlistDesk!WaitlistDeskInit
  PROVE  BatchInv
<1>1. PICK at \in {"list", "batch"} :
        screen = [page |-> at, tab |-> IF at = "list" THEN "WAITING" ELSE "new", book |-> NoBook,
                  items |-> {}, selected |-> {}, header |-> WaitlistDesk!NoHeader]
  BY DEF WaitlistDesk!WaitlistDeskInit
<1>2. reloads = [l \in Load |-> WaitlistDesk!NoReload]
  BY DEF WaitlistDesk!WaitlistDeskInit
<1> QED BY <1>1, <1>2 DEF BatchInv, ScreenPage, BatchReload

(* The list page has nothing to keep here: of it only the parts.           *)
LEMMA ListPageGoesOn ==
  ASSUME screen.page # "batch", ScreenPage', screen'.page = screen.page
  PROVE  BatchInv'
BY DEF BatchInv

(* Nothing is taken from the ticks without the rows they are on.           *)
LEMMA TicksGoOn ==
  ASSUME BatchInv, ScreenPage', screen'.page = screen.page, screen'.tab = screen.tab,
         reloads' \in [Load -> BatchReload] \/ UNCHANGED reloads,
         screen'.selected \subseteq {r.id : r \in screen'.items} \/
           (screen'.selected = screen.selected /\ screen'.items = screen.items)
  PROVE  BatchInv'
<1>1. CASE screen.page # "batch"
  BY <1>1, ListPageGoesOn
<1>2. CASE screen.page = "batch"
  BY <1>2 DEF BatchInv
<1> QED BY <1>1, <1>2

LEMMA AskingGoesOn ==
  ASSUME BatchInv, screen.page = "batch", NEW tab \in {"new", "reinvite"}, WaitlistDesk!Ask(tab, NoBook)
  PROVE  reloads' \in [Load -> BatchReload]
<1>1. PICK l \in Load : /\ reloads[l] = WaitlistDesk!NoReload
                        /\ reloads' = [reloads EXCEPT ![l] = [WaitlistDesk!NoReload EXCEPT
                             !.stage = "sent", !.tab = tab, !.book = NoBook]]
  BY DEF WaitlistDesk!Ask
<1>2. [WaitlistDesk!NoReload EXCEPT !.stage = "sent", !.tab = tab, !.book = NoBook] \in BatchReload
  BY DEF BatchReload, WaitlistDesk!NoReload
<1> QED BY <1>1, <1>2 DEF BatchInv

(* An answer ticks some of the rows it brings.                             *)
LEMMA AnswerTicksItsRows ==
  ASSUME BatchInv, screen.page = "batch", NEW l \in Load, WaitlistDesk!ReloadArrives(l)
  PROVE  /\ reloads' \in [Load -> BatchReload]
         /\ \/ UNCHANGED screen
            \/ \E shown, ticked : /\ ticked \subseteq shown
                                  /\ screen' = [screen EXCEPT !.items = shown, !.selected = {r.id : r \in ticked}]
<1> DEFINE shown == WaitlistDesk!Rows(reloads[l].tab, reloads[l].book)
           ticked == CASE screen.page = "list" -> {}
                       [] reloads[l].tab = "reinvite" -> {r \in shown : WaitlistDesk!needsAnotherLink(r)}
                       [] reloads[l].tab = "new" -> shown
<1>1. reloads[l].stage = "sent" /\ reloads[l] \in BatchReload
  BY DEF BatchInv, WaitlistDesk!ReloadArrives
<1>2. reloads[l].tab \in {"new", "reinvite"}
  BY <1>1 DEF BatchReload, WaitlistDesk!NoReload
<1>3. ticked \subseteq shown
  <2> HIDE DEF shown
  <2> QED BY <1>2
<1>4. UNCHANGED screen \/ screen' = [screen EXCEPT !.items = shown, !.selected = {r.id : r \in ticked}]
  BY DEF WaitlistDesk!ReloadArrives
<1>5. reloads' = [reloads EXCEPT ![l] = WaitlistDesk!NoReload]
  BY DEF WaitlistDesk!ReloadArrives
<1>6. reloads' \in [Load -> BatchReload]
  BY <1>5 DEF BatchInv, BatchReload
<1> HIDE DEF shown, ticked
<1> QED BY <1>3, <1>4, <1>6

-----------------------------------------------------------------------------
(* The waves. *)

(* A set of numbers has a least one. *)
LEMMA ThereIsAFirst ==
  ASSUME NEW S \in SUBSET Nat, S # {}
  PROVE  \E m \in S : \A k \in S : m <= k
<1>1. PICK m \in S : \A k \in S : ~(<<k, m>> \in OpToRel(<, Nat))
  BY NatLessThanWellFounded, WFMin
<1>2. \A k \in S : ~(k < m)
  BY <1>1 DEF OpToRel
<1> QED BY <1>2

(* What an entry may be. *)
WaitlistEntry ==
  [book : Book, quantity : Quantity, status : {"PENDING", "NOTIFIED", "CANCELLED", "CONVERTED"},
   invite : {"none", "live", "lapsed", "spent"}, ordered : BOOLEAN, failed : BOOLEAN, turns : 0..MaxTurns]

EntryTypes ==
  /\ entry \in [WaitlistDesk!Entry -> WaitlistEntry]
  /\ copies \in [Book -> 0..MaxRelease]

(* Where an entry is in the queue. *)
LEMMA PlacesInLine ==
  /\ IsFiniteSet(WaitlistDesk!Entry)
  /\ \E place \in [WaitlistDesk!Entry -> Nat] :
       /\ \A d, e \in WaitlistDesk!Entry : place[d] = place[e] => d = e
       /\ \A d, e \in WaitlistDesk!Entry :
            WaitlistDesk!Before(d, e) <=> \/ entry[d].turns < entry[e].turns
                                          \/ entry[d].turns = entry[e].turns /\ place[d] < place[e]
<1> DEFINE E == WaitlistDesk!Entry
           place == [e \in E |-> CHOOSE i \in DOMAIN Queue : Queue[i] = e]
<1>1. E = {Queue[i] : i \in DOMAIN Queue}
  BY DEF WaitlistDesk!Entry, WaitlistDesk!Range
<1>2. DOMAIN Queue = 1..Len(Queue) /\ Len(Queue) \in Nat
  BY DesksAssumption DEF DesksAssumption
<1>4. \A e \in E : place[e] \in DOMAIN Queue /\ Queue[place[e]] = e
  BY <1>1
<1> HIDE DEF place
<1>5. \A d, e \in E : WaitlistDesk!Before(d, e) <=> \/ entry[d].turns < entry[e].turns
                                                    \/ entry[d].turns = entry[e].turns /\ place[d] < place[e]
  <2>1. ASSUME NEW d \in E, NEW e \in E
        PROVE  (\E i, j \in DOMAIN Queue : i < j /\ Queue[i] = d /\ Queue[j] = e) <=> place[d] < place[e]
    BY <1>4, DesksAssumption DEF DesksAssumption
  <2> QED BY <2>1 DEF WaitlistDesk!Before
<1>6. place \in [E -> Nat]
  <2>1. \A e \in E : place[e] \in Nat
    BY <1>2, <1>4
  <2>2. place = [e \in E |-> place[e]]
    BY DEF place
  <2> QED BY <2>1, <2>2
<1>7. \A d, e \in E : place[d] = place[e] => d = e
  BY <1>4
<1>8. IsFiniteSet(E)
  <2>1. place \in Injection(E, 1..Len(Queue))
    BY <1>2, <1>4, <1>6, <1>7 DEF Injection, IsInjective
  <2>2. IsFiniteSet(1..Len(Queue))
    BY <1>2, FS_Interval
  <2> QED BY <2>1, <2>2, FS_Injection
<1> QED BY <1>5, <1>6, <1>7, <1>8

(* Turns and places put the entries in one line. *)
LEMMA OneLine ==
  ASSUME EntryTypes
  PROVE  \A d, e \in WaitlistDesk!Entry :
           /\ WaitlistDesk!Before(d, e) => ~WaitlistDesk!Before(e, d)
           /\ ~WaitlistDesk!Before(e, e)
           /\ d # e => WaitlistDesk!Before(d, e) \/ WaitlistDesk!Before(e, d)
<1>1. PICK place \in [WaitlistDesk!Entry -> Nat] :
       /\ \A d, e \in WaitlistDesk!Entry : place[d] = place[e] => d = e
       /\ \A d, e \in WaitlistDesk!Entry :
            WaitlistDesk!Before(d, e) <=> \/ entry[d].turns < entry[e].turns
                                          \/ entry[d].turns = entry[e].turns /\ place[d] < place[e]
  BY PlacesInLine
<1>2. \A e \in WaitlistDesk!Entry : entry[e].turns \in Nat
  BY DesksAssumption DEF DesksAssumption, EntryTypes, WaitlistEntry
<1> QED BY <1>1, <1>2

(* And of any of them somebody is first. *)
LEMMA SomebodyIsFirst ==
  ASSUME EntryTypes, NEW S \in SUBSET WaitlistDesk!Entry, S # {}
  PROVE  /\ WaitlistDesk!First(S) \in S
         /\ \A d \in S \ {WaitlistDesk!First(S)} : WaitlistDesk!Before(WaitlistDesk!First(S), d)
<1>1. PICK place \in [WaitlistDesk!Entry -> Nat] :
       /\ \A d, e \in WaitlistDesk!Entry : place[d] = place[e] => d = e
       /\ \A d, e \in WaitlistDesk!Entry :
            WaitlistDesk!Before(d, e) <=> \/ entry[d].turns < entry[e].turns
                                          \/ entry[d].turns = entry[e].turns /\ place[d] < place[e]
  BY PlacesInLine
<1>2. \A e \in WaitlistDesk!Entry : entry[e].turns \in Nat
  BY DesksAssumption DEF DesksAssumption, EntryTypes, WaitlistEntry
<1>3. PICK t \in {entry[e].turns : e \in S} : \A u \in {entry[e].turns : e \in S} : t <= u
  <2> DEFINE T == {entry[e].turns : e \in S}
  <2>1. T \in SUBSET Nat /\ T # {}
    BY <1>2
  <2> HIDE DEF T
  <2>2. \E m \in T : \A k \in T : m <= k
    BY <2>1, ThereIsAFirst
  <2> QED BY <2>2 DEF T
<1> DEFINE P == {place[e] : e \in {d \in S : entry[d].turns = t}}
<1>4. PICK p \in P : \A q \in P : p <= q
  <2>1. P \in SUBSET Nat /\ P # {}
    BY <1>3
  <2> HIDE DEF P
  <2> QED BY <2>1, ThereIsAFirst
<1>5. PICK e \in S : entry[e].turns = t /\ place[e] = p
  BY <1>4
<1>6. ASSUME NEW d \in S \ {e} PROVE WaitlistDesk!Before(e, d)
  <2>1. t <= entry[d].turns /\ t \in Nat /\ entry[d].turns \in Nat
    BY <1>2, <1>3
  <2>2. CASE entry[d].turns = t
    <3>1. p <= place[d] /\ place[d] # p /\ p \in Nat /\ place[d] \in Nat
      BY <1>1, <1>4, <1>5, <2>2
    <3> QED BY <1>1, <1>5, <2>2, <3>1
  <2>3. CASE entry[d].turns # t
    BY <1>1, <1>5, <2>1, <2>3
  <2> QED BY <2>2, <2>3
<1> QED BY <1>6 DEF WaitlistDesk!First

(* The copies that the entries of a set ask for.                           *)
Asked(S) == UNION {{e} \X (1..entry[e].quantity) : e \in S}

LEMMA CopiesAreAsked == \A S : WaitlistDesk!CopiesOf(S) = Cardinality(Asked(S))
BY DEF Asked, WaitlistDesk!CopiesOf, WaitlistDesk!Cardinality, Cardinality, WaitlistDesk!IsFiniteSet,
   IsFiniteSet

LEMMA OneMoreAsks ==
  ASSUME EntryTypes, NEW S \in SUBSET WaitlistDesk!Entry, IsFiniteSet(Asked(S)),
         NEW e \in WaitlistDesk!Entry \ S
  PROVE  /\ IsFiniteSet(Asked(S \cup {e}))
         /\ WaitlistDesk!CopiesOf(S \cup {e}) = WaitlistDesk!CopiesOf(S) + entry[e].quantity
         /\ WaitlistDesk!CopiesOf(S) \in Nat
<1> DEFINE A == Asked(S)
           n == entry[e].quantity
           B == {e} \X (1..n)
<1>0. n \in Nat
  BY DesksAssumption DEF DesksAssumption, EntryTypes, WaitlistEntry
<1>1. Asked(S \cup {e}) = A \cup B
  BY DEF Asked
<1>2. A \cap B = {}
  BY DEF Asked
<1> HIDE DEF n
<1>3. IsFiniteSet(B) /\ Cardinality(B) = n
  <2>1. IsFiniteSet({e}) /\ Cardinality({e}) = 1
    BY FS_Singleton
  <2>2. IsFiniteSet(1..n) /\ Cardinality(1..n) = n
    BY <1>0, FS_Interval
  <2>3. IsFiniteSet(B) /\ Cardinality(B) = Cardinality({e}) * Cardinality(1..n)
    BY <2>1, <2>2, FS_Product
  <2> QED BY <1>0, <2>1, <2>2, <2>3
<1>4. IsFiniteSet(A)
  OBVIOUS
<1> HIDE DEF A, B
<1>5. /\ IsFiniteSet(A \cup B)
      /\ Cardinality(A \cup B) = Cardinality(A) + Cardinality(B) - Cardinality(A \cap B)
  BY <1>3, <1>4, FS_Union
<1>6. Cardinality(A \cap B) = 0 /\ Cardinality(A) \in Nat
  BY <1>2, <1>4, FS_EmptySet, FS_CardinalityType
<1>7. /\ IsFiniteSet(Asked(S \cup {e})) /\ Cardinality(Asked(S \cup {e})) = Cardinality(A) + n
      /\ Cardinality(A) \in Nat
  <2>1. Cardinality(A \cup B) = Cardinality(A) + n
    <3> DEFINE a == Cardinality(A)
               i == Cardinality(A \cap B)
    <3> HIDE DEF a, i
    <3>1. Cardinality(A \cup B) = a + n - i /\ i = 0 /\ a \in Nat
      BY <1>3, <1>5, <1>6 DEF a, i
    <3>2. Cardinality(A \cup B) = a + n
      BY <1>0, <3>1
    <3> QED BY <3>2 DEF a
  <2> QED BY <1>1, <1>5, <1>6, <2>1
<1>8. /\ WaitlistDesk!CopiesOf(S \cup {e}) = Cardinality(Asked(S \cup {e}))
      /\ WaitlistDesk!CopiesOf(S) = Cardinality(A)
  BY CopiesAreAsked DEF A
<1> QED BY <1>7, <1>8 DEF n

LEMMA NobodyAsks ==
  IsFiniteSet(Asked({})) /\ WaitlistDesk!CopiesOf({}) = 0
<1>1. Asked({}) = {}
  BY DEF Asked
<1> QED BY <1>1, CopiesAreAsked, FS_EmptySet

(* Everybody together ask for a number of copies. *)
LEMMA EverybodyAsks ==
  ASSUME EntryTypes
  PROVE  \A S \in SUBSET WaitlistDesk!Entry :
           IsFiniteSet(S) /\ IsFiniteSet(Asked(S)) /\ WaitlistDesk!CopiesOf(S) \in Nat
<1> DEFINE Sizes == {Cardinality(S) : S \in {T \in SUBSET WaitlistDesk!Entry : ~IsFiniteSet(Asked(T))}}
<1>1. \A S \in SUBSET WaitlistDesk!Entry : IsFiniteSet(S) /\ Cardinality(S) \in Nat
  BY PlacesInLine, FS_Subset, FS_CardinalityType
<1>2. Sizes = {}
  <2>1. SUFFICES ASSUME Sizes # {} PROVE FALSE
    OBVIOUS
  <2>2. PICK m \in Sizes : \A k \in Sizes : m <= k
    <3>1. Sizes \in SUBSET Nat
      BY <1>1
    <3> HIDE DEF Sizes
    <3> QED BY <2>1, <3>1, ThereIsAFirst
  <2>3. PICK S \in SUBSET WaitlistDesk!Entry : Cardinality(S) = m /\ ~IsFiniteSet(Asked(S))
    BY <2>2
  <2>4. S # {}
    BY <2>3, NobodyAsks
  <2>5. PICK e \in S : TRUE
    BY <2>4
  <2>6. IsFiniteSet(S \ {e}) /\ Cardinality(S \ {e}) = m - 1 /\ m \in Nat
    BY <1>1, <2>3, <2>5, FS_RemoveElement
  <2>7. IsFiniteSet(Asked(S \ {e}))
    <3>1. m - 1 \notin Sizes
      BY <2>2, <2>6
    <3> QED BY <2>6, <3>1
  <2> DEFINE R == S \ {e}
  <2>8. R \in SUBSET WaitlistDesk!Entry /\ IsFiniteSet(Asked(R)) /\ e \in WaitlistDesk!Entry \ R
        /\ R \cup {e} = S
    BY <2>5, <2>7
  <2> HIDE DEF R
  <2>9. IsFiniteSet(Asked(R \cup {e}))
    BY <2>8, OneMoreAsks
  <2> QED BY <2>3, <2>8, <2>9
<1>3. \A S \in SUBSET WaitlistDesk!Entry : IsFiniteSet(Asked(S))
  BY <1>2
<1> QED BY <1>1, <1>3, CopiesAreAsked, FS_CardinalityType

LEMMA SpendableIsANumber ==
  ASSUME EntryTypes, NEW b \in Book
  PROVE  WaitlistDesk!Spendable(b) \in Nat
<1> DEFINE taken == WaitlistDesk!CopiesOf({e \in WaitlistDesk!Entry :
                      entry[e].book = b /\ entry[e].invite \in {"live", "spent"}})
<1>1. taken \in Nat
  BY EverybodyAsks
<1>2. copies[b] \in Nat
  BY DesksAssumption DEF DesksAssumption, EntryTypes
<1>3. WaitlistDesk!Spendable(b) = WaitlistDesk!Max({copies[b] - taken, 0})
  BY DEF WaitlistDesk!Spendable
<1> HIDE DEF taken
<1> QED BY <1>1, <1>2, <1>3 DEF WaitlistDesk!Max

(* One step of the walk: whoever is first of those left is taken if their  *)
(* copies are still there.                                                 *)
WalkedFrom(plan) ==
  LET e == WaitlistDesk!First(plan.left)
  IN  WaitlistDesk!Walk([plan EXCEPT !.left = plan.left \ {e}], e)

AtTheDoor(b, s) ==
  [left |-> WaitlistDesk!Candidates(b), ids |-> {}, quantity |-> 0, spendable |-> s]

IsWalk(f, b, s, n) == f = [k \in 0..n |-> IF k = 0 THEN AtTheDoor(b, s) ELSE WalkedFrom(f[k - 1])]

LEMMA WalkExists ==
  ASSUME NEW b, NEW s, NEW N \in Nat
  PROVE  \E f : IsWalk(f, b, s, N)
<1> DEFINE Bad == {n \in Nat : ~\E f : IsWalk(f, b, s, n)}
<1>1. SUFFICES ASSUME Bad # {} PROVE FALSE
  OBVIOUS
<1>2. PICK m \in Bad : \A k \in Bad : m <= k
  <2> HIDE DEF Bad
  <2>1. Bad \subseteq Nat
    BY DEF Bad
  <2> QED BY <1>1, <2>1, ThereIsAFirst
<1>3. m # 0
  <2>1. IsWalk([k \in 0..0 |-> AtTheDoor(b, s)], b, s, 0)
    BY DEF IsWalk
  <2> QED BY <2>1
<1>4. m - 1 \in Nat /\ m - 1 \notin Bad
  BY <1>2, <1>3
<1>5. PICK f : IsWalk(f, b, s, m - 1)
  BY <1>4
<1> DEFINE g == [k \in 0..m |-> IF k = m THEN WalkedFrom(f[m - 1]) ELSE f[k]]
<1>6. ASSUME NEW i \in 0..m PROVE g[i] = IF i = 0 THEN AtTheDoor(b, s) ELSE WalkedFrom(g[i - 1])
  <2>1. \A j \in 0..(m - 1) : f[j] = IF j = 0 THEN AtTheDoor(b, s) ELSE WalkedFrom(f[j - 1])
    BY <1>4, <1>5 DEF IsWalk
  <2>2. \A j \in 0..(m - 1) : g[j] = f[j]
    BY <1>4
  <2>3. CASE i = m
    BY <1>3, <1>4, <2>2, <2>3
  <2>4. CASE i # m
    <3>1. i \in 0..(m - 1) /\ (i # 0 => i - 1 \in 0..(m - 1))
      BY <1>4, <2>4
    <3> QED BY <2>1, <2>2, <3>1
  <2> QED BY <2>3, <2>4
<1>7. IsWalk(g, b, s, m)
  <2>1. g = [k \in 0..m |-> g[k]]
    OBVIOUS
  <2> HIDE DEF g
  <2> QED BY <1>6, <2>1 DEF IsWalk
<1> QED BY <1>7

LEMMA ThePlanIsWalked ==
  ASSUME NEW b, NEW s, Cardinality(WaitlistDesk!Candidates(b)) \in Nat
  PROVE  \E f : /\ WaitlistDesk!WavePlan(b, s) = f[Cardinality(WaitlistDesk!Candidates(b))].ids
                /\ f[0] = AtTheDoor(b, s)
                /\ \A k \in 1..Cardinality(WaitlistDesk!Candidates(b)) : f[k] = WalkedFrom(f[k - 1])
<1> DEFINE N == WaitlistDesk!Cardinality(WaitlistDesk!Candidates(b))
           f == CHOOSE g : IsWalk(g, b, s, N)
<1>1. N = Cardinality(WaitlistDesk!Candidates(b))
  BY DEF WaitlistDesk!Cardinality, Cardinality, WaitlistDesk!IsFiniteSet, IsFiniteSet
<1>2. WaitlistDesk!WavePlan(b, s) = f[N].ids
  BY DEF WaitlistDesk!WavePlan, IsWalk, WalkedFrom, AtTheDoor
<1> HIDE DEF N
<1>3. IsWalk(f, b, s, N)
  BY <1>1, WalkExists
<1> HIDE DEF f
<1>4. \A k \in 0..N : f[k] = IF k = 0 THEN AtTheDoor(b, s) ELSE WalkedFrom(f[k - 1])
  BY <1>3 DEF IsWalk
<1>5. f[0] = AtTheDoor(b, s) /\ \A k \in 1..N : f[k] = WalkedFrom(f[k - 1])
  BY <1>1, <1>4
<1> QED BY <1>1, <1>2, <1>5

(* What the walk keeps: those it has been past are before those it has     *)
(* not, and of them it has taken whoever still found their copies there.   *)
WalkInv(plan, b, s) ==
  /\ plan = [left |-> plan.left, ids |-> plan.ids, quantity |-> plan.quantity, spendable |-> plan.spendable]
  /\ plan.left \subseteq WaitlistDesk!Candidates(b)
  /\ plan.ids \subseteq WaitlistDesk!Candidates(b) \ plan.left
  /\ \A d \in WaitlistDesk!Candidates(b) \ plan.left, e \in plan.left : WaitlistDesk!Before(d, e)
  /\ plan.spendable = s
  /\ plan.quantity = WaitlistDesk!CopiesOf(plan.ids)
  /\ \A e \in WaitlistDesk!Candidates(b) \ plan.left :
       e \in plan.ids <=>
         WaitlistDesk!CopiesOf({d \in plan.ids : WaitlistDesk!Before(d, e)}) + entry[e].quantity
           <= s

LEMMA WalkBegins ==
  ASSUME NEW b, NEW s
  PROVE  WalkInv(AtTheDoor(b, s), b, s)
BY NobodyAsks DEF WalkInv, AtTheDoor

LEMMA WalkGoesOn ==
  ASSUME EntryTypes, NEW b \in Book, NEW s \in Nat, NEW plan, WalkInv(plan, b, s), plan.left # {}
  PROVE  /\ WalkInv(WalkedFrom(plan), b, s)
         /\ \E e \in plan.left : WalkedFrom(plan).left = plan.left \ {e}
<1> DEFINE C == WaitlistDesk!Candidates(b)
           e == WaitlistDesk!First(plan.left)
           next == WalkedFrom(plan)
           Taken(p, x) == WaitlistDesk!CopiesOf({d \in p.ids : WaitlistDesk!Before(d, x)})
<1>0. C \subseteq WaitlistDesk!Entry
  BY DEF WaitlistDesk!Candidates
<1>1. e \in plan.left /\ \A d \in plan.left \ {e} : WaitlistDesk!Before(e, d)
  <2>1. plan.left \in SUBSET WaitlistDesk!Entry
    BY <1>0 DEF WalkInv
  <2> QED BY <2>1, SomebodyIsFirst
<1>2. /\ next.left = plan.left \ {e} /\ next.spendable = plan.spendable
      /\ next = [left |-> next.left, ids |-> next.ids, quantity |-> next.quantity, spendable |-> next.spendable]
      /\ IF plan.quantity + entry[e].quantity > plan.spendable
         THEN next.ids = plan.ids /\ next.quantity = plan.quantity
         ELSE next.ids = plan.ids \cup {e} /\ next.quantity = plan.quantity + entry[e].quantity
  BY DEF WalkedFrom, WaitlistDesk!Walk, WalkInv
<1> HIDE DEF e, next
<1>3. /\ plan.left \subseteq C /\ plan.ids \subseteq C \ plan.left
      /\ \A d \in C \ plan.left, x \in plan.left : WaitlistDesk!Before(d, x)
      /\ plan.spendable = s /\ plan.quantity = WaitlistDesk!CopiesOf(plan.ids)
      /\ \A x \in C \ plan.left : x \in plan.ids <=> Taken(plan, x) + entry[x].quantity <= s
  BY DEF WalkInv
<1> HIDE DEF C
<1>4. /\ plan.quantity \in Nat /\ s \in Nat /\ entry[e].quantity \in Nat
      /\ WaitlistDesk!CopiesOf(plan.ids \cup {e}) = plan.quantity + entry[e].quantity
  <2>1. plan.ids \in SUBSET WaitlistDesk!Entry /\ e \in WaitlistDesk!Entry \ plan.ids
    BY <1>0, <1>1, <1>3
  <2>2. entry[e].quantity \in Nat
    BY <2>1, DesksAssumption DEF DesksAssumption, EntryTypes, WaitlistEntry
  <2>3. IsFiniteSet(Asked(plan.ids)) /\ WaitlistDesk!CopiesOf(plan.ids) \in Nat
    BY <2>1, EverybodyAsks
  <2> QED BY <1>3, <2>1, <2>2, <2>3, OneMoreAsks
<1>5. next.left \subseteq C /\ next.ids \subseteq C \ next.left
  BY <1>1, <1>2, <1>3
<1>6. ASSUME NEW d \in C \ next.left, NEW x \in next.left PROVE WaitlistDesk!Before(d, x)
  BY <1>1, <1>2, <1>3, <1>6
<1>7. next.quantity = WaitlistDesk!CopiesOf(next.ids)
  BY <1>2, <1>3, <1>4
<1>8. ASSUME NEW x \in C \ next.left
      PROVE  x \in next.ids <=> Taken(next, x) + entry[x].quantity <= s
  <2>1. CASE x = e
    <3>1. {d \in next.ids : WaitlistDesk!Before(d, e)} = plan.ids
      <4>1. \A d \in plan.ids : WaitlistDesk!Before(d, e)
        BY <1>1, <1>3
      <4>2. ~WaitlistDesk!Before(e, e)
        BY <1>0, <1>1, <1>3, OneLine
      <4> QED BY <1>2, <4>1, <4>2
    <3>2. e \notin plan.ids
      BY <1>1, <1>3
    <3>3. Taken(next, x) = plan.quantity
      BY <1>3, <2>1, <3>1
    <3> QED BY <1>2, <1>3, <1>4, <2>1, <3>2, <3>3
  <2>2. CASE x # e
    <3>1. x \in C \ plan.left
      BY <1>1, <1>2, <2>2
    <3>2. ~WaitlistDesk!Before(e, x)
      <4>1. WaitlistDesk!Before(x, e)
        BY <1>1, <1>3, <3>1
      <4> QED BY <1>0, <1>1, <1>3, <3>1, <4>1, OneLine
    <3>3. {d \in next.ids : WaitlistDesk!Before(d, x)} = {d \in plan.ids : WaitlistDesk!Before(d, x)}
      BY <1>2, <3>2
    <3>4. x \in next.ids <=> x \in plan.ids
      BY <1>2, <2>2
    <3>5. Taken(next, x) = Taken(plan, x)
      BY <3>3
    <3>6. x \in plan.ids <=> Taken(plan, x) + entry[x].quantity <= s
      BY <1>3, <3>1
    <3> HIDE DEF Taken
    <3> QED BY <3>4, <3>5, <3>6
  <2> QED BY <2>1, <2>2
<1>9. WalkInv(next, b, s)
  BY <1>2, <1>3, <1>5, <1>6, <1>7, <1>8 DEF WalkInv, C
<1> QED BY <1>1, <1>2, <1>9 DEF next

(* A wave takes the queue in turn, and whoever finds their copies there.   *)
LEMMA WavePlanIs ==
  ASSUME EntryTypes, NEW b \in Book, NEW s \in Nat
  PROVE  /\ WaitlistDesk!WavePlan(b, s) \subseteq WaitlistDesk!Candidates(b)
         /\ \A e \in WaitlistDesk!Candidates(b) :
              e \in WaitlistDesk!WavePlan(b, s) <=>
                WaitlistDesk!CopiesOf({d \in WaitlistDesk!WavePlan(b, s) : WaitlistDesk!Before(d, e)})
                  + entry[e].quantity <= s
<1> DEFINE C == WaitlistDesk!Candidates(b)
           N == Cardinality(C)
<1>0. IsFiniteSet(C) /\ N \in Nat
  BY EverybodyAsks, FS_CardinalityType DEF WaitlistDesk!Candidates
<1>1. PICK f : /\ WaitlistDesk!WavePlan(b, s) = f[N].ids
               /\ f[0] = AtTheDoor(b, s)
               /\ \A k \in 1..N : f[k] = WalkedFrom(f[k - 1])
  BY <1>0, ThePlanIsWalked
<1> DEFINE Fine(k) == /\ WalkInv(f[k], b, s)
                      /\ IsFiniteSet(f[k].left) /\ Cardinality(f[k].left) = N - k
           Bad == {k \in 0..N : ~Fine(k)}
<1> HIDE DEF C, N
<1>2. \A k \in 0..N : Fine(k)
  <2>1. SUFFICES ASSUME Bad # {} PROVE FALSE
    OBVIOUS
  <2>2. PICK m \in Bad : \A k \in Bad : m <= k
    <3>1. Bad \in SUBSET Nat
      BY <1>0
    <3> HIDE DEF Bad
    <3> QED BY <2>1, <3>1, ThereIsAFirst
  <2>3. m # 0
    <3>1. f[0].left = C
      BY <1>1 DEF AtTheDoor, C
    <3>2. WalkInv(f[0], b, s)
      BY <1>1, WalkBegins
    <3>3. Cardinality(C) = N
      BY DEF N
    <3> QED BY <1>0, <3>1, <3>2, <3>3
  <2>4. m \in 1..N /\ m - 1 \in 0..N /\ m - 1 \notin Bad
    BY <1>0, <2>2, <2>3
  <2>5. Fine(m - 1) /\ f[m] = WalkedFrom(f[m - 1])
    BY <1>1, <2>4
  <2> DEFINE plan == f[m - 1]
  <2>6. WalkInv(plan, b, s) /\ IsFiniteSet(plan.left) /\ Cardinality(plan.left) = N - (m - 1)
    BY <2>5
  <2> HIDE DEF plan
  <2>7. plan.left # {}
    BY <1>0, <2>4, <2>6, FS_EmptySet
  <2>8. /\ WalkInv(WalkedFrom(plan), b, s)
        /\ \E e \in plan.left : WalkedFrom(plan).left = plan.left \ {e}
    BY <2>6, <2>7, WalkGoesOn
  <2>9. /\ IsFiniteSet(WalkedFrom(plan).left)
        /\ Cardinality(WalkedFrom(plan).left) = Cardinality(plan.left) - 1
    BY <2>6, <2>8, FS_RemoveElement
  <2>10. Fine(m)
    <3>1. f[m] = WalkedFrom(plan)
      BY <2>5 DEF plan
    <3>2. N - (m - 1) - 1 = N - m
      BY <1>0, <2>4
    <3> QED BY <2>6, <2>8, <2>9, <3>1, <3>2
  <2> QED BY <2>2, <2>10
<1>3. Fine(N)
  BY <1>0, <1>2
<1>4. f[N].left = {}
  BY <1>0, <1>3, FS_EmptySet
<1>5. WalkInv(f[N], b, s) /\ f[N].left = {}
  BY <1>3, <1>4
<1> DEFINE last == f[N]
<1>6. WalkInv(last, b, s) /\ last.left = {} /\ WaitlistDesk!WavePlan(b, s) = last.ids
  BY <1>1, <1>5
<1> HIDE DEF last
<1> QED BY <1>6 DEF WalkInv

-----------------------------------------------------------------------------
(* What the waitlist pages hold is of its type.                            *)

ScreenTypes ==
  /\ screen.page \in {"list", "batch"}
  /\ screen.tab \in IF screen.page = "list" THEN WaitlistDesk!ListTabs ELSE WaitlistDesk!BatchTabs
  /\ screen.book \in Book \cup {NoBook}
  /\ screen.page = "batch" => screen.book = NoBook
  /\ {r.id : r \in screen.items} \subseteq WaitlistDesk!Entry
  /\ screen.selected \subseteq WaitlistDesk!Entry
  /\ screen.header.wave => screen.header.book # NoBook

WaitlistErrand ==
  [kind : {"none", "invite", "notify", "plan", "budgeted", "wave", "edit", "judged", "remove", "restore",
           "refused", "answered"},
   ids : SUBSET WaitlistDesk!Entry, book : Book \cup {NoBook}, patch : WaitlistDesk!Patch,
   tab : {"none"} \cup WaitlistDesk!ListTabs \cup WaitlistDesk!BatchTabs, filter : Book \cup {NoBook},
   spendable : Nat]

ErrandTypes ==
  /\ errand \in WaitlistErrand
  /\ screen.page = "batch" /\ errand.kind # "none" =>
       errand.tab \in WaitlistDesk!BatchTabs /\ errand.filter = NoBook
  /\ errand.kind \in {"plan", "budgeted"} => errand.book \in Book
  /\ errand.kind \in {"wave", "invite"} => errand.ids # {}

LEMMA WaitlistBegins ==
  ASSUME WaitlistDesk!WaitlistDeskInit
  PROVE  EntryTypes /\ ScreenTypes /\ ErrandTypes
<1>1. EntryTypes
  <2>1. PICK b \in Book : entry \in [WaitlistDesk!Entry -> WaitlistDesk!InLine(b)]
    BY DEF WaitlistDesk!WaitlistDeskInit
  <2>2. entry \in [WaitlistDesk!Entry -> WaitlistEntry]
    <3>1. WaitlistDesk!InLine(b) \subseteq WaitlistEntry
      <4>1. 0 \in 0..MaxTurns /\ 1 \in 0..MaxTurns
        BY DesksAssumption DEF DesksAssumption
      <4> QED BY <4>1 DEF WaitlistEntry, WaitlistDesk!InLine
    <3> QED BY <2>1, <3>1
  <2>3. copies \in [Book -> 0..MaxRelease]
    BY DesksAssumption DEF DesksAssumption, WaitlistDesk!WaitlistDeskInit
  <2> QED BY <2>2, <2>3 DEF EntryTypes
<1>2. ScreenTypes
  <2>1. PICK at \in {"list", "batch"} :
          screen = [page |-> at, tab |-> IF at = "list" THEN "WAITING" ELSE "new", book |-> NoBook,
                    items |-> {}, selected |-> {}, header |-> WaitlistDesk!NoHeader]
    BY DEF WaitlistDesk!WaitlistDeskInit
  <2> QED BY <2>1 DEF ScreenTypes, WaitlistDesk!NoHeader, WaitlistDesk!ListTabs, WaitlistDesk!BatchTabs
<1>3. ErrandTypes
  BY DEF ErrandTypes, WaitlistErrand, WaitlistDesk!WaitlistDeskInit, WaitlistDesk!NoErrand, WaitlistDesk!NoPatch,
     WaitlistDesk!Patch
<1> QED BY <1>1, <1>2, <1>3

LEMMA EntryWritten ==
  ASSUME EntryTypes, NEW e \in WaitlistDesk!Entry, NEW written \in WaitlistEntry,
         entry' = [entry EXCEPT ![e] = written], UNCHANGED copies
  PROVE  EntryTypes'
BY DEF EntryTypes

LEMMA InviteKeepsTypes ==
  ASSUME EntryTypes, NEW e \in WaitlistDesk!Entry, WaitlistDesk!Invite(e)
  PROVE  EntryTypes'
<1>1. entry[e] \in WaitlistEntry /\ UNCHANGED copies
  BY DEF EntryTypes, WaitlistDesk!Invite
<1>2. CASE UNCHANGED entry
  BY <1>1, <1>2 DEF EntryTypes
<1>3. CASE entry[e].turns # MaxTurns /\
           \E failed \in BOOLEAN :
             entry' = [entry EXCEPT ![e].invite = "live", ![e].turns = entry[e].turns + 1, ![e].failed = failed,
                                    ![e].status = IF failed THEN entry[e].status ELSE "NOTIFIED"]
  <2>1. PICK failed \in BOOLEAN :
          entry' = [entry EXCEPT ![e].invite = "live", ![e].turns = entry[e].turns + 1, ![e].failed = failed,
                                 ![e].status = IF failed THEN entry[e].status ELSE "NOTIFIED"]
    BY <1>3
  <2> DEFINE written == [entry[e] EXCEPT !.invite = "live", !.turns = entry[e].turns + 1, !.failed = failed,
                                         !.status = IF failed THEN entry[e].status ELSE "NOTIFIED"]
  <2>2. entry' = [entry EXCEPT ![e] = written]
    BY <2>1 DEF EntryTypes
  <2>3. written \in WaitlistEntry
    <3>1. entry[e].turns + 1 \in 0..MaxTurns
      BY <1>1, <1>3, DesksAssumption DEF DesksAssumption, WaitlistEntry
    <3> QED BY <1>1, <3>1 DEF WaitlistEntry
  <2> HIDE DEF written
  <2> QED BY <1>1, <2>2, <2>3, EntryWritten
<1> QED BY <1>2, <1>3 DEF WaitlistDesk!Invite

LEMMA UpdateKeepsTypes ==
  ASSUME EntryTypes, ErrandTypes, WaitlistDesk!Update
  PROVE  EntryTypes'
<1>1. UNCHANGED copies
  BY DEF WaitlistDesk!Update
<1>2. PICK e \in errand.ids :
       \/ entry' = [d \in WaitlistDesk!Entry |-> IF d \in errand.ids /\ entry[d].status = "PENDING"
                                                THEN [entry[d] EXCEPT !.status = "NOTIFIED"] ELSE entry[d]]
       \/ entry' = [entry EXCEPT ![e].status = "CANCELLED", ![e].invite = WaitlistDesk!Revoked(e)]
       \/ entry' = [entry EXCEPT ![e].status = "PENDING"]
       \/ UNCHANGED entry
       \/ entry' = [entry EXCEPT ![e] = WaitlistDesk!Edited(e, errand.patch)]
  BY DEF WaitlistDesk!Update
<1>3. e \in WaitlistDesk!Entry /\ entry[e] \in WaitlistEntry /\ WaitlistDesk!Revoked(e) \in {"spent", "none"}
  BY <1>2 DEF EntryTypes, ErrandTypes, WaitlistErrand, WaitlistDesk!Revoked
<1>4. CASE entry' = [d \in WaitlistDesk!Entry |-> IF d \in errand.ids /\ entry[d].status = "PENDING"
                                                THEN [entry[d] EXCEPT !.status = "NOTIFIED"] ELSE entry[d]]
  <2>1. ASSUME NEW d \in WaitlistDesk!Entry PROVE [entry[d] EXCEPT !.status = "NOTIFIED"] \in WaitlistEntry
    BY DEF EntryTypes, WaitlistEntry
  <2>2. \A d \in WaitlistDesk!Entry : entry[d] \in WaitlistEntry
    BY DEF EntryTypes
  <2> QED BY <1>1, <1>4, <2>1, <2>2 DEF EntryTypes
<1>5. CASE entry' = [entry EXCEPT ![e].status = "CANCELLED", ![e].invite = WaitlistDesk!Revoked(e)]
  <2> DEFINE written == [entry[e] EXCEPT !.status = "CANCELLED", !.invite = WaitlistDesk!Revoked(e)]
  <2>1. entry' = [entry EXCEPT ![e] = written]
    BY <1>3, <1>5 DEF EntryTypes
  <2>2. written \in WaitlistEntry
    BY <1>3 DEF WaitlistEntry
  <2> HIDE DEF written
  <2> QED BY <1>1, <1>3, <2>1, <2>2, EntryWritten
<1>6. CASE entry' = [entry EXCEPT ![e].status = "PENDING"]
  <2> DEFINE written == [entry[e] EXCEPT !.status = "PENDING"]
  <2>1. entry' = [entry EXCEPT ![e] = written]
    BY <1>3, <1>6 DEF EntryTypes
  <2>2. written \in WaitlistEntry
    BY <1>3 DEF WaitlistEntry
  <2> HIDE DEF written
  <2> QED BY <1>1, <1>3, <2>1, <2>2, EntryWritten
<1>7. CASE entry' = [entry EXCEPT ![e] = WaitlistDesk!Edited(e, errand.patch)]
  <2>1. /\ errand.patch.book \in Book \cup {NoBook} /\ errand.patch.quantity \in Quantity \cup {0}
    BY DEF ErrandTypes, WaitlistErrand, WaitlistDesk!Patch
  <2>2. WaitlistDesk!Edited(e, errand.patch) \in WaitlistEntry
    BY <1>3, <2>1 DEF WaitlistDesk!Edited, WaitlistEntry
  <2> QED BY <1>1, <1>3, <1>7, <2>2, EntryWritten
<1>8. CASE UNCHANGED entry
  BY <1>1, <1>8 DEF EntryTypes
<1> QED BY <1>2, <1>4, <1>5, <1>6, <1>7, <1>8

LEMMA ElsewhereKeepsTypes ==
  ASSUME EntryTypes, WaitlistDesk!Elsewhere
  PROVE  EntryTypes'
<1>1. CASE \E b \in Book, n \in 0..MaxRelease : copies' = [copies EXCEPT ![b] = n] /\ UNCHANGED entry
  BY <1>1 DEF EntryTypes
<1>2. ASSUME NEW e \in WaitlistDesk!Entry, UNCHANGED copies,
             NEW written \in WaitlistEntry, entry' = [entry EXCEPT ![e] = written]
      PROVE  EntryTypes'
  BY <1>2, EntryWritten
<1>3. CASE UNCHANGED copies /\ \E e \in WaitlistDesk!Entry :
            \/ entry[e].invite = "live" /\ entry' = [entry EXCEPT ![e].invite = "lapsed"]
            \/ entry[e].invite = "live" /\ entry' = [entry EXCEPT ![e].invite = "spent", ![e].ordered = TRUE]
            \/ entry[e].ordered /\ entry' = [entry EXCEPT ![e].status = "CONVERTED", ![e].ordered = FALSE]
            \/ /\ entry[e].status \notin {"CANCELLED", "CONVERTED"} /\ entry[e].turns < MaxTurns
               /\ entry' = [entry EXCEPT ![e].invite = "live", ![e].turns = entry[e].turns + 1]
  <2>1. PICK e \in WaitlistDesk!Entry :
            \/ entry' = [entry EXCEPT ![e].invite = "lapsed"]
            \/ entry' = [entry EXCEPT ![e].invite = "spent", ![e].ordered = TRUE]
            \/ entry' = [entry EXCEPT ![e].status = "CONVERTED", ![e].ordered = FALSE]
            \/ /\ entry[e].turns < MaxTurns
               /\ entry' = [entry EXCEPT ![e].invite = "live", ![e].turns = entry[e].turns + 1]
    BY <1>3
  <2>2. entry[e] \in WaitlistEntry
    BY DEF EntryTypes
  <2>3. CASE entry' = [entry EXCEPT ![e].invite = "lapsed"]
    <3>1. entry' = [entry EXCEPT ![e] = [entry[e] EXCEPT !.invite = "lapsed"]]
      BY <2>3 DEF EntryTypes
    <3>2. [entry[e] EXCEPT !.invite = "lapsed"] \in WaitlistEntry
      BY <2>2 DEF WaitlistEntry
    <3> QED BY <1>2, <1>3, <3>1, <3>2
  <2>4. CASE entry' = [entry EXCEPT ![e].invite = "spent", ![e].ordered = TRUE]
    <3>1. entry' = [entry EXCEPT ![e] = [entry[e] EXCEPT !.invite = "spent", !.ordered = TRUE]]
      BY <2>4 DEF EntryTypes
    <3>2. [entry[e] EXCEPT !.invite = "spent", !.ordered = TRUE] \in WaitlistEntry
      BY <2>2 DEF WaitlistEntry
    <3> QED BY <1>2, <1>3, <3>1, <3>2
  <2>5. CASE entry' = [entry EXCEPT ![e].status = "CONVERTED", ![e].ordered = FALSE]
    <3>1. entry' = [entry EXCEPT ![e] = [entry[e] EXCEPT !.status = "CONVERTED", !.ordered = FALSE]]
      BY <2>5 DEF EntryTypes
    <3>2. [entry[e] EXCEPT !.status = "CONVERTED", !.ordered = FALSE] \in WaitlistEntry
      BY <2>2 DEF WaitlistEntry
    <3> QED BY <1>2, <1>3, <3>1, <3>2
  <2>6. CASE /\ entry[e].turns < MaxTurns
             /\ entry' = [entry EXCEPT ![e].invite = "live", ![e].turns = entry[e].turns + 1]
    <3>1. entry' = [entry EXCEPT ![e] = [entry[e] EXCEPT !.invite = "live", !.turns = entry[e].turns + 1]]
      BY <2>6 DEF EntryTypes
    <3>2. [entry[e] EXCEPT !.invite = "live", !.turns = entry[e].turns + 1] \in WaitlistEntry
      <4>1. entry[e].turns + 1 \in 0..MaxTurns
        BY <2>2, <2>6, DesksAssumption DEF DesksAssumption, WaitlistEntry
      <4> QED BY <2>2, <4>1 DEF WaitlistEntry
    <3> QED BY <1>2, <1>3, <3>1, <3>2
  <2> QED BY <2>1, <2>3, <2>4, <2>5, <2>6
<1> QED BY <1>1, <1>3 DEF WaitlistDesk!Elsewhere

(* The screen: what replaces a part of it is of that part's type.          *)
LEMMA ScreenGoesOn ==
  ASSUME ScreenPage, ScreenTypes,
         NEW tab \in IF screen.page = "list" THEN WaitlistDesk!ListTabs ELSE WaitlistDesk!BatchTabs,
         NEW b \in Book \cup {NoBook}, screen.page = "batch" => b = NoBook, NEW list, {r.id : r \in list} \subseteq WaitlistDesk!Entry,
         NEW ticks \in SUBSET WaitlistDesk!Entry, NEW header, header.wave => header.book # NoBook,
         screen' = [page |-> screen.page, tab |-> tab, book |-> b, items |-> list,
                    selected |-> ticks, header |-> header]
  PROVE  ScreenTypes'
BY DEF ScreenTypes

LEMMA ScreenSteps ==
  ASSUME BatchInv, EntryTypes, ScreenTypes, WaitlistDesk!WaitlistDeskNext
  PROVE  ScreenTypes'
<1>0. /\ ScreenPage
      /\ screen.tab \in IF screen.page = "list" THEN WaitlistDesk!ListTabs ELSE WaitlistDesk!BatchTabs
      /\ screen.book \in Book \cup {NoBook} /\ (screen.page = "batch" => screen.book = NoBook)
      /\ {r.id : r \in screen.items} \subseteq WaitlistDesk!Entry
      /\ screen.selected \in SUBSET WaitlistDesk!Entry
      /\ screen.header.wave => screen.header.book # NoBook
  BY DEF BatchInv, ScreenTypes
<1> DEFINE Part(tab, b, list, ticks, header) ==
             [page |-> screen.page, tab |-> tab, book |-> b, items |-> list, selected |-> ticks, header |-> header]
<1>1. CASE UNCHANGED screen
  BY <1>1 DEF ScreenTypes
<1>2. ASSUME NEW tab \in Tabs, WaitlistDesk!LoadList(tab) PROVE ScreenTypes'
  <2>1. screen.page = "list" /\ tab \in WaitlistDesk!ListTabs
    BY <1>2, DesksAssumption DEF DesksAssumption, WaitlistDesk!LoadList
  <2>2. screen' = Part(tab, screen.book, {}, screen.selected, screen.header)
    BY <1>0, <1>2 DEF WaitlistDesk!LoadList, ScreenPage
  <2> QED BY <1>0, <2>1, <2>2, ScreenGoesOn
<1>3. ASSUME NEW tab \in WaitlistDesk!BatchTabs, WaitlistDesk!ChooseBatchTab(tab) PROVE ScreenTypes'
  <2>1. screen.page = "batch"
    BY <1>3 DEF WaitlistDesk!ChooseBatchTab
  <2>2. screen' = Part(tab, screen.book, {}, {}, screen.header)
    BY <1>0, <1>3 DEF WaitlistDesk!ChooseBatchTab, WaitlistDesk!SwitchTab, ScreenPage
  <2> QED BY <1>0, <2>1, <2>2, ScreenGoesOn
<1>4. ASSUME NEW b \in Book \cup {NoBook}, WaitlistDesk!SelectBook(b) PROVE ScreenTypes'
  <2>1. /\ screen' = Part(screen.tab, b, screen.items, screen.selected, screen.header)
        /\ screen.page # "batch"
    BY <1>0, <1>4 DEF WaitlistDesk!SelectBook, ScreenPage
  <2> QED BY <1>0, <2>1, ScreenGoesOn
<1>5. ASSUME NEW l \in Load, WaitlistDesk!ReloadArrives(l) PROVE ScreenTypes'
  <2> DEFINE shown == WaitlistDesk!Rows(reloads[l].tab, reloads[l].book)
             ticked == CASE screen.page = "list" -> {}
                         [] reloads[l].tab = "reinvite" -> {r \in shown : WaitlistDesk!needsAnotherLink(r)}
                         [] reloads[l].tab = "new" -> shown
  <2>1. {r.id : r \in shown} \subseteq WaitlistDesk!Entry
    BY DEF WaitlistDesk!Rows, WaitlistDesk!Row
  <2>2. ticked \subseteq shown
    <3> HIDE DEF shown
    <3>1. CASE screen.page = "list"
      BY <3>1
    <3>2. CASE screen.page # "list"
      <4>1. screen.page = "batch"
        BY <3>2 DEF ScreenTypes
      <4>2. reloads[l].tab \in {"new", "reinvite"}
        BY <1>5, <4>1 DEF BatchInv, BatchReload, WaitlistDesk!NoReload, WaitlistDesk!ReloadArrives
      <4> QED BY <3>2, <4>2
    <3> QED BY <3>1, <3>2
  <2>3. UNCHANGED screen \/ screen' = [screen EXCEPT !.items = shown, !.selected = {r.id : r \in ticked}]
    BY <1>5 DEF WaitlistDesk!ReloadArrives
  <2> HIDE DEF shown, ticked
  <2>4. CASE screen' = [screen EXCEPT !.items = shown, !.selected = {r.id : r \in ticked}]
    <3>1. screen' = Part(screen.tab, screen.book, shown, {r.id : r \in ticked}, screen.header)
      BY <1>0, <2>4 DEF ScreenPage
    <3>2. {r.id : r \in ticked} \in SUBSET WaitlistDesk!Entry
      BY <2>1, <2>2
    <3> QED BY <1>0, <2>1, <3>1, <3>2, ScreenGoesOn
  <2> QED BY <1>1, <2>3, <2>4
<1>6. ASSUME NEW l \in Load, WaitlistDesk!HeaderArrives(l) PROVE ScreenTypes'
  <2>1. PICK header : screen' = [screen EXCEPT !.header = header] /\ (header.wave => header.book # NoBook)
    <3> DEFINE b == reloads[l].book
               next == [book |-> b, wave |-> WaitlistDesk!WavePlan(b, reloads[l].spendable) # {}]
    <3>1. PICK header \in {WaitlistDesk!NoHeader}
                        \cup (IF b = NoBook \/ reloads[l].stage = "header" THEN {} ELSE {next}) :
            screen' = [screen EXCEPT !.header = header]
      BY <1>6 DEF WaitlistDesk!HeaderArrives
    <3>2. next.book = b
      BY Zenon
    <3> HIDE DEF b, next
    <3>3. header = WaitlistDesk!NoHeader \/ (b # NoBook /\ header = next)
      BY <3>1
    <3>4. header.wave => header.book # NoBook
      <4>1. CASE header = WaitlistDesk!NoHeader
        BY <4>1 DEF WaitlistDesk!NoHeader
      <4>2. CASE b # NoBook /\ header = next
        BY <3>2, <4>2
      <4> QED BY <3>3, <4>1, <4>2
    <3> QED BY <3>1, <3>4
  <2>2. screen' = Part(screen.tab, screen.book, screen.items, screen.selected, header)
    BY <1>0, <2>1 DEF ScreenPage
  <2> QED BY <1>0, <2>1, <2>2, ScreenGoesOn
<1>7. ASSUME NEW ids, WaitlistDesk!Toggle(ids) PROVE ScreenTypes'
  <2> DEFINE ticks == (screen.selected \cup ids) \ (screen.selected \cap ids)
  <2>1. /\ ids \subseteq {r.id : r \in screen.items}
        /\ screen' = [screen EXCEPT !.selected = ticks]
    BY <1>7 DEF WaitlistDesk!Toggle, WaitlistDesk!SymDiff
  <2>2. ticks \in SUBSET WaitlistDesk!Entry
    BY <1>0, <2>1
  <2> HIDE DEF ticks
  <2>3. screen' = Part(screen.tab, screen.book, screen.items, ticks, screen.header)
    BY <1>0, <2>1 DEF ScreenPage
  <2> QED BY <1>0, <2>2, <2>3, ScreenGoesOn
<1>8. CASE WaitlistDesk!Answered
  <2>1. UNCHANGED screen \/ screen' = [screen EXCEPT !.items = {}]
    BY <1>8 DEF WaitlistDesk!Answered
  <2>2. CASE screen' = [screen EXCEPT !.items = {}]
    <3>1. screen' = Part(screen.tab, screen.book, {}, screen.selected, screen.header)
      BY <1>0, <2>2 DEF ScreenPage
    <3> QED BY <1>0, <3>1, ScreenGoesOn
  <2> QED BY <1>1, <2>1, <2>2
<1>9. CASE \/ WaitlistDesk!LoadBatch \/ WaitlistDesk!InviteSelected \/ WaitlistDesk!MarkSelected
           \/ WaitlistDesk!SendWave \/ WaitlistDesk!PlanBudget \/ WaitlistDesk!Plan \/ WaitlistDesk!Update
           \/ WaitlistDesk!Elsewhere \/ (\E l \in Load : WaitlistDesk!HeaderIsRead(l))
           \/ (\E e \in WaitlistDesk!Entry : WaitlistDesk!Invite(e))
           \/ (\E r \in screen.items : WaitlistDesk!InviteRow(r) \/ WaitlistDesk!SetStatus(r) \/
                 \E patch \in WaitlistDesk!Patch : WaitlistDesk!SaveEntry(r, patch))
  <2>1. UNCHANGED screen
    BY <1>9 DEF WaitlistDesk!LoadBatch, WaitlistDesk!InviteSelected, WaitlistDesk!MarkSelected,
       WaitlistDesk!SendWave, WaitlistDesk!PlanBudget, WaitlistDesk!Plan, WaitlistDesk!Update,
       WaitlistDesk!Elsewhere, WaitlistDesk!HeaderIsRead, WaitlistDesk!Invite,
       WaitlistDesk!InviteRow, WaitlistDesk!SetStatus, WaitlistDesk!SaveEntry, WaitlistDesk!Begin
  <2> QED BY <1>1, <2>1
<1> QED BY <1>2, <1>3, <1>4, <1>5, <1>6, <1>7, <1>8, <1>9 DEF WaitlistDesk!WaitlistDeskNext

(* The request the page is busy with, of the page there is.                *)
LEMMA PageStays ==
  ASSUME ScreenPage, WaitlistDesk!WaitlistDeskNext
  PROVE  screen'.page = screen.page
BY DEF ScreenPage, WaitlistDesk!WaitlistDeskNext, WaitlistDesk!LoadList, WaitlistDesk!ChooseBatchTab,
   WaitlistDesk!SwitchTab, WaitlistDesk!LoadBatch, WaitlistDesk!SelectBook, WaitlistDesk!ReloadArrives,
   WaitlistDesk!HeaderIsRead, WaitlistDesk!HeaderArrives, WaitlistDesk!Toggle, WaitlistDesk!InviteSelected,
   WaitlistDesk!MarkSelected, WaitlistDesk!SendWave, WaitlistDesk!PlanBudget, WaitlistDesk!Plan,
   WaitlistDesk!Update, WaitlistDesk!Answered, WaitlistDesk!Elsewhere, WaitlistDesk!Invite,
   WaitlistDesk!InviteRow, WaitlistDesk!SetStatus, WaitlistDesk!SaveEntry, WaitlistDesk!Begin

LEMMA ErrandBegun ==
  ASSUME ScreenTypes, NEW kind \in {"invite", "notify", "plan", "edit", "remove", "restore"},
         NEW ids \in SUBSET WaitlistDesk!Entry, NEW b \in Book \cup {NoBook}, NEW patch \in WaitlistDesk!Patch,
         WaitlistDesk!Begin(kind, ids, b, patch), kind = "plan" => b # NoBook, kind = "invite" => ids # {}
  PROVE  ErrandTypes'
<1>1. /\ errand' = [kind |-> kind, ids |-> ids, book |-> b, patch |-> patch,
                     tab |-> screen.tab, filter |-> screen.book, spendable |-> 0]
      /\ UNCHANGED screen
  BY DEF WaitlistDesk!Begin, WaitlistDesk!NoErrand
<1>2. errand' \in WaitlistErrand
  BY <1>1 DEF WaitlistErrand, ScreenTypes
<1> QED BY <1>1, <1>2 DEF ErrandTypes, ScreenTypes

LEMMA ErrandGoesOn ==
  ASSUME ErrandTypes,
         NEW kind \in {"invite", "wave", "judged", "refused", "answered"}, NEW ids \in SUBSET WaitlistDesk!Entry,
         kind \in {"invite", "wave"} => ids # {}, WaitlistDesk!Step(kind, ids), errand.kind # "none",
         screen'.page = screen.page
  PROVE  ErrandTypes'
BY DEF ErrandTypes, WaitlistErrand, WaitlistDesk!Step

LEMMA ErrandSteps ==
  ASSUME BatchInv, EntryTypes, ScreenTypes, ErrandTypes, WaitlistDesk!WaitlistDeskNext
  PROVE  ErrandTypes'
<1>0. WaitlistDesk!NoPatch \in WaitlistDesk!Patch /\ errand.ids \subseteq WaitlistDesk!Entry
  BY DEF WaitlistDesk!NoPatch, WaitlistDesk!Patch, ErrandTypes, WaitlistErrand
<1>00. screen'.page = screen.page
  BY PageStays DEF BatchInv
<1>1. CASE UNCHANGED errand
  BY <1>00, <1>1 DEF ErrandTypes
<1>2. CASE WaitlistDesk!InviteSelected \/ WaitlistDesk!MarkSelected \/ WaitlistDesk!SendWave
  BY <1>0, <1>2, ErrandBegun DEF WaitlistDesk!InviteSelected, WaitlistDesk!MarkSelected, WaitlistDesk!SendWave,
     ScreenTypes
<1>3. ASSUME NEW r \in screen.items,
             WaitlistDesk!InviteRow(r) \/ WaitlistDesk!SetStatus(r) \/
               \E patch \in WaitlistDesk!Patch : WaitlistDesk!SaveEntry(r, patch)
      PROVE  ErrandTypes'
  <2>1. r.id \in WaitlistDesk!Entry
    BY DEF ScreenTypes
  <2>2. PICK kind \in {"invite", "edit", "remove", "restore"}, patch \in WaitlistDesk!Patch :
          WaitlistDesk!Begin(kind, {r.id}, NoBook, patch)
    BY <1>0, <1>3 DEF WaitlistDesk!InviteRow, WaitlistDesk!SetStatus, WaitlistDesk!SaveEntry
  <2> QED BY <2>1, <2>2, ErrandBegun
<1>31. CASE WaitlistDesk!PlanBudget
  <2>1. CASE WaitlistDesk!Step("refused", {})
    BY <1>00, <1>31, <2>1, ErrandGoesOn DEF WaitlistDesk!PlanBudget
  <2>2. CASE errand' = [errand EXCEPT !.kind = "budgeted", !.spendable = WaitlistDesk!Spendable(errand.book)]
    <3>1. errand.kind = "plan" /\ errand.book \in Book
      BY <1>31 DEF WaitlistDesk!PlanBudget, ErrandTypes
    <3>2. WaitlistDesk!Spendable(errand.book) \in Nat
      BY <3>1, SpendableIsANumber
    <3> QED BY <1>00, <2>2, <3>1, <3>2 DEF ErrandTypes, WaitlistErrand
  <2> QED BY <1>31, <2>1, <2>2 DEF WaitlistDesk!PlanBudget
<1>4. CASE WaitlistDesk!Plan
  <2> DEFINE ids == WaitlistDesk!WavePlan(errand.book, errand.spendable)
  <2>1. errand.kind = "budgeted" /\ errand.book \in Book /\ errand.spendable \in Nat
    BY <1>4 DEF WaitlistDesk!Plan, ErrandTypes, WaitlistErrand
  <2>2. ids \in SUBSET WaitlistDesk!Entry
    BY <2>1, WavePlanIs DEF WaitlistDesk!Candidates
  <2>3. WaitlistDesk!Step("refused", {}) \/ (ids # {} /\ WaitlistDesk!Step("wave", ids))
    BY <1>4 DEF WaitlistDesk!Plan
  <2> HIDE DEF ids
  <2> QED BY <1>00, <2>1, <2>2, <2>3, ErrandGoesOn
<1>5. ASSUME NEW e \in WaitlistDesk!Entry, WaitlistDesk!Invite(e) PROVE ErrandTypes'
  <2>1. /\ errand.kind \in {"invite", "wave"} /\ e \in errand.ids
        /\ IF errand.ids = {e} THEN WaitlistDesk!Step("answered", {})
                               ELSE WaitlistDesk!Step(errand.kind, errand.ids \ {e})
    BY <1>5 DEF WaitlistDesk!Invite
  <2>2. errand.ids # {e} => errand.ids \ {e} # {}
    BY <2>1
  <2> QED BY <1>0, <1>00, <2>1, <2>2, ErrandGoesOn
<1>6. CASE WaitlistDesk!Update
  <2>1. PICK e \in errand.ids :
          /\ errand.kind # "none"
          /\ WaitlistDesk!Step("answered", {}) \/ WaitlistDesk!Step("judged", {e}) \/ WaitlistDesk!Step("refused", {})
    BY <1>6 DEF WaitlistDesk!Update
  <2> QED BY <1>0, <1>00, <2>1, ErrandGoesOn
<1>7. CASE WaitlistDesk!Answered
  BY <1>0, <1>7 DEF WaitlistDesk!Answered, WaitlistDesk!NoErrand, ErrandTypes, WaitlistErrand
<1>8. CASE \/ WaitlistDesk!LoadBatch \/ WaitlistDesk!Elsewhere
           \/ (\E tab \in Tabs : WaitlistDesk!LoadList(tab))
           \/ (\E tab \in WaitlistDesk!BatchTabs : WaitlistDesk!ChooseBatchTab(tab))
           \/ (\E b \in Book \cup {NoBook} : WaitlistDesk!SelectBook(b))
           \/ (\E l \in Load : WaitlistDesk!ReloadArrives(l) \/ WaitlistDesk!HeaderIsRead(l)
                               \/ WaitlistDesk!HeaderArrives(l))
           \/ (\E ids \in SUBSET WaitlistDesk!Entry : WaitlistDesk!Toggle(ids))
  <2>1. UNCHANGED errand
    BY <1>8 DEF WaitlistDesk!LoadBatch, WaitlistDesk!Elsewhere, WaitlistDesk!LoadList, WaitlistDesk!ChooseBatchTab,
       WaitlistDesk!SelectBook, WaitlistDesk!ReloadArrives, WaitlistDesk!HeaderIsRead, WaitlistDesk!HeaderArrives,
       WaitlistDesk!Toggle
  <2> QED BY <1>1, <2>1
<1> QED BY <1>2, <1>3, <1>31, <1>4, <1>5, <1>6, <1>7, <1>8 DEF WaitlistDesk!WaitlistDeskNext

LEMMA EntrySteps ==
  ASSUME EntryTypes, ErrandTypes, WaitlistDesk!WaitlistDeskNext
  PROVE  EntryTypes'
<1>1. CASE UNCHANGED <<entry, copies>>
  BY <1>1 DEF EntryTypes
<1>2. CASE WaitlistDesk!Update \/ WaitlistDesk!Elsewhere \/ (\E e \in WaitlistDesk!Entry : WaitlistDesk!Invite(e))
  BY <1>2, UpdateKeepsTypes, ElsewhereKeepsTypes, InviteKeepsTypes
<1>3. CASE \/ WaitlistDesk!LoadBatch \/ WaitlistDesk!InviteSelected \/ WaitlistDesk!MarkSelected
           \/ WaitlistDesk!SendWave \/ WaitlistDesk!PlanBudget \/ WaitlistDesk!Plan \/ WaitlistDesk!Answered
           \/ (\E tab \in Tabs : WaitlistDesk!LoadList(tab))
           \/ (\E tab \in WaitlistDesk!BatchTabs : WaitlistDesk!ChooseBatchTab(tab))
           \/ (\E b \in Book \cup {NoBook} : WaitlistDesk!SelectBook(b))
           \/ (\E l \in Load : WaitlistDesk!ReloadArrives(l) \/ WaitlistDesk!HeaderIsRead(l)
                               \/ WaitlistDesk!HeaderArrives(l))
           \/ (\E ids \in SUBSET WaitlistDesk!Entry : WaitlistDesk!Toggle(ids))
           \/ (\E r \in screen.items : WaitlistDesk!InviteRow(r) \/ WaitlistDesk!SetStatus(r) \/
                 \E patch \in WaitlistDesk!Patch : WaitlistDesk!SaveEntry(r, patch))
  <2>1. UNCHANGED <<entry, copies>>
    BY <1>3 DEF WaitlistDesk!LoadBatch, WaitlistDesk!LoadList, WaitlistDesk!ChooseBatchTab, WaitlistDesk!SelectBook,
       WaitlistDesk!ReloadArrives, WaitlistDesk!HeaderIsRead, WaitlistDesk!HeaderArrives, WaitlistDesk!Toggle,
       WaitlistDesk!InviteSelected, WaitlistDesk!MarkSelected, WaitlistDesk!SendWave, WaitlistDesk!PlanBudget,
       WaitlistDesk!Plan, WaitlistDesk!Answered,
       WaitlistDesk!InviteRow, WaitlistDesk!SetStatus, WaitlistDesk!SaveEntry, WaitlistDesk!Begin
  <2> QED BY <1>1, <2>1
<1> QED BY <1>1, <1>2, <1>3 DEF WaitlistDesk!WaitlistDeskNext

(* The wave that the service takes is the walk's.                          *)
LEMMA WaveStep ==
  ASSUME EntryTypes, ErrandTypes, WaitlistDesk!WaitlistDeskNext
  PROVE  WaitlistDesk!WaveKeepsTheQueue
<1> SUFFICES ASSUME errand.kind = "budgeted", errand'.kind = "wave"
             PROVE  \A e \in WaitlistDesk!Candidates(errand.book) :
                      e \in errand'.ids <=>
                        WaitlistDesk!CopiesOf({d \in errand'.ids : WaitlistDesk!Before(d, e)}) + entry[e].quantity
                          <= errand.spendable
  BY DEF WaitlistDesk!WaveKeepsTheQueue
<1>1. ASSUME UNCHANGED errand PROVE FALSE
  BY <1>1
<1>2. WaitlistDesk!Plan
  <2>1. \A kind, ids, b, patch : ~WaitlistDesk!Begin(kind, ids, b, patch)
    BY DEF WaitlistDesk!Begin, WaitlistDesk!busy, WaitlistDesk!NoErrand
  <2>2. ~WaitlistDesk!Answered
    BY DEF WaitlistDesk!Answered, WaitlistDesk!NoErrand
  <2>3. ~WaitlistDesk!Update /\ ~WaitlistDesk!PlanBudget
    BY DEF WaitlistDesk!Update, WaitlistDesk!PlanBudget
  <2>4. \A e : ~WaitlistDesk!Invite(e)
    BY DEF WaitlistDesk!Invite
  <2> QED BY <1>1, <2>1, <2>2, <2>3, <2>4 DEF WaitlistDesk!WaitlistDeskNext,
       WaitlistDesk!LoadBatch, WaitlistDesk!LoadList, WaitlistDesk!ChooseBatchTab, WaitlistDesk!SelectBook,
       WaitlistDesk!ReloadArrives, WaitlistDesk!HeaderIsRead, WaitlistDesk!HeaderArrives, WaitlistDesk!Toggle,
       WaitlistDesk!InviteSelected, WaitlistDesk!MarkSelected, WaitlistDesk!SendWave, WaitlistDesk!Elsewhere,
       WaitlistDesk!InviteRow, WaitlistDesk!SetStatus, WaitlistDesk!SaveEntry
<1>3. errand'.ids = WaitlistDesk!WavePlan(errand.book, errand.spendable)
  BY <1>2 DEF WaitlistDesk!Plan, WaitlistDesk!Step, ErrandTypes, WaitlistErrand
<1>4. errand.book \in Book /\ errand.spendable \in Nat
  BY DEF ErrandTypes, WaitlistErrand
<1> QED BY <1>3, <1>4, WavePlanIs

(* The Invite-batch page again: what a step does to it.                    *)
LEMMA BatchSteps ==
  ASSUME BatchInv, ErrandTypes, WaitlistDesk!WaitlistDeskNext
  PROVE  BatchInv'
<1>0. ScreenPage
  BY DEF BatchInv
<1>1. ASSUME UNCHANGED <<screen, reloads>> PROVE BatchInv'
  BY <1>0, <1>1, TicksGoOn DEF ScreenPage
<1>2. ASSUME NEW tab \in Tabs, WaitlistDesk!LoadList(tab) PROVE BatchInv'
  <2>1. screen.page # "batch" /\ screen' = [screen EXCEPT !.tab = tab, !.items = {}]
    BY <1>2 DEF WaitlistDesk!LoadList
  <2>2. ScreenPage' /\ screen'.page = screen.page
    BY <1>0, <2>1 DEF ScreenPage
  <2> QED BY <2>1, <2>2, ListPageGoesOn
<1>3. ASSUME NEW tab \in WaitlistDesk!BatchTabs, WaitlistDesk!ChooseBatchTab(tab) PROVE BatchInv'
  <2>1. /\ screen.page = "batch" /\ UNCHANGED reloads
        /\ screen' = [screen EXCEPT !.tab = tab, !.items = {}, !.selected = {}]
    BY <1>3 DEF WaitlistDesk!ChooseBatchTab, WaitlistDesk!SwitchTab
  <2>2. ScreenPage' /\ screen'.page = screen.page /\ screen'.tab = tab /\ screen'.selected = {}
    BY <1>0, <2>1 DEF ScreenPage
  <2> QED BY <2>1, <2>2 DEF BatchInv, WaitlistDesk!BatchTabs
<1>4. CASE WaitlistDesk!LoadBatch
  <2>1. UNCHANGED screen /\ reloads' \in [Load -> BatchReload]
    BY <1>4, AskingGoesOn DEF WaitlistDesk!LoadBatch, BatchInv
  <2> QED BY <1>0, <2>1, TicksGoOn DEF ScreenPage
<1>5. ASSUME NEW b, WaitlistDesk!SelectBook(b) PROVE BatchInv'
  <2>1. screen.page # "batch" /\ screen' = [screen EXCEPT !.book = b]
    BY <1>5 DEF WaitlistDesk!SelectBook
  <2>2. ScreenPage' /\ screen'.page = screen.page
    BY <1>0, <2>1 DEF ScreenPage
  <2> QED BY <2>1, <2>2, ListPageGoesOn
<1>6. ASSUME NEW l \in Load, WaitlistDesk!ReloadArrives(l) PROVE BatchInv'
  <2>1. CASE screen.page = "batch"
    <3>1. CASE UNCHANGED screen
      BY <1>0, <1>6, <2>1, <3>1, AnswerTicksItsRows, TicksGoOn DEF ScreenPage
    <3>2. CASE ~UNCHANGED screen
      <4>1. PICK shown, ticked :
              /\ ticked \subseteq shown
              /\ screen' = [screen EXCEPT !.items = shown, !.selected = {r.id : r \in ticked}]
        BY <1>6, <2>1, <3>2, AnswerTicksItsRows
      <4>2. /\ ScreenPage' /\ screen'.page = screen.page /\ screen'.tab = screen.tab
            /\ screen'.items = shown /\ screen'.selected = {r.id : r \in ticked}
        BY <1>0, <4>1 DEF ScreenPage
      <4>3. screen'.selected \subseteq {r.id : r \in screen'.items}
        BY <4>1, <4>2
      <4>4. reloads' \in [Load -> BatchReload]
        BY <1>6, <2>1, AnswerTicksItsRows
      <4> QED BY <4>2, <4>3, <4>4, TicksGoOn
    <3> QED BY <3>1, <3>2
  <2>2. CASE screen.page # "batch"
    <3>1. \/ UNCHANGED screen
          \/ \E shown, ticks : screen' = [screen EXCEPT !.items = shown, !.selected = ticks]
      BY <1>6 DEF WaitlistDesk!ReloadArrives
    <3>2. ScreenPage' /\ screen'.page = screen.page
      BY <1>0, <3>1 DEF ScreenPage
    <3> QED BY <2>2, <3>2, ListPageGoesOn
  <2> QED BY <2>1, <2>2
<1>7. ASSUME NEW l \in Load, WaitlistDesk!HeaderIsRead(l) PROVE BatchInv'
  <2>1. UNCHANGED screen /\ screen.page # "batch"
    BY <1>7 DEF BatchInv, BatchReload, WaitlistDesk!HeaderIsRead, WaitlistDesk!NoReload
  <2> QED BY <1>0, <2>1, ListPageGoesOn DEF ScreenPage
<1>70. ASSUME NEW l \in Load, WaitlistDesk!HeaderArrives(l) PROVE BatchInv'
  <2>1. PICK header : screen' = [screen EXCEPT !.header = header]
    BY <1>70 DEF WaitlistDesk!HeaderArrives
  <2>2. /\ ScreenPage' /\ screen'.page = screen.page /\ screen'.tab = screen.tab
        /\ screen'.items = screen.items /\ screen'.selected = screen.selected
    BY <1>0, <2>1 DEF ScreenPage
  <2>3. screen.page # "batch"
    BY <1>70 DEF BatchInv, BatchReload, WaitlistDesk!HeaderArrives, WaitlistDesk!NoReload
  <2> QED BY <2>2, <2>3, ListPageGoesOn
<1>8. ASSUME NEW ids, WaitlistDesk!Toggle(ids) PROVE BatchInv'
  <2>1. /\ ids \subseteq {r.id : r \in screen.items} /\ UNCHANGED reloads
        /\ screen' = [screen EXCEPT !.selected = (screen.selected \cup ids) \ (screen.selected \cap ids)]
    BY <1>8 DEF WaitlistDesk!Toggle, WaitlistDesk!SymDiff
  <2>2. /\ ScreenPage' /\ screen'.page = screen.page /\ screen'.tab = screen.tab
        /\ screen'.items = screen.items
        /\ screen'.selected = (screen.selected \cup ids) \ (screen.selected \cap ids)
    BY <1>0, <2>1 DEF ScreenPage
  <2>3. CASE screen.page = "batch"
    <3>1. screen'.selected \subseteq {r.id : r \in screen'.items}
      BY <2>1, <2>2, <2>3 DEF BatchInv
    <3> QED BY <2>1, <2>2, <3>1, TicksGoOn
  <2>4. CASE screen.page # "batch"
    BY <2>2, <2>4, ListPageGoesOn
  <2> QED BY <2>3, <2>4
<1>9. CASE WaitlistDesk!Answered
  <2>1. CASE screen.page = "batch"
    <3>1. errand.kind = "answered" => errand.tab \in {"new", "reinvite"} /\ errand.filter = NoBook
      BY <2>1 DEF ErrandTypes, WaitlistDesk!BatchTabs
    <3>2. UNCHANGED screen /\ (reloads' \in [Load -> BatchReload] \/ UNCHANGED reloads)
      BY <1>9, <2>1, <3>1, AskingGoesOn DEF WaitlistDesk!Answered
    <3> QED BY <1>0, <3>2, TicksGoOn DEF ScreenPage
  <2>2. CASE screen.page # "batch"
    <3>1. screen' \in {screen, [screen EXCEPT !.items = {}]}
      BY <1>9 DEF WaitlistDesk!Answered
    <3>2. ScreenPage' /\ screen'.page = screen.page
      BY <1>0, <3>1 DEF ScreenPage
    <3> QED BY <2>2, <3>2, ListPageGoesOn
  <2> QED BY <2>1, <2>2
<1>10. CASE \/ WaitlistDesk!InviteSelected \/ WaitlistDesk!MarkSelected \/ WaitlistDesk!SendWave
            \/ WaitlistDesk!PlanBudget \/ WaitlistDesk!Plan \/ WaitlistDesk!Update \/ WaitlistDesk!Elsewhere
            \/ (\E e \in WaitlistDesk!Entry : WaitlistDesk!Invite(e))
            \/ (\E r \in screen.items : WaitlistDesk!InviteRow(r) \/ WaitlistDesk!SetStatus(r) \/
                  \E patch \in WaitlistDesk!Patch : WaitlistDesk!SaveEntry(r, patch))
  <2>1. UNCHANGED <<screen, reloads>>
    BY <1>10 DEF WaitlistDesk!InviteSelected, WaitlistDesk!MarkSelected, WaitlistDesk!SendWave,
       WaitlistDesk!PlanBudget, WaitlistDesk!Plan, WaitlistDesk!Update, WaitlistDesk!Elsewhere, WaitlistDesk!Invite,
       WaitlistDesk!InviteRow, WaitlistDesk!SetStatus, WaitlistDesk!SaveEntry, WaitlistDesk!Begin
  <2> QED BY <1>1, <2>1
<1> QED BY <1>2, <1>3, <1>4, <1>5, <1>6, <1>7, <1>70, <1>8, <1>9, <1>10 DEF WaitlistDesk!WaitlistDeskNext

WaitlistInv == BatchInv /\ EntryTypes /\ ScreenTypes /\ ErrandTypes

LEMMA WaitlistSteps ==
  ASSUME WaitlistInv, WaitlistDesk!WaitlistDeskNext
  PROVE  WaitlistInv' /\ WaitlistDesk!WaveKeepsTheQueue
BY BatchSteps, EntrySteps, ScreenSteps, ErrandSteps, WaveStep DEF WaitlistInv

-----------------------------------------------------------------------------
(* The scenes together. *)

DesksInv ==
  /\ scene = "receipts" => ReceiptInv
  /\ scene = "stock" => StockInv
  /\ scene = "waitlist" => WaitlistInv
  /\ scene = "books" => BookInv
  /\ scene = "reviews" => ReviewInv
  /\ scene = "settings" => SettingsInv

(* What a step may do, of the scenes that promise something of it.         *)
DesksStep ==
  /\ scene = "receipts" => Receipts!GrantWasPaid
  /\ scene = "stock" => StockDesk!ShelfIsAsDrawn
  /\ scene = "waitlist" => WaitlistDesk!WaveKeepsTheQueue
  /\ scene = "reviews" => ReviewDesk!VerdictStands

LEMMA DesksBegin == Init => DesksInv
BY DesksAssumption, ReceiptsBegin, StockBegins, BatchBegins, WaitlistBegins, BookInit, ReviewsBegin,
   SettingsBegin DEF Init, DesksInv, WaitlistInv

LEMMA DesksNext ==
  ASSUME DesksInv, Next
  PROVE  DesksInv' /\ DesksStep
<1>0. scene' = scene
  BY DEF Next
<1>1. CASE scene = "receipts" /\ Receipts!ReceiptsNext
  BY <1>0, <1>1, ReceiptSteps, GrantStep DEF DesksInv, DesksStep
<1>2. CASE scene = "stock" /\ StockDesk!StockDeskNext
  BY <1>0, <1>2, StockSteps, DesksAssumption DEF DesksInv, DesksStep
<1>3. CASE scene = "waitlist" /\ WaitlistDesk!WaitlistDeskNext
  BY <1>0, <1>3, WaitlistSteps DEF DesksInv, DesksStep
<1>4. CASE scene = "books" /\ BookEditor!BookEditorNext
  BY <1>0, <1>4, BookSteps, DesksAssumption DEF DesksInv, DesksStep
<1>5. CASE scene = "reviews" /\ ReviewDesk!ReviewDeskNext
  BY <1>0, <1>5, ReviewSteps DEF DesksInv, DesksStep
<1>6. CASE scene = "settings" /\ SettingsDesk!SettingsNext
  BY <1>0, <1>6, SettingsSteps DEF DesksInv, DesksStep
<1> QED BY <1>1, <1>2, <1>3, <1>4, <1>5, <1>6 DEF Next

LEMMA DesksStutter ==
  ASSUME DesksInv, UNCHANGED vars
  PROVE  DesksInv'
<1>0. UNCHANGED <<scene, rows, gateway, check, log, shop, desk, task, entry, copies, screen, reloads,
                  errand, books, desks, saves,
                  reviews, form, page, act, row, trail, offered, titles, panel, asks, clock>>
  BY DEF vars, receiptVars, stockVars, waitlistVars, bookVars, reviewVars, settingsVars
<1>1. CASE scene = "receipts"
  BY <1>0, <1>1 DEF DesksInv, ReceiptInv, ReceiptTypes, PlacedHaveReceipts, TheCheckKnows, Receipts!Placed,
     Receipts!OnePaidOrderPerReceipt
<1>2. CASE scene = "stock"
  BY <1>0, <1>2 DEF DesksInv, StockInv, TaskIsFresh
<1>3. CASE scene = "waitlist"
  BY <1>0, <1>3 DEF DesksInv, WaitlistInv, BatchInv, ScreenPage, EntryTypes, ScreenTypes, ErrandTypes
<1>4. CASE scene = "books"
  BY <1>0, <1>4 DEF DesksInv, BookInv, BookTypes, BooksAreWhole, BookEditor!CatalogueIsSound, BookEditor!Live
<1>5. CASE scene = "reviews"
  BY <1>0, <1>5 DEF DesksInv, ReviewInv, ActIsWhole, ReviewDesk!ReviewDeskTypeOK
<1>6. CASE scene = "settings"
  BY <1>0, <1>6 DEF DesksInv, SettingsInv, SettingsSaves, SettingsDesk!SettingsTypeOK, BegunByNow, Begun,
     SettingsDesk!TheLogTellsTheRow, SettingsDesk!InForce, SettingsDesk!Cut
<1>7. CASE scene \notin {"receipts", "stock", "waitlist", "books", "reviews", "settings"}
  BY <1>0, <1>7 DEF DesksInv
<1> QED BY <1>1, <1>2, <1>3, <1>4, <1>5, <1>6, <1>7

THEOREM DesksInvariant == Spec => []DesksInv
<1>1. DesksInv /\ [Next]_vars => DesksInv'
  BY DesksNext, DesksStutter
<1> QED BY <1>1, DesksBegin, PTL DEF Spec

LEMMA DesksSteps == Spec => [][DesksStep]_vars
<1>1. DesksInv /\ [Next]_vars => [DesksStep]_vars
  BY DesksNext
<1> QED BY <1>1, DesksInvariant, PTL DEF Spec

(* Every component keeps its types, and what they say of one variable by   *)
(* another: no errand of invitations is empty, no page is on the other's   *)
(* tab, no header promises a wave of no book.                              *)
THEOREM ScenesAreWellFormed == Spec => []WellFormed
<1>1. DesksInv /\ scene \in {"receipts", "stock", "waitlist", "books", "reviews", "settings"} => WellFormed
  <2> SUFFICES ASSUME DesksInv, scene \in {"receipts", "stock", "waitlist", "books", "reviews", "settings"}
               PROVE  WellFormed
    OBVIOUS
  <2>1. CASE scene = "receipts"
    <3>1. Receipts!ReceiptsTypeOK
      BY <2>1 DEF DesksInv, ReceiptInv, ReceiptTypes, PlacedHaveReceipts, ReceiptRow, Receipts!ReceiptsTypeOK,
         Receipts!Checker, Receipts!Placed
    <3> QED BY <2>1, <3>1 DEF WellFormed
  <2>2. CASE scene = "stock"
    <3>1. StockDesk!StockDeskTypeOK
      BY <2>2 DEF DesksInv, StockInv, ShopRow, StockPage, StockTask, StockDesk!StockDeskTypeOK
    <3> QED BY <2>2, <3>1 DEF WellFormed
  <2>3. CASE scene = "books"
    <3>1. BookEditor!BookEditorTypeOK
      BY <2>3 DEF DesksInv, BookInv, BookTypes, BooksAreWhole, BookRow, BookPage, BookEditor!BookEditorTypeOK
    <3> QED BY <2>3, <3>1 DEF WellFormed
  <2>4. CASE scene = "waitlist"
    <3>1. WaitlistDesk!WaitlistDeskTypeOK
      BY <2>4 DEF DesksInv, WaitlistInv, EntryTypes, ScreenTypes, ErrandTypes, WaitlistEntry, WaitlistErrand,
         WaitlistDesk!WaitlistDeskTypeOK
    <3> QED BY <2>4, <3>1 DEF WellFormed
  <2>5. CASE scene = "reviews"
    BY <2>5 DEF WellFormed, DesksInv, ReviewInv
  <2>6. CASE scene = "settings"
    BY <2>6 DEF WellFormed, DesksInv, SettingsInv
  <2> QED BY <2>1, <2>2, <2>3, <2>4, <2>5, <2>6
<1>2. Spec => [](scene \in {"receipts", "stock", "waitlist", "books", "reviews", "settings"})
  <2>1. Init => scene \in {"receipts", "stock", "waitlist", "books", "reviews", "settings"}
    BY DEF Init
  <2>2. scene \in {"receipts", "stock", "waitlist", "books", "reviews", "settings"} /\ [Next]_vars
        => (scene \in {"receipts", "stock", "waitlist", "books", "reviews", "settings"})'
    BY DEF Next, vars
  <2> QED BY <2>1, <2>2, PTL DEF Spec
<1> QED BY <1>1, <1>2, DesksInvariant, PTL

(* Of two orders on one receipt, one has let go of it: whatever the        *)
(* automatic check, the desk and the customers do at the same time.        *)
THEOREM ReceiptsBuyOnce == Spec => []OnePaidOrderPerReceipt
<1>1. DesksInv => OnePaidOrderPerReceipt
  BY DEF DesksInv, ReceiptInv, OnePaidOrderPerReceipt
<1> QED BY <1>1, DesksInvariant, PTL

(* The automatic check confirms a pending order whose receipt came to the  *)
(* whole price, and buys no other live order.                              *)
THEOREM GrantsWerePaid == Spec => AutoGrantsWerePaid
<1>1. DesksStep => (scene = "receipts" => Receipts!GrantWasPaid)
  BY DEF DesksStep
<1> QED BY <1>1, DesksSteps, PTL DEF AutoGrantsWerePaid

(* A saved share is the share that was drawn, however stale the row.       *)
THEOREM SharesAreAsDrawn == Spec => TheShelfIsAsDrawn
<1>1. DesksStep => (scene = "stock" => StockDesk!ShelfIsAsDrawn)
  BY DEF DesksStep
<1> QED BY <1>1, DesksSteps, PTL DEF TheShelfIsAsDrawn

(* The batch page sends to nobody it does not show.                        *)
THEOREM BatchesAreShown == Spec => []BatchTicksAreShown
<1>1. DesksInv => BatchTicksAreShown
  BY DEF DesksInv, WaitlistInv, BatchInv, BatchTicksAreShown, WaitlistDesk!BatchTicksAreShown
<1> QED BY <1>1, DesksInvariant, PTL

(* A wave keeps the line as it finds it: it takes an entry exactly when    *)
(* the budget it read, whatever has become of the release since, has the   *)
(* copies asked for left by those taken before, for every queue, release   *)
(* and size of request.                                                    *)
THEOREM WavesAreInLine == Spec => WavesKeepTheQueue
<1>1. DesksStep => (scene = "waitlist" => WaitlistDesk!WaveKeepsTheQueue)
  BY DEF DesksStep
<1> QED BY <1>1, DesksSteps, PTL DEF WavesKeepTheQueue

(* One slug names one book, and what was ordered is never deleted.         *)
THEOREM CatalogueStaysSound == Spec => []CatalogueIsSound
<1>1. DesksInv => CatalogueIsSound
  BY DEF DesksInv, BookInv, CatalogueIsSound
<1> QED BY <1>1, DesksInvariant, PTL

(* Featuring or annotating leaves a colleague's verdict standing.          *)
THEOREM VerdictsAreKept == Spec => VerdictsStand
<1>1. DesksStep => (scene = "reviews" => ReviewDesk!VerdictStands)
  BY DEF DesksStep
<1> QED BY <1>1, DesksSteps, PTL DEF VerdictsStand

(* A group that was ever saved is as an entry of the audit log says, and   *)
(* what the log lists above that entry is of saves that had begun before   *)
(* it committed, for any number of managers, saves and overlaps.           *)
THEOREM LogsTellTheRow == Spec => []TheLogTellsTheRow
<1>1. DesksInv => TheLogTellsTheRow
  BY DEF DesksInv, SettingsInv, TheLogTellsTheRow
<1> QED BY <1>1, DesksInvariant, PTL
=============================================================================
