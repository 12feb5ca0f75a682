----------------------------- MODULE ReviewDesk -----------------------------
(***************************************************************************)
(* Testimonials: the form a visitor fills (review-form.tsx), the service   *)
(* that stores and shows them, and the page on which moderators approve,   *)
(* reject, feature, annotate and delete them (apps/web admin/reviews,      *)
(* AdminReviewsService).  An update reads the row, writes it and reads it  *)
(* back, each on its own, while a colleague judges the same testimonials.  *)
(*                                                                         *)
(* Searching and turning pages are left out: every page is the first.      *)
(***************************************************************************)
EXTENDS Naturals

CONSTANTS
  Review,     \* ids of testimonials
  NoReview,
  Tabs,       \* the tabs they switch between
  MaxActs     \* bound: what moderators do to testimonials

VARIABLES
  reviews,    \* the rows
  form,       \* the visitor's form
  page,       \* what the moderator sees
  act,        \* the request the page waits for
  done

reviewVars == <<reviews, form, page, act, done>>

ReviewStatus == {"PENDING", "APPROVED", "REJECTED", "SPAM"}
NoTestimonial == [status |-> "never", published |-> FALSE, featured |-> FALSE, note |-> "none"]
NoAct == [step |-> "none", kind |-> "none", value |-> "none", review |-> NoReview, tab |-> "PENDING", seen |-> "none"]

Kept(r) == reviews[r].status \in ReviewStatus
Listed(tab) == {r \in Review : reviews[r].status = tab}

ReviewDeskInit ==
  /\ reviews = [r \in Review |-> NoTestimonial]
  /\ form = "writing"
  /\ page = [tab |-> "PENDING", rows |-> <<>>, loads |-> {"PENDING"}]
  /\ act = NoAct
  /\ done = 0

Once == done < MaxActs /\ done' = done + 1

-----------------------------------------------------------------------------
(* The visitor.  Sent once, the form is gone; a lost answer leaves it to   *)
(* be sent again, and the service keeps both.                              *)
SubmitReview == form = "writing" /\ form' = "sending" /\ UNCHANGED reviews

StoreReview ==
  /\ form = "sending"
  /\ \/ \E r \in Review :
          /\ reviews[r].status = "never"
          /\ reviews' = [reviews EXCEPT ![r].status = "PENDING"]
          /\ form' = "stored"
     \/ form' = "writing" /\ UNCHANGED reviews

FormAnswered == form = "stored" /\ form' \in {"sent", "writing"} /\ UNCHANGED reviews

Visitor == (SubmitReview \/ StoreReview \/ FormAnswered) /\ UNCHANGED <<page, act, done>>

(* What the storefront shows.                                              *)
Published == Listed("APPROVED")
FeaturedReviews == {r \in Published : reviews[r].featured}

-----------------------------------------------------------------------------
(* The page.  A load empties the table at once, and whichever answer comes *)
(* last fills it, whatever the tab is by then.                             *)
Loading(tab) == [page EXCEPT !.rows = <<>>, !.loads = page.loads \cup {tab}]

SwitchReviewTab(tab) ==
  /\ tab # page.tab
  /\ page' = [Loading(tab) EXCEPT !.tab = tab]
  /\ UNCHANGED <<reviews, form, act, done>>

LoadArrives(tab) ==
  /\ tab \in page.loads
  /\ \E rows \in {[r \in Listed(tab) |-> reviews[r]], page.rows} :
       page' = [page EXCEPT !.loads = page.loads \ {tab}, !.rows = rows]
  /\ act' = IF act.step = "reload" /\ act.tab = tab THEN NoAct ELSE act
  /\ UNCHANGED <<reviews, form, done>>

Press(r, kind, value) ==
  /\ act.step = "none" /\ r \in DOMAIN page.rows /\ Once
  /\ act' = [step |-> IF kind = "delete" THEN "delete" ELSE "read", kind |-> kind, value |-> value,
             review |-> r, tab |-> page.tab, seen |-> "none"]
  /\ UNCHANGED <<reviews, form, page>>

SetReviewStatus(r, status) ==
  /\ r \in DOMAIN page.rows /\ page.rows[r].status # status
  /\ Press(r, "status", status)

ToggleFeatured(r) ==
  /\ r \in DOMAIN page.rows
  /\ Press(r, "featured", IF page.rows[r].featured THEN "no" ELSE "yes")

EditNote(r) == Press(r, "note", "text")
RemoveReview(r) == Press(r, "delete", "none")

-----------------------------------------------------------------------------
(* AdminReviewsService *)

(* A mutant: the update writes back the status it read.                    *)
Written_WholeRow(row, a) ==
  LET status == IF a.kind = "status" THEN a.value ELSE a.seen IN
  [row EXCEPT !.status = status, !.published = (status = "APPROVED"),
              !.featured = IF a.kind = "featured" THEN a.value = "yes" ELSE row.featured,
              !.note = IF a.kind = "note" THEN a.value ELSE row.note]

(* Only what was sent is written; a status dates or undates the row.       *)
Written(row, a) ==
  CASE a.kind = "status"   -> [row EXCEPT !.status = a.value, !.published = (a.value = "APPROVED")]
    [] a.kind = "featured" -> [row EXCEPT !.featured = (a.value = "yes")]
    [] a.kind = "note"     -> [row EXCEPT !.note = a.value]

Deleted(row) == [row EXCEPT !.status = "deleted", !.published = FALSE]

UpdateReview ==
  LET r == act.review IN
  /\ \/ /\ act.step = "read"
        /\ act' = [act EXCEPT !.step = IF Kept(r) THEN "write" ELSE "failed", !.seen = reviews[r].status]
        /\ UNCHANGED reviews
     \/ /\ act.step = "write"
        /\ reviews' = IF Kept(r) THEN [reviews EXCEPT ![r] = Written(reviews[r], act)] ELSE reviews
        /\ act' = [act EXCEPT !.step = "written"]
     \/ /\ act.step = "written"
        /\ act' = [act EXCEPT !.step = IF Kept(r) THEN "done" ELSE "failed"]
        /\ UNCHANGED reviews
  /\ UNCHANGED <<form, page, done>>

DeleteReview ==
  LET r == act.review IN
  /\ act.step = "delete"
  /\ reviews' = IF Kept(r) THEN [reviews EXCEPT ![r] = Deleted(reviews[r])] ELSE reviews
  /\ act' = [act EXCEPT !.step = IF Kept(r) THEN "done" ELSE "failed"]
  /\ UNCHANGED <<form, page, done>>

(* A success reloads the tab the button was on; an error, or no answer,    *)
(* leaves the table as it was.                                             *)
ReviewAnswered ==
  /\ \/ act.step = "done" /\ act' = [act EXCEPT !.step = "reload"] /\ page' = Loading(act.tab)
     \/ act.step \in {"done", "failed"} /\ act' = NoAct /\ UNCHANGED page
  /\ UNCHANGED <<reviews, form, done>>

(* A colleague's verdict, feature, note or deletion.                       *)
Colleague(r) ==
  /\ Kept(r) /\ Once
  /\ LET Wanted(kind, value) == [NoAct EXCEPT !.kind = kind, !.value = value, !.seen = reviews[r].status] IN
     \E row \in {Written(reviews[r], Wanted("status", status)) : status \in ReviewStatus}
             \cup {Written(reviews[r], Wanted("featured", v)) : v \in {"yes", "no"}}
             \cup {Deleted(reviews[r])} :
       reviews' = [reviews EXCEPT ![r] = row]
  /\ UNCHANGED <<form, page, act>>

ReviewDeskNext ==
  \/ Visitor \/ UpdateReview \/ DeleteReview \/ ReviewAnswered
  \/ \E tab \in Tabs : SwitchReviewTab(tab) \/ LoadArrives(tab)
  \/ \E r \in Review :
       \/ ToggleFeatured(r) \/ EditNote(r) \/ RemoveReview(r) \/ Colleague(r)
       \/ \E status \in ReviewStatus \ {"PENDING"} : SetReviewStatus(r, status)

ReviewDeskSpec == ReviewDeskInit /\ [][ReviewDeskNext]_reviewVars

-----------------------------------------------------------------------------
(* initial_reviews_published_at_matches_status                             *)
ReviewDeskTypeOK == \A r \in Review : reviews[r].published <=> reviews[r].status = "APPROVED"

(* A feature or a note, pressed on a row that a colleague judges while the *)
(* request is under way, leaves the verdict standing: nothing a moderator  *)
(* refused is published by it.                                             *)
VerdictStands ==
  act.step = "write" /\ act'.step = "written" /\ act.kind # "status" =>
    Published' = Published /\ \A r \in Review : reviews'[r].status = reviews[r].status

-----------------------------------------------------------------------------
(* What is promised and the code does not keep (README, 4).                *)

(* page.tsx:153: a tab shows the testimonials of its status.  The answer   *)
(* to a tab left behind fills the one that is open.                        *)
RowsAreOfTheirTab ==
  page.loads = {} => \A r \in DOMAIN page.rows : page.rows[r].status = page.tab

(* review-form.tsx:189: sent once, the form is gone.  Not when the answer  *)
(* was lost: the press after it makes a second testimonial.                *)
AFormIsStoredOnce == \A r, s \in Review : Kept(r) /\ Kept(s) => r = s
=============================================================================
