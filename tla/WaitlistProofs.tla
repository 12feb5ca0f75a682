--------------------------- MODULE WaitlistProofs ---------------------------
(***************************************************************************)
(* Proofs about module Waitlist, for any entries, releases, orders and     *)
(* staff: rows and links stay sound whatever happens; no release is        *)
(* overdrawn, and whoever is invited is admitted, unless what is excused   *)
(* happened.                                                               *)
(***************************************************************************)
EXTENDS MCWaitlist, FiniteSetTheorems, WellFoundedInduction, TLAPS

EntryRow == [status : {"ABSENT", "PENDING", "NOTIFIED", "CONVERTED", "CANCELLED"},
             invite : {"none", "live", "lapsed", "spent"},
             release : Release \cup {NoRelease}, order : Order \cup {NoOrder}, sale : Order \cup {NoOrder}]
OrderRow == [state : {"none", "PENDING", "PAID", "SENT", "CANCELLED", "REFUNDED"}, copies : 0..MaxBuy,
             buyer : Entry \cup {NoEntry}]
ReleaseRow == [state : {"none", "OPEN", "CLOSED"}, copies : 0..MaxRelease]
BatchRow == [release : Release \cup {NoRelease}, todo : SUBSET Entry, texting : SUBSET Entry, fresh : SUBSET Entry]
ResizeRow == [release : Release \cup {NoRelease}, copies : 0..MaxRelease]

(* An entry says which release its link is of only while it has a link. *)
Charges(it) == it.release # NoRelease => it.invite # "none"

LEMMA Types ==
  /\ WaitlistTypeOK <=>
       /\ stock \in 0..MaxStock
       /\ entry \in [Entry -> EntryRow] /\ \A e \in Entry : Charges(entry[e])
       /\ release \in [Release -> ReleaseRow]
       /\ order \in [Order -> OrderRow]
       /\ batch \in [Worker -> BatchRow]
       /\ resizing \in ResizeRow
  /\ WaitlistTypeOK' <=>
       /\ stock' \in 0..MaxStock
       /\ entry' \in [Entry -> EntryRow] /\ \A e \in Entry : Charges(entry'[e])
       /\ release' \in [Release -> ReleaseRow]
       /\ order' \in [Order -> OrderRow]
       /\ batch' \in [Worker -> BatchRow]
       /\ resizing' \in ResizeRow
BY DEF WaitlistTypeOK, EntryRow, OrderRow, ReleaseRow, BatchRow, ResizeRow, Charges

-----------------------------------------------------------------------------
(* Sums. *)

(* Copies that are counted: finitely many. *)
LEMMA CountedCopies ==
  ASSUME NEW S, IsFiniteSet(S), NEW n, \A x \in S : n[x] \in Int
  PROVE  IsFiniteSet(UNION {{x} \X (1..n[x]) : x \in S})
<1> DEFINE f == [x \in S |-> {x} \X (1..n[x])]
           parts == {{x} \X (1..n[x]) : x \in S}
<1>1. IsFiniteSet(parts)
  <2>1. f \in [S -> parts]
    OBVIOUS
  <2>2. \A t \in parts : \E x \in S : f[x] = t
    OBVIOUS
  <2>3. f \in Surjection(S, parts)
    BY <2>1, <2>2 DEF Surjection
  <2> HIDE DEF f, parts
  <2>4. IsFiniteSet(parts)
    BY <2>3, FS_Surjection
  <2> QED BY <2>4
<1>2. ASSUME NEW T \in parts PROVE IsFiniteSet(T)
  <2>1. PICK x \in S : T = {x} \X (1..n[x])
    BY <1>2
  <2>2. IsFiniteSet({x}) /\ IsFiniteSet(1..n[x])
    <3>1. n[x] \in Int
      OBVIOUS
    <3>2. IsFiniteSet(1..n[x])
      BY <3>1, FS_Interval
    <3> QED BY <3>2, FS_Singleton
  <2> QED BY <2>1, <2>2, FS_Product
<1> QED BY <1>1, <1>2, FS_UNION

LEMMA ASumIsANumber ==
  ASSUME NEW S, IsFiniteSet(S), NEW n, \A x \in S : n[x] \in Int
  PROVE  CopiesOf(S, n) \in Nat
BY CountedCopies, FS_CardinalityType DEF CopiesOf

(* What the public may buy is never more than is on the shelf. *)
LEMMA AvailableIsOnTheShelf ==
  ASSUME WaitlistTypeOK, NEW en, en \in [Entry -> EntryRow]
  PROVE  /\ Reserved(en) \in Nat /\ Ringfenced(en) \in Nat
         /\ Available(en) \in Int /\ Available(en) <= stock
<1>1. Reserved(en) \in Nat
  <2>1. IsFiniteSet(Live(en))
    BY FS_Subset, WaitlistAssumption DEF WaitlistAssumption, Live
  <2>2. \A x \in Live(en) : Quantity[x] \in Int
    BY WaitlistAssumption DEF WaitlistAssumption, Live
  <2> QED BY <2>1, <2>2, ASumIsANumber DEF Reserved
<1>2. \A r \in Release : Committed(en, r) \in Nat
  <2> TAKE r \in Release
  <2> DEFINE S == {e \in Entry : en[e].release = r /\ en[e].invite \in {"live", "spent"}}
             n == [e \in Entry |-> Charged(en, e)]
  <2>1. IsFiniteSet(S)
    BY FS_Subset, WaitlistAssumption DEF WaitlistAssumption
  <2>2. ASSUME NEW x \in S PROVE n[x] \in Int
    <3>1. Quantity[x] \in Int
      BY WaitlistAssumption DEF WaitlistAssumption
    <3>2. en[x].sale # NoOrder => order[en[x].sale].copies \in Int
      <4>1. en[x] \in EntryRow
        OBVIOUS
      <4>2. en[x].sale # NoOrder => en[x].sale \in Order
        BY <4>1 DEF EntryRow
      <4> QED BY <4>2, WaitlistAssumption, Types DEF OrderRow, WaitlistAssumption
    <3> QED BY <3>1, <3>2 DEF Charged
  <2> HIDE DEF S, n
  <2>3. CopiesOf(S, n) \in Nat
    BY <2>1, <2>2, ASumIsANumber
  <2> QED BY <2>3 DEF Committed, S, n
<1>3. Ringfenced(en) \in Nat
  <2> DEFINE n == [r \in Release |-> release[r].copies - Committed(en, r)]
  <2>1. IsFiniteSet(Open)
    BY FS_Subset, WaitlistAssumption DEF WaitlistAssumption, Open
  <2>2. \A r \in Open : n[r] \in Int
    BY <1>2, Types, WaitlistAssumption DEF Open, ReleaseRow, WaitlistAssumption
  <2> HIDE DEF n
  <2>3. CopiesOf(Open, n) \in Nat
    BY <2>1, <2>2, ASumIsANumber
  <2> QED BY <2>3 DEF Ringfenced, n
<1>4. stock \in Nat
  BY Types
<1> QED BY <1>1, <1>3, <1>4 DEF Available

-----------------------------------------------------------------------------
(* Types and links. *)

LinksInv == WaitlistTypeOK /\ LinksAwaitPayment

(* Releases and resizes. *)
LEMMA ReleaseSteps ==
  ASSUME LinksInv,
         \/ \E r \in Release, n \in 1..MaxRelease : OpenRelease(r, n) \/ StartResize(r, n)
         \/ \E r \in Release : CloseRelease(r)
         \/ Resize
  PROVE  LinksInv'
<1> USE WaitlistAssumption DEF LinksInv, LinksAwaitPayment, WaitlistAssumption
<1>0. MaxRelease \in Nat
  OBVIOUS
<1>1. ASSUME NEW r \in Release, NEW n \in 1..MaxRelease, OpenRelease(r, n) PROVE LinksInv'
  BY <1>0, <1>1, Types DEF OpenRelease, ReleaseRow
<1>2. ASSUME NEW r \in Release, NEW n \in 1..MaxRelease, StartResize(r, n) PROVE LinksInv'
  BY <1>0, <1>2, Types DEF StartResize, ResizeRow
<1>3. ASSUME NEW r \in Release, CloseRelease(r) PROVE LinksInv'
  <2>1. release[r] \in ReleaseRow /\ release' = [release EXCEPT ![r].state = "CLOSED"]
    BY <1>3, Types DEF CloseRelease
  <2>2. release' \in [Release -> ReleaseRow]
    BY <2>1, Types DEF ReleaseRow
  <2> QED BY <1>3, <2>2, Types DEF CloseRelease
<1>4. CASE Resize
  <2>1. resizing' = NoResize /\ NoResize \in ResizeRow
    BY <1>0, <1>4 DEF Resize, NoResize, ResizeRow
  <2>2. release' \in [Release -> ReleaseRow]
    <3>1. resizing.copies \in 0..MaxRelease
      BY Types DEF ResizeRow
    <3>2. resizing.release \in Open => release[resizing.release] \in ReleaseRow
      BY Types DEF Open
    <3> QED BY <1>4, <3>1, <3>2, Types DEF Resize, ReleaseRow, Open
  <2> QED BY <1>4, <2>1, <2>2, Types DEF Resize
<1> QED BY <1>1, <1>2, <1>3, <1>4

(* What a step writes to the entries of a batch or of a customer: a row of *)
(* its type, and the same link to an order.                                *)
LEMMA EntriesWritten ==
  ASSUME LinksInv, entry' \in [Entry -> EntryRow], \A x \in Entry : Charges(entry'[x]),
         \A x \in Entry : entry'[x].order \in {entry[x].order, NoOrder},
         UNCHANGED <<stock, release, order, resizing>>, batch' \in [Worker -> BatchRow]
  PROVE  LinksInv'
BY Types DEF LinksInv, LinksAwaitPayment

LEMMA OneEntryWritten ==
  ASSUME LinksInv, NEW e \in Entry, NEW it \in EntryRow, Charges(it), it.order = entry[e].order,
         entry' = [entry EXCEPT ![e] = it],
         UNCHANGED <<stock, release, order, resizing>>, batch' \in [Worker -> BatchRow]
  PROVE  LinksInv'
<1>1. entry' \in [Entry -> EntryRow] /\ entry'[e] = it /\ \A x \in Entry \ {e} : entry'[x] = entry[x]
  BY Types DEF LinksInv
<1> QED BY <1>1, Types, EntriesWritten DEF LinksInv

(* The batches of invites. *)
LEMMA BatchSteps ==
  ASSUME LinksInv, NEW w \in Worker,
         \/ PlanBatch(w)
         \/ \E e \in Entry : Issue(w, e) \/ \E arrives \in BOOLEAN : Text(w, e, arrives)
  PROVE  LinksInv'
<1> DEFINE b == batch[w]
<1>0. batch \in [Worker -> BatchRow] /\ b \in BatchRow /\ NoBatch \in BatchRow
  BY Types DEF LinksInv, NoBatch, BatchRow
<1>1. CASE PlanBatch(w)
  <2>1. PICK r \in Open, S \in SUBSET Eligible : \E ids \in SetToSeqs(S) :
          batch' = [batch EXCEPT ![w] =
                   [release |-> r, todo |-> Granted(r, ids), texting |-> {},
                    fresh |-> {e \in Granted(r, ids) : entry[e].status = "PENDING"}]]
    BY <1>1 DEF PlanBatch
  <2>a. PICK ids \in SetToSeqs(S) :
          batch' = [batch EXCEPT ![w] =
                   [release |-> r, todo |-> Granted(r, ids), texting |-> {},
                    fresh |-> {e \in Granted(r, ids) : entry[e].status = "PENDING"}]]
    BY <2>1
  <2>2. Granted(r, ids) \subseteq Entry
    <3>1. S \subseteq Entry
      BY DEF Eligible
    <3>2. \A i \in DOMAIN ids : ids[i] \in S
      BY DEF SetToSeqs
    <3> QED BY <3>1, <3>2 DEF Granted
  <2>3. r \in Release
    BY DEF Open
  <2> HIDE DEF b
  <2> DEFINE g == Granted(r, ids)
             f == {e \in g : entry[e].status = "PENDING"}
             new == [release |-> r, todo |-> g, texting |-> {}, fresh |-> f]
  <2>4. g \in SUBSET Entry /\ f \in SUBSET Entry
    BY <2>2
  <2> HIDE DEF g, f
  <2>5. new \in BatchRow
    BY <2>3, <2>4 DEF BatchRow
  <2>6. batch' = [batch EXCEPT ![w] = new]
    BY <2>a DEF g, f
  <2> HIDE DEF new
  <2>7. batch' \in [Worker -> BatchRow]
    BY <1>0, <2>5, <2>6
  <2> QED BY <1>1, <2>7, Types DEF LinksInv, LinksAwaitPayment, PlanBatch
<1>2. ASSUME NEW e \in Entry, Issue(w, e) PROVE LinksInv'
  <2>1. entry[e] \in EntryRow /\ b.release \in Release \cup {NoRelease}
    BY <1>0, Types DEF LinksInv, BatchRow
  <2> DEFINE it == [entry[e] EXCEPT !.invite = "live", !.release = b.release]
  <2>2. it \in EntryRow /\ it.invite = "live" /\ it.order = entry[e].order
    BY <2>1 DEF EntryRow
  <2>3. entry' = [entry EXCEPT ![e] = it]
    BY <1>2, <2>1, Types DEF LinksInv, Issue, EntryRow
  <2>4. batch' \in [Worker -> BatchRow]
    <3>1. batch' = [batch EXCEPT ![w].todo = @ \ {e}, ![w].texting = @ \cup {e}]
      BY <1>2 DEF Issue
    <3> QED BY <1>0, <3>1 DEF BatchRow
  <2>5. UNCHANGED <<stock, release, order, resizing>>
    BY <1>2 DEF Issue
  <2> HIDE DEF it
  <2> QED BY <2>2, <2>3, <2>4, <2>5, OneEntryWritten DEF Charges
<1>3. ASSUME NEW e \in Entry, NEW arrives \in BOOLEAN, Text(w, e, arrives) PROVE LinksInv'
  <2>1. batch' \in [Worker -> BatchRow]
    <3>1. CASE batch' = [batch EXCEPT ![w] = NoBatch]
      BY <1>0, <3>1
    <3>2. CASE batch' = [batch EXCEPT ![w].texting = @ \ {e}, ![w].fresh = @ \ {e}]
      BY <1>0, <3>2 DEF BatchRow
    <3> QED BY <1>3, <3>1, <3>2 DEF Text
  <2>2. UNCHANGED <<stock, release, order, resizing>>
    BY <1>3 DEF Text
  <2>3. CASE entry' = entry
    BY <2>1, <2>2, <2>3, Types DEF LinksInv, LinksAwaitPayment
  <2>4. CASE entry' = [entry EXCEPT ![e].status = "NOTIFIED"]
    <3> DEFINE it == [entry[e] EXCEPT !.status = "NOTIFIED"]
    <3>1. entry[e] \in EntryRow /\ Charges(entry[e])
      BY Types DEF LinksInv
    <3>2. it \in EntryRow /\ it.order = entry[e].order /\ Charges(it)
      BY <3>1 DEF EntryRow, Charges
    <3>3. entry' = [entry EXCEPT ![e] = it]
      BY <2>4, Types DEF LinksInv
    <3> HIDE DEF it
    <3> QED BY <2>1, <2>2, <3>2, <3>3, OneEntryWritten
  <2> QED BY <1>3, <2>3, <2>4 DEF Text
<1> QED BY <1>1, <1>2, <1>3

LEMMA CrashKeepsLinks == ASSUME LinksInv, Crash PROVE LinksInv'
<1>1. NoBatch \in BatchRow /\ NoResize \in ResizeRow
  BY WaitlistAssumption DEF NoBatch, BatchRow, NoResize, ResizeRow, WaitlistAssumption
<1> QED BY <1>1, Types DEF LinksInv, LinksAwaitPayment, Crash

(* Those who sign up, whose links lapse, and whose entries staff correct. *)
LEMMA EntrySteps ==
  ASSUME LinksInv, NEW e \in Entry,
         \/ Subscribe(e) \/ Lapse(e)
         \/ \E s \in {"PENDING", "NOTIFIED", "CONVERTED", "CANCELLED"} : StaffSets(e, s)
  PROVE  LinksInv'
<1>0. entry[e] \in EntryRow /\ Charges(entry[e]) /\ batch \in [Worker -> BatchRow]
  BY Types DEF LinksInv
<1>1. CASE Subscribe(e)
  <2> DEFINE it == [entry[e] EXCEPT !.status = "PENDING"]
  <2>1. it \in EntryRow /\ it.order = entry[e].order /\ Charges(it)
    BY <1>0 DEF EntryRow, Charges
  <2>2. entry' = [entry EXCEPT ![e] = it]
    BY <1>1, Types DEF LinksInv, Subscribe
  <2>3. UNCHANGED <<stock, release, order, resizing, batch>>
    BY <1>1 DEF Subscribe
  <2> HIDE DEF it
  <2> QED BY <1>0, <2>1, <2>2, <2>3, OneEntryWritten
<1>2. CASE Lapse(e)
  <2> DEFINE it == [entry[e] EXCEPT !.invite = "lapsed"]
  <2>1. it \in EntryRow /\ it.order = entry[e].order /\ Charges(it)
    BY <1>0 DEF EntryRow, Charges
  <2>2. entry' = [entry EXCEPT ![e] = it]
    BY <1>2, Types DEF LinksInv, Lapse
  <2>3. UNCHANGED <<stock, release, order, resizing, batch>>
    BY <1>2 DEF Lapse
  <2> HIDE DEF it
  <2> QED BY <1>0, <2>1, <2>2, <2>3, OneEntryWritten
<1>3. ASSUME NEW s \in {"PENDING", "NOTIFIED", "CONVERTED", "CANCELLED"}, StaffSets(e, s) PROVE LinksInv'
  <2> DEFINE set == [entry[e] EXCEPT !.status = s]
             it == IF s = "CANCELLED" THEN Revoked(set) ELSE set
  <2>1. it \in EntryRow /\ it.order = entry[e].order /\ Charges(it)
    <3>1. set \in EntryRow /\ set.order = entry[e].order /\ Charges(set)
      BY <1>0 DEF EntryRow, Charges
    <3>2. Revoked(set) \in EntryRow /\ Revoked(set).order = entry[e].order /\ Charges(Revoked(set))
      BY <3>1 DEF Revoked, EntryRow, Charges
    <3> QED BY <3>1, <3>2
  <2>2. entry' = [entry EXCEPT ![e] = it]
    BY <1>3, Types DEF LinksInv, StaffSets
  <2>3. UNCHANGED <<stock, release, order, resizing, batch>>
    BY <1>3 DEF StaffSets
  <2> HIDE DEF it
  <2> QED BY <1>0, <2>1, <2>2, <2>3, OneEntryWritten
<1> QED BY <1>1, <1>2, <1>3

LEMMA CountKeepsLinks == ASSUME LinksInv, NEW n \in 0..MaxStock, SetStock(n) PROVE LinksInv'
BY Types DEF LinksInv, LinksAwaitPayment, SetStock

(* An order is placed: what it is linked to is that order alone. *)
LEMMA OrderPlaced ==
  ASSUME LinksInv, NEW o \in Order, NEW n \in 1..MaxBuy, NEW who \in Entry \cup {NoEntry},
         NEW en \in [Entry -> EntryRow], n <= Available(en), Place(o, n, who),
         entry' \in [Entry -> EntryRow], \A x \in Entry : Charges(entry'[x]),
         \A x \in Entry : entry'[x].order \in {entry[x].order, o},
         UNCHANGED <<release, batch, resizing>>
  PROVE  LinksInv'
<1>0. MaxBuy \in Nat /\ MaxStock \in Nat /\ stock \in 0..MaxStock /\ order \in [Order -> OrderRow] /\ NoOrder \notin Order
  BY Types, WaitlistAssumption DEF LinksInv, WaitlistAssumption
<1>1. Available(en) \in Int /\ Available(en) <= stock
  BY AvailableIsOnTheShelf DEF LinksInv
<1>2. stock' \in 0..MaxStock
  BY <1>0, <1>1 DEF Place
<1>3. /\ order' \in [Order -> OrderRow] /\ order'[o].state = "PENDING"
      /\ \A x \in Order \ {o} : order'[x] = order[x]
  BY <1>0 DEF Place, OrderRow
<1>4. WaitlistTypeOK'
  BY <1>2, <1>3, Types DEF LinksInv
<1>5. ASSUME NEW x \in Entry, entry'[x].order # NoOrder PROVE order'[entry'[x].order].state = "PENDING"
  <2>1. CASE entry'[x].order = o
    BY <1>3, <2>1
  <2>2. CASE entry'[x].order = entry[x].order /\ entry[x].order # o
    <3>1. entry[x].order \in Order \ {o} /\ order[entry[x].order].state = "PENDING"
      BY <1>5, <2>2, Types DEF LinksInv, LinksAwaitPayment, EntryRow
    <3> QED BY <1>3, <2>2, <3>1
  <2> QED BY <2>1, <2>2
<1> QED BY <1>4, <1>5 DEF LinksInv, LinksAwaitPayment

LEMMA CustomerSteps ==
  ASSUME LinksInv, NEW o \in Order, NEW n \in 1..MaxBuy,
         StrangerBuys(o, n) \/ \E e \in Entry : InviteeBuys(e, o, n) \/ WaiterBuys(e, o, n)
  PROVE  LinksInv'
<1>0. entry \in [Entry -> EntryRow] /\ \A x \in Entry : Charges(entry[x])
  BY Types DEF LinksInv
<1>1. CASE StrangerBuys(o, n)
  BY <1>0, <1>1, OrderPlaced DEF StrangerBuys
<1>2. ASSUME NEW e \in Entry, InviteeBuys(e, o, n) PROVE LinksInv'
  <2> DEFINE spent == [entry EXCEPT ![e].invite = "spent"]
             after == [spent EXCEPT ![e].status = "CONVERTED", ![e].sale = o]
  <2>1. entry[e] \in EntryRow
    BY <1>0
  <2>2. spent \in [Entry -> EntryRow]
    BY <1>0, <2>1 DEF EntryRow
  <2>3. after \in [Entry -> EntryRow]
    BY <1>0, <2>1 DEF EntryRow
  <2>4. \A x \in Entry : after[x].order = entry[x].order /\ Charges(after[x])
    BY <1>0, <2>1 DEF EntryRow, Charges
  <2>5. n <= Available(spent) /\ entry' = after /\ Place(o, n, NoEntry) /\ UNCHANGED <<release, batch, resizing>>
    BY <1>2 DEF InviteeBuys
  <2> HIDE DEF spent, after
  <2> QED BY <2>2, <2>3, <2>4, <2>5, OrderPlaced
<1>3. ASSUME NEW e \in Entry, WaiterBuys(e, o, n) PROVE LinksInv'
  <2> DEFINE after == [entry EXCEPT ![e].order = o]
  <2>1. after \in [Entry -> EntryRow] /\ \A x \in Entry : after[x].order \in {entry[x].order, o} /\ Charges(after[x])
    BY <1>0 DEF EntryRow, Charges
  <2>2. n <= Available(entry) /\ entry' = after /\ Place(o, n, e) /\ UNCHANGED <<release, batch, resizing>>
    BY <1>3 DEF WaiterBuys
  <2> HIDE DEF after
  <2> QED BY <1>0, <2>1, <2>2, OrderPlaced
<1> QED BY <1>1, <1>2, <1>3

(* Who is linked to an order that is to have this state. *)
LetsGo(o, state) ==
  \A x \in Entry :
    \/ entry'[x].order = IF entry[x].order = o THEN NoOrder ELSE entry[x].order
    \/ entry'[x].order = entry[x].order /\ (state = "PENDING" \/ order[o].state # "PENDING")

(* An order goes on: whoever was linked to one that is no longer pending   *)
(* is linked no more.                                                      *)
LEMMA OrderGoesOn ==
  ASSUME LinksInv, NEW o \in Order, NEW row \in OrderRow, order' = [order EXCEPT ![o] = row], stock' \in 0..MaxStock,
         entry' \in [Entry -> EntryRow], \A x \in Entry : Charges(entry'[x]),
         LetsGo(o, row.state),
         UNCHANGED <<release, batch, resizing>>
  PROVE  LinksInv'
<1>1. order' \in [Order -> OrderRow] /\ order'[o] = row /\ \A x \in Order \ {o} : order'[x] = order[x]
  BY Types DEF LinksInv
<1>2. WaitlistTypeOK'
  BY <1>1, Types DEF LinksInv
<1>3. ASSUME NEW x \in Entry, entry'[x].order # NoOrder PROVE order'[entry'[x].order].state = "PENDING"
  <2>0. entry'[x].order \in Order /\ entry[x].order \in Order \cup {NoOrder}
    BY <1>3, Types DEF LinksInv, EntryRow
  <2>1. /\ entry'[x].order = entry[x].order
        /\ entry[x].order = o => row.state = "PENDING" \/ order[o].state # "PENDING"
    BY <1>3 DEF LetsGo
  <2>2. order[entry[x].order].state = "PENDING"
    BY <1>3, <2>1 DEF LinksInv, LinksAwaitPayment
  <2>3. CASE entry[x].order = o
    BY <1>1, <1>3, <2>1, <2>2, <2>3
  <2>4. CASE entry[x].order # o
    BY <1>1, <2>0, <2>1, <2>2, <2>4
  <2> QED BY <2>3, <2>4
<1> QED BY <1>2, <1>3 DEF LinksInv, LinksAwaitPayment

LEMMA LifecycleSteps == ASSUME LinksInv, Lifecycle PROVE LinksInv'
<1>0. /\ entry \in [Entry -> EntryRow] /\ order \in [Order -> OrderRow] /\ stock \in 0..MaxStock /\ MaxStock \in Nat /\ MaxBuy \in Nat
      /\ \A x \in Entry : Charges(entry[x])
  BY Types, WaitlistAssumption DEF LinksInv, WaitlistAssumption
<1>a. ASSUME NEW o \in Order, NEW state \in {"PENDING", "PAID", "SENT", "CANCELLED", "REFUNDED"}
      PROVE  /\ [order[o] EXCEPT !.state = state] \in OrderRow /\ [order[o] EXCEPT !.state = state].state = state
             /\ [order EXCEPT ![o].state = state] = [order EXCEPT ![o] = [order[o] EXCEPT !.state = state]]
  BY <1>0 DEF OrderRow
<1>1. ASSUME NEW o \in Order, OrderPaid(o) PROVE LinksInv'
  <2> DEFINE row == [order[o] EXCEPT !.state = "PAID"]
  <2>1. row \in OrderRow /\ order' = [order EXCEPT ![o] = row]
    BY <1>1, <1>a DEF OrderPaid
  <2>2. ASSUME NEW x \in Entry
        PROVE  /\ Settled(o, entry[x]) \in EntryRow /\ Charges(Settled(o, entry[x]))
               /\ Settled(o, entry[x]).order = IF entry[x].order = o THEN NoOrder ELSE entry[x].order
    BY <1>0 DEF Settled, Released, EntryRow, Charges
  <2>3. entry' \in [Entry -> EntryRow] /\ \A x \in Entry : entry'[x] = Settled(o, entry[x])
    BY <1>1, <2>2 DEF OrderPaid
  <2>4. stock' \in 0..MaxStock /\ UNCHANGED <<release, batch, resizing>>
    BY <1>0, <1>1 DEF OrderPaid
  <2> HIDE DEF row
  <2>9. LetsGo(o, row.state)
    BY <2>2, <2>3 DEF LetsGo
  <2> QED BY <2>1, <2>2, <2>3, <2>4, <2>9, OrderGoesOn
<1>2. ASSUME NEW o \in Order, ConfirmationWithdrawn(o) PROVE LinksInv'
  <2> DEFINE row == [order[o] EXCEPT !.state = "PENDING"]
  <2>1. row \in OrderRow /\ order' = [order EXCEPT ![o] = row] /\ row.state = "PENDING"
    BY <1>2, <1>a DEF ConfirmationWithdrawn
  <2>2. entry' = entry /\ stock' = stock /\ UNCHANGED <<release, batch, resizing>>
    BY <1>2 DEF ConfirmationWithdrawn
  <2> HIDE DEF row
  <2>9. LetsGo(o, row.state)
    BY <2>1, <2>2 DEF LetsGo
  <2> QED BY <1>0, <2>1, <2>2, <2>9, OrderGoesOn
<1>3. ASSUME NEW o \in Order, OrderSent(o) PROVE LinksInv'
  <2> DEFINE row == [order[o] EXCEPT !.state = "SENT"]
  <2>1. row \in OrderRow /\ order' = [order EXCEPT ![o] = row] /\ order[o].state # "PENDING"
    BY <1>3, <1>a DEF OrderSent
  <2>2. entry' = entry /\ stock' = stock /\ UNCHANGED <<release, batch, resizing>>
    BY <1>3 DEF OrderSent
  <2> HIDE DEF row
  <2>9. LetsGo(o, row.state)
    BY <2>1, <2>2 DEF LetsGo
  <2> QED BY <1>0, <2>1, <2>2, <2>9, OrderGoesOn
<1>4. ASSUME NEW o \in Order, OrderReopened(o) PROVE LinksInv'
  <2> DEFINE row == [order[o] EXCEPT !.state = "PENDING"]
  <2>1. row \in OrderRow /\ order' = [order EXCEPT ![o] = row] /\ row.state = "PENDING"
    BY <1>4, <1>a DEF OrderReopened
  <2>2. entry' = entry /\ stock' = stock - order[o].copies /\ UNCHANGED <<release, batch, resizing>>
    BY <1>4 DEF OrderReopened
  <2>3. order[o].copies \in Nat /\ order[o].copies <= Available(entry)
    BY <1>0, <1>4 DEF OrderReopened, OrderRow
  <2>4. Available(entry) \in Int /\ Available(entry) <= stock
    BY <1>0, AvailableIsOnTheShelf DEF LinksInv
  <2>5. stock' \in 0..MaxStock
    BY <1>0, <2>2, <2>3, <2>4
  <2> HIDE DEF row
  <2>9. LetsGo(o, row.state)
    BY <2>1, <2>2 DEF LetsGo
  <2> QED BY <1>0, <2>1, <2>2, <2>5, <2>9, OrderGoesOn
<1>5. ASSUME NEW o \in Order, NEW closed \in {"CANCELLED", "REFUNDED"}, OrderClosed(o, closed) PROVE LinksInv'
  <2> DEFINE row == [order[o] EXCEPT !.state = closed]
  <2>1. row \in OrderRow /\ order' = [order EXCEPT ![o] = row]
    BY <1>5, <1>a DEF OrderClosed
  <2>2. ASSUME NEW x \in Entry
        PROVE  /\ Released(o, entry[x]) \in EntryRow /\ Charges(Released(o, entry[x]))
               /\ Released(o, entry[x]).order = IF entry[x].order = o THEN NoOrder ELSE entry[x].order
    BY <1>0 DEF Released, EntryRow, Charges
  <2>3. entry' \in [Entry -> EntryRow] /\ \A x \in Entry : entry'[x] = Released(o, entry[x])
    BY <1>5, <2>2 DEF OrderClosed
  <2>4. order[o].copies \in Nat
    BY <1>0 DEF OrderRow
  <2>5. stock' \in 0..MaxStock /\ UNCHANGED <<release, batch, resizing>>
    BY <1>0, <1>5, <2>4 DEF OrderClosed
  <2> HIDE DEF row
  <2>9. LetsGo(o, row.state)
    BY <2>2, <2>3 DEF LetsGo
  <2> QED BY <2>1, <2>2, <2>3, <2>5, <2>9, OrderGoesOn
<1> QED BY <1>1, <1>2, <1>3, <1>4, <1>5 DEF Lifecycle

-----------------------------------------------------------------------------
LEMMA LinksInitially == Init => LinksInv
<1> SUFFICES ASSUME Init PROVE LinksInv
  OBVIOUS
<1> USE WaitlistAssumption DEF Init, WaitlistAssumption
<1>1. NoBatch \in BatchRow /\ NoResize \in ResizeRow
  BY DEF NoBatch, BatchRow, NoResize, ResizeRow
<1>2. entry \in [Entry -> EntryRow] /\ \A e \in Entry : Charges(entry[e]) /\ entry[e].order = NoOrder
  BY DEF EntryRow, Charges
<1>3. release \in [Release -> ReleaseRow] /\ order \in [Order -> OrderRow]
  BY DEF ReleaseRow, OrderRow
<1> QED BY <1>1, <1>2, <1>3, Types DEF LinksInv, LinksAwaitPayment

LEMMA LinksNext == LinksInv /\ [Next]_vars => LinksInv'
<1> SUFFICES ASSUME LinksInv, [Next]_vars PROVE LinksInv'
  OBVIOUS
<1>1. CASE UNCHANGED vars
  BY <1>1, Types DEF LinksInv, LinksAwaitPayment, vars
<1>2. CASE Desk
  BY <1>2, ReleaseSteps, BatchSteps, EntrySteps, CountKeepsLinks DEF Desk
<1>3. CASE Customers
  BY <1>3, EntrySteps, CustomerSteps DEF Customers
<1>4. CASE Lifecycle
  BY <1>4, LifecycleSteps
<1>5. CASE Crash
  BY <1>5, CrashKeepsLinks
<1> QED BY <1>1, <1>2, <1>3, <1>4, <1>5 DEF Next

(* Waitlist: rows keep their types, no stock count goes below zero, and an *)
(* entry is held back by an order only while that order awaits payment     *)
(* (WaitlistFulfillmentService), for any entries, orders and batches.      *)
THEOREM LinksStaySound == Spec => []LinksAreSound
<1>1. LinksInv => LinksAreSound
  BY DEF LinksInv, LinksAreSound
<1> QED BY <1>1, LinksInitially, LinksNext, PTL DEF Spec

-----------------------------------------------------------------------------
(* What is promised is counted entry by entry. *)

Total(n) == CopiesOf(Entry, n)
Counts == [Entry -> Nat]

LEMMA TotalIsANumber == ASSUME NEW n \in Counts PROVE Total(n) \in Nat
BY ASumIsANumber, WaitlistAssumption DEF Total, Counts, WaitlistAssumption

LEMMA TotalsCompare ==
  ASSUME NEW n \in Counts, NEW m \in Counts, \A e \in Entry : n[e] <= m[e]
  PROVE  Total(n) <= Total(m)
<1> DEFINE A == UNION {{x} \X (1..n[x]) : x \in Entry}
           B == UNION {{x} \X (1..m[x]) : x \in Entry}
<1>1. IsFiniteSet(B)
  BY CountedCopies, WaitlistAssumption DEF Counts, WaitlistAssumption
<1>2. A \subseteq B
  <2>1. \A x \in Entry : {x} \X (1..n[x]) \subseteq {x} \X (1..m[x])
    BY DEF Counts
  <2> QED BY <2>1
<1>3. Total(n) = Cardinality(A) /\ Total(m) = Cardinality(B)
  BY DEF Total, CopiesOf
<1> HIDE DEF A, B
<1>4. Cardinality(A) <= Cardinality(B)
  BY <1>1, <1>2, FS_Subset
<1> QED BY <1>3, <1>4

(* Two counts of which each counts what the other does not. *)
LEMMA TotalsAdd ==
  ASSUME NEW n \in Counts, NEW m \in Counts, NEW both \in Counts,
         \A e \in Entry : (n[e] = 0 /\ both[e] = m[e]) \/ (m[e] = 0 /\ both[e] = n[e])
  PROVE  Total(both) = Total(n) + Total(m)
<1> DEFINE A == UNION {{x} \X (1..n[x]) : x \in Entry}
           B == UNION {{x} \X (1..m[x]) : x \in Entry}
           C == UNION {{x} \X (1..both[x]) : x \in Entry}
<1>1. IsFiniteSet(A) /\ IsFiniteSet(B)
  BY CountedCopies, WaitlistAssumption DEF Counts, WaitlistAssumption
<1>2. C = A \cup B
  <2>1. \A x \in Entry : {x} \X (1..both[x]) = ({x} \X (1..n[x])) \cup ({x} \X (1..m[x]))
    <3> TAKE x \in Entry
    <3>1. CASE n[x] = 0 /\ both[x] = m[x]
      BY <3>1
    <3>2. CASE m[x] = 0 /\ both[x] = n[x]
      BY <3>2
    <3> QED BY <3>1, <3>2
  <2> QED BY <2>1
<1>3. A \cap B = {}
  <2> SUFFICES ASSUME NEW x \in Entry, NEW y \in Entry, NEW p \in {x} \X (1..n[x]), p \in {y} \X (1..m[y]) PROVE FALSE
    OBVIOUS
  <2>1. x = y /\ p[2] \in 1..n[x] /\ p[2] \in 1..m[x]
    OBVIOUS
  <2>2. n[x] = 0 \/ m[x] = 0
    OBVIOUS
  <2> QED BY <2>1, <2>2
<1>4. Total(n) = Cardinality(A) /\ Total(m) = Cardinality(B) /\ Total(both) = Cardinality(C)
  BY DEF Total, CopiesOf
<1> HIDE DEF A, B, C
<1>5. Cardinality(A \cup B) = Cardinality(A) + Cardinality(B) - Cardinality(A \cap B)
  BY <1>1, FS_Union
<1>6. Cardinality(A \cap B) = 0 /\ Cardinality(A) \in Nat /\ Cardinality(B) \in Nat
  BY <1>1, <1>3, FS_EmptySet, FS_CardinalityType
<1> QED BY <1>2, <1>4, <1>5, <1>6

LEMMA FirstNumbers == \A k \in Nat : IsFiniteSet(1..k) /\ Cardinality(1..k) = k
BY FS_Interval

(* What one entry counts for. *)
LEMMA OneEntryCounts ==
  ASSUME NEW n \in Counts, NEW e \in Entry, \A x \in Entry : x # e => n[x] = 0
  PROVE  Total(n) = n[e]
<1> DEFINE A == UNION {{x} \X (1..n[x]) : x \in Entry}
<1>0. n[e] \in Nat
  BY DEF Counts
<1>1. A = {e} \X (1..n[e])
  OBVIOUS
<1>2. IsFiniteSet({e}) /\ Cardinality({e}) = 1
  BY FS_Singleton
<1>3. IsFiniteSet(1..n[e]) /\ Cardinality(1..n[e]) = n[e]
  BY <1>0, FirstNumbers, Zenon
<1>4. Cardinality({e} \X (1..n[e])) = Cardinality({e}) * Cardinality(1..n[e])
  BY <1>2, <1>3, FS_Product
<1>5. Cardinality({e} \X (1..n[e])) = n[e]
  <2>1. \A k \in Nat : 1 * k = k
    OBVIOUS
  <2> QED BY <1>0, <1>2, <1>3, <1>4, <2>1
<1>6. Total(n) = Cardinality(A)
  BY DEF Total, CopiesOf
<1> HIDE DEF A
<1> QED BY <1>1, <1>5, <1>6

(* A sum of which one entry's part changes. *)
LEMMA OneEntryChanges ==
  ASSUME NEW n \in Counts, NEW m \in Counts, NEW e \in Entry, \A x \in Entry : x # e => n[x] = m[x]
  PROVE  Total(m) = Total(n) + m[e] - n[e]
<1> DEFINE rest == [x \in Entry |-> IF x = e THEN 0 ELSE n[x]]
           ne == [x \in Entry |-> IF x = e THEN n[e] ELSE 0]
           me == [x \in Entry |-> IF x = e THEN m[e] ELSE 0]
<1>0. n[e] \in Nat /\ m[e] \in Nat
  BY DEF Counts
<1>1. rest \in Counts /\ ne \in Counts /\ me \in Counts
  BY DEF Counts
<1>2. Total(n) = Total(rest) + Total(ne)
  <2>1. \A x \in Entry : (rest[x] = 0 /\ n[x] = ne[x]) \/ (ne[x] = 0 /\ n[x] = rest[x])
    OBVIOUS
  <2> HIDE DEF rest, ne
  <2> QED BY <1>1, <2>1, TotalsAdd
<1>3. Total(m) = Total(rest) + Total(me)
  <2>1. \A x \in Entry : (rest[x] = 0 /\ m[x] = me[x]) \/ (me[x] = 0 /\ m[x] = rest[x])
    OBVIOUS
  <2> HIDE DEF rest, me
  <2> QED BY <1>1, <2>1, TotalsAdd
<1>4. Total(ne) = n[e] /\ Total(me) = m[e]
  <2>1. ne[e] = n[e] /\ me[e] = m[e] /\ \A x \in Entry : x # e => ne[x] = 0 /\ me[x] = 0
    OBVIOUS
  <2> HIDE DEF ne, me
  <2>2. Total(ne) = ne[e]
    BY <1>1, <2>1, OneEntryCounts
  <2>3. Total(me) = me[e]
    BY <1>1, <2>1, OneEntryCounts
  <2> QED BY <2>1, <2>2, <2>3
<1>5. Total(rest) \in Nat
  <2> HIDE DEF rest
  <2> QED BY <1>1, TotalIsANumber
<1> HIDE DEF rest, ne, me
<1> QED BY <1>0, <1>2, <1>3, <1>4, <1>5

(* What an entry draws from release r, and what every entry does while     *)
(* the entries T are promised copies of it.                                *)
Due(e, it, ord, r) ==
  IF it.release = r /\ it.invite \in {"live", "spent"}
  THEN IF it.invite # "spent" \/ it.sale = NoOrder THEN Quantity[e] ELSE ord[it.sale].copies
  ELSE 0
Charge(en, ord, r, T) == [e \in Entry |-> IF e \in T THEN Quantity[e] ELSE Due(e, en[e], ord, r)]
Drawn(en, ord, r, T) == Total(Charge(en, ord, r, T))

(* What the links of the entries hold. *)
Kept(en) == [e \in Entry |-> IF en[e].invite = "live" THEN Quantity[e] ELSE 0]
Promised(en) == Total(Kept(en))

Entries == [Entry -> EntryRow]
Orders == [Order -> OrderRow]

LEMMA Bounds ==
  /\ MaxBuy \in Nat /\ MaxStock \in Nat /\ MaxRelease \in Nat
  /\ \A e \in Entry : Quantity[e] \in Nat /\ Quantity[e] > 0
  /\ NoOrder \notin Order /\ NoRelease \notin Release
  /\ IsFiniteSet(Entry) /\ IsFiniteSet(Release)
BY WaitlistAssumption DEF WaitlistAssumption

LEMMA DueIsANumber ==
  ASSUME NEW e \in Entry, NEW it \in EntryRow, NEW ord \in Orders, NEW r
  PROVE  Due(e, it, ord, r) \in Nat
<1>1. it.sale # NoOrder => it.sale \in Order /\ ord[it.sale].copies \in Nat
  BY Bounds DEF EntryRow, Orders, OrderRow
<1> QED BY <1>1, Bounds DEF Due

LEMMA ChargesAreCounts ==
  ASSUME NEW en \in Entries, NEW ord \in Orders, NEW r, NEW T
  PROVE  /\ Charge(en, ord, r, T) \in Counts /\ Drawn(en, ord, r, T) \in Nat
         /\ Kept(en) \in Counts /\ Promised(en) \in Nat
<1>1. \A e \in Entry : Due(e, en[e], ord, r) \in Nat
  BY DueIsANumber DEF Entries
<1>2. Charge(en, ord, r, T) \in Counts
  BY <1>1, Bounds DEF Charge, Counts
<1>3. Kept(en) \in Counts
  BY Bounds DEF Kept, Counts
<1> QED BY <1>2, <1>3, TotalIsANumber DEF Drawn, Promised

(* A count over some of the entries. *)
LEMMA SomeEntriesCount ==
  ASSUME NEW S \in SUBSET Entry, NEW n, NEW m \in Counts,
         \A e \in S : n[e] = m[e], \A e \in Entry \ S : m[e] = 0
  PROVE  CopiesOf(S, n) = Total(m)
<1> DEFINE A == UNION {{x} \X (1..n[x]) : x \in S}
           B == UNION {{x} \X (1..m[x]) : x \in Entry}
<1>1. \A x \in S : {x} \X (1..n[x]) = {x} \X (1..m[x])
  OBVIOUS
<1>2. \A x \in Entry \ S : {x} \X (1..m[x]) = {}
  OBVIOUS
<1>3. A \subseteq B
  BY <1>1
<1>4. B \subseteq A
  <2> SUFFICES ASSUME NEW x \in Entry, NEW p \in {x} \X (1..m[x]) PROVE p \in A
    OBVIOUS
  <2>1. x \in S
    BY <1>2
  <2>2. p \in {x} \X (1..n[x])
    BY <1>1, <2>1
  <2> QED BY <2>1, <2>2
<1>5. CopiesOf(S, n) = Cardinality(A) /\ Total(m) = Cardinality(B)
  BY DEF Total, CopiesOf
<1> HIDE DEF A, B
<1> QED BY <1>3, <1>4, <1>5

(* reservations.ts, read this way. *)
LEMMA ReservedIsPromised ==
  ASSUME NEW en \in Entries
  PROVE  Reserved(en) = Promised(en)
<1> DEFINE m == Kept(en)
<1>1. m \in Counts
  BY Bounds DEF Kept, Counts
<1>2. /\ Live(en) \in SUBSET Entry /\ \A e \in Live(en) : Quantity[e] = m[e]
      /\ \A e \in Entry \ Live(en) : m[e] = 0
  BY DEF Live, Kept
<1> HIDE DEF m
<1>3. CopiesOf(Live(en), Quantity) = Total(m)
  BY <1>1, <1>2, SomeEntriesCount
<1> QED BY <1>3 DEF m, Reserved, Promised

LEMMA CommittedIsDrawn ==
  ASSUME NEW en \in Entries, order \in Orders, NEW r \in Release
  PROVE  Committed(en, r) = Drawn(en, order, r, {})
<1> DEFINE S == {e \in Entry : en[e].release = r /\ en[e].invite \in {"live", "spent"}}
           n == [e \in Entry |-> Charged(en, e)]
           m == Charge(en, order, r, {})
<1>1. m \in Counts
  BY ChargesAreCounts
<1>2. S \in SUBSET Entry /\ (\A e \in S : n[e] = m[e]) /\ \A e \in Entry \ S : m[e] = 0
  BY DEF Charge, Due, Charged
<1> HIDE DEF S, n, m
<1>3. CopiesOf(S, n) = Total(m)
  BY <1>1, <1>2, SomeEntriesCount
<1> QED BY <1>3 DEF S, n, m, Committed, Drawn

Opened(rel) == {r \in Release : rel[r].state = "OPEN"}

(* What is set aside for the one release that is open. *)
LEMMA RingfencedIsTheRest ==
  ASSUME NEW en \in Entries, order \in Orders, release \in [Release -> ReleaseRow],
         \A r, q \in Open : r = q
  PROVE  /\ Ringfenced(en) \in Nat
         /\ Open = {} => Ringfenced(en) = 0
         /\ \A r \in Open : LET rest == release[r].copies - Drawn(en, order, r, {}) IN
              Ringfenced(en) = IF rest > 0 THEN rest ELSE 0
<1> DEFINE n == [r \in Release |-> release[r].copies - Committed(en, r)]
<1>0. Open \subseteq Release /\ Ringfenced(en) = CopiesOf(Open, n)
  BY DEF Open, Ringfenced
<1>1. CASE Open = {}
  <2>1. UNION {{x} \X (1..n[x]) : x \in Open} = {}
    BY <1>1
  <2> HIDE DEF n
  <2>2. Ringfenced(en) = 0
    BY <1>0, <2>1, FS_EmptySet DEF CopiesOf
  <2> QED BY <1>1, <2>2
<1>2. ASSUME NEW r \in Open
      PROVE  LET rest == release[r].copies - Drawn(en, order, r, {}) IN
             Ringfenced(en) = IF rest > 0 THEN rest ELSE 0
  <2> DEFINE k == release[r].copies - Drawn(en, order, r, {})
  <2>1. r \in Release /\ release[r] \in ReleaseRow
    BY <1>0
  <2>2. release[r].copies \in Nat
    BY <2>1, Bounds DEF ReleaseRow
  <2>3. n[r] = k /\ k \in Int
    BY <2>1, <2>2, CommittedIsDrawn, ChargesAreCounts
  <2> HIDE DEF k, n
  <2>4. UNION {{x} \X (1..n[x]) : x \in Open} = {r} \X (1..k)
    BY <2>3
  <2>5. IsFiniteSet({r}) /\ Cardinality({r}) = 1
    BY FS_Singleton
  <2>6. IsFiniteSet(1..k) /\ Cardinality(1..k) = IF k > 0 THEN k ELSE 0
    <3>1. IsFiniteSet(1..k) /\ Cardinality(1..k) = IF 1 > k THEN 0 ELSE k - 1 + 1
      BY <2>3, FS_Interval
    <3> QED BY <2>3, <3>1
  <2>7. Cardinality({r} \X (1..k)) = Cardinality({r}) * Cardinality(1..k)
    BY <2>5, <2>6, FS_Product
  <2>8. Cardinality({r} \X (1..k)) = IF k > 0 THEN k ELSE 0
    <3>1. \A j \in Nat : 1 * j = j
      OBVIOUS
    <3>2. (IF k > 0 THEN k ELSE 0) \in Nat
      BY <2>3
    <3> QED BY <2>5, <2>6, <2>7, <3>1, <3>2
  <2>9. Ringfenced(en) = Cardinality({r} \X (1..k))
    BY <1>0, <2>4 DEF CopiesOf
  <2> QED BY <2>8, <2>9 DEF k
<1>3. Ringfenced(en) \in Nat
  <2>1. CASE Open = {}
    BY <1>1, <2>1
  <2>2. ASSUME NEW r \in Open PROVE Ringfenced(en) \in Nat
    <3>1. release[r].copies \in Nat /\ Drawn(en, order, r, {}) \in Nat
      BY <1>0, Bounds, ChargesAreCounts DEF ReleaseRow
    <3> QED BY <1>2, <3>1
  <2> QED BY <2>1, <2>2
<1> QED BY <1>1, <1>2, <1>3

-----------------------------------------------------------------------------
(* The budget of a batch, entry by entry. *)

(* A set of numbers has a least one. *)
LEMMA ThereIsAFirst ==
  ASSUME NEW S \in SUBSET Nat, S # {}
  PROVE  \E m \in S : \A k \in S : m <= k
<1>1. PICK m \in S : \A k \in S : ~(<<k, m>> \in OpToRel(<, Nat))
  BY NatLessThanWellFounded, WFMin
<1>2. \A k \in S : ~(k < m)
  BY <1>1 DEF OpToRel
<1> QED BY <1>2

(* What is left of v copies after entry e. *)
LeftBy(e, v) == IF Quantity[e] <= v \/ entry[e].invite = "live" THEN v - Quantity[e] ELSE v

IsLeft(f, B, ids, n) ==
  f = [i \in 0..n |-> IF i = 0 THEN B ELSE LeftBy(ids[i], f[i - 1])]

LEMMA LeftExists ==
  ASSUME NEW B, NEW ids, NEW L \in Nat
  PROVE  \E f : IsLeft(f, B, ids, L)
<1> DEFINE Bad == {n \in Nat : ~\E f : IsLeft(f, B, ids, n)}
<1>1. SUFFICES ASSUME Bad # {} PROVE FALSE
  OBVIOUS
<1>2. PICK m \in Bad : \A k \in Bad : m <= k
  <2> HIDE DEF Bad
  <2>1. Bad \subseteq Nat
    BY DEF Bad
  <2> QED BY <1>1, <2>1, ThereIsAFirst
<1>3. m # 0
  <2>1. IsLeft([i \in 0..0 |-> B], B, ids, 0)
    BY DEF IsLeft
  <2> QED BY <2>1
<1>4. m - 1 \in Nat /\ m - 1 \notin Bad
  BY <1>2, <1>3
<1>5. PICK f : IsLeft(f, B, ids, m - 1)
  BY <1>4
<1> DEFINE g == [i \in 0..m |-> IF i = m THEN LeftBy(ids[m], f[m - 1]) ELSE f[i]]
<1>6. ASSUME NEW i \in 0..m PROVE g[i] = IF i = 0 THEN B ELSE LeftBy(ids[i], g[i - 1])
  <2>1. \A j \in 0..(m - 1) : f[j] = IF j = 0 THEN B ELSE LeftBy(ids[j], f[j - 1])
    BY <1>4, <1>5 DEF IsLeft
  <2>2. \A j \in 0..(m - 1) : g[j] = f[j]
    BY <1>4
  <2>3. CASE i = m
    BY <1>3, <1>4, <2>2, <2>3
  <2>4. CASE i # m
    <3>1. i \in 0..(m - 1) /\ (i # 0 => i - 1 \in 0..(m - 1))
      BY <1>4, <2>4
    <3> QED BY <2>1, <2>2, <3>1
  <2> QED BY <2>3, <2>4
<1>7. IsLeft(g, B, ids, m)
  <2>1. g = [i \in 0..m |-> g[i]]
    OBVIOUS
  <2> HIDE DEF g
  <2> QED BY <1>6, <2>1 DEF IsLeft
<1> QED BY <1>7

LEMMA LeftIs ==
  ASSUME NEW r, NEW ids, Len(ids) \in Nat
  PROVE  /\ Left(r, ids)[0] = Spendable(r, ToSet(ids))
         /\ \A i \in 1..Len(ids) : Left(r, ids)[i] = LeftBy(ids[i], Left(r, ids)[i - 1])
<1> DEFINE f == Left(r, ids)
           B == Spendable(r, ToSet(ids))
<1>1. f = CHOOSE g : IsLeft(g, B, ids, Len(ids))
  BY DEF Left, IsLeft, LeftBy
<1> HIDE DEF f, B
<1>2. IsLeft(f, B, ids, Len(ids))
  BY <1>1, LeftExists
<1>3. \A i \in 0..Len(ids) : f[i] = IF i = 0 THEN B ELSE LeftBy(ids[i], f[i - 1])
  BY <1>2 DEF IsLeft
<1> QED BY <1>3 DEF f, B

(* A list of entries, of which g get a copy of the L-th at most. *)
Listed(ids, L) ==
  /\ L \in Nat /\ \A i \in 1..L : ids[i] \in Entry
  /\ \A i, j \in 1..L : ids[i] = ids[j] => i = j
IsBudget(left, B, ids, L) ==
  /\ B \in Int /\ left[0] = B
  /\ \A i \in 1..L : left[i] = LeftBy(ids[i], left[i - 1])
Gets(left, ids, L) == {ids[i] : i \in {j \in 1..L : Quantity[ids[j]] <= left[j - 1]}}
NoneIsRefused(g, ids, L) ==
  ~\E i, j \in 1..L : i < j /\ ids[i] \in g /\ ids[j] \in Live(entry) \ g

(* What the first i of them use up. *)
Use(g, ids, i) ==
  [e \in Entry |-> IF \E j \in 1..i : ids[j] = e /\ e \in g \cup Live(entry) THEN Quantity[e] ELSE 0]

LEMMA UsesAdd ==
  ASSUME NEW ids, NEW L, Listed(ids, L), NEW g, NEW i \in 1..L
  PROVE  /\ Use(g, ids, i) \in Counts /\ Use(g, ids, i - 1) \in Counts
         /\ Total(Use(g, ids, i)) = Total(Use(g, ids, i - 1)) +
              IF ids[i] \in g \cup Live(entry) THEN Quantity[ids[i]] ELSE 0
<1> DEFINE n == Use(g, ids, i - 1)
           m == Use(g, ids, i)
           e == ids[i]
<1>0. L \in Nat /\ i - 1 \in Nat /\ e \in Entry
  BY DEF Listed
<1>1. n \in Counts /\ m \in Counts
  BY Bounds DEF Use, Counts
<1>2. ~\E j \in 1..(i - 1) : ids[j] = e
  BY <1>0 DEF Listed
<1>3. n[e] = 0 /\ m[e] = IF e \in g \cup Live(entry) THEN Quantity[e] ELSE 0
  BY <1>0, <1>2 DEF Use
<1>4. ASSUME NEW x \in Entry, x # e PROVE n[x] = m[x]
  <2>1. \A j \in 1..i : ids[j] = x => j \in 1..(i - 1)
    BY <1>0, <1>4
  <2>2. \A j \in 1..(i - 1) : j \in 1..i
    BY <1>0
  <2> QED BY <2>1, <2>2 DEF Use
<1>5. Total(n) \in Nat
  BY <1>1, TotalIsANumber
<1>6. n[e] \in Nat /\ m[e] \in Nat
  BY <1>0, <1>1 DEF Counts
<1> HIDE DEF n, m
<1>7. Total(m) = Total(n) + m[e] - n[e]
  BY <1>0, <1>1, <1>4, OneEntryChanges
<1>8. Total(m) = Total(n) + m[e]
  BY <1>3, <1>5, <1>6, <1>7
<1> QED BY <1>1, <1>3, <1>8 DEF n, m

(* The budget is charged for each entry that gets a copy or keeps its      *)
(* hold, and once one has got a copy it is not overspent.                  *)
LEMMA WhatIsLeft ==
  ASSUME NEW ids, NEW L, Listed(ids, L), NEW B, NEW left, IsBudget(left, B, ids, L),
         NEW g, g = Gets(left, ids, L), NoneIsRefused(g, ids, L)
  PROVE  \A i \in 0..L : /\ left[i] = B - Total(Use(g, ids, i))
                         /\ (\E j \in 1..i : ids[j] \in g) => left[i] >= 0
<1> DEFINE P(i) == /\ left[i] = B - Total(Use(g, ids, i))
                   /\ (\E j \in 1..i : ids[j] \in g) => left[i] >= 0
           Bad == {i \in 0..L : ~P(i)}
<1>0. L \in Nat /\ B \in Int
  BY DEF Listed, IsBudget
<1>1. SUFFICES ASSUME Bad # {} PROVE FALSE
  OBVIOUS
<1>2. PICK i \in Bad : \A k \in Bad : i <= k
  <2>1. Bad \subseteq Nat
    BY <1>0
  <2> HIDE DEF Bad
  <2> QED BY <1>1, <2>1, ThereIsAFirst
<1>3. i # 0
  <2>1. Use(g, ids, 0) \in Counts /\ \A e \in Entry : Use(g, ids, 0)[e] = 0
    BY Bounds DEF Use, Counts
  <2>2. UNION {{x} \X (1..Use(g, ids, 0)[x]) : x \in Entry} = {}
    BY <2>1
  <2>3. Total(Use(g, ids, 0)) = 0
    BY <2>2, FS_EmptySet DEF Total, CopiesOf
  <2>4. P(0)
    BY <1>0, <2>3 DEF IsBudget
  <2> QED BY <2>4
<1>4. i \in 1..L /\ i - 1 \in 0..L /\ P(i - 1)
  <2>1. i \in 1..L /\ i - 1 \in 0..L
    BY <1>0, <1>3
  <2>2. ~(i <= i - 1)
    BY <2>1
  <2> QED BY <1>2, <2>1, <2>2
<1> DEFINE e == ids[i]
<1>5. e \in Entry /\ Quantity[e] \in Nat /\ left[i] = LeftBy(e, left[i - 1])
  BY <1>4, Bounds DEF Listed, IsBudget
<1>6. e \in g <=> Quantity[e] <= left[i - 1]
  BY <1>4 DEF Gets, Listed
<1>7. e \in Live(entry) <=> entry[e].invite = "live"
  BY <1>5 DEF Live
<1>8. Total(Use(g, ids, i - 1)) \in Nat
  BY <1>4, UsesAdd, TotalIsANumber
<1>9. Total(Use(g, ids, i)) = Total(Use(g, ids, i - 1)) + IF e \in g \cup Live(entry) THEN Quantity[e] ELSE 0
  BY <1>4, UsesAdd
<1>10. left[i - 1] = B - Total(Use(g, ids, i - 1)) /\ left[i - 1] \in Int
  BY <1>0, <1>4, <1>8
<1>11. CASE e \in g
  <2>1. left[i] = left[i - 1] - Quantity[e] /\ left[i] >= 0
    BY <1>5, <1>6, <1>10, <1>11 DEF LeftBy
  <2>2. Total(Use(g, ids, i)) = Total(Use(g, ids, i - 1)) + Quantity[e]
    BY <1>9, <1>11
  <2> QED BY <1>0, <1>5, <1>8, <1>10, <2>1, <2>2
<1>12. CASE e \in Live(entry) \ g
  <2>1. left[i] = left[i - 1] - Quantity[e]
    BY <1>5, <1>7, <1>12 DEF LeftBy
  <2>2. Total(Use(g, ids, i)) = Total(Use(g, ids, i - 1)) + Quantity[e]
    BY <1>9, <1>12
  <2>3. ~\E j \in 1..i : ids[j] \in g
    <3>1. \A j \in 1..i : j = i \/ (j \in 1..L /\ j < i)
      BY <1>0, <1>4
    <3> QED BY <1>4, <1>12, <3>1 DEF NoneIsRefused
  <2> QED BY <1>0, <1>5, <1>8, <1>10, <2>1, <2>2, <2>3
<1>13. CASE e \notin g /\ e \notin Live(entry)
  <2>1. left[i] = left[i - 1]
    BY <1>5, <1>6, <1>7, <1>13 DEF LeftBy
  <2>2. Total(Use(g, ids, i)) = Total(Use(g, ids, i - 1))
    BY <1>8, <1>9, <1>13
  <2>3. (\E j \in 1..i : ids[j] \in g) => \E j \in 1..(i - 1) : ids[j] \in g
    <3>1. \A j \in 1..i : j = i \/ j \in 1..(i - 1)
      BY <1>0, <1>4
    <3> QED BY <1>13, <3>1
  <2> QED BY <1>4, <1>10, <2>1, <2>2, <2>3
<1> QED BY <1>11, <1>12, <1>13

LEMMA ListsOfEntries ==
  ASSUME NEW S \in SUBSET Entry, NEW ids \in SetToSeqs(S)
  PROVE  /\ DOMAIN ids = 1..Len(ids) /\ Listed(ids, Len(ids)) /\ ToSet(ids) \subseteq S
         /\ \A e \in Entry : e \in ToSet(ids) <=> \E i \in 1..Len(ids) : ids[i] = e
<1> DEFINE n == Cardinality(S)
<1>1. n \in Nat
  BY FS_Subset, FS_CardinalityType, Bounds
<1>2. ids \in [1..n -> S] /\ \A i, j \in 1..n : i # j => ids[i] # ids[j]
  BY DEF SetToSeqs, IsInjective
<1>3. DOMAIN ids = 1..n /\ Len(ids) = n
  <2> HIDE DEF n
  <2> QED BY <1>1, <1>2
<1>4. Listed(ids, n)
  BY <1>1, <1>2 DEF Listed
<1>5. ToSet(ids) = {ids[i] : i \in 1..n}
  BY <1>3 DEF ToSet
<1> QED BY <1>2, <1>3, <1>4, <1>5

(* refuseBeyondAllocation: with the copies it grants and the holds it      *)
(* leaves, the release has not promised more than it has.                  *)
LEMMA BudgetCovers ==
  ASSUME entry \in Entries, order \in Orders, release \in [Release -> ReleaseRow],
         NEW r \in Release, NEW S \in SUBSET Entry, NEW ids \in SetToSeqs(S),
         Granted(r, ids) # {}, NoneIsRefused(Granted(r, ids), ids, Len(ids)),
         \A e \in S : entry[e].sale = NoOrder,
         \A e \in Entry : entry[e].invite = "spent" => entry[e].sale # NoOrder,
         stock \in Int
  PROVE  Drawn(entry, order, r, Granted(r, ids)) <= release[r].copies
<1> DEFINE L == Len(ids)
           T == ToSet(ids)
           B == Spendable(r, T)
           left == Left(r, ids)
           g == Granted(r, ids)
           others == [e \in Entry |-> IF e \in T THEN [entry[e] EXCEPT !.invite = "none"] ELSE entry[e]]
           base == Charge(others, order, r, {})
           used == Use(g, ids, L)
           both == [e \in Entry |-> IF e \in T THEN used[e] ELSE base[e]]
           all == Charge(entry, order, r, g)
<1>1. /\ DOMAIN ids = 1..L /\ Listed(ids, L) /\ T \subseteq S
      /\ \A e \in Entry : e \in T <=> \E i \in 1..L : ids[i] = e
  BY ListsOfEntries
<1>2. L \in Nat
  BY <1>1 DEF Listed
<1>3. g = Gets(left, ids, L)
  BY <1>1 DEF Granted, Gets
<1>4. others \in Entries
  BY DEF Entries, EntryRow
<1>5. release[r].copies \in Nat
  BY Bounds DEF ReleaseRow
<1>6. Reserved(others) \in Nat /\ Committed(others, r) = Total(base) /\ base \in Counts /\ Total(base) \in Nat
  <2> HIDE DEF others
  <2> QED BY <1>4, ReservedIsPromised, CommittedIsDrawn, ChargesAreCounts DEF Drawn
<1>7. B \in Int /\ (B > 0 => B <= release[r].copies - Total(base))
  <2> DEFINE a == release[r].copies - Committed(others, r)
             b == stock - Reserved(others)
  <2>1. a \in Int /\ b \in Int /\ a = release[r].copies - Total(base)
    BY <1>5, <1>6
  <2>2. B = Max({Min({a, b}), 0})
    BY DEF Spendable
  <2> HIDE DEF a, b, B
  <2>3. Min({a, b}) = IF a <= b THEN a ELSE b
    BY <2>1 DEF Min
  <2>4. \A k \in Int : Max({k, 0}) = IF k >= 0 THEN k ELSE 0
    BY DEF Max
  <2>5. Min({a, b}) \in Int /\ Min({a, b}) <= a
    BY <2>1, <2>3
  <2>6. B = IF Min({a, b}) >= 0 THEN Min({a, b}) ELSE 0
    BY <2>2, <2>4, <2>5
  <2> HIDE DEF base
  <2> QED BY <1>5, <1>6, <2>1, <2>5, <2>6
<1>8. IsBudget(left, B, ids, L)
  BY <1>2, <1>7, LeftIs DEF IsBudget
<1>9. \A i \in 0..L : /\ left[i] = B - Total(Use(g, ids, i))
                      /\ (\E j \in 1..i : ids[j] \in g) => left[i] >= 0
  <2> HIDE DEF L, B, left
  <2>1. NoneIsRefused(g, ids, L)
    BY DEF L
  <2>2. Listed(ids, L)
    BY <1>1
  <2> HIDE DEF g
  <2> QED BY ONLY <1>3, <1>8, <2>1, <2>2, WhatIsLeft
<1>10. used \in Counts /\ Total(used) \in Nat
  <2>1. used \in Counts
    BY Bounds DEF Use, Counts
  <2> HIDE DEF used
  <2> QED BY <2>1, TotalIsANumber
<1>11. Total(used) <= B /\ B > 0
  <2>1. PICK k \in 1..L : ids[k] \in g
    BY <1>3 DEF Gets
  <2>2. left[L] = B - Total(used) /\ left[L] >= 0
    BY <1>2, <1>9, <2>1
  <2>3. Total(used) > 0
    <3>1. ids[k] \in Entry
      BY <1>1, <2>1 DEF Listed
    <3>2. used[ids[k]] = Quantity[ids[k]]
      BY <2>1, <3>1 DEF Use
    <3> DEFINE one == [e \in Entry |-> IF e = ids[k] THEN used[e] ELSE 0]
    <3>3. one \in Counts /\ (\A x \in Entry : x # ids[k] => one[x] = 0) /\ one[ids[k]] = used[ids[k]]
      BY <1>10, <3>1 DEF Counts
    <3>4. \A x \in Entry : one[x] <= used[x]
      BY <1>10 DEF Counts
    <3> HIDE DEF one, used
    <3>5. Total(one) = one[ids[k]]
      BY <3>1, <3>3, OneEntryCounts
    <3>6. Total(one) <= Total(used)
      BY <1>10, <3>3, <3>4, TotalsCompare
    <3>7. Quantity[ids[k]] \in Nat /\ Quantity[ids[k]] > 0
      BY <3>1, Bounds
    <3> QED BY <1>10, <3>2, <3>3, <3>5, <3>6, <3>7
  <2> HIDE DEF used, B, left
  <2> QED BY <1>7, <1>10, <2>2, <2>3
<1>12. \A e \in Entry : (e \in T => base[e] = 0) /\ (e \notin T => used[e] = 0)
  <2> TAKE e \in Entry
  <2>1. e \in T => base[e] = 0
    BY DEF Charge, Due, Entries, EntryRow
  <2>2. e \notin T => used[e] = 0
    BY <1>1 DEF Use
  <2> QED BY <2>1, <2>2
<1>13. both \in Counts /\ Total(both) = Total(base) + Total(used)
  <2> HIDE DEF base, used, T
  <2>1. both \in Counts
    BY <1>6, <1>10 DEF Counts
  <2>2. \A e \in Entry : (base[e] = 0 /\ both[e] = used[e]) \/ (used[e] = 0 /\ both[e] = base[e])
    BY <1>12
  <2> HIDE DEF both
  <2> QED BY <1>6, <1>10, <2>1, <2>2, TotalsAdd
<1>14. all \in Counts
  BY ChargesAreCounts
<1>15. ASSUME NEW e \in Entry PROVE all[e] <= both[e]
  <2>1. Quantity[e] \in Nat
    BY Bounds
  <2>2. CASE e \in T
    <3>1. both[e] = IF e \in g \/ entry[e].invite = "live" THEN Quantity[e] ELSE 0
      BY <1>1, <2>2 DEF Use, Live
    <3>2. entry[e].invite # "spent"
      BY <1>1, <2>2
    <3> QED BY <2>1, <3>1, <3>2 DEF Charge, Due
  <2>3. CASE e \notin T
    <3>1. e \notin g
      BY <1>1, <1>3, <2>3 DEF Gets
    <3>2. all[e] = base[e]
      BY <2>3, <3>1 DEF Charge
    <3>3. both[e] = base[e] /\ base[e] \in Nat
      BY <1>6, <2>3 DEF Counts
    <3> QED BY <3>2, <3>3
  <2> QED BY <2>2, <2>3
<1>16. Total(all) <= Total(both)
  <2> HIDE DEF all, both
  <2> QED BY <1>13, <1>14, <1>15, TotalsCompare
<1>17. Total(all) \in Nat
  <2> HIDE DEF all
  <2> QED BY <1>14, TotalIsANumber
<1> HIDE DEF B, base, used, both, all, g
<1>18. Total(all) <= release[r].copies
  BY <1>5, <1>6, <1>7, <1>10, <1>11, <1>13, <1>16, <1>17
<1> QED BY <1>18 DEF Drawn, all, g

-----------------------------------------------------------------------------
(* No release is overdrawn. *)

(* Rows that name one another exist, and one release is open at a time. *)
Books(en, rel, ord, bat) ==
  /\ \A r, q \in Opened(rel) : r = q
  /\ \A e \in Entry : en[e].release # NoRelease => rel[en[e].release].state # "none"
  /\ \A w \in Worker : bat[w].release # NoRelease => rel[bat[w].release].state # "none"
  /\ \A e \in Entry : en[e].sale # NoOrder => ord[en[e].sale].state # "none"
  /\ \A e \in Entry : en[e].invite = "spent" => en[e].sale # NoOrder

(* Whoever holds a link has not bought, whoever spent one bought no more   *)
(* than the entry's copies.                                                *)
Honest(en, ord) ==
  \A e \in Entry :
    /\ en[e].invite = "live" => en[e].sale = NoOrder
    /\ en[e].invite = "spent" => ord[en[e].sale].copies <= Quantity[e]

(* One batch is under way, of the open release, and then no resize is. *)
Alone(rel, bat, rez) ==
  /\ \A w, v \in Worker : bat[w] # NoBatch /\ bat[v] # NoBatch => w = v
  /\ \A w \in Worker : bat[w] # NoBatch => rez = NoResize /\ bat[w].release \in Opened(rel)

(* The open release has the copies that are drawn from it, with those of   *)
(* the batch under way, and keeps them through the resize under way.       *)
Fits(en, rel, ord, bat, rez) ==
  \A r \in Opened(rel) :
    /\ Drawn(en, ord, r, {}) <= rel[r].copies
    /\ \A w \in Worker : bat[w].release = r => Drawn(en, ord, r, bat[w].todo) <= rel[r].copies
    /\ rez.release = r => Drawn(en, ord, r, {}) <= rez.copies

Budgets(en, rel, ord, bat, rez) == Honest(en, ord) /\ Alone(rel, bat, rez) /\ Fits(en, rel, ord, bat, rez)

BooksInv ==
  /\ Books(entry, release, order, batch)
  /\ excused \/ Budgets(entry, release, order, batch, resizing)

(* What must be excused, as the runs excuse it. *)
Tolerant == Hazards \ {"overallocated", "recounted"} \subseteq Excuses

LEMMA Rows ==
  /\ LinksInv => /\ entry \in Entries /\ order \in Orders /\ release \in [Release -> ReleaseRow]
                 /\ batch \in [Worker -> BatchRow] /\ resizing \in ResizeRow /\ stock \in 0..MaxStock
  /\ LinksInv' => /\ entry' \in Entries /\ order' \in Orders /\ release' \in [Release -> ReleaseRow]
                  /\ batch' \in [Worker -> BatchRow] /\ resizing' \in ResizeRow /\ stock' \in 0..MaxStock
BY Types DEF LinksInv, Entries, Orders

LEMMA NothingExcused ==
  ASSUME NEW h, Excuse(h), ~excused'
  PROVE  ~excused /\ h \cap Excuses = {}
BY DEF Excuse

LEMMA NobodyDraws ==
  ASSUME NEW en, NEW ord, NEW r, \A e \in Entry : en[e].release # r
  PROVE  Drawn(en, ord, r, {}) = 0
<1> DEFINE n == Charge(en, ord, r, {})
<1>1. \A e \in Entry : n[e] = 0
  BY DEF Charge, Due
<1> HIDE DEF n
<1>2. UNION {{x} \X (1..n[x]) : x \in Entry} = {}
  BY <1>1
<1>3. Total(n) = 0
  BY <1>2, FS_EmptySet DEF Total, CopiesOf
<1> QED BY <1>3 DEF n, Drawn

LEMMA ReleasesKeepBooks ==
  ASSUME LinksInv, LinksInv', BooksInv, Tolerant,
         \/ \E r \in Release, n \in 1..MaxRelease : OpenRelease(r, n) \/ StartResize(r, n)
         \/ \E r \in Release : CloseRelease(r)
         \/ Resize
  PROVE  BooksInv'
<1>0. /\ entry \in Entries /\ order \in Orders /\ release \in [Release -> ReleaseRow]
      /\ batch \in [Worker -> BatchRow] /\ resizing \in ResizeRow /\ Open = Opened(release)
  BY Rows DEF Open, Opened
<1>a. {"together", "resized"} \subseteq Excuses
  BY DEF Tolerant, Hazards
<1>1. ASSUME NEW r \in Release, NEW n \in 1..MaxRelease, OpenRelease(r, n) PROVE BooksInv'
  <2>1. /\ Open = {} /\ release[r].state = "none" /\ release' = [release EXCEPT ![r] = [state |-> "OPEN", copies |-> n]]
        /\ UNCHANGED <<entry, order, batch, resizing>> /\ (~excused' => ~excused)
    BY <1>1, NothingExcused DEF OpenRelease
  <2>2. /\ release'[r] = [state |-> "OPEN", copies |-> n] /\ \A q \in Release \ {r} : release'[q] = release[q]
        /\ n \in Nat
    BY <1>0, <2>1, Bounds
  <2>3. Opened(release') = {r}
    BY <1>0, <2>1, <2>2 DEF Opened
  <2>4. Books(entry', release', order', batch')
    <3>1. \A q \in Release : release[q].state # "none" => release'[q].state # "none"
      BY <2>2
    <3>2. \A e \in Entry : entry[e].release # NoRelease => entry[e].release \in Release
      BY <1>0 DEF Entries, EntryRow
    <3>3. \A w \in Worker : batch[w].release # NoRelease => batch[w].release \in Release
      BY <1>0 DEF BatchRow
    <3> QED BY <2>1, <2>3, <3>1, <3>2, <3>3 DEF BooksInv, Books
  <2>5. ASSUME ~excused' PROVE Budgets(entry', release', order', batch', resizing')
    <3>1. Budgets(entry, release, order, batch, resizing)
      BY <2>1, <2>5 DEF BooksInv
    <3>2. \A w \in Worker : batch[w] = NoBatch
      BY <1>0, <2>1, <3>1 DEF Budgets, Alone
    <3>3. \A e \in Entry : entry[e].release # r
      BY <2>1, Bounds DEF BooksInv, Books
    <3>4. Drawn(entry, order, r, {}) = 0
      BY <3>3, NobodyDraws
    <3>5. resizing.copies \in Nat
      BY <1>0, Bounds DEF ResizeRow
    <3>6. Fits(entry, release', order, batch, resizing)
      BY <2>2, <2>3, <3>2, <3>4, <3>5, Bounds DEF Fits, NoBatch
    <3>7. Alone(release', batch, resizing)
      BY <3>2 DEF Alone
    <3> QED BY <2>1, <3>1, <3>6, <3>7 DEF Budgets
  <2> QED BY <2>4, <2>5 DEF BooksInv
<1>2. ASSUME NEW r \in Release, NEW n \in 1..MaxRelease, StartResize(r, n) PROVE BooksInv'
  <2>1. /\ r \in Open /\ n >= Committed(entry, r) /\ resizing' = [release |-> r, copies |-> n]
        /\ UNCHANGED <<entry, release, order, batch>>
    BY <1>2 DEF StartResize, MayResize
  <2>2. ASSUME ~excused' PROVE ~excused /\ ~Batching
    <3>1. ~excused /\ When(Batching, "resized") \cap Excuses = {}
      BY <1>2, <2>2, NothingExcused DEF StartResize
    <3> QED BY <1>a, <3>1 DEF When
  <2>3. ASSUME ~excused' PROVE Budgets(entry', release', order', batch', resizing')
    <3>1. Budgets(entry, release, order, batch, resizing) /\ \A w \in Worker : batch[w] = NoBatch
      BY <2>2, <2>3 DEF BooksInv, Batching
    <3>2. Drawn(entry, order, r, {}) <= n
      BY <1>0, <2>1, CommittedIsDrawn, ChargesAreCounts, Bounds
    <3> QED BY <2>1, <3>1, <3>2 DEF Budgets, Alone, Fits
  <2> QED BY <2>1, <2>3 DEF BooksInv
<1>3. ASSUME NEW r \in Release, CloseRelease(r) PROVE BooksInv'
  <2>1. /\ r \in Open /\ release' = [release EXCEPT ![r].state = "CLOSED"]
        /\ UNCHANGED <<entry, order, batch, resizing>>
    BY <1>3 DEF CloseRelease
  <2>2. release'[r].state = "CLOSED" /\ \A q \in Release \ {r} : release'[q] = release[q]
    BY <1>0, <2>1 DEF ReleaseRow
  <2>3. Opened(release') = Opened(release) \ {r}
    BY <2>2 DEF Opened
  <2>4. \A q \in Release : release[q].state # "none" => release'[q].state # "none"
    BY <2>2
  <2>5. Books(entry', release', order', batch')
    <3>2. \A e \in Entry : entry[e].release # NoRelease => entry[e].release \in Release
      BY <1>0 DEF Entries, EntryRow
    <3>3. \A w \in Worker : batch[w].release # NoRelease => batch[w].release \in Release
      BY <1>0 DEF BatchRow
    <3> QED BY <2>1, <2>3, <2>4, <3>2, <3>3 DEF BooksInv, Books
  <2>6. ASSUME ~excused' PROVE ~excused /\ ~Batching
    <3>1. ~excused /\ When(Batching, "resized") \cap Excuses = {}
      BY <1>3, <2>6, NothingExcused DEF CloseRelease
    <3> QED BY <1>a, <3>1 DEF When
  <2>7. ASSUME ~excused' PROVE Budgets(entry', release', order', batch', resizing')
    <3>1. Budgets(entry, release, order, batch, resizing) /\ \A w \in Worker : batch[w] = NoBatch
      BY <2>6, <2>7 DEF BooksInv, Batching
    <3>2. \A q \in Opened(release') : q \in Opened(release) /\ release'[q] = release[q]
      BY <2>2, <2>3 DEF Opened
    <3> QED BY <2>1, <3>1, <3>2 DEF Budgets, Alone, Fits
  <2> QED BY <2>5, <2>7 DEF BooksInv
<1>4. CASE Resize
  <2> DEFINE r == resizing.release
             n == resizing.copies
  <2>0. resizing # NoResize /\ resizing' = NoResize /\ UNCHANGED <<entry, order, batch>>
    BY <1>4 DEF Resize
  <2>1. release' = IF r \in Open THEN [release EXCEPT ![r].copies = n] ELSE release
    BY <1>4 DEF Resize
  <2>2. /\ \A q \in Release : release'[q].state = release[q].state
        /\ \A q \in Release : release'[q].copies = IF q = r /\ r \in Open THEN n ELSE release[q].copies
    BY <1>0, <2>1 DEF ReleaseRow
  <2>3. Opened(release') = Opened(release)
    BY <2>2 DEF Opened
  <2>4. Books(entry', release', order', batch')
    <3>2. \A e \in Entry : entry[e].release # NoRelease => entry[e].release \in Release
      BY <1>0 DEF Entries, EntryRow
    <3>3. \A w \in Worker : batch[w].release # NoRelease => batch[w].release \in Release
      BY <1>0 DEF BatchRow
    <3> QED BY <2>0, <2>2, <2>3, <3>2, <3>3 DEF BooksInv, Books
  <2>5. ~excused' => ~excused
    BY <1>4, NothingExcused DEF Resize
  <2>6. ASSUME ~excused' PROVE Budgets(entry', release', order', batch', resizing')
    <3>1. Budgets(entry, release, order, batch, resizing)
      BY <2>5, <2>6 DEF BooksInv
    <3>2. \A w \in Worker : batch[w] = NoBatch
      BY <2>0, <3>1 DEF Budgets, Alone
    <3>3. \A q \in Opened(release) : q \in Release /\ q # NoRelease
      BY Bounds DEF Opened
    <3>4. Fits(entry, release', order, batch, NoResize)
      BY <1>0, <2>2, <2>3, <3>1, <3>2, <3>3 DEF Budgets, Fits, NoBatch, NoResize
    <3>5. Alone(release', batch, NoResize)
      BY <3>2 DEF Alone
    <3> QED BY <2>0, <3>1, <3>4, <3>5 DEF Budgets
  <2> QED BY <2>4, <2>6 DEF BooksInv
<1> QED BY <1>1, <1>2, <1>3, <1>4

(* What an entry draws is no more than it was ... *)
Eases == \A e \in Entry, r \in Release : Due(e, entry'[e], order', r) <= Due(e, entry[e], order, r)
(* ... and a batch has the same left to issue, or is over. *)
BatchesGoOn ==
  \A w \in Worker :
    \/ batch'[w] = NoBatch
    \/ batch[w] # NoBatch /\ batch'[w].release = batch[w].release /\ batch'[w].todo = batch[w].todo

LEMMA LessIsDrawn ==
  ASSUME LinksInv, LinksInv', Eases, NEW r \in Release, NEW T
  PROVE  Drawn(entry', order', r, T) <= Drawn(entry, order, r, T)
<1> DEFINE n == Charge(entry', order', r, T)
           m == Charge(entry, order, r, T)
<1>1. n \in Counts /\ m \in Counts
  BY Rows, ChargesAreCounts
<1>2. \A e \in Entry : n[e] <= m[e]
  BY Bounds DEF Charge, Eases
<1> HIDE DEF n, m
<1>3. Total(n) <= Total(m)
  BY <1>1, <1>2, TotalsCompare
<1> QED BY <1>3 DEF n, m, Drawn

LEMMA NothingMoreIsDrawn ==
  ASSUME LinksInv, LinksInv', Budgets(entry, release, order, batch, resizing),
         release' = release, resizing' \in {resizing, NoResize}, BatchesGoOn, Eases, Honest(entry', order')
  PROVE  Budgets(entry', release', order', batch', resizing')
<1>0. \A r \in Opened(release) : r \in Release /\ r # NoRelease /\ release[r].copies \in Nat
  BY Rows, Bounds DEF Opened, ReleaseRow
<1>1. Alone(release', batch', resizing')
  BY DEF Budgets, Alone, BatchesGoOn
<1>2. ASSUME NEW r \in Opened(release), NEW T
      PROVE  /\ Drawn(entry', order', r, T) \in Nat /\ Drawn(entry, order, r, T) \in Nat
             /\ Drawn(entry', order', r, T) <= Drawn(entry, order, r, T)
  BY <1>0, LessIsDrawn, ChargesAreCounts, Rows
<1>3. ASSUME NEW r \in Opened(release') PROVE Drawn(entry', order', r, {}) <= release'[r].copies
  BY <1>0, <1>2 DEF Budgets, Fits
<1>4. ASSUME NEW r \in Opened(release'), NEW w \in Worker, batch'[w].release = r
      PROVE  Drawn(entry', order', r, batch'[w].todo) <= release'[r].copies
  <2>1. batch[w].release = r /\ batch'[w].todo = batch[w].todo
    BY <1>0, <1>4 DEF BatchesGoOn, NoBatch
  <2> QED BY <1>0, <1>2, <2>1 DEF Budgets, Fits
<1>5. ASSUME NEW r \in Opened(release'), resizing'.release = r
      PROVE  Drawn(entry', order', r, {}) <= resizing'.copies
  <2>1. resizing' = resizing /\ resizing.copies \in Nat
    BY <1>0, <1>5, Rows, Bounds DEF NoResize, ResizeRow
  <2> QED BY <1>0, <1>2, <1>5, <2>1 DEF Budgets, Fits
<1> QED BY <1>1, <1>3, <1>4, <1>5 DEF Budgets, Fits

(* Rows keep naming rows that exist. *)
LEMMA RowsStayNamed ==
  ASSUME Books(entry, release, order, batch), LinksInv', release' = release,
         \A w \in Worker : batch'[w].release \in {batch[w].release, NoRelease},
         \A e \in Entry : entry'[e].release \in {entry[e].release, NoRelease},
         \A e \in Entry : entry'[e].sale # NoOrder => order'[entry'[e].sale].state # "none",
         \A e \in Entry : entry'[e].invite = "spent" => entry'[e].sale # NoOrder
  PROVE  Books(entry', release', order', batch')
BY DEF Books

(* The rows of those whose links are left as they are, or taken away. *)
Eased(it, was) ==
  /\ it.sale = was.sale
  /\ \/ it.invite = was.invite /\ it.release = was.release
     \/ /\ was.invite # "spent" /\ it.invite \in {"none", "lapsed"}
        /\ it.release \in {was.release, NoRelease}

LEMMA EasedEntries ==
  ASSUME LinksInv, LinksInv', BooksInv, ~excused' => ~excused,
         release' = release, order' = order, resizing' \in {resizing, NoResize}, BatchesGoOn,
         \A e \in Entry : Eased(entry'[e], entry[e])
  PROVE  BooksInv'
<1>1. \A w \in Worker : batch'[w].release \in {batch[w].release, NoRelease}
  BY DEF BatchesGoOn, NoBatch
<1>2. Books(entry', release', order', batch')
  <2>1. \A e \in Entry : entry'[e].sale # NoOrder => order'[entry'[e].sale].state # "none"
    BY DEF Eased, BooksInv, Books
  <2>2. \A e \in Entry : entry'[e].invite = "spent" => entry'[e].sale # NoOrder
    BY DEF Eased, BooksInv, Books
  <2>3. \A e \in Entry : entry'[e].release \in {entry[e].release, NoRelease}
    BY DEF Eased
  <2> QED BY <1>1, <2>1, <2>2, <2>3, RowsStayNamed DEF BooksInv
<1>3. ASSUME ~excused' PROVE Budgets(entry', release', order', batch', resizing')
  <2>1. Budgets(entry, release, order, batch, resizing)
    BY <1>3 DEF BooksInv
  <2>2. Honest(entry', order')
    BY <2>1 DEF Budgets, Honest, Eased
  <2>3. Eases
    <3> SUFFICES ASSUME NEW e \in Entry, NEW r \in Release
                 PROVE  Due(e, entry'[e], order', r) <= Due(e, entry[e], order, r)
      BY DEF Eases
    <3>1. Due(e, entry[e], order, r) \in Nat
      BY Rows, DueIsANumber DEF Entries
    <3>2. Due(e, entry'[e], order', r) \in {0, Due(e, entry[e], order, r)}
      BY Bounds DEF Eased, Due
    <3> QED BY <3>1, <3>2
  <2> QED BY <2>1, <2>2, <2>3, NothingMoreIsDrawn
<1> QED BY <1>2, <1>3 DEF BooksInv

LEMMA EntriesAreEased ==
  ASSUME LinksInv, NEW e \in Entry,
         \/ Subscribe(e) \/ Lapse(e)
         \/ \E s \in {"PENDING", "NOTIFIED", "CONVERTED", "CANCELLED"} : StaffSets(e, s)
  PROVE  Eased(entry'[e], entry[e]) /\ \A x \in Entry \ {e} : entry'[x] = entry[x]
<1>3. entry \in [Entry -> EntryRow] /\ entry[e] \in EntryRow
  BY Rows DEF Entries
<1>4. CASE Subscribe(e)
  BY <1>3, <1>4 DEF Subscribe, Eased, EntryRow
<1>5. CASE Lapse(e)
  BY <1>3, <1>5 DEF Lapse, Eased, EntryRow
<1>6. ASSUME NEW s \in {"PENDING", "NOTIFIED", "CONVERTED", "CANCELLED"}, StaffSets(e, s)
      PROVE  Eased(entry'[e], entry[e]) /\ \A x \in Entry \ {e} : entry'[x] = entry[x]
  <2> DEFINE set == [entry[e] EXCEPT !.status = s]
             it == IF s = "CANCELLED" THEN Revoked(set) ELSE set
  <2>1. entry' = [entry EXCEPT ![e] = it]
    BY <1>3, <1>6 DEF StaffSets
  <2>2. Eased(it, entry[e])
    BY <1>3 DEF Eased, Revoked, EntryRow
  <2> HIDE DEF it
  <2> QED BY <1>3, <2>1, <2>2
<1> QED BY <1>4, <1>5, <1>6

LEMMA EntriesKeepBooks ==
  ASSUME LinksInv, LinksInv', BooksInv, NEW e \in Entry,
         \/ Subscribe(e) \/ Lapse(e)
         \/ \E s \in {"PENDING", "NOTIFIED", "CONVERTED", "CANCELLED"} : StaffSets(e, s)
  PROVE  BooksInv'
<1>1. UNCHANGED <<release, order, batch, resizing, excused>>
  BY DEF Subscribe, Lapse, StaffSets
<1>2. BatchesGoOn
  BY <1>1 DEF BatchesGoOn
<1>3. ASSUME NEW x \in Entry PROVE Eased(entry'[x], entry[x])
  BY EntriesAreEased DEF Eased
<1> QED BY <1>1, <1>2, <1>3, EasedEntries

LEMMA TextKeepsBooks ==
  ASSUME LinksInv, LinksInv', BooksInv, NEW w \in Worker, NEW e \in Entry, NEW arrives \in BOOLEAN, Text(w, e, arrives)
  PROVE  BooksInv'
<1>1. UNCHANGED <<release, order, resizing, excused>> /\ e \in batch[w].texting
  BY DEF Text
<1>2. /\ entry \in [Entry -> EntryRow] /\ entry[e] \in EntryRow
      /\ batch \in [Worker -> BatchRow] /\ batch[w] \in BatchRow
  BY Rows DEF Entries
<1>3. BatchesGoOn
  <2>1. batch[w] # NoBatch
    BY <1>1 DEF NoBatch
  <2>2. CASE batch' = [batch EXCEPT ![w] = NoBatch]
    BY <1>2, <2>2 DEF BatchesGoOn
  <2>3. CASE batch' = [batch EXCEPT ![w].texting = @ \ {e}, ![w].fresh = @ \ {e}]
    <3>1. \A v \in Worker : batch'[v].release = batch[v].release /\ batch'[v].todo = batch[v].todo
      BY <1>2, <2>3 DEF BatchRow
    <3>2. \A v \in Worker \ {w} : batch'[v] = batch[v]
      BY <1>2, <2>3
    <3> QED BY <2>1, <3>1, <3>2 DEF BatchesGoOn
  <2> QED BY <2>2, <2>3 DEF Text
<1>4. ASSUME NEW x \in Entry PROVE Eased(entry'[x], entry[x])
  BY <1>2 DEF Text, Eased, EntryRow
<1> QED BY <1>1, <1>3, <1>4, EasedEntries

LEMMA CrashKeepsBooks == ASSUME LinksInv, LinksInv', BooksInv, Crash PROVE BooksInv'
<1>1. UNCHANGED <<entry, release, order, excused>> /\ resizing' = NoResize /\ \A w \in Worker : batch'[w] = NoBatch
  BY DEF Crash
<1>2. BatchesGoOn
  BY <1>1 DEF BatchesGoOn
<1>3. ASSUME NEW x \in Entry PROVE Eased(entry'[x], entry[x])
  BY <1>1 DEF Eased
<1> QED BY <1>1, <1>2, <1>3, EasedEntries

LEMMA CountKeepsBooks == ASSUME LinksInv, LinksInv', BooksInv, NEW n \in 0..MaxStock, SetStock(n) PROVE BooksInv'
<1>1. UNCHANGED <<entry, release, order, batch, resizing>> /\ (~excused' => ~excused)
  BY NothingExcused DEF SetStock
<1> QED BY <1>1 DEF BooksInv

(* An order that exists goes on existing, with the copies it has. *)
OrdersStand ==
  \A o \in Order : order[o].state # "none" => order'[o].state # "none" /\ order'[o].copies = order[o].copies

(* What an order says of who bought: no entry that holds or spent a link   *)
(* is another's.                                                           *)
SalesStand ==
  \A e \in Entry :
    /\ entry'[e].release = entry[e].release /\ entry'[e].invite = entry[e].invite
    /\ entry'[e].invite \in {"live", "spent"} => entry'[e].sale = entry[e].sale

LEMMA OrdersKeepBooks ==
  ASSUME LinksInv, LinksInv', BooksInv, UNCHANGED <<release, batch, resizing>>, OrdersStand,
         \A e \in Entry : entry'[e].release = entry[e].release /\ entry'[e].invite = entry[e].invite,
         \A e \in Entry : entry'[e].sale = entry[e].sale \/
                          (entry'[e].sale # NoOrder /\ order'[entry'[e].sale].state # "none"),
         ~excused' => ~excused /\ SalesStand
  PROVE  BooksInv'
<1>0. \A e \in Entry : entry[e].sale \in Order \cup {NoOrder} /\ entry'[e].sale \in Order \cup {NoOrder}
  BY Rows DEF Entries, EntryRow
<1>1. Books(entry', release', order', batch')
  <2>1. ASSUME NEW e \in Entry, entry'[e].sale # NoOrder PROVE order'[entry'[e].sale].state # "none"
    BY <1>0, <2>1 DEF BooksInv, Books, OrdersStand
  <2>2. \A e \in Entry : entry'[e].invite = "spent" => entry'[e].sale # NoOrder
    BY DEF BooksInv, Books
  <2> QED BY <2>1, <2>2, RowsStayNamed DEF BooksInv
<1>2. ASSUME ~excused' PROVE Budgets(entry', release', order', batch', resizing')
  <2>1. Budgets(entry, release, order, batch, resizing) /\ SalesStand
    BY <1>2 DEF BooksInv
  <2>2. \A e \in Entry : entry[e].invite \in {"live", "spent"} /\ entry[e].sale # NoOrder =>
          entry[e].sale \in Order /\ order'[entry[e].sale].copies = order[entry[e].sale].copies
    BY <1>0 DEF BooksInv, Books, OrdersStand
  <2>3. Honest(entry', order')
    BY <2>1, <2>2 DEF Budgets, Honest, SalesStand, BooksInv, Books
  <2>4. Eases
    <3> SUFFICES ASSUME NEW e \in Entry, NEW r \in Release
                 PROVE  Due(e, entry'[e], order', r) <= Due(e, entry[e], order, r)
      BY DEF Eases
    <3>1. Due(e, entry[e], order, r) \in Nat
      BY Rows, DueIsANumber DEF Entries
    <3>2. Due(e, entry'[e], order', r) = Due(e, entry[e], order, r)
      BY <2>1, <2>2 DEF Due, SalesStand
    <3> QED BY <3>1, <3>2
  <2>5. BatchesGoOn
    BY DEF BatchesGoOn
  <2> QED BY <2>1, <2>3, <2>4, <2>5, NothingMoreIsDrawn
<1> QED BY <1>1, <1>2 DEF BooksInv

LEMMA PlacedOrders ==
  ASSUME order \in Orders, NEW o \in Order, NEW n, NEW who, Place(o, n, who)
  PROVE  /\ order'[o] = [state |-> "PENDING", copies |-> n, buyer |-> who]
         /\ \A p \in Order \ {o} : order'[p] = order[p]
         /\ order[o].state = "none" /\ OrdersStand
BY DEF Place, Orders, OrdersStand

LEMMA BuyersKeepBooks ==
  ASSUME LinksInv, LinksInv', BooksInv, NEW o \in Order, NEW n \in 1..MaxBuy,
         StrangerBuys(o, n) \/ \E e \in Entry : WaiterBuys(e, o, n)
  PROVE  BooksInv'
<1>1. UNCHANGED <<release, batch, resizing, excused>>
  BY DEF StrangerBuys, WaiterBuys
<1>2. OrdersStand
  <2>1. PICK who : Place(o, n, who)
    BY DEF StrangerBuys, WaiterBuys
  <2> QED BY <2>1, Rows, PlacedOrders
<1>3. ASSUME NEW x \in Entry
      PROVE  entry'[x].release = entry[x].release /\ entry'[x].invite = entry[x].invite /\ entry'[x].sale = entry[x].sale
  BY Rows DEF StrangerBuys, WaiterBuys, Entries, EntryRow
<1>4. SalesStand
  BY <1>3 DEF SalesStand
<1> QED BY <1>1, <1>2, <1>3, <1>4, OrdersKeepBooks

LEMMA InviteesKeepBooks ==
  ASSUME LinksInv, LinksInv', BooksInv, Tolerant,
         NEW e \in Entry, NEW o \in Order, NEW n \in 1..MaxBuy, InviteeBuys(e, o, n)
  PROVE  BooksInv'
<1>1. UNCHANGED <<release, batch, resizing>> /\ Place(o, n, NoEntry) /\ entry[e].invite = "live"
  BY DEF InviteeBuys
<1>2. /\ order'[o].copies = n /\ order'[o].state = "PENDING"
      /\ \A p \in Order \ {o} : order'[p] = order[p]
      /\ order[o].state = "none" /\ OrdersStand
  <2>1. order \in Orders
    BY Rows
  <2>2. order'[o] = [state |-> "PENDING", copies |-> n, buyer |-> NoEntry]
    BY <1>1, <2>1, PlacedOrders
  <2>3. (\A p \in Order \ {o} : order'[p] = order[p]) /\ order[o].state = "none" /\ OrdersStand
    BY <1>1, <2>1, PlacedOrders
  <2> QED BY <2>2, <2>3
<1>3. /\ entry'[e].invite = "spent" /\ entry'[e].sale = o /\ entry'[e].release = entry[e].release
      /\ \A x \in Entry \ {e} : entry'[x] = entry[x]
  BY Rows DEF InviteeBuys, Entries, EntryRow
<1>4. o # NoOrder /\ n \in Nat /\ \A x \in Entry : entry[x].sale \in Order \cup {NoOrder}
  BY Bounds, Rows DEF Entries, EntryRow
<1>5. Books(entry', release', order', batch')
  <2>1. ASSUME NEW x \in Entry, entry'[x].sale # NoOrder PROVE order'[entry'[x].sale].state # "none"
    BY <1>2, <1>3, <1>4, <2>1 DEF BooksInv, Books, OrdersStand
  <2>2. \A x \in Entry : entry'[x].invite = "spent" => entry'[x].sale # NoOrder
    BY <1>3, <1>4 DEF BooksInv, Books
  <2> QED BY <1>1, <1>3, <2>1, <2>2, RowsStayNamed DEF BooksInv
<1>6. ASSUME ~excused' PROVE Budgets(entry', release', order', batch', resizing')
  <2>0. ~excused /\ When(n > Quantity[e], "overbought") \cap Excuses = {}
    BY <1>6, NothingExcused DEF InviteeBuys
  <2>1. n <= Quantity[e]
    BY <2>0, <1>4, Bounds DEF When, Tolerant, Hazards
  <2>2. Budgets(entry, release, order, batch, resizing)
    BY <2>0 DEF BooksInv
  <2>3. \A x \in Entry \ {e} : entry[x].sale # NoOrder => order'[entry[x].sale].copies = order[entry[x].sale].copies
    BY <1>2, <1>4 DEF BooksInv, Books
  <2>4. Honest(entry', order')
    BY <1>2, <1>3, <2>1, <2>2, <2>3 DEF Budgets, Honest, BooksInv, Books
  <2>5. Eases
    <3> SUFFICES ASSUME NEW x \in Entry, NEW r \in Release
                 PROVE  Due(x, entry'[x], order', r) <= Due(x, entry[x], order, r)
      BY DEF Eases
    <3>1. Due(x, entry[x], order, r) \in Nat
      BY Rows, DueIsANumber DEF Entries
    <3>2. CASE x = e
      BY <1>1, <1>2, <1>3, <1>4, <2>1, <3>2, Bounds DEF Due
    <3>3. CASE x # e
      <4>1. Due(x, entry'[x], order', r) = Due(x, entry[x], order, r)
        BY <1>3, <2>3, <3>3 DEF Due
      <4> QED BY <3>1, <4>1
    <3> QED BY <3>2, <3>3
  <2>6. BatchesGoOn
    BY <1>1 DEF BatchesGoOn
  <2> QED BY <1>1, <2>2, <2>4, <2>5, <2>6, NothingMoreIsDrawn
<1> QED BY <1>5, <1>6 DEF BooksInv

LEMMA LifecycleKeepsBooks == ASSUME LinksInv, LinksInv', BooksInv, Tolerant, Lifecycle PROVE BooksInv'
<1>0. entry \in Entries /\ order \in Orders
  BY Rows
<1>1. ASSUME NEW o \in Order, OrderPaid(o) PROVE BooksInv'
  <2>1. UNCHANGED <<release, batch, resizing>> /\ order' = [order EXCEPT ![o].state = "PAID"]
    BY <1>1 DEF OrderPaid
  <2>2. OrdersStand /\ order'[o].state = "PAID"
    BY <1>0, <2>1 DEF OrdersStand, Orders, OrderRow
  <2>3. ASSUME NEW x \in Entry
        PROVE  /\ entry'[x].release = entry[x].release /\ entry'[x].invite = entry[x].invite
               /\ entry'[x].sale \in {entry[x].sale, o}
    <3>1. entry'[x] = Settled(o, entry[x]) /\ entry[x] \in EntryRow
      BY <1>0, <1>1 DEF OrderPaid, Entries
    <3> QED BY <3>1 DEF Settled, Released, EntryRow
  <2>4. o # NoOrder
    BY Bounds
  <2>5. ASSUME ~excused' PROVE ~excused /\ SalesStand
    <3> DEFINE again == \E e \in Entry : entry'[e].sale # entry[e].sale /\ entry[e].invite \in {"live", "spent"}
    <3>1. ~excused /\ When(again, "resold") \cap Excuses = {}
      BY <1>1, <2>5, NothingExcused DEF OrderPaid
    <3> HIDE DEF again
    <3>2. ~again
      BY <3>1 DEF When, Tolerant, Hazards
    <3> QED BY <2>3, <3>1, <3>2 DEF SalesStand, again
  <2> QED BY <2>1, <2>2, <2>3, <2>4, <2>5, OrdersKeepBooks
<1>2. ASSUME NEW o \in Order,
             \/ ConfirmationWithdrawn(o) \/ OrderSent(o) \/ OrderReopened(o)
             \/ \E closed \in {"CANCELLED", "REFUNDED"} : OrderClosed(o, closed)
      PROVE  BooksInv'
  <2>1. UNCHANGED <<release, batch, resizing, excused>>
    BY <1>2 DEF ConfirmationWithdrawn, OrderSent, OrderReopened, OrderClosed
  <2>2. PICK state \in {"PENDING", "SENT", "CANCELLED", "REFUNDED"} : order' = [order EXCEPT ![o].state = state]
    BY <1>2 DEF ConfirmationWithdrawn, OrderSent, OrderReopened, OrderClosed
  <2>3. OrdersStand
    BY <1>0, <2>2 DEF OrdersStand, Orders, OrderRow
  <2>4. ASSUME NEW x \in Entry
        PROVE  entry'[x].release = entry[x].release /\ entry'[x].invite = entry[x].invite /\ entry'[x].sale = entry[x].sale
    <3>1. entry'[x] \in {entry[x], Released(o, entry[x])} /\ entry[x] \in EntryRow
      BY <1>0, <1>2 DEF ConfirmationWithdrawn, OrderSent, OrderReopened, OrderClosed, Entries
    <3> QED BY <3>1 DEF Released, EntryRow
  <2>5. SalesStand
    BY <2>4 DEF SalesStand
  <2> QED BY <2>1, <2>3, <2>4, <2>5, OrdersKeepBooks
<1> QED BY <1>1, <1>2 DEF Lifecycle

(* A batch is planned within the budget ... *)
LEMMA PlansKeepBooks == ASSUME LinksInv, LinksInv', BooksInv, Tolerant, NEW w \in Worker, PlanBatch(w) PROVE BooksInv'
<1>0. /\ entry \in Entries /\ order \in Orders /\ release \in [Release -> ReleaseRow]
      /\ batch \in [Worker -> BatchRow] /\ stock \in Int /\ Open = Opened(release)
  BY Rows, Bounds DEF Open, Opened
<1> DEFINE Planned(r, S, ids) ==
      /\ batch[w] = NoBatch /\ Granted(r, ids) # {}
      /\ batch' = [batch EXCEPT ![w] =
                     [release |-> r, todo |-> Granted(r, ids), texting |-> {},
                      fresh |-> {e \in Granted(r, ids) : entry[e].status = "PENDING"}]]
      /\ Excuse(When(Batching, "together") \cup When(resizing # NoResize, "resized") \cup
                When(\E e \in S : entry[e].sale # NoOrder, "rebuying") \cup
                When(\E i, j \in DOMAIN ids :
                     i < j /\ ids[i] \in Granted(r, ids) /\ ids[j] \in Live(entry) \ Granted(r, ids), "refused"))
<1>1. PICK r \in Open, S \in SUBSET Eligible : \E ids \in SetToSeqs(S) : Planned(r, S, ids)
  BY DEF PlanBatch
<1>2. PICK ids \in SetToSeqs(S) : Planned(r, S, ids)
  BY <1>1
<1>3. UNCHANGED <<entry, release, order, resizing>>
  BY DEF PlanBatch
<1> DEFINE g == Granted(r, ids)
<1>4. /\ batch'[w].release = r /\ batch'[w].todo = g
      /\ \A v \in Worker \ {w} : batch'[v] = batch[v]
  BY <1>0, <1>2
<1>5. r \in Release /\ release[r].state = "OPEN" /\ r # NoRelease /\ S \in SUBSET Entry
  BY Bounds DEF Open, Eligible
<1>6. Books(entry', release', order', batch')
  <2>1. \A v \in Worker : batch'[v].release # NoRelease => release[batch'[v].release].state # "none"
    BY <1>4, <1>5 DEF BooksInv, Books
  <2> QED BY <1>3, <2>1 DEF BooksInv, Books
<1>7. ASSUME ~excused' PROVE Budgets(entry', release', order', batch', resizing')
  <2> DEFINE h1 == Batching
             h2 == resizing # NoResize
             h3 == \E e \in S : entry[e].sale # NoOrder
             h4 == \E i, j \in DOMAIN ids : i < j /\ ids[i] \in g /\ ids[j] \in Live(entry) \ g
  <2>1. ~excused /\ ~h1 /\ ~h2 /\ ~h3 /\ ~h4
    <3> HIDE DEF h1, h2, h3, h4
    <3>1. Excuse(When(h1, "together") \cup When(h2, "resized") \cup When(h3, "rebuying") \cup When(h4, "refused"))
      BY <1>2 DEF h1, h2, h3, h4
    <3>2. ~excused /\ (When(h1, "together") \cup When(h2, "resized") \cup When(h3, "rebuying") \cup When(h4, "refused")) \cap Excuses = {}
      BY <1>7, <3>1, NothingExcused
    <3>3. {"together", "resized", "rebuying", "refused"} \subseteq Excuses
      BY DEF Tolerant, Hazards
    <3> QED BY <3>2, <3>3 DEF When
  <2>2. Budgets(entry, release, order, batch, resizing) /\ resizing = NoResize /\ \A v \in Worker : batch[v] = NoBatch
    BY <2>1 DEF BooksInv, Batching
  <2>3. Drawn(entry, order, r, g) <= release[r].copies
    <3>1. \A e \in S : entry[e].sale = NoOrder
      BY <2>1
    <3>2. NoneIsRefused(g, ids, Len(ids))
      <4>1. DOMAIN ids = 1..Len(ids)
        BY <1>5, ListsOfEntries
      <4> HIDE DEF g
      <4> QED BY <2>1, <4>1 DEF NoneIsRefused
    <3>3. g # {}
      BY <1>2
    <3>4. \A e \in Entry : entry[e].invite = "spent" => entry[e].sale # NoOrder
      BY DEF BooksInv, Books
    <3> QED BY <1>0, <1>5, <3>1, <3>2, <3>3, <3>4, BudgetCovers
  <2> HIDE DEF g, h1, h2, h3, h4, Planned
  <2>4. \A q \in Opened(release) : q = r /\ q # NoRelease
    BY <1>0, <1>5 DEF BooksInv, Books
  <2>5. Alone(release, batch', resizing)
    BY <1>0, <1>4, <2>2 DEF Alone
  <2>6. Fits(entry, release, order, batch', resizing)
    <3>1. \A v \in Worker : batch'[v].release = r => v = w
      BY <1>4, <1>5, <2>2 DEF NoBatch
    <3> QED BY <1>4, <2>2, <2>3, <2>4, <3>1 DEF Fits, Budgets
  <2> QED BY <1>3, <2>2, <2>5, <2>6 DEF Budgets
<1> QED BY <1>6, <1>7 DEF BooksInv

(* ... and issued as it was planned. *)
LEMMA IssuesKeepBooks ==
  ASSUME LinksInv, LinksInv', BooksInv, Tolerant, NEW w \in Worker, NEW e \in Entry, Issue(w, e)
  PROVE  BooksInv'
<1> DEFINE b == batch[w]
           r == batch[w].release
<1>0. /\ entry \in Entries /\ entry' \in Entries /\ order \in Orders /\ batch \in [Worker -> BatchRow]
      /\ UNCHANGED <<release, order, resizing>> /\ e \in b.todo
  BY Rows DEF Issue
<1>1. /\ entry'[e].invite = "live" /\ entry'[e].release = r /\ entry'[e].sale = entry[e].sale
      /\ \A x \in Entry \ {e} : entry'[x] = entry[x]
  BY <1>0 DEF Issue, Entries, EntryRow
<1>2. /\ batch'[w].release = r /\ batch'[w].todo = b.todo \ {e}
      /\ \A v \in Worker \ {w} : batch'[v] = batch[v]
  BY <1>0 DEF Issue, BatchRow
<1>3. b # NoBatch
  BY <1>0 DEF NoBatch
<1>4. Books(entry', release', order', batch')
  <2>1. \A x \in Entry : entry'[x].release # NoRelease => release[entry'[x].release].state # "none"
    BY <1>1 DEF BooksInv, Books
  <2>2. \A v \in Worker : batch'[v].release # NoRelease => release[batch'[v].release].state # "none"
    BY <1>2 DEF BooksInv, Books
  <2>3. \A x \in Entry : entry'[x].sale = entry[x].sale /\ (entry'[x].invite = "spent" => entry[x].invite = "spent")
    BY <1>1
  <2> QED BY <1>0, <2>1, <2>2, <2>3 DEF BooksInv, Books
<1>5. ASSUME ~excused' PROVE Budgets(entry', release', order', batch', resizing')
  <2>1. ~excused /\ When(entry[e].sale # NoOrder, "rebuying") \cap Excuses = {}
    BY <1>5, NothingExcused DEF Issue
  <2>2. entry[e].sale = NoOrder
    BY <2>1 DEF When, Tolerant, Hazards
  <2>3. Budgets(entry, release, order, batch, resizing)
    BY <2>1 DEF BooksInv
  <2>4. /\ resizing = NoResize /\ r \in Opened(release) /\ \A v \in Worker : batch[v] # NoBatch => v = w
    BY <1>3, <2>3 DEF Budgets, Alone
  <2>5. \A q \in Opened(release) : q = r /\ q # NoRelease
    BY <2>4, Bounds DEF BooksInv, Books, Opened
  <2>6. r \in Release /\ release[r].copies \in Nat
    BY <2>4, Rows, Bounds DEF Opened, ReleaseRow
  <2>7. Honest(entry', order')
    BY <1>0, <1>1, <2>2, <2>3 DEF Budgets, Honest
  <2>8. Alone(release', batch', resizing')
    BY <1>0, <1>2, <2>4 DEF Alone
  <2>9. ASSUME NEW T \in {{}, b.todo \ {e}} PROVE Drawn(entry', order', r, T) <= release[r].copies
    <3> DEFINE n == Charge(entry', order', r, T)
               m == Charge(entry, order, r, b.todo)
    <3>1. n \in Counts /\ m \in Counts
      BY <1>0, ChargesAreCounts
    <3>2. ASSUME NEW x \in Entry PROVE n[x] <= m[x]
      <4>1. Quantity[x] \in Nat /\ Due(x, entry[x], order, r) \in Nat
        BY <1>0, Bounds, DueIsANumber DEF Entries
      <4>2. Due(x, entry[x], order, r) <= Quantity[x]
        BY <2>3, <4>1 DEF Due, Budgets, Honest
      <4>3. CASE x = e
        <5>1. m[x] = Quantity[x]
          BY <1>0, <4>3 DEF Charge
        <5>2. n[x] = Quantity[x]
          BY <1>1, <2>2, <4>3 DEF Charge, Due
        <5> QED BY <4>1, <5>1, <5>2
      <4>4. CASE x # e
        <5>1. Due(x, entry'[x], order', r) = Due(x, entry[x], order, r)
          BY <1>0, <1>1, <4>4
        <5>2. x \in T => x \in b.todo
          OBVIOUS
        <5> QED BY <4>1, <4>2, <5>1, <5>2 DEF Charge
      <4> QED BY <4>3, <4>4
    <3> HIDE DEF n, m
    <3>3. Total(n) <= Total(m) /\ Total(n) \in Nat /\ Total(m) \in Nat
      BY <3>1, <3>2, TotalsCompare, TotalIsANumber
    <3>4. Total(m) <= release[r].copies
      BY <2>3, <2>4 DEF Budgets, Fits, Drawn, m
    <3>5. Total(n) <= release[r].copies
      BY <2>6, <3>3, <3>4
    <3> QED BY <3>5 DEF Drawn, n
  <2>10. \A v \in Worker : batch'[v].release = r => v = w
    BY <1>2, <2>4, <2>5 DEF NoBatch
  <2>11. Fits(entry', release', order', batch', resizing')
    <3>1. Drawn(entry', order', r, {}) <= release[r].copies
      BY <2>9
    <3>2. \A v \in Worker : batch'[v].release = r => Drawn(entry', order', r, batch'[v].todo) <= release[r].copies
      BY <1>2, <2>9, <2>10
    <3>3. resizing'.release # r
      BY <1>0, <2>4, <2>5 DEF NoResize
    <3> QED BY <1>0, <2>5, <3>1, <3>2, <3>3 DEF Fits
  <2> QED BY <2>7, <2>8, <2>11 DEF Budgets
<1> QED BY <1>4, <1>5 DEF BooksInv

LEMMA BooksInitially == Init => BooksInv
<1> SUFFICES ASSUME Init PROVE BooksInv
  OBVIOUS
<1>1. Opened(release) = {}
  BY DEF Init, Opened
<1>2. Books(entry, release, order, batch)
  BY <1>1 DEF Init, Books, NoBatch
<1>3. Budgets(entry, release, order, batch, resizing)
  BY <1>1 DEF Init, Budgets, Honest, Alone, Fits
<1> QED BY <1>2, <1>3 DEF BooksInv

LEMMA BooksNext == ASSUME LinksInv, LinksInv', BooksInv, Tolerant, [Next]_vars PROVE BooksInv'
<1>1. CASE UNCHANGED vars
  BY <1>1 DEF BooksInv, vars
<1>2. CASE Desk
  <2>1. ASSUME NEW w \in Worker,
               \/ PlanBatch(w)
               \/ \E e \in Entry : Issue(w, e) \/ \E arrives \in BOOLEAN : Text(w, e, arrives)
        PROVE  BooksInv'
    BY <2>1, PlansKeepBooks, IssuesKeepBooks, TextKeepsBooks
  <2> QED BY <1>2, <2>1, ReleasesKeepBooks, EntriesKeepBooks, CountKeepsBooks DEF Desk
<1>3. CASE Customers
  <2>1. ASSUME NEW o \in Order, NEW n \in 1..MaxBuy,
               StrangerBuys(o, n) \/ \E e \in Entry : InviteeBuys(e, o, n) \/ WaiterBuys(e, o, n)
        PROVE  BooksInv'
    BY <2>1, BuyersKeepBooks, InviteesKeepBooks
  <2> QED BY <1>3, <2>1, EntriesKeepBooks DEF Customers
<1>4. CASE Lifecycle
  BY <1>4, LifecycleKeepsBooks
<1>5. CASE Crash
  BY <1>5, CrashKeepsBooks
<1> QED BY <1>1, <1>2, <1>3, <1>4, <1>5 DEF Next

(* Waitlist: no release has promised more copies than it was given         *)
(* (refuseBeyondAllocation, resize), for any entries, orders and staff.    *)
THEOREM NoReleaseOverdraws == ASSUME Tolerant PROVE Spec => []NoReleaseIsOverdrawn
<1>1. Init => LinksInv /\ BooksInv
  BY LinksInitially, BooksInitially
<1>2. LinksInv /\ BooksInv /\ [Next]_vars => (LinksInv /\ BooksInv)'
  BY LinksNext, BooksNext
<1>3. LinksInv /\ BooksInv => NoReleaseIsOverdrawn
  <2> SUFFICES ASSUME LinksInv, BooksInv, ~excused, NEW r \in Open PROVE Committed(entry, r) <= release[r].copies
    BY DEF NoReleaseIsOverdrawn
  <2>1. r \in Release /\ r \in Opened(release)
    BY DEF Open, Opened
  <2>2. Committed(entry, r) = Drawn(entry, order, r, {})
    BY <2>1, Rows, CommittedIsDrawn
  <2> QED BY <2>1, <2>2 DEF BooksInv, Budgets, Fits
<1> QED BY <1>1, <1>2, <1>3, PTL DEF Spec

-----------------------------------------------------------------------------
(* Whoever is invited is admitted. *)

(* What is promised, and what the open release has left, is on the shelf. *)
Stocked(st, en, rel, ord) ==
  /\ Promised(en) <= st
  /\ \A r \in Opened(rel) : Promised(en) + rel[r].copies - Drawn(en, ord, r, {}) <= st

ShelfInv == excused \/ Stocked(stock, entry, release, order)

LEMMA Sums ==
  /\ LinksInv => /\ stock \in Nat /\ Promised(entry) \in Nat
                 /\ \A r \in Release : release[r].copies \in Nat /\ Drawn(entry, order, r, {}) \in Nat
  /\ LinksInv' => /\ stock' \in Nat /\ Promised(entry') \in Nat
                  /\ \A r \in Release : release'[r].copies \in Nat /\ Drawn(entry', order', r, {}) \in Nat
BY Rows, Bounds, ChargesAreCounts DEF ReleaseRow

(* Nobody's hold and nobody's purchase changes. *)
LEMMA SteadySums ==
  ASSUME LinksInv, LinksInv', BooksInv, SalesStand, OrdersStand
  PROVE  /\ Promised(entry') = Promised(entry)
         /\ \A r \in Release : Drawn(entry', order', r, {}) = Drawn(entry, order, r, {})
<1>1. Kept(entry') = Kept(entry)
  BY DEF Kept, SalesStand
<1>2. ASSUME NEW r \in Release, NEW e \in Entry PROVE Due(e, entry'[e], order', r) = Due(e, entry[e], order, r)
  <2>1. entry[e].sale \in Order \cup {NoOrder}
    BY Rows DEF Entries, EntryRow
  <2>2. entry[e].sale # NoOrder => order'[entry[e].sale].copies = order[entry[e].sale].copies
    BY <2>1 DEF BooksInv, Books, OrdersStand
  <2> QED BY <2>2 DEF Due, SalesStand
<1>3. ASSUME NEW r \in Release PROVE Charge(entry', order', r, {}) = Charge(entry, order, r, {})
  BY <1>2 DEF Charge
<1> QED BY <1>1, <1>3 DEF Promised, Drawn

(* One entry's hold or purchase changes. *)
LEMMA OneRowMoves ==
  ASSUME LinksInv, LinksInv', BooksInv, OrdersStand, NEW e \in Entry, \A x \in Entry \ {e} : entry'[x] = entry[x]
  PROVE  /\ Promised(entry') = Promised(entry) + Kept(entry')[e] - Kept(entry)[e]
         /\ \A r \in Release :
              Drawn(entry', order', r, {}) =
                Drawn(entry, order, r, {}) + Due(e, entry'[e], order', r) - Due(e, entry[e], order, r)
<1>1. Promised(entry') = Promised(entry) + Kept(entry')[e] - Kept(entry)[e]
  <2> DEFINE n == Kept(entry)
             m == Kept(entry')
  <2>1. n \in Counts /\ m \in Counts
    BY Bounds DEF Kept, Counts
  <2>2. \A x \in Entry : x # e => n[x] = m[x]
    BY DEF Kept
  <2> HIDE DEF n, m
  <2>3. Total(m) = Total(n) + m[e] - n[e]
    BY <2>1, <2>2, OneEntryChanges
  <2> QED BY <2>3 DEF n, m, Promised
<1>2. ASSUME NEW r \in Release
      PROVE  Drawn(entry', order', r, {}) =
               Drawn(entry, order, r, {}) + Due(e, entry'[e], order', r) - Due(e, entry[e], order, r)
  <2> DEFINE n == Charge(entry, order, r, {})
             m == Charge(entry', order', r, {})
  <2>1. n \in Counts /\ m \in Counts
    BY Rows, ChargesAreCounts
  <2>2. ASSUME NEW x \in Entry, x # e PROVE n[x] = m[x]
    <3>1. entry[x].sale \in Order \cup {NoOrder}
      BY Rows DEF Entries, EntryRow
    <3>2. entry[x].sale # NoOrder => order'[entry[x].sale].copies = order[entry[x].sale].copies
      BY <3>1 DEF BooksInv, Books, OrdersStand
    <3>3. entry'[x] = entry[x]
      BY <2>2
    <3> QED BY <3>2, <3>3 DEF Charge, Due
  <2>3. n[e] = Due(e, entry[e], order, r) /\ m[e] = Due(e, entry'[e], order', r)
    BY DEF Charge
  <2> HIDE DEF n, m
  <2>4. Total(m) = Total(n) + m[e] - n[e]
    BY <2>1, <2>2, OneEntryChanges
  <2> QED BY <2>3, <2>4 DEF n, m, Drawn
<1> QED BY <1>1, <1>2

(* What a buyer finds is beyond what is promised and set aside. *)
LEMMA AvailableIsTheRest ==
  ASSUME LinksInv, BooksInv, NEW n \in Nat, n <= Available(entry)
  PROVE  Stocked(stock - n, entry, release, order)
<1>1. /\ entry \in Entries /\ order \in Orders /\ release \in [Release -> ReleaseRow]
      /\ Open = Opened(release) /\ Open \subseteq Release /\ \A r, q \in Open : r = q
  BY Rows DEF Open, Opened, BooksInv, Books
<1>2. Ringfenced(entry) \in Nat /\ Reserved(entry) = Promised(entry)
  BY <1>1, RingfencedIsTheRest, ReservedIsPromised
<1>3. n <= stock - Promised(entry) - Ringfenced(entry)
  BY <1>2 DEF Available
<1>4. ASSUME NEW r \in Opened(release)
      PROVE  Promised(entry) + release[r].copies - Drawn(entry, order, r, {}) <= stock - n
  <2>1. Ringfenced(entry) >= release[r].copies - Drawn(entry, order, r, {})
    BY <1>1, Sums, RingfencedIsTheRest
  <2> QED BY <1>1, <1>2, <1>3, <2>1, Sums
<1>5. Promised(entry) <= stock - n
  BY <1>2, <1>3, Sums
<1> QED BY <1>4, <1>5 DEF Stocked

LEMMA ReleasesKeepShelf ==
  ASSUME LinksInv, BooksInv, ShelfInv, "overallocated" \in Excuses,
         \/ \E r \in Release, n \in 1..MaxRelease : OpenRelease(r, n) \/ StartResize(r, n)
         \/ \E r \in Release : CloseRelease(r)
         \/ Resize
  PROVE  ShelfInv'
<1>0. /\ entry \in Entries /\ order \in Orders /\ release \in [Release -> ReleaseRow] /\ Open = Opened(release)
      /\ Reserved(entry) = Promised(entry)
  BY Rows, ReservedIsPromised DEF Open, Opened
<1>a. ASSUME NEW r \in Release, NEW n \in Nat, ~Wide(r, n)
      PROVE  Promised(entry) + n - Drawn(entry, order, r, {}) <= stock
  <2>1. Committed(entry, r) = Drawn(entry, order, r, {})
    BY <1>0, CommittedIsDrawn
  <2> QED BY <1>0, <1>a, <2>1, Sums DEF Wide
<1>1. ASSUME NEW r \in Release, NEW n \in 1..MaxRelease, OpenRelease(r, n) PROVE ShelfInv'
  <2>1. /\ Open = {} /\ release' = [release EXCEPT ![r] = [state |-> "OPEN", copies |-> n]]
        /\ UNCHANGED <<entry, order, stock>> /\ n \in Nat
    BY <1>1, Bounds DEF OpenRelease
  <2>2. ASSUME ~excused' PROVE Stocked(stock', entry', release', order')
    <3>1. ~excused /\ When(Wide(r, n), "overallocated") \cap Excuses = {}
      BY <1>1, <2>2, NothingExcused DEF OpenRelease
    <3>2. Promised(entry) + n - Drawn(entry, order, r, {}) <= stock
      BY <1>a, <2>1, <3>1 DEF When
    <3>3. \A q \in Opened(release') : q = r /\ release'[q].copies = n
      BY <1>0, <2>1 DEF Opened
    <3>4. Promised(entry) <= stock
      BY <3>1 DEF ShelfInv, Stocked
    <3> QED BY <2>1, <3>2, <3>3, <3>4 DEF Stocked
  <2> QED BY <2>2 DEF ShelfInv
<1>2. ASSUME NEW r \in Release, NEW n \in 1..MaxRelease, StartResize(r, n) PROVE ShelfInv'
  BY <1>2, NothingExcused DEF StartResize, ShelfInv
<1>3. ASSUME NEW r \in Release, CloseRelease(r) PROVE ShelfInv'
  <2>1. UNCHANGED <<entry, order, stock>> /\ release' = [release EXCEPT ![r].state = "CLOSED"]
    BY <1>3 DEF CloseRelease
  <2>2. \A q \in Opened(release') : q \in Opened(release) /\ release'[q].copies = release[q].copies
    BY <1>0, <2>1 DEF Opened, ReleaseRow
  <2>3. ~excused' => ~excused
    BY <1>3, NothingExcused DEF CloseRelease
  <2> QED BY <2>1, <2>2, <2>3 DEF ShelfInv, Stocked
<1>4. CASE Resize
  <2> DEFINE r == resizing.release
             n == resizing.copies
  <2>1. UNCHANGED <<entry, order, stock>> /\ release' = IF r \in Open THEN [release EXCEPT ![r].copies = n] ELSE release
    BY <1>4 DEF Resize
  <2>2. n \in Nat
    BY Rows, Bounds DEF ResizeRow
  <2>3. ASSUME ~excused' PROVE Stocked(stock', entry', release', order')
    <3> DEFINE wide == r \in Open /\ Wide(r, n)
    <3>1. Excuse(When(wide, "overallocated") \cup When(r \in Open /\ Batching, "resized"))
      BY <1>4 DEF Resize
    <3> HIDE DEF wide
    <3>2. ~excused /\ ~wide
      BY <2>3, <3>1, NothingExcused DEF When
    <3>3. Stocked(stock, entry, release, order)
      BY <3>2 DEF ShelfInv
    <3>4. CASE r \in Open
      <4>1. r \in Release /\ Promised(entry) + n - Drawn(entry, order, r, {}) <= stock
        BY <1>a, <2>2, <3>2, <3>4 DEF wide, Open
      <4>2. \A q \in Opened(release') : q \in Opened(release) /\ release'[q].copies = IF q = r THEN n ELSE release[q].copies
        BY <1>0, <2>1, <3>4 DEF Opened, ReleaseRow
      <4> HIDE DEF r, n
      <4>3. ASSUME NEW q \in Opened(release')
            PROVE  Promised(entry) + release'[q].copies - Drawn(entry, order, q, {}) <= stock
        <5>1. CASE q = r
          BY <4>1, <4>2, <5>1
        <5>2. CASE q # r
          BY <3>3, <4>2, <5>2 DEF Stocked
        <5> QED BY <5>1, <5>2
      <4>4. Stocked(stock, entry, release', order)
        BY <3>3, <4>3 DEF Stocked
      <4> QED BY <2>1, <4>4
    <3>5. CASE r \notin Open
      BY <2>1, <3>3, <3>5
    <3> QED BY <3>4, <3>5
  <2> QED BY <2>3 DEF ShelfInv
<1> QED BY <1>1, <1>2, <1>3, <1>4

LEMMA CountKeepsShelf ==
  ASSUME LinksInv, BooksInv, ShelfInv, "recounted" \in Excuses, NEW n \in 0..MaxStock, SetStock(n)
  PROVE  ShelfInv'
<1>0. /\ entry \in Entries /\ order \in Orders /\ release \in [Release -> ReleaseRow]
      /\ Open = Opened(release) /\ Open \subseteq Release /\ \A r, q \in Open : r = q
  BY Rows DEF Open, Opened, BooksInv, Books
<1>1. Ringfenced(entry) \in Nat /\ Reserved(entry) = Promised(entry) /\ n \in Nat
  BY <1>0, RingfencedIsTheRest, ReservedIsPromised, Bounds
<1>2. ASSUME ~excused' PROVE Stocked(n, entry, release, order)
  <2>1. When(n < Reserved(entry) + Ringfenced(entry), "recounted") \cap Excuses = {}
    BY <1>2, NothingExcused DEF SetStock
  <2>2. Promised(entry) + Ringfenced(entry) <= n
    BY <1>1, <2>1, Sums DEF When
  <2>3. \A r \in Opened(release) : Ringfenced(entry) >= release[r].copies - Drawn(entry, order, r, {})
    BY <1>0, Sums, RingfencedIsTheRest
  <2>4. \A r \in Opened(release) : release[r].copies \in Nat /\ Drawn(entry, order, r, {}) \in Nat
    BY <1>0, Sums
  <2> QED BY <1>1, <2>2, <2>3, <2>4, Sums DEF Stocked
<1> QED BY <1>2 DEF ShelfInv, SetStock

(* One entry's link is taken away, or nothing of it changes. *)
LEMMA EasedShelf ==
  ASSUME LinksInv, LinksInv', BooksInv, ShelfInv, ~excused' => ~excused, UNCHANGED <<stock, release, order>>,
         NEW e \in Entry, Eased(entry'[e], entry[e]), \A x \in Entry \ {e} : entry'[x] = entry[x]
  PROVE  ShelfInv'
<1> SUFFICES ASSUME ~excused' PROVE Stocked(stock', entry', release', order')
  BY DEF ShelfInv
<1>0. Stocked(stock, entry, release, order)
  BY DEF ShelfInv
<1>1. OrdersStand
  BY DEF OrdersStand
<1>2. Promised(entry') = Promised(entry) + Kept(entry')[e] - Kept(entry)[e]
  BY <1>1, OneRowMoves
<1>3. \A r \in Release :
        Drawn(entry', order', r, {}) =
          Drawn(entry, order, r, {}) + Due(e, entry'[e], order', r) - Due(e, entry[e], order, r)
  BY <1>1, OneRowMoves
<1>4. Quantity[e] \in Nat /\ \A r \in Release : Due(e, entry[e], order, r) \in Nat
  BY Bounds, Rows, DueIsANumber DEF Entries
<1>5. \A r \in Opened(release) : r \in Release
  BY DEF Opened
<1>6. CASE entry'[e].invite = entry[e].invite /\ entry'[e].release = entry[e].release
  <2>1. Kept(entry')[e] = Kept(entry)[e] /\ Kept(entry)[e] \in Nat
    BY <1>4, <1>6 DEF Kept
  <2>2. \A r \in Release : Due(e, entry'[e], order', r) = Due(e, entry[e], order, r)
    BY <1>6 DEF Due, Eased
  <2>3. Promised(entry') = Promised(entry) /\ \A r \in Release : Drawn(entry', order', r, {}) = Drawn(entry, order, r, {})
    BY <1>2, <1>3, <1>4, <2>1, <2>2, Sums
  <2> QED BY <1>0, <1>5, <2>3 DEF Stocked
<1>7. CASE entry[e].invite # "spent" /\ entry'[e].invite \in {"none", "lapsed"}
  <2>1. Kept(entry')[e] = 0 /\ \A r \in Release : Due(e, entry'[e], order', r) = 0
    BY <1>7 DEF Kept, Due
  <2>2. Kept(entry)[e] \in Nat /\ \A r \in Release : Due(e, entry[e], order, r) <= Kept(entry)[e]
    BY <1>4, <1>7 DEF Kept, Due
  <2>3. Promised(entry') <= stock
    BY <1>0, <1>2, <2>1, <2>2, Sums DEF Stocked
  <2>4. ASSUME NEW r \in Opened(release)
        PROVE  Promised(entry') + release[r].copies - Drawn(entry', order', r, {}) <= stock
    <3>1. Drawn(entry', order', r, {}) = Drawn(entry, order, r, {}) - Due(e, entry[e], order, r)
      BY <1>3, <1>4, <1>5, <2>1, Sums
    <3>2. Promised(entry') = Promised(entry) - Kept(entry)[e]
      BY <1>2, <2>1, <2>2, Sums
    <3>3. Promised(entry) + release[r].copies - Drawn(entry, order, r, {}) <= stock
      BY <1>0 DEF Stocked
    <3> QED BY <1>4, <1>5, <2>2, <3>1, <3>2, <3>3, Sums
  <2> QED BY <2>3, <2>4 DEF Stocked
<1> QED BY <1>6, <1>7 DEF Eased

LEMMA EntriesKeepShelf ==
  ASSUME LinksInv, LinksInv', BooksInv, ShelfInv, NEW e \in Entry,
         \/ Subscribe(e) \/ Lapse(e)
         \/ \E s \in {"PENDING", "NOTIFIED", "CONVERTED", "CANCELLED"} : StaffSets(e, s)
  PROVE  ShelfInv'
<1>1. UNCHANGED <<stock, release, order, excused>>
  BY DEF Subscribe, Lapse, StaffSets
<1> QED BY <1>1, EntriesAreEased, EasedShelf

LEMMA TextKeepsShelf ==
  ASSUME LinksInv, LinksInv', BooksInv, ShelfInv, NEW w \in Worker, NEW e \in Entry, NEW arrives \in BOOLEAN, Text(w, e, arrives)
  PROVE  ShelfInv'
<1>1. UNCHANGED <<stock, release, order, excused>>
  BY DEF Text
<1>2. entry \in [Entry -> EntryRow] /\ entry[e] \in EntryRow
  BY Rows DEF Entries
<1>3. Eased(entry'[e], entry[e]) /\ \A x \in Entry \ {e} : entry'[x] = entry[x]
  BY <1>2 DEF Text, Eased, EntryRow
<1> QED BY <1>1, <1>3, EasedShelf

(* The copies an invite holds come out of what the release has left. *)
LEMMA IssuesKeepShelf ==
  ASSUME LinksInv, LinksInv', BooksInv, BooksInv', Tolerant, ShelfInv, NEW w \in Worker, NEW e \in Entry, Issue(w, e)
  PROVE  ShelfInv'
<1> DEFINE r == batch[w].release
<1>0. UNCHANGED <<stock, release, order>> /\ e \in batch[w].todo
  BY DEF Issue
<1>1. /\ entry'[e].invite = "live" /\ entry'[e].release = r /\ entry'[e].sale = entry[e].sale
      /\ \A x \in Entry \ {e} : entry'[x] = entry[x]
  BY Rows DEF Issue, Entries, EntryRow
<1> SUFFICES ASSUME ~excused' PROVE Stocked(stock', entry', release', order')
  BY DEF ShelfInv
<1>2. ~excused /\ When(entry[e].sale # NoOrder, "rebuying") \cap Excuses = {}
  BY NothingExcused DEF Issue
<1>3. entry[e].sale = NoOrder /\ entry[e].invite # "spent"
  BY <1>2 DEF When, Tolerant, Hazards, BooksInv, Books
<1>4. Stocked(stock, entry, release, order)
  BY <1>2 DEF ShelfInv
<1>5. Budgets(entry, release, order, batch, resizing) /\ Fits(entry', release', order', batch', resizing')
  BY <1>2 DEF BooksInv, Budgets
<1>6. r \in Opened(release) /\ \A q \in Opened(release) : q = r
  <2>1. batch[w] # NoBatch
    BY <1>0 DEF NoBatch
  <2> QED BY <1>5, <2>1 DEF Budgets, Alone, BooksInv, Books
<1>7. r \in Release /\ Quantity[e] \in Nat /\ OrdersStand
  BY <1>0, <1>6, Bounds DEF Opened, OrdersStand
<1>8. Promised(entry') = Promised(entry) + Kept(entry')[e] - Kept(entry)[e]
  BY <1>1, <1>7, OneRowMoves
<1>9. Drawn(entry', order', r, {}) =
        Drawn(entry, order, r, {}) + Due(e, entry'[e], order', r) - Due(e, entry[e], order, r)
  BY <1>1, <1>7, OneRowMoves
<1>10. /\ Kept(entry')[e] = Quantity[e] /\ Due(e, entry'[e], order', r) = Quantity[e]
       /\ Kept(entry)[e] \in {0, Quantity[e]} /\ Due(e, entry[e], order, r) \in {0, Quantity[e]}
       /\ Due(e, entry[e], order, r) <= Kept(entry)[e]
  BY <1>1, <1>3, <1>7 DEF Kept, Due
<1>11. Promised(entry') + release[r].copies - Drawn(entry', order', r, {}) <= stock
  <2>1. Promised(entry) + release[r].copies - Drawn(entry, order, r, {}) <= stock
    BY <1>4, <1>6 DEF Stocked
  <2> QED BY <1>7, <1>8, <1>9, <1>10, <2>1, Sums
<1>12. Promised(entry') <= stock
  <2>1. Drawn(entry', order', r, {}) <= release[r].copies
    BY <1>0, <1>5, <1>6 DEF Fits
  <2> QED BY <1>7, <1>11, <2>1, Sums
<1> QED BY <1>0, <1>6, <1>11, <1>12 DEF Stocked

(* Orders that leave every hold and every purchase as it is. *)
LEMMA SteadyShelf ==
  ASSUME LinksInv, LinksInv', BooksInv, release' = release, SalesStand, OrdersStand,
         Stocked(stock', entry, release, order)
  PROVE  Stocked(stock', entry', release', order')
<1>1. Promised(entry') = Promised(entry) /\ \A r \in Release : Drawn(entry', order', r, {}) = Drawn(entry, order, r, {})
  BY SteadySums
<1> QED BY <1>1 DEF Stocked, Opened

LEMMA BuyersKeepShelf ==
  ASSUME LinksInv, LinksInv', BooksInv, NEW o \in Order, NEW n \in 1..MaxBuy,
         StrangerBuys(o, n) \/ \E e \in Entry : WaiterBuys(e, o, n)
  PROVE  ShelfInv'
<1>1. release' = release /\ n <= Available(entry) /\ stock' = stock - n
  BY DEF StrangerBuys, WaiterBuys, Place
<1>2. OrdersStand
  <2>1. PICK who : Place(o, n, who)
    BY DEF StrangerBuys, WaiterBuys
  <2> QED BY <2>1, Rows, PlacedOrders
<1>3. SalesStand
  BY Rows DEF StrangerBuys, WaiterBuys, Entries, EntryRow, SalesStand
<1>4. Stocked(stock', entry, release, order)
  BY <1>1, Bounds, AvailableIsTheRest
<1> QED BY <1>1, <1>2, <1>3, <1>4, SteadyShelf DEF ShelfInv

LEMMA InviteesKeepShelf ==
  ASSUME LinksInv, LinksInv', BooksInv, ShelfInv, Tolerant,
         NEW e \in Entry, NEW o \in Order, NEW n \in 1..MaxBuy, InviteeBuys(e, o, n)
  PROVE  ShelfInv'
<1> SUFFICES ASSUME ~excused' PROVE Stocked(stock', entry', release', order')
  BY DEF ShelfInv
<1>1. release' = release /\ stock' = stock - n /\ Place(o, n, NoEntry) /\ entry[e].invite = "live"
  BY DEF InviteeBuys, Place
<1>2. order'[o].copies = n /\ OrdersStand /\ o # NoOrder /\ n \in Nat
  <2>1. order'[o] = [state |-> "PENDING", copies |-> n, buyer |-> NoEntry] /\ OrdersStand
    BY <1>1, Rows, PlacedOrders
  <2> QED BY <2>1, Bounds
<1>3. /\ entry'[e].invite = "spent" /\ entry'[e].sale = o /\ entry'[e].release = entry[e].release
      /\ \A x \in Entry \ {e} : entry'[x] = entry[x]
  BY Rows DEF InviteeBuys, Entries, EntryRow
<1>4. ~excused /\ When(n > Quantity[e], "overbought") \cap Excuses = {}
  BY NothingExcused DEF InviteeBuys
<1>5. n <= Quantity[e] /\ Quantity[e] \in Nat
  BY <1>2, <1>4, Bounds DEF When, Tolerant, Hazards
<1>6. Stocked(stock, entry, release, order)
  BY <1>4 DEF ShelfInv
<1>7. Promised(entry') = Promised(entry) + Kept(entry')[e] - Kept(entry)[e]
  BY <1>2, <1>3, OneRowMoves
<1>8. \A r \in Release :
        Drawn(entry', order', r, {}) =
          Drawn(entry, order, r, {}) + Due(e, entry'[e], order', r) - Due(e, entry[e], order, r)
  BY <1>2, <1>3, OneRowMoves
<1>9. /\ Kept(entry')[e] = 0 /\ Kept(entry)[e] = Quantity[e]
      /\ \A r \in Release : Due(e, entry'[e], order', r) = IF entry[e].release = r THEN n ELSE 0
      /\ \A r \in Release : Due(e, entry[e], order, r) = IF entry[e].release = r THEN Quantity[e] ELSE 0
  BY <1>1, <1>2, <1>3 DEF Kept, Due
<1>10. Promised(entry') = Promised(entry) - Quantity[e]
  BY <1>5, <1>7, <1>9, Sums
<1>11. Promised(entry') <= stock'
  BY <1>1, <1>2, <1>5, <1>6, <1>10, Sums DEF Stocked
<1>12. ASSUME NEW r \in Opened(release)
       PROVE  Promised(entry') + release[r].copies - Drawn(entry', order', r, {}) <= stock'
  <2>1. r \in Release
    BY DEF Opened
  <2>2. Promised(entry) + release[r].copies - Drawn(entry, order, r, {}) <= stock
    BY <1>6 DEF Stocked
  <2>3. CASE entry[e].release = r
    <3>1. Drawn(entry', order', r, {}) = Drawn(entry, order, r, {}) + n - Quantity[e]
      BY <1>8, <1>9, <2>1, <2>3
    <3> QED BY <1>1, <1>2, <1>5, <1>10, <2>1, <2>2, <3>1, Sums
  <2>4. CASE entry[e].release # r
    <3>1. Drawn(entry', order', r, {}) = Drawn(entry, order, r, {})
      BY <1>8, <1>9, <2>1, <2>4, Sums
    <3> QED BY <1>1, <1>2, <1>5, <1>10, <2>1, <2>2, <3>1, Sums
  <2> QED BY <2>3, <2>4
<1> QED BY <1>1, <1>11, <1>12 DEF Stocked

(* A stock that grows covers what the smaller one did. *)
LEMMA MoreStockCovers ==
  ASSUME LinksInv, NEW st \in Nat, NEW n \in Nat, Stocked(st, entry, release, order)
  PROVE  Stocked(st + n, entry, release, order)
<1>1. \A r \in Opened(release) : r \in Release
  BY DEF Opened
<1> QED BY <1>1, Sums DEF Stocked

LEMMA LifecycleKeepsShelf ==
  ASSUME LinksInv, LinksInv', BooksInv, ShelfInv, Tolerant, Lifecycle
  PROVE  ShelfInv'
<1> SUFFICES ASSUME ~excused' PROVE Stocked(stock', entry', release', order')
  BY DEF ShelfInv
<1>0. entry \in Entries /\ order \in Orders /\ \A o \in Order : order[o].copies \in Nat
  BY Rows, Bounds DEF Orders, OrderRow
<1>1. ASSUME NEW o \in Order, OrderPaid(o) PROVE Stocked(stock', entry', release', order')
  <2> DEFINE again == \E e \in Entry : entry'[e].sale # entry[e].sale /\ entry[e].invite \in {"live", "spent"}
  <2>1. stock' = stock /\ release' = release /\ order' = [order EXCEPT ![o].state = "PAID"]
        /\ Excuse(When(again, "resold"))
    BY <1>1 DEF OrderPaid
  <2>2. ASSUME NEW x \in Entry
        PROVE  entry'[x].release = entry[x].release /\ entry'[x].invite = entry[x].invite
    <3>1. entry'[x] = Settled(o, entry[x]) /\ entry[x] \in EntryRow
      BY <1>0, <1>1 DEF OrderPaid, Entries
    <3> QED BY <3>1 DEF Settled, Released, EntryRow
  <2> HIDE DEF again
  <2>3. ~excused /\ ~again
    BY <2>1, NothingExcused DEF When, Tolerant, Hazards
  <2>4. SalesStand
    BY <2>2, <2>3 DEF SalesStand, again
  <2>5. OrdersStand
    BY <1>0, <2>1 DEF OrdersStand, Orders, OrderRow
  <2> QED BY <2>1, <2>3, <2>4, <2>5, SteadyShelf DEF ShelfInv
<1>2. ASSUME NEW o \in Order,
             \/ ConfirmationWithdrawn(o) \/ OrderSent(o) \/ OrderReopened(o)
             \/ \E closed \in {"CANCELLED", "REFUNDED"} : OrderClosed(o, closed)
      PROVE  Stocked(stock', entry', release', order')
  <2>1. release' = release /\ excused' = excused
    BY <1>2 DEF ConfirmationWithdrawn, OrderSent, OrderReopened, OrderClosed
  <2>2. PICK state \in {"PENDING", "SENT", "CANCELLED", "REFUNDED"} : order' = [order EXCEPT ![o].state = state]
    BY <1>2 DEF ConfirmationWithdrawn, OrderSent, OrderReopened, OrderClosed
  <2>3. OrdersStand
    BY <1>0, <2>2 DEF OrdersStand, Orders, OrderRow
  <2>4. SalesStand
    <3> SUFFICES ASSUME NEW x \in Entry
                 PROVE  entry'[x].release = entry[x].release /\ entry'[x].invite = entry[x].invite /\ entry'[x].sale = entry[x].sale
      BY DEF SalesStand
    <3>1. entry'[x] \in {entry[x], Released(o, entry[x])} /\ entry[x] \in EntryRow
      BY <1>0, <1>2 DEF ConfirmationWithdrawn, OrderSent, OrderReopened, OrderClosed, Entries
    <3> QED BY <3>1 DEF Released, EntryRow
  <2>5. Stocked(stock, entry, release, order)
    BY <2>1 DEF ShelfInv
  <2>6. Stocked(stock', entry, release, order)
    <3>1. CASE stock' = stock
      BY <2>5, <3>1
    <3>2. CASE stock' = stock + order[o].copies
      BY <1>0, <2>5, <3>2, Sums, MoreStockCovers
    <3>3. CASE stock' = stock - order[o].copies /\ order[o].copies <= Available(entry)
      BY <1>0, <3>3, AvailableIsTheRest
    <3> QED BY <1>2, <3>1, <3>2, <3>3 DEF ConfirmationWithdrawn, OrderSent, OrderReopened, OrderClosed
  <2> QED BY <2>1, <2>3, <2>4, <2>6, SteadyShelf
<1> QED BY <1>1, <1>2 DEF Lifecycle

LEMMA ShelfInitially == Init => ShelfInv
<1> SUFFICES ASSUME Init PROVE ShelfInv
  OBVIOUS
<1>1. Opened(release) = {} /\ stock \in Nat
  BY Bounds DEF Init, Opened
<1>2. Promised(entry) = 0
  <2> DEFINE n == Kept(entry)
  <2>1. \A e \in Entry : n[e] = 0
    BY DEF Init, Kept
  <2> HIDE DEF n
  <2>2. UNION {{x} \X (1..n[x]) : x \in Entry} = {}
    BY <2>1
  <2>3. Total(n) = 0
    BY <2>2, FS_EmptySet DEF Total, CopiesOf
  <2> QED BY <2>3 DEF n, Promised
<1> QED BY <1>1, <1>2 DEF ShelfInv, Stocked

LEMMA ShelfNext ==
  ASSUME LinksInv, LinksInv', BooksInv, BooksInv', ShelfInv, Hazards \subseteq Excuses, [Next]_vars
  PROVE  ShelfInv'
<1>0. Tolerant /\ "overallocated" \in Excuses /\ "recounted" \in Excuses
  BY DEF Tolerant, Hazards
<1>1. CASE UNCHANGED vars
  BY <1>1 DEF ShelfInv, vars
<1>2. CASE Desk
  <2>1. ASSUME NEW w \in Worker,
               \/ PlanBatch(w)
               \/ \E e \in Entry : Issue(w, e) \/ \E arrives \in BOOLEAN : Text(w, e, arrives)
        PROVE  ShelfInv'
    <3>1. CASE PlanBatch(w)
      BY <3>1, NothingExcused DEF PlanBatch, ShelfInv
    <3> QED BY <1>0, <2>1, <3>1, IssuesKeepShelf, TextKeepsShelf
  <2> QED BY <1>0, <1>2, <2>1, ReleasesKeepShelf, EntriesKeepShelf, CountKeepsShelf DEF Desk
<1>3. CASE Customers
  <2>1. ASSUME NEW o \in Order, NEW n \in 1..MaxBuy,
               StrangerBuys(o, n) \/ \E e \in Entry : InviteeBuys(e, o, n) \/ WaiterBuys(e, o, n)
        PROVE  ShelfInv'
    BY <1>0, <2>1, BuyersKeepShelf, InviteesKeepShelf
  <2> QED BY <1>3, <2>1, EntriesKeepShelf DEF Customers
<1>4. CASE Lifecycle
  BY <1>0, <1>4, LifecycleKeepsShelf
<1>5. CASE Crash
  BY <1>5 DEF Crash, ShelfInv
<1> QED BY <1>1, <1>2, <1>3, <1>4, <1>5 DEF Next

(* Spending a link frees the copies it holds and takes them from no one    *)
(* else, so that they are there for whoever spends it.                     *)
LEMMA ALinkAdmits ==
  ASSUME LinksInv, BooksInv, ShelfInv, ~excused, NEW e \in Live(entry)
  PROVE  Quantity[e] <= Available([entry EXCEPT ![e].invite = "spent"])
<1> DEFINE spent == [entry EXCEPT ![e].invite = "spent"]
<1>0. /\ entry \in Entries /\ order \in Orders /\ release \in [Release -> ReleaseRow]
      /\ e \in Entry /\ entry[e].invite = "live" /\ Quantity[e] \in Nat
      /\ Open = Opened(release) /\ Open \subseteq Release /\ \A r, q \in Open : r = q
  BY Rows, Bounds DEF Live, Open, Opened, BooksInv, Books
<1>1. /\ spent \in Entries /\ spent[e].invite = "spent" /\ spent[e].release = entry[e].release /\ spent[e].sale = entry[e].sale
      /\ \A x \in Entry \ {e} : spent[x] = entry[x]
  BY <1>0 DEF Entries, EntryRow
<1>2. entry[e].sale = NoOrder /\ Stocked(stock, entry, release, order)
  BY <1>0 DEF BooksInv, Budgets, Honest, ShelfInv
<1> HIDE DEF spent
<1>3. Promised(spent) = Promised(entry) - Quantity[e]
  <2> DEFINE n == Kept(entry)
             m == Kept(spent)
  <2>1. n \in Counts /\ m \in Counts
    BY Bounds DEF Kept, Counts
  <2>2. n[e] = Quantity[e] /\ m[e] = 0 /\ \A x \in Entry : x # e => n[x] = m[x]
    BY <1>0, <1>1 DEF Kept
  <2> HIDE DEF n, m
  <2>3. Total(m) = Total(n) + m[e] - n[e]
    BY <1>0, <2>1, <2>2, OneEntryChanges
  <2>4. Total(n) \in Nat
    BY <2>1, TotalIsANumber
  <2>5. Total(m) = Total(n) - Quantity[e]
    BY <1>0, <2>2, <2>3, <2>4
  <2> QED BY <2>5 DEF n, m, Promised
<1>4. \A r \in Release : Charge(spent, order, r, {}) = Charge(entry, order, r, {})
  BY <1>0, <1>1, <1>2 DEF Charge, Due
<1>5. \A r \in Release : Drawn(spent, order, r, {}) = Drawn(entry, order, r, {})
  BY <1>4 DEF Drawn
<1>6. Reserved(spent) = Promised(spent) /\ Ringfenced(spent) \in Nat
  BY <1>0, <1>1, ReservedIsPromised, RingfencedIsTheRest
<1>7. Promised(entry) + Ringfenced(spent) <= stock
  <2>1. CASE Open = {}
    <3>1. Ringfenced(spent) = 0
      BY <1>0, <1>1, <2>1, RingfencedIsTheRest
    <3> QED BY <1>2, <3>1, Sums DEF Stocked
  <2>2. ASSUME NEW r \in Open PROVE Promised(entry) + Ringfenced(spent) <= stock
    <3> DEFINE rest == release[r].copies - Drawn(entry, order, r, {})
    <3>1. rest \in Int /\ Promised(entry) + rest <= stock /\ Promised(entry) <= stock
      BY <1>0, <1>2, Sums DEF Stocked
    <3>2. Ringfenced(spent) = IF rest > 0 THEN rest ELSE 0
      BY <1>0, <1>1, <1>5, RingfencedIsTheRest
    <3> HIDE DEF rest
    <3> QED BY <3>1, <3>2, Sums
  <2> QED BY <2>1, <2>2
<1>8. Available(spent) = stock - Promised(spent) - Ringfenced(spent)
  BY <1>6 DEF Available
<1>9. Quantity[e] <= Available(spent)
  BY <1>0, <1>3, <1>6, <1>7, <1>8, Sums
<1> QED BY <1>9 DEF spent

(* Waitlist: the holder of a link that is live finds the copies it         *)
(* promises (CheckoutService, reservations.ts), unless something excused   *)
(* happened, for any entries, releases, orders and staff.                  *)
THEOREM InviteesFindTheirCopies == ASSUME Hazards \subseteq Excuses PROVE Spec => []InviteesAreAdmitted
<1>0. Tolerant
  BY DEF Tolerant
<1>1. Init => LinksInv /\ BooksInv /\ ShelfInv
  BY LinksInitially, BooksInitially, ShelfInitially
<1>2. LinksInv /\ BooksInv /\ ShelfInv /\ [Next]_vars => (LinksInv /\ BooksInv /\ ShelfInv)'
  BY <1>0, LinksNext, BooksNext, ShelfNext
<1>3. LinksInv /\ BooksInv /\ ShelfInv => InviteesAreAdmitted
  BY ALinkAdmits DEF InviteesAreAdmitted
<1> QED BY <1>1, <1>2, <1>3, PTL DEF Spec

=============================================================================
