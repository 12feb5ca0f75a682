--------------------------- MODULE CheckoutProofs ---------------------------
(***************************************************************************)
(* Theorems about Checkout: its types, that it implements Till, and that   *)
(* what is held stays covered, for every set of requests, however many are *)
(* in progress at one time; and about OrderTracking, that the card tells   *)
(* the history as it was.                                                  *)
(***************************************************************************)
EXTENDS MCCheckout, FiniteSetTheorems, SequenceTheorems, WellFoundedInduction, TLAPS

(* What a job holds, said of the job alone. *)
Writer == {"line", "wait", "redeem", "insert", "commit"}
HoldsBook(j, b) == j.pc \in Writer /\ \E i \in DOMAIN j.req.lines : i < j.line /\ j.req.lines[i].book = b
HoldsCoupon(j) == j.pc \in {"insert", "commit"} /\ j.req.coupon

(* Where a job's line counter stands, and what its passed guards still     *)
(* say of the rows it has locked.                                          *)
OnItsLine(j) ==
  /\ j.pc # "idle" => j.req \in Request
  /\ j.pc \in {"key", "spend", "price"} => j.line = 1
  /\ j.pc \in {"line", "wait"} => j.line \in DOMAIN j.req.lines
  /\ j.pc \in {"redeem", "insert", "commit"} => j.line = Len(j.req.lines) + 1

Covered(j, st) ==
  j.pc \in Writer =>
    \A i \in DOMAIN j.req.lines : i < j.line => j.req.lines[i].copies <= st[j.req.lines[i].book]

Sane(j) ==
  /\ OnItsLine(j)
  /\ Covered(j, stock)
  /\ HoldsCoupon(j) => used < MaxUses
  /\ j.pc = "commit" => bought[j.req.key] = NoRequest

(* Two jobs hold no row in common. *)
Apart(j, k) ==
  /\ \A b \in Book : ~(HoldsBook(j, b) /\ HoldsBook(k, b))
  /\ ~(HoldsCoupon(j) /\ HoldsCoupon(k))
  /\ ~(j.pc = "commit" /\ k.pc = "commit" /\ j.req.key = k.req.key)

CInv ==
  /\ CheckoutTypeOK
  /\ \A w \in Worker : Sane(job[w])
  /\ \A w, v \in Worker : w # v => Apart(job[w], job[v])

-----------------------------------------------------------------------------
(* Requests. *)

LEMMA RequestTypes ==
  ASSUME NEW r \in Request
  PROVE  /\ r.key \in Key /\ r.coupon \in BOOLEAN /\ r.entry \in Entry \cup {NoEntry} /\ r.link \in BOOLEAN
         /\ r.lines \in Seq([book : Book, copies : 1..MaxLine])
         /\ Len(r.lines) \in Nat \ {0} /\ DOMAIN r.lines = 1..Len(r.lines)
         /\ \A i \in DOMAIN r.lines : r.lines[i].book \in Book /\ r.lines[i].copies \in Nat \ {0}
         /\ r # NoRequest
         /\ r.link => r.entry \in Entry
<1>1. r \in [key : Key, lines : Seq([book : Book, copies : 1..MaxLine]), coupon : BOOLEAN,
             entry : Entry \cup {NoEntry}, link : BOOLEAN]
  BY CheckoutAssumption DEF CheckoutAssumption
<1>2. r.lines # <<>> /\ (r.link => r.entry # NoEntry) /\ r # NoRequest
  BY CheckoutAssumption DEF CheckoutAssumption
<1>3. r.lines \in Seq([book : Book, copies : 1..MaxLine])
  BY <1>1
<1>4. \A i \in 1..Len(r.lines) : r.lines[i] \in [book : Book, copies : 1..MaxLine]
  BY <1>3, ElementOfSeq
<1>5. Len(r.lines) \in Nat \ {0} /\ DOMAIN r.lines = 1..Len(r.lines)
  BY <1>2, <1>3
<1>6. \A i \in DOMAIN r.lines : r.lines[i].book \in Book /\ r.lines[i].copies \in Nat \ {0}
  BY <1>4, <1>5, CheckoutAssumption DEF CheckoutAssumption
<1> QED BY <1>1, <1>2, <1>3, <1>5, <1>6

(* CopiesOf reads the one line that names the book. *)
LEMMA CopiesOfLine ==
  ASSUME NEW r \in Request, NEW i \in DOMAIN r.lines
  PROVE  CopiesOf(r, r.lines[i].book) = r.lines[i].copies
<1> DEFINE b == r.lines[i].book
           k == CHOOSE k \in DOMAIN r.lines : r.lines[k].book = b
<1>1. k \in DOMAIN r.lines /\ r.lines[k].book = b
  OBVIOUS
<1>2. k = i
  BY <1>1, CheckoutAssumption DEF CheckoutAssumption
<1>3. CopiesOf(r, b) = r.lines[k].copies
  BY DEF CopiesOf
<1> QED BY <1>2, <1>3

LEMMA CopiesOfType ==
  ASSUME NEW r \in Request, NEW b \in Book
  PROVE  /\ CopiesOf(r, b) \in Nat
         /\ CopiesOf(r, b) > 0 => \E i \in DOMAIN r.lines : r.lines[i].book = b
<1>1. CASE \E i \in DOMAIN r.lines : r.lines[i].book = b
  <2>1. PICK i \in DOMAIN r.lines : r.lines[i].book = b
    BY <1>1
  <2>2. CopiesOf(r, b) = r.lines[i].copies
    BY <2>1, CopiesOfLine
  <2> QED BY <1>1, <2>2, RequestTypes
<1>2. CASE ~\E i \in DOMAIN r.lines : r.lines[i].book = b
  BY <1>2 DEF CopiesOf
<1> QED BY <1>1, <1>2

-----------------------------------------------------------------------------
(* A count of copies is a natural number. *)

LEMMA SumIsNat ==
  ASSUME NEW S, S \subseteq Entry, NEW n
  PROVE  SumOver(S, n) \in Nat
<1>1. IsFiniteSet(S) /\ MaxLine \in Nat
  BY FS_Subset, CheckoutAssumption DEF CheckoutAssumption
<1>2. IsFiniteSet(1..MaxLine)
  BY <1>1, FS_Interval
<1>3. IsFiniteSet(S \X (1..MaxLine))
  BY <1>1, <1>2, FS_Product
<1>4. IsFiniteSet({p \in S \X (1..MaxLine) : p[2] <= n[p[1]]})
  BY <1>3, FS_Subset
<1> QED BY <1>4, FS_CardinalityType DEF SumOver

LEMMA WithheldIsNat ==
  ASSUME CheckoutTypeOK, NEW b \in Book, NEW mine
  PROVE  Withheld(b, mine) \in Nat
<1>1. Reserved(b, mine) \in Nat
  <2>1. Held(b, mine) \subseteq Entry
    BY DEF Held
  <2> QED BY <2>1, SumIsNat DEF Reserved
<1>2. Committed(b) \in Nat
  BY SumIsNat DEF Committed
<1>3. release[b] \in Nat
  BY CheckoutAssumption DEF CheckoutTypeOK, CheckoutAssumption
<1> QED BY <1>1, <1>2, <1>3 DEF Withheld, Ringfenced

-----------------------------------------------------------------------------
(* What the invariant says of one worker. *)

LEMMA JobFacts ==
  ASSUME CInv, NEW w \in Worker
  PROVE  /\ job[w] \in Jobs /\ Sane(job[w])
         /\ job[w].pc # "idle" => job[w].req \in Request
         /\ job[w].line \in Nat \ {0}
         /\ job[w].spent \in Entry \cup {NoEntry}
  BY DEF CInv, CheckoutTypeOK, Jobs, Sane, OnItsLine

LEMMA ApartIsSymmetric == \A j, k : Apart(j, k) => Apart(k, j)
  BY DEF Apart

LEMMA QuietIsApart ==
  ASSUME NEW n, n.pc \notin Writer
  PROVE  \A k : Apart(n, k)
  BY DEF Apart, HoldsBook, HoldsCoupon, Writer

LEMMA IdleIsFine == Idle \in Jobs /\ Sane(Idle) /\ Idle.pc \notin Writer
<1>1. Idle \in Jobs
  BY DEF Idle, Jobs
<1>2. Idle.pc = "idle"
  BY DEF Idle
<1> QED BY <1>1, <1>2 DEF Sane, OnItsLine, Covered, HoldsCoupon, Writer

(* A step of one job that writes nothing others see keeps the invariant,   *)
(* if the job is left sane and apart from the others.                      *)
LEMMA OneJobMoves ==
  ASSUME CInv, UNCHANGED shopVars, NEW w \in Worker, NEW n \in Jobs,
         job' = [job EXCEPT ![w] = n], Sane(n),
         \A v \in Worker : v # w => Apart(n, job[v])
  PROVE  CInv'
<1>1. CheckoutTypeOK'
  BY DEF CInv, CheckoutTypeOK, shopVars
<1>2. job'[w] = n /\ \A v \in Worker : v # w => job'[v] = job[v]
  BY DEF CInv, CheckoutTypeOK
<1>3. ASSUME NEW v \in Worker PROVE Sane(job[v])' /\ job'[v] \in Jobs
  <2>1. Sane(job'[v]) /\ job'[v] \in Jobs
    BY <1>2 DEF CInv, CheckoutTypeOK
  <2> QED BY <2>1 DEF Sane, OnItsLine, Covered, HoldsCoupon, shopVars
<1>4. ASSUME NEW u \in Worker, NEW v \in Worker, u # v PROVE Apart(job[u], job[v])'
  <2>1. Apart(job'[u], job'[v])
    BY <1>2, <1>4, ApartIsSymmetric DEF CInv
  <2> QED BY <2>1 DEF Apart, HoldsBook, HoldsCoupon
<1> QED BY <1>1, <1>3, <1>4 DEF CInv

LEMMA FinishKeeps ==
  ASSUME CInv, UNCHANGED shopVars, NEW w \in Worker, Finish(w)
  PROVE  CInv'
  BY OneJobMoves, IdleIsFine, QuietIsApart DEF Finish

-----------------------------------------------------------------------------
(* The reads before anything is locked. *)

LEMMA StartKeeps ==
  ASSUME CInv, NEW w \in Worker, NEW r \in Request, Start(w, r)
  PROVE  CInv'
<1> DEFINE n == [Idle EXCEPT !.pc = "key", !.req = r]
<1>1. n.pc = "key" /\ n.req = r /\ n.line = 1
  BY DEF Idle
<1>2. n \in Jobs
  BY IdleIsFine DEF Jobs
<1>3. Sane(n)
  BY <1>1 DEF Sane, OnItsLine, Covered, HoldsCoupon, Writer
<1>4. n.pc \notin Writer
  BY <1>1 DEF Writer
<1> QED BY <1>2, <1>3, <1>4, OneJobMoves, QuietIsApart DEF Start

(* From one of these to the next. *)
LEMMA ReadsKeep ==
  ASSUME CInv, UNCHANGED shopVars, NEW w \in Worker,
         job[w].pc \in {"key", "spend", "price"},
         NEW pc \in {"spend", "price", "line"}, NEW e \in Entry \cup {NoEntry},
         job' = [job EXCEPT ![w] = [job[w] EXCEPT !.pc = pc, !.spent = e]]
  PROVE  CInv'
<1> DEFINE n == [job[w] EXCEPT !.pc = pc, !.spent = e]
<1>1. job[w] \in Jobs /\ job[w].req \in Request /\ job[w].line = 1
  BY JobFacts DEF Sane, OnItsLine
<1>2. n.pc = pc /\ n.req = job[w].req /\ n.line = 1 /\ n.spent = e
  BY <1>1 DEF Jobs
<1>3. n \in Jobs
  BY <1>1 DEF Jobs
<1>4. DOMAIN n.req.lines = 1..Len(n.req.lines) /\ Len(n.req.lines) \in Nat \ {0}
  BY <1>1, <1>2, RequestTypes
<1>5. Sane(n)
  BY <1>1, <1>2, <1>4 DEF Sane, OnItsLine, Covered, HoldsCoupon, Writer
<1>6. ASSUME NEW k PROVE Apart(n, k)
  <2>1. \A b : ~HoldsBook(n, b)
    BY <1>2, <1>4 DEF HoldsBook
  <2>2. ~HoldsCoupon(n) /\ n.pc # "commit"
    BY <1>2 DEF HoldsCoupon
  <2> QED BY <2>1, <2>2 DEF Apart
<1> QED BY <1>3, <1>5, <1>6, OneJobMoves

LEMMA FindKeeps ==
  ASSUME CInv, NEW w \in Worker, FindByIdempotencyKey(w)
  PROVE  CInv'
<1>1. CASE Finish(w)
  BY <1>1, FinishKeeps DEF FindByIdempotencyKey
<1>2. CASE Go(w, "spend")
  <2>1. job' = [job EXCEPT ![w] = [job[w] EXCEPT !.pc = "spend", !.spent = job[w].spent]]
    BY <1>2, JobFacts DEF Go, CInv, CheckoutTypeOK, Jobs
  <2> QED BY <2>1, JobFacts, ReadsKeep DEF FindByIdempotencyKey
<1> QED BY <1>1, <1>2 DEF FindByIdempotencyKey

LEMMA SpendKeeps ==
  ASSUME CInv, NEW w \in Worker, SpendInvite(w)
  PROVE  CInv'
<1> DEFINE r == job[w].req
           e == IF r.link \/ Recognised(r) THEN r.entry ELSE NoEntry
<1>1. CASE Finish(w)
  BY <1>1, FinishKeeps DEF SpendInvite
<1>2. CASE job' = [job EXCEPT ![w].pc = "price", ![w].spent = e]
  <2>1. e \in Entry \cup {NoEntry}
    BY JobFacts, RequestTypes DEF SpendInvite
  <2>2. job' = [job EXCEPT ![w] = [job[w] EXCEPT !.pc = "price", !.spent = e]]
    BY <1>2, JobFacts DEF CInv, CheckoutTypeOK, Jobs
  <2> QED BY <2>1, <2>2, ReadsKeep DEF SpendInvite
<1> QED BY <1>1, <1>2 DEF SpendInvite

LEMMA RepriceKeeps ==
  ASSUME CInv, NEW w \in Worker, Reprice(w)
  PROVE  CInv'
<1>1. CASE Finish(w)
  BY <1>1, FinishKeeps DEF Reprice
<1>2. CASE Go(w, "line")
  <2>1. job' = [job EXCEPT ![w] = [job[w] EXCEPT !.pc = "line", !.spent = job[w].spent]]
    BY <1>2, JobFacts DEF Go, CInv, CheckoutTypeOK, Jobs
  <2> QED BY <2>1, JobFacts, ReadsKeep DEF Reprice
<1> QED BY <1>1, <1>2 DEF Reprice

-----------------------------------------------------------------------------
(* The guarded writes. *)

LEMMA SendKeeps ==
  ASSUME CInv, NEW w \in Worker, SendDecrement(w)
  PROVE  CInv'
<1> DEFINE n == [job[w] EXCEPT !.pc = "wait", !.seen = Withheld(Line(w).book, {job[w].spent})]
<1>1. job[w] \in Jobs /\ job[w].pc = "line" /\ job[w].req \in Request /\ job[w].line \in DOMAIN Lines(w)
  BY JobFacts DEF SendDecrement, Sane, OnItsLine, Lines
<1>2. Withheld(Line(w).book, {job[w].spent}) \in Nat
  <2>1. Line(w).book \in Book
    BY <1>1, RequestTypes DEF Line, Lines
  <2> QED BY <2>1, WithheldIsNat DEF CInv
<1>3. n.pc = "wait" /\ n.req = job[w].req /\ n.line = job[w].line /\ n \in Jobs
  BY <1>1, <1>2 DEF Jobs
<1>4. job' = [job EXCEPT ![w] = n]
  BY <1>1 DEF SendDecrement, CInv, CheckoutTypeOK, Jobs
<1>5. Sane(n)
  BY <1>1, <1>3, JobFacts DEF Sane, OnItsLine, Covered, HoldsCoupon, Writer
<1>6. ASSUME NEW v \in Worker, v # w PROVE Apart(n, job[v])
  <2>1. Apart(job[w], job[v])
    BY <1>6 DEF CInv
  <2> QED BY <2>1, <1>1, <1>3 DEF Apart, HoldsBook, HoldsCoupon, Writer
<1> QED BY <1>3, <1>4, <1>5, <1>6, OneJobMoves DEF SendDecrement

LEMMA DecrementKeeps ==
  ASSUME CInv, NEW w \in Worker, Decrement(w)
  PROVE  CInv'
<1>1. CASE Finish(w)
  BY <1>1, FinishKeeps DEF Decrement
<1>2. CASE /\ stock[Line(w).book] - job[w].seen >= Line(w).copies
           /\ job' = [job EXCEPT ![w] = NextLine(w)]
  <2> DEFINE n == NextLine(w)
             r == job[w].req
             l == job[w].line
  <2>1. /\ job[w] \in Jobs /\ job[w].pc = "wait" /\ r \in Request /\ l \in DOMAIN r.lines
        /\ Lines(w) = r.lines /\ Line(w) = r.lines[l]
    BY JobFacts DEF Decrement, Sane, OnItsLine, Lines, Line
  <2>2. /\ DOMAIN r.lines = 1..Len(r.lines) /\ Len(r.lines) \in Nat \ {0}
        /\ \A i \in DOMAIN r.lines : r.lines[i].book \in Book /\ r.lines[i].copies \in Nat \ {0}
    BY <2>1, RequestTypes
  <2>3. n.req = r /\ n.line = l + 1 /\ n \in Jobs
    <3>1. l + 1 \in Nat \ {0}
      BY <2>1 DEF Jobs
    <3>2. CASE l < Len(r.lines)
      <4>1. n = [job[w] EXCEPT !.pc = "line", !.line = l + 1]
        BY <2>1, <3>2 DEF NextLine
      <4> QED BY <2>1, <3>1, <4>1 DEF Jobs
    <3>3. CASE ~(l < Len(r.lines))
      <4>1. n = [job[w] EXCEPT !.pc = "redeem", !.line = l + 1]
        BY <2>1, <3>3 DEF NextLine
      <4> QED BY <2>1, <3>1, <4>1 DEF Jobs
    <3> QED BY <3>2, <3>3
  <2>4. n.pc = IF l < Len(r.lines) THEN "line" ELSE "redeem"
    BY <2>1 DEF NextLine, Jobs
  <2>5. r.lines[l].copies <= stock[r.lines[l].book]
    <3>1. stock[r.lines[l].book] \in Nat /\ job[w].seen \in Nat
      BY <2>1, <2>2 DEF CInv, CheckoutTypeOK, Jobs
    <3>2. r.lines[l].copies \in Nat
      BY <2>1, <2>2
    <3>3. stock[r.lines[l].book] - job[w].seen >= r.lines[l].copies
      BY <1>2, <2>1
    <3> QED BY <3>1, <3>2, <3>3, SMTT(30)
  <2>6. Sane(n)
    <3>1. OnItsLine(n)
      BY <2>1, <2>2, <2>3, <2>4 DEF OnItsLine
    <3>2. ASSUME NEW i \in DOMAIN r.lines, i < l + 1 PROVE r.lines[i].copies <= stock[r.lines[i].book]
      <4>1. CASE i = l
        BY <4>1, <2>5
      <4>2. CASE i < l
        BY <4>2, <2>1, JobFacts DEF Sane, Covered, Writer
      <4> QED BY <3>2, <4>1, <4>2, <2>1, <2>2
    <3>3. Covered(n, stock)
      BY <2>3, <3>2 DEF Covered
    <3> QED BY <2>4, <3>1, <3>3 DEF Sane, HoldsCoupon
  <2>7. ASSUME NEW v \in Worker, v # w PROVE Apart(n, job[v])
    <3>1. Apart(job[w], job[v])
      BY <2>7 DEF CInv
    <3>2. ~HoldsBook(job[v], r.lines[l].book)
      <4>1. ~WaitsFor(w, v)
        BY DEF Decrement, Waits
      <4>2. ~BookLocked(r.lines[l].book, v)
        BY <4>1, <2>1, <2>7 DEF WaitsFor
      <4> QED BY <4>2 DEF BookLocked, HoldsBook, Writing, Writer, Lines
    <3>3. ASSUME NEW b \in Book, HoldsBook(n, b), HoldsBook(job[v], b) PROVE FALSE
      <4>1. PICK i \in DOMAIN r.lines : i < l + 1 /\ r.lines[i].book = b
        BY <2>3, <3>3 DEF HoldsBook
      <4>2. CASE i = l
        BY <4>1, <4>2, <3>2, <3>3
      <4>3. CASE i < l
        <5>1. HoldsBook(job[w], b)
          BY <4>1, <4>3, <2>1 DEF HoldsBook, Writer
        <5> QED BY <5>1, <3>1, <3>3 DEF Apart
      <4> QED BY <4>1, <4>2, <4>3, <2>1, <2>2
    <3>4. ~HoldsCoupon(n) /\ n.pc # "commit"
      BY <2>4 DEF HoldsCoupon
    <3> QED BY <3>3, <3>4 DEF Apart
  <2> QED BY <1>2, <2>3, <2>6, <2>7, OneJobMoves DEF Decrement
<1> QED BY <1>1, <1>2 DEF Decrement

LEMMA RedeemKeeps ==
  ASSUME CInv, NEW w \in Worker, Redeem(w)
  PROVE  CInv'
<1>1. CASE Finish(w)
  BY <1>1, FinishKeeps DEF Redeem
<1>2. CASE MayRedeem(job[w].req) /\ Go(w, "insert")
  <2> DEFINE n == [job[w] EXCEPT !.pc = "insert"]
  <2>1. job[w] \in Jobs /\ job[w].pc = "redeem"
    BY JobFacts DEF Redeem
  <2>2. n.pc = "insert" /\ n.req = job[w].req /\ n.line = job[w].line /\ n \in Jobs
    BY <2>1 DEF Jobs
  <2>3. job' = [job EXCEPT ![w] = n]
    BY <1>2 DEF Go, CInv, CheckoutTypeOK, Jobs
  <2>4. Sane(n)
    BY <1>2, <2>1, <2>2, JobFacts DEF Sane, OnItsLine, Covered, HoldsCoupon, Writer, MayRedeem
  <2>5. ASSUME NEW v \in Worker, v # w PROVE Apart(n, job[v])
    <3>1. Apart(job[w], job[v])
      BY <2>5 DEF CInv
    <3>2. \A b \in Book : ~(HoldsBook(n, b) /\ HoldsBook(job[v], b))
      BY <3>1, <2>1, <2>2 DEF Apart, HoldsBook, Writer
    <3>3. ~(HoldsCoupon(n) /\ HoldsCoupon(job[v]))
      <4>1. ~WaitsFor(w, v)
        BY DEF Redeem, Waits
      <4> QED BY <4>1, <2>1, <2>2, <2>5 DEF WaitsFor, CouponLocked, HoldsCoupon
    <3> QED BY <2>2, <3>2, <3>3 DEF Apart
  <2> QED BY <2>2, <2>3, <2>4, <2>5, OneJobMoves DEF Redeem
<1> QED BY <1>1, <1>2 DEF Redeem

LEMMA InsertKeeps ==
  ASSUME CInv, NEW w \in Worker, InsertOrder(w)
  PROVE  CInv'
<1>1. CASE Finish(w)
  BY <1>1, FinishKeeps DEF InsertOrder
<1>2. CASE bought[job[w].req.key] = NoRequest /\ Go(w, "commit")
  <2> DEFINE n == [job[w] EXCEPT !.pc = "commit"]
  <2>1. job[w] \in Jobs /\ job[w].pc = "insert"
    BY JobFacts DEF InsertOrder
  <2>2. n.pc = "commit" /\ n.req = job[w].req /\ n.line = job[w].line /\ n \in Jobs
    BY <2>1 DEF Jobs
  <2>3. job' = [job EXCEPT ![w] = n]
    BY <1>2 DEF Go, CInv, CheckoutTypeOK, Jobs
  <2>4. Sane(n)
    BY <1>2, <2>1, <2>2, JobFacts DEF Sane, OnItsLine, Covered, HoldsCoupon, Writer
  <2>5. ASSUME NEW v \in Worker, v # w PROVE Apart(n, job[v])
    <3>1. Apart(job[w], job[v])
      BY <2>5 DEF CInv
    <3>2. \A b \in Book : ~(HoldsBook(n, b) /\ HoldsBook(job[v], b))
      BY <3>1, <2>1, <2>2 DEF Apart, HoldsBook, Writer
    <3>3. ~(HoldsCoupon(n) /\ HoldsCoupon(job[v]))
      BY <3>1, <2>1, <2>2 DEF Apart, HoldsCoupon
    <3>4. ~(job[v].pc = "commit" /\ n.req.key = job[v].req.key)
      <4>1. ~WaitsFor(w, v)
        BY DEF InsertOrder, Waits
      <4> QED BY <4>1, <2>1, <2>2, <2>5 DEF WaitsFor, KeyTaken
    <3> QED BY <3>2, <3>3, <3>4 DEF Apart
  <2> QED BY <2>2, <2>3, <2>4, <2>5, OneJobMoves DEF InsertOrder
<1> QED BY <1>1, <1>2 DEF InsertOrder

-----------------------------------------------------------------------------
(* The commit. *)

(* What its own guards left: the copies, the coupon and the key are there. *)
LEMMA CommitFits ==
  ASSUME CInv, NEW w \in Worker, job[w].pc = "commit"
  PROVE  /\ job[w].req \in Request
         /\ bought[job[w].req.key] = NoRequest
         /\ \A b \in Book : CopiesOf(job[w].req, b) \in Nat /\ CopiesOf(job[w].req, b) <= stock[b]
         /\ job[w].req.coupon => used < MaxUses
         /\ \A b \in Book : CopiesOf(job[w].req, b) > 0 => HoldsBook(job[w], b)
<1> DEFINE r == job[w].req
<1>1. Sane(job[w]) /\ r \in Request
  BY JobFacts
<1>2. DOMAIN r.lines = 1..Len(r.lines) /\ job[w].line = Len(r.lines) + 1 /\ Len(r.lines) \in Nat
  BY <1>1, RequestTypes DEF Sane, OnItsLine
<1>3. ASSUME NEW b \in Book PROVE /\ CopiesOf(r, b) \in Nat /\ CopiesOf(r, b) <= stock[b]
                                  /\ CopiesOf(r, b) > 0 => HoldsBook(job[w], b)
  <2>1. CopiesOf(r, b) \in Nat /\ stock[b] \in Nat
    BY <1>1, CopiesOfType DEF CInv, CheckoutTypeOK
  <2>2. CASE CopiesOf(r, b) > 0
    <3>1. PICK i \in DOMAIN r.lines : r.lines[i].book = b
      BY <1>1, <2>2, CopiesOfType
    <3>2. i < job[w].line
      BY <1>2, <3>1
    <3>3. r.lines[i].copies <= stock[b]
      BY <1>1, <3>1, <3>2 DEF Sane, Covered, Writer
    <3>4. CopiesOf(r, b) = r.lines[i].copies
      BY <1>1, <3>1, CopiesOfLine
    <3> QED BY <2>1, <3>1, <3>2, <3>3, <3>4 DEF HoldsBook, Writer
  <2>3. CASE ~(CopiesOf(r, b) > 0)
    BY <2>1, <2>3
  <2> QED BY <2>1, <2>2, <2>3
<1>4. bought[r.key] = NoRequest /\ (r.coupon => used < MaxUses)
  BY <1>1 DEF Sane, HoldsCoupon
<1> QED BY <1>1, <1>3, <1>4

LEMMA CommitKeeps ==
  ASSUME CInv, NEW w \in Worker, Commit(w)
  PROVE  CInv'
<1> DEFINE r == job[w].req
<1>1. /\ job[w].pc = "commit" /\ r \in Request /\ job[w].spent \in Entry \cup {NoEntry}
      /\ stock' = [b \in Book |-> stock[b] - CopiesOf(r, b)]
      /\ used' = IF r.coupon THEN used + 1 ELSE used
      /\ bought' = [bought EXCEPT ![r.key] = r]
      /\ job' = [job EXCEPT ![w] = Idle]
  BY JobFacts DEF Commit, Finish
<1>2. \A b \in Book : CopiesOf(r, b) \in Nat /\ CopiesOf(r, b) <= stock[b] /\ stock[b] \in Nat
  BY <1>1, CommitFits DEF CInv, CheckoutTypeOK
<1>3. CheckoutTypeOK'
  <2>1. stock' \in [Book -> Nat]
    BY <1>1, <1>2
  <2>2. used' \in 0..MaxUses
    BY <1>1, CommitFits, RequestTypes, CheckoutAssumption DEF CInv, CheckoutTypeOK, CheckoutAssumption
  <2>3. bought' \in [Key -> Request \cup {NoRequest}]
    BY <1>1 DEF CInv, CheckoutTypeOK
  <2>4. job' \in [Worker -> Jobs]
    BY <1>1, IdleIsFine DEF CInv, CheckoutTypeOK
  <2>5. invite' \in [Entry -> {"none", "live", "lapsed", "spent"}] /\ charge' \in [Entry -> Nat]
    <3>1. CASE job[w].spent = NoEntry
      BY <3>1 DEF Commit, CInv, CheckoutTypeOK
    <3>2. CASE job[w].spent \in Entry
      <4>1. /\ invite' = [invite EXCEPT ![job[w].spent] = "spent"]
            /\ charge' = [charge EXCEPT ![job[w].spent] = CopiesOf(r, Wants[job[w].spent].book)]
        BY <3>2, CheckoutAssumption DEF Commit, CheckoutAssumption
      <4>2. CopiesOf(r, Wants[job[w].spent].book) \in Nat
        BY <1>1, <3>2, CopiesOfType, CheckoutAssumption DEF CheckoutAssumption
      <4> QED BY <4>1, <4>2 DEF CInv, CheckoutTypeOK
    <3> QED BY <1>1, <3>1, <3>2
  <2>6. release' \in [Book -> 0..MaxStock] /\ surprised' \subseteq Book
    BY DEF Commit, CInv, CheckoutTypeOK
  <2> QED BY <2>1, <2>2, <2>3, <2>4, <2>5, <2>6 DEF CheckoutTypeOK
<1>4. job'[w] = Idle /\ \A v \in Worker : v # w => job'[v] = job[v]
  BY <1>1 DEF CInv, CheckoutTypeOK
<1>5. ASSUME NEW v \in Worker PROVE Sane(job[v])'
  <2>1. CASE v = w
    <3>1. job'[v].pc = "idle"
      BY <1>4, <2>1 DEF Idle
    <3> QED BY <3>1 DEF Sane, OnItsLine, Covered, HoldsCoupon, Writer
  <2>2. CASE v # w
    <3>1. job'[v] = job[v] /\ Sane(job[v]) /\ Apart(job[v], job[w])
      BY <1>4, <2>2 DEF CInv
    <3>2. OnItsLine(job'[v])
      BY <3>1 DEF Sane
    <3>3. ASSUME job[v].pc \in Writer, NEW i \in DOMAIN job[v].req.lines, i < job[v].line
          PROVE  job[v].req.lines[i].copies <= stock'[job[v].req.lines[i].book]
      <4> DEFINE b == job[v].req.lines[i].book
      <4>1. b \in Book
        BY <3>3, JobFacts, RequestTypes DEF Writer
      <4>2. HoldsBook(job[v], b)
        BY <3>3 DEF HoldsBook
      <4>3. ~(CopiesOf(r, b) > 0)
        BY <1>1, <3>1, <4>1, <4>2, CommitFits DEF Apart
      <4>4. stock'[b] = stock[b]
        BY <1>1, <1>2, <4>1, <4>3
      <4> QED BY <3>1, <3>3, <4>4 DEF Sane, Covered
    <3>4. Covered(job'[v], stock')
      BY <3>1, <3>3 DEF Covered
    <3>5. HoldsCoupon(job'[v]) => used' < MaxUses
      <4>1. SUFFICES ASSUME HoldsCoupon(job[v]) PROVE used' < MaxUses
        BY <3>1
      <4>2. ~r.coupon
        BY <1>1, <3>1, <4>1 DEF Apart, HoldsCoupon
      <4> QED BY <1>1, <3>1, <4>1, <4>2 DEF Sane
    <3>6. job'[v].pc = "commit" => bought'[job'[v].req.key] = NoRequest
      <4>1. SUFFICES ASSUME job[v].pc = "commit" PROVE bought'[job[v].req.key] = NoRequest
        BY <3>1
      <4>2. job[v].req.key # r.key
        BY <1>1, <3>1, <4>1 DEF Apart
      <4>3. job[v].req.key \in Key
        BY <4>1, JobFacts, RequestTypes
      <4> QED BY <1>1, <3>1, <4>1, <4>2, <4>3 DEF Sane, CInv, CheckoutTypeOK
    <3> QED BY <3>2, <3>4, <3>5, <3>6 DEF Sane, OnItsLine, Covered, HoldsCoupon
  <2> QED BY <2>1, <2>2
<1>6. ASSUME NEW u \in Worker, NEW v \in Worker, u # v PROVE Apart(job[u], job[v])'
  <2>1. Apart(job'[u], job'[v])
    BY <1>4, <1>6, IdleIsFine, QuietIsApart, ApartIsSymmetric DEF CInv
  <2> QED BY <2>1 DEF Apart, HoldsBook, HoldsCoupon
<1> QED BY <1>3, <1>5, <1>6 DEF CInv

-----------------------------------------------------------------------------
(* What else writes the rows. *)

LEMMA ElsewhereKeeps ==
  ASSUME CInv, Elsewhere
  PROVE  CInv'
<1>1. job' = job /\ bought' = bought /\ used' = used
  BY DEF Elsewhere, Restock, CloseRelease, OpenRelease, Invite, Lapse
<1>2. /\ stock' \in [Book -> Nat]
      /\ \A b \in Book : stock'[b] \in Nat /\ stock[b] \in Nat /\ stock'[b] >= stock[b]
  <2>1. CASE \E b \in Book : Restock(b)
    BY <2>1 DEF Restock, CInv, CheckoutTypeOK
  <2>2. CASE stock' = stock
    BY <2>2 DEF CInv, CheckoutTypeOK
  <2> QED BY <2>1, <2>2 DEF Elsewhere, CloseRelease, OpenRelease, Invite, Lapse
<1>3. CheckoutTypeOK'
  <2>1. release' \in [Book -> 0..MaxStock] /\ surprised' \subseteq Book
    <3>1. CASE UNCHANGED <<release, surprised>>
      BY <3>1 DEF CInv, CheckoutTypeOK
    <3>2. CASE \E b \in Book, n \in 1..MaxStock : OpenRelease(b, n)
      <4>1. PICK b \in Book, n \in 1..MaxStock : OpenRelease(b, n)
        BY <3>2
      <4>2. n \in 0..MaxStock
        BY CheckoutAssumption DEF CheckoutAssumption
      <4> QED BY <4>1, <4>2 DEF OpenRelease, CInv, CheckoutTypeOK
    <3>3. CASE \E b \in Book : CloseRelease(b)
      <4>1. 0 \in 0..MaxStock
        BY CheckoutAssumption DEF CheckoutAssumption
      <4> QED BY <3>3, <4>1 DEF CloseRelease, CInv, CheckoutTypeOK
    <3> QED BY <3>1, <3>2, <3>3 DEF Elsewhere, Restock, Invite, Lapse
  <2>2. invite' \in [Entry -> {"none", "live", "lapsed", "spent"}] /\ charge' \in [Entry -> Nat]
    <3>1. \A e \in Entry : Wants[e].copies \in Nat
      BY CheckoutAssumption DEF CheckoutAssumption
    <3> QED BY <3>1 DEF Elsewhere, Restock, CloseRelease, OpenRelease, Invite, Lapse, CInv, CheckoutTypeOK
  <2> QED BY <1>1, <1>2, <2>1, <2>2 DEF CInv, CheckoutTypeOK
<1>4. ASSUME NEW v \in Worker PROVE Sane(job[v])'
  <2>1. Sane(job[v])
    BY DEF CInv
  <2>2. ASSUME job[v].pc \in Writer, NEW i \in DOMAIN job[v].req.lines, i < job[v].line
        PROVE  job[v].req.lines[i].copies <= stock'[job[v].req.lines[i].book]
    <3>1. job[v].req.lines[i].book \in Book /\ job[v].req.lines[i].copies \in Nat
      BY <2>2, JobFacts, RequestTypes DEF Writer
    <3>2. job[v].req.lines[i].copies <= stock[job[v].req.lines[i].book]
      BY <2>1, <2>2 DEF Sane, Covered
    <3> QED BY <1>2, <3>1, <3>2
  <2>3. Covered(job[v], stock')
    BY <2>2 DEF Covered
  <2> QED BY <1>1, <2>1, <2>3 DEF Sane, OnItsLine, Covered, HoldsCoupon
<1>5. ASSUME NEW u \in Worker, NEW v \in Worker, u # v PROVE Apart(job[u], job[v])'
  BY <1>1, <1>5 DEF CInv, Apart, HoldsBook, HoldsCoupon
<1> QED BY <1>3, <1>4, <1>5 DEF CInv

-----------------------------------------------------------------------------
(* The invariant. *)

LEMMA InitEstablishes == CheckoutInit => CInv
<1> SUFFICES ASSUME CheckoutInit PROVE CInv
  OBVIOUS
<1>1. CheckoutTypeOK
  BY IdleIsFine, CheckoutAssumption DEF CheckoutInit, CheckoutTypeOK, CheckoutAssumption
<1>2. \A w \in Worker : job[w] = Idle
  BY DEF CheckoutInit
<1> QED BY <1>1, <1>2, IdleIsFine, QuietIsApart DEF CInv

LEMMA NextPreserves == CInv /\ [CheckoutNext]_checkoutVars => CInv'
<1> SUFFICES ASSUME CInv, [CheckoutNext]_checkoutVars PROVE CInv'
  OBVIOUS
<1>1. CASE \E w \in Worker, r \in Request : Start(w, r)
  BY <1>1, StartKeeps
<1>2. CASE \E w \in Worker : Proceed(w)
  BY <1>2, FindKeeps, SpendKeeps, RepriceKeeps, SendKeeps, DecrementKeeps, RedeemKeeps, InsertKeeps,
     CommitKeeps DEF Proceed
<1>3. CASE \E w \in Worker : DeadlockVictim(w)
  BY <1>3, FinishKeeps DEF DeadlockVictim
<1>4. CASE Elsewhere
  BY <1>4, ElsewhereKeeps
<1>5. CASE UNCHANGED checkoutVars
  BY <1>5 DEF CInv, CheckoutTypeOK, Sane, OnItsLine, Covered, HoldsCoupon, Apart, HoldsBook, checkoutVars
<1> QED BY <1>1, <1>2, <1>3, <1>4, <1>5 DEF CheckoutNext

LEMMA CInvHolds == CheckoutSpec => []CInv
<1> QED BY InitEstablishes, NextPreserves, PTL DEF CheckoutSpec

(* Every column and every job keeps its type; the coupon is never used     *)
(* more often than max_uses allows, however many checkouts redeem it at    *)
(* the same time, and no book's stock goes below zero.                     *)
THEOREM CheckoutsAreTyped == CheckoutSpec => []CheckoutTypeOK
<1>1. CInv => CheckoutTypeOK
  BY DEF CInv
<1> QED BY <1>1, CInvHolds, PTL

-----------------------------------------------------------------------------
(* The refinement. *)

SoldNow == [k \in Key |-> IF bought[k] = NoRequest THEN NoRequest ELSE AsAsked(bought[k])]

LEMMA TillInitially == CheckoutInit => Sales!TillInit
<1> SUFFICES ASSUME CheckoutInit PROVE Sales!TillInit
  OBVIOUS
<1>1. stock \in [Book -> Nat]
  BY InitEstablishes DEF CInv, CheckoutTypeOK
<1> QED BY <1>1 DEF CheckoutInit, Sales!TillInit

LEMMA CommitSells ==
  ASSUME CInv, NEW w \in Worker, Commit(w)
  PROVE  Sales!TillNext
<1> DEFINE r == job[w].req
           sale == AsAsked(r)
<1>1. /\ r \in Request /\ r.key \in Key /\ bought[r.key] = NoRequest /\ r # NoRequest
      /\ r.coupon => used < MaxUses
      /\ \A b \in Book : CopiesOf(r, b) <= stock[b]
  BY CommitFits, RequestTypes DEF Commit
<1>2. sale.key = r.key /\ sale.coupon = r.coupon /\ \A b \in Book : sale.copies[b] = CopiesOf(r, b)
  BY DEF AsAsked
<1>3. SoldNow[sale.key] = NoRequest
  BY <1>1, <1>2 DEF SoldNow
<1>4. SoldNow' = [SoldNow EXCEPT ![sale.key] = sale]
  <2>1. bought' = [bought EXCEPT ![r.key] = r] /\ bought \in [Key -> Request \cup {NoRequest}]
    BY DEF Commit, CInv, CheckoutTypeOK
  <2>2. ASSUME NEW k \in Key PROVE SoldNow'[k] = [SoldNow EXCEPT ![sale.key] = sale][k]
    <3>1. bought'[k] = IF k = r.key THEN r ELSE bought[k]
      BY <2>1
    <3>2. SoldNow'[k] = IF bought'[k] = NoRequest THEN NoRequest ELSE AsAsked(bought'[k])
      BY DEF SoldNow, AsAsked
    <3>3. SoldNow[k] = IF bought[k] = NoRequest THEN NoRequest ELSE AsAsked(bought[k])
      BY DEF SoldNow
    <3>4. [SoldNow EXCEPT ![sale.key] = sale][k] = IF k = r.key THEN sale ELSE SoldNow[k]
      BY <1>2 DEF SoldNow
    <3> QED BY <1>1, <3>1, <3>2, <3>3, <3>4
  <2> QED BY <2>2 DEF SoldNow
<1>5. stock' = [b \in Book |-> stock[b] - sale.copies[b]]
  BY <1>2 DEF Commit
<1>6. used' = IF sale.coupon THEN used + 1 ELSE used
  BY <1>2 DEF Commit
<1>7. sale \in Asks
  BY <1>1 DEF Asks
<1> HIDE DEF sale
<1>8. PICK s \in Asks : s = sale
  BY <1>7
<1>9. Sales!Sell(s)
  BY <1>1, <1>2, <1>3, <1>4, <1>5, <1>6, <1>8 DEF Sales!Sell, SoldNow
<1> QED BY <1>9 DEF Sales!TillNext

LEMMA StepIsOfTheTill == CInv /\ [CheckoutNext]_checkoutVars => [Sales!TillNext]_(Sales!tillVars)
<1> SUFFICES ASSUME CInv, [CheckoutNext]_checkoutVars PROVE [Sales!TillNext]_(Sales!tillVars)
  OBVIOUS
<1>1. CASE \E w \in Worker : Commit(w)
  BY <1>1, CommitSells
<1>2. CASE UNCHANGED <<stock, bought, used>>
  <2>1. SoldNow' = SoldNow
    BY <1>2 DEF SoldNow, AsAsked, CopiesOf
  <2> QED BY <1>2, <2>1 DEF Sales!tillVars, SoldNow
<1>3. CASE \E b \in Book : Restock(b)
  <2>1. PICK b \in Book : Restock(b)
    BY <1>3
  <2>2. stock' \in [Book -> Nat] /\ \A c \in Book : stock'[c] >= stock[c]
    BY <2>1 DEF Restock, CInv, CheckoutTypeOK
  <2>3. SoldNow' = SoldNow /\ used' = used
    BY <2>1 DEF Restock, SoldNow, AsAsked, CopiesOf
  <2> QED BY <2>2, <2>3 DEF Sales!TillNext, Sales!Restock, SoldNow
<1>4. CASE UNCHANGED checkoutVars
  BY <1>2, <1>4 DEF checkoutVars
<1>5. ASSUME CheckoutNext, ~\E w \in Worker : Commit(w), ~\E b \in Book : Restock(b)
      PROVE UNCHANGED <<stock, bought, used>>
  BY <1>5 DEF CheckoutNext, Start, Proceed, FindByIdempotencyKey, SpendInvite, Reprice, SendDecrement, Decrement,
     Redeem, InsertOrder, DeadlockVictim, Elsewhere, CloseRelease, OpenRelease, Invite, Lapse, shopVars
<1> QED BY <1>1, <1>2, <1>3, <1>4, <1>5

(* A checkout, with its waits, refusals, rollbacks and deadlocks, is one   *)
(* sale or none: the order, its copies and its use of the coupon commit    *)
(* together, once for each idempotency key.                                *)
THEOREM CheckoutImplementsTill == CheckoutSpec => IsATill
<1> QED BY TillInitially, StepIsOfTheTill, CInvHolds, PTL DEF CheckoutSpec, IsATill, Sales!TillSpec

-----------------------------------------------------------------------------
(* Holds.  A checkout decides on what its decrement saw withheld, and the  *)
(* queue moves on meanwhile.  What makes the old answer safe is that the   *)
(* queue's moves never raise the sum of what a book has reserved and set   *)
(* aside: an invite is charged to the release it comes from.  Only a new   *)
(* release does, and that is what `surprised` remembers.                   *)

(* Invites: a live one is charged what it keeps, and a checkout that       *)
(* spends one holds it, alone and live, until it ends.                     *)
Invites ==
  /\ \A e \in Entry : invite[e] = "live" => charge[e] = Wants[e].copies
  /\ \A w \in Worker : job[w].spent # NoEntry => invite[job[w].spent] = "live"
  /\ \A w, v \in Worker : w # v /\ job[w].spent # NoEntry => job[w].spent # job[v].spent

(* What a decrement saw, or has already made sure of, for a book.          *)
SawEnough(j, b) ==
  /\ j.pc = "wait" /\ j.req.lines[j.line].book = b => Withheld(b, {j.spent}) <= j.seen
  /\ HoldsBook(j, b) => Withheld(b, {j.spent}) + CopiesOf(j.req, b) <= stock[b]

HInv ==
  /\ CInv
  /\ Invites
  /\ HoldsAreCovered
  /\ \A b \in Book \ surprised, w \in Worker : SawEnough(job[w], b)

-----------------------------------------------------------------------------
(* Sums. *)

Capped(n) == IF n <= MaxLine THEN n ELSE MaxLine

(* The copies of one entry, counted. *)
LEMMA OneEntryCounts ==
  ASSUME NEW e, NEW n \in Nat
  PROVE  /\ IsFiniteSet({e} \X (1..n))
         /\ Cardinality({e} \X (1..n)) = n
<1>1. IsFiniteSet({e}) /\ Cardinality({e}) = 1
  BY FS_Singleton
<1>2. IsFiniteSet(1..n) /\ Cardinality(1..n) = n
  BY FS_Interval
<1>3. /\ IsFiniteSet({e} \X (1..n))
      /\ Cardinality({e} \X (1..n)) = Cardinality({e}) * Cardinality(1..n)
  BY <1>1, <1>2, FS_Product
<1> QED BY <1>1, <1>2, <1>3

(* A sum is what one entry adds and the sum over the others. *)
LEMMA SumParts ==
  ASSUME NEW S, S \subseteq Entry, NEW n \in [Entry -> Nat], NEW e \in Entry
  PROVE  /\ SumOver(S, n) \in Nat /\ SumOver(S \ {e}, n) \in Nat
         /\ SumOver(S, n) = SumOver(S \ {e}, n) + (IF e \in S THEN Capped(n[e]) ELSE 0)
<1>0. MaxLine \in Nat /\ n[e] \in Nat /\ Capped(n[e]) \in Nat
  BY CheckoutAssumption DEF CheckoutAssumption, Capped
<1>1. SumOver(S, n) \in Nat /\ SumOver(S \ {e}, n) \in Nat
  BY SumIsNat
<1>2. CASE e \notin S
  <2>1. S \ {e} = S
    BY <1>2
  <2> QED BY <1>1, <1>2, <2>1
<1>3. CASE e \in S
  <2> DEFINE A == {p \in (S \ {e}) \X (1..MaxLine) : p[2] <= n[p[1]]}
             B == {e} \X (1..Capped(n[e]))
             C == {p \in S \X (1..MaxLine) : p[2] <= n[p[1]]}
  <2>1. C = A \cup B
    <3>1. ASSUME NEW p \in C PROVE p \in A \cup B
      BY <1>0, <3>1 DEF Capped
    <3>2. ASSUME NEW p \in B PROVE p \in C
      BY <1>0, <1>3, <3>2 DEF Capped
    <3>3. A \subseteq C
      OBVIOUS
    <3> QED BY <3>1, <3>2, <3>3
  <2>2. A \cap B = {}
    OBVIOUS
  <2>3. IsFiniteSet(A)
    <3>1. IsFiniteSet(S \ {e}) /\ IsFiniteSet(1..MaxLine)
      BY <1>0, FS_Subset, FS_Interval, CheckoutAssumption DEF CheckoutAssumption
    <3>2. IsFiniteSet((S \ {e}) \X (1..MaxLine))
      BY <3>1, FS_Product
    <3> QED BY <3>2, FS_Subset
  <2>4. IsFiniteSet(B) /\ Cardinality(B) = Capped(n[e])
    BY <1>0, OneEntryCounts
  <2>5. Cardinality(A) = SumOver(S \ {e}, n) /\ Cardinality(C) = SumOver(S, n)
    BY DEF SumOver
  <2> HIDE DEF A, B, C
  <2>6. Cardinality(A \cup B) = Cardinality(A) + Cardinality(B) - Cardinality(A \cap B)
    BY <2>3, <2>4, FS_Union
  <2>7. Cardinality(A \cap B) = 0
    BY <2>2, FS_EmptySet
  <2> QED BY <1>0, <1>1, <1>3, <2>1, <2>4, <2>5, <2>6, <2>7
<1> QED BY <1>2, <1>3

LEMMA SumSplits ==
  ASSUME NEW n \in [Entry -> Nat], NEW e \in Entry
  PROVE  \A S \in SUBSET Entry :
           /\ SumOver(S, n) \in Nat /\ SumOver(S \ {e}, n) \in Nat
           /\ SumOver(S, n) = SumOver(S \ {e}, n) + (IF e \in S THEN Capped(n[e]) ELSE 0)
<1> TAKE S \in SUBSET Entry
<1> QED BY SumParts

(* A sum looks at the entries it is over. *)
LEMMA SumLooksAt ==
  ASSUME NEW S, NEW n, NEW m, \A x \in S : n[x] = m[x]
  PROVE  SumOver(S, n) = SumOver(S, m)
<1>1. {p \in S \X (1..MaxLine) : p[2] <= n[p[1]]} = {p \in S \X (1..MaxLine) : p[2] <= m[p[1]]}
  OBVIOUS
<1> QED BY <1>1 DEF SumOver

-----------------------------------------------------------------------------
(* What a book has reserved and what it has set aside, with one entry      *)
(* counted apart.                                                          *)

Copies == [e \in Entry |-> Wants[e].copies]
HeldOf(i, b, mine) == {e \in Entry \ mine : Wants[e].book = b /\ i[e] = "live"}
ChargedOf(i, b) == {e \in Entry : Wants[e].book = b /\ i[e] \in {"live", "spent"}}
LeftOf(n, c) == IF n > c THEN n - c ELSE 0

LEMMA WithheldOf ==
  ASSUME NEW b, NEW mine
  PROVE  /\ Withheld(b, mine) = SumOver(HeldOf(invite, b, mine), Copies)
                                + LeftOf(release[b], SumOver(ChargedOf(invite, b), charge))
         /\ Withheld(b, mine)' = SumOver(HeldOf(invite', b, mine), Copies)
                                 + LeftOf(release'[b], SumOver(ChargedOf(invite', b), charge'))
         /\ Reserved(b, mine) = SumOver(HeldOf(invite, b, mine), Copies)
         /\ Reserved(b, mine)' = SumOver(HeldOf(invite', b, mine), Copies)
         /\ Committed(b) = SumOver(ChargedOf(invite, b), charge)
BY DEF Withheld, Reserved, Ringfenced, Committed, Held, HeldOf, ChargedOf, Copies, LeftOf

LEMMA CopiesType ==
  /\ Copies \in [Entry -> Nat]
  /\ \A e \in Entry : Copies[e] = Wants[e].copies /\ Copies[e] \in Nat \ {0} /\ Copies[e] <= MaxLine
BY CheckoutAssumption DEF CheckoutAssumption, Copies

(* The other entries count as they did. *)
LEMMA OtherEntries ==
  ASSUME NEW e \in Entry,
         \A x \in Entry : x # e => invite'[x] = invite[x] /\ charge'[x] = charge[x],
         NEW b, NEW mine
  PROVE  /\ SumOver(HeldOf(invite, b, mine) \ {e}, Copies) =
              SumOver(HeldOf(invite', b, mine) \ {e}, Copies)
         /\ SumOver(ChargedOf(invite, b) \ {e}, charge) =
              SumOver(ChargedOf(invite', b) \ {e}, charge')
<1>1. HeldOf(invite, b, mine) \ {e} = HeldOf(invite', b, mine) \ {e}
  BY DEF HeldOf
<1>2. ChargedOf(invite, b) \ {e} = ChargedOf(invite', b) \ {e}
  BY DEF ChargedOf
<1>3. \A x \in ChargedOf(invite, b) \ {e} : charge[x] = charge'[x]
  BY DEF ChargedOf
<1>4. SumOver(ChargedOf(invite, b) \ {e}, charge) = SumOver(ChargedOf(invite, b) \ {e}, charge')
  BY <1>3, SumLooksAt
<1> QED BY <1>1, <1>2, <1>4

(* An invite is given up, lapsing or spent: what it kept is at most what   *)
(* the release gets back.                                                  *)
LEMMA LeavingWithholdsLess ==
  ASSUME CheckoutTypeOK, CheckoutTypeOK', NEW e \in Entry,
         invite[e] = "live", charge[e] = Wants[e].copies, invite'[e] \in {"lapsed", "spent"},
         \A x \in Entry : x # e => invite'[x] = invite[x] /\ charge'[x] = charge[x],
         release' = release, NEW b \in Book, NEW mine, e \notin mine
  PROVE  Withheld(b, mine)' <= Withheld(b, mine)
<1> DEFINE H == HeldOf(invite, b, mine)
           H2 == HeldOf(invite', b, mine)
           C == ChargedOf(invite, b)
           C2 == ChargedOf(invite', b)
<1>1. /\ charge \in [Entry -> Nat] /\ charge' \in [Entry -> Nat] /\ release[b] \in Nat
      /\ release'[b] = release[b]
  BY CheckoutAssumption DEF CheckoutTypeOK, CheckoutAssumption
<1>2. H \subseteq Entry /\ H2 \subseteq Entry /\ C \subseteq Entry /\ C2 \subseteq Entry
  BY DEF HeldOf, ChargedOf
<1>3. /\ SumOver(H \ {e}, Copies) = SumOver(H2 \ {e}, Copies)
      /\ SumOver(C \ {e}, charge) = SumOver(C2 \ {e}, charge')
  BY OtherEntries
<1>4. e \notin H2 /\ (e \in H <=> Wants[e].book = b) /\ (e \in C <=> Wants[e].book = b)
      /\ (e \in C2 => Wants[e].book = b)
  BY DEF HeldOf, ChargedOf
<1>5. /\ Capped(Copies[e]) = Wants[e].copies /\ Capped(charge[e]) = Wants[e].copies
      /\ Wants[e].copies \in Nat /\ Capped(charge'[e]) \in Nat
  BY <1>1, CopiesType, CheckoutAssumption DEF Capped, CheckoutAssumption
<1> HIDE DEF H, H2, C, C2
<1>6. /\ SumOver(H, Copies) = SumOver(H \ {e}, Copies) + (IF e \in H THEN Wants[e].copies ELSE 0)
      /\ SumOver(H2, Copies) = SumOver(H2 \ {e}, Copies)
      /\ SumOver(C, charge) = SumOver(C \ {e}, charge) + (IF e \in C THEN Wants[e].copies ELSE 0)
      /\ SumOver(C2, charge') = SumOver(C2 \ {e}, charge') + (IF e \in C2 THEN Capped(charge'[e]) ELSE 0)
      /\ SumOver(H \ {e}, Copies) \in Nat /\ SumOver(C \ {e}, charge) \in Nat
      /\ SumOver(H2 \ {e}, Copies) \in Nat /\ SumOver(C2 \ {e}, charge') \in Nat
      /\ SumOver(H2, Copies) \in Nat
  <2>1. \A S \in SUBSET Entry :
          /\ SumOver(S, Copies) \in Nat /\ SumOver(S \ {e}, Copies) \in Nat
          /\ SumOver(S, Copies) = SumOver(S \ {e}, Copies) + (IF e \in S THEN Capped(Copies[e]) ELSE 0)
    BY CopiesType, SumSplits
  <2>2. \A S \in SUBSET Entry :
          /\ SumOver(S, charge) \in Nat /\ SumOver(S \ {e}, charge) \in Nat
          /\ SumOver(S, charge) = SumOver(S \ {e}, charge) + (IF e \in S THEN Capped(charge[e]) ELSE 0)
    BY <1>1, SumSplits
  <2>3. \A S \in SUBSET Entry :
          /\ SumOver(S, charge') \in Nat /\ SumOver(S \ {e}, charge') \in Nat
          /\ SumOver(S, charge') = SumOver(S \ {e}, charge') + (IF e \in S THEN Capped(charge'[e]) ELSE 0)
    BY <1>1, SumSplits
  <2>4. \A S : e \notin S => S \ {e} = S
    OBVIOUS
  <2> QED BY <1>2, <1>4, <1>5, <2>1, <2>2, <2>3, <2>4
<1>7. SumOver(H2, Copies) + LeftOf(release[b], SumOver(C2, charge'))
        <= SumOver(H, Copies) + LeftOf(release[b], SumOver(C, charge))
  <2> DEFINE h == SumOver(H \ {e}, Copies)
             c == SumOver(C \ {e}, charge)
  <2>1. h \in Nat /\ c \in Nat /\ SumOver(H2, Copies) = h
    BY <1>3, <1>6
  <2>2. CASE Wants[e].book = b
    <3>1. SumOver(H, Copies) = h + Wants[e].copies /\ SumOver(C, charge) = c + Wants[e].copies
      BY <1>4, <1>6, <2>2
    <3>2. PICK k \in Nat : SumOver(C2, charge') = c + k
      BY <1>3, <1>5, <1>6
    <3> HIDE DEF h, c
    <3> QED BY <1>1, <1>5, <2>1, <3>1, <3>2 DEF LeftOf
  <2>3. CASE Wants[e].book # b
    <3>1. SumOver(H, Copies) = h /\ SumOver(C, charge) = c /\ SumOver(C2, charge') = c
      BY <1>3, <1>4, <1>6, <2>3
    <3> HIDE DEF h, c
    <3> QED BY <1>1, <2>1, <3>1 DEF LeftOf
  <2> QED BY <2>2, <2>3
<1> QED BY <1>1, <1>7, WithheldOf DEF H, H2, C, C2

(* An invite is charged to the release it comes from. *)
LEMMA InvitingWithholdsNoMore ==
  ASSUME CheckoutTypeOK, CheckoutTypeOK', NEW e \in Entry, Invite(e),
         NEW b \in Book, NEW mine, e \notin mine
  PROVE  Withheld(b, mine)' <= Withheld(b, mine)
<1> DEFINE H == HeldOf(invite, b, mine)
           H2 == HeldOf(invite', b, mine)
           C == ChargedOf(invite, b)
           C2 == ChargedOf(invite', b)
<1>1. /\ charge \in [Entry -> Nat] /\ charge' \in [Entry -> Nat] /\ release[b] \in Nat
      /\ release'[b] = release[b]
  BY CheckoutAssumption DEF CheckoutTypeOK, CheckoutAssumption, Invite
<1>2. H \subseteq Entry /\ H2 \subseteq Entry /\ C \subseteq Entry /\ C2 \subseteq Entry
  BY DEF HeldOf, ChargedOf
<1>0. /\ invite[e] \in {"none", "lapsed"} /\ invite'[e] = "live" /\ charge'[e] = Wants[e].copies
      /\ \A x \in Entry : x # e => invite'[x] = invite[x] /\ charge'[x] = charge[x]
  BY DEF Invite, CheckoutTypeOK
<1>3. /\ SumOver(H \ {e}, Copies) = SumOver(H2 \ {e}, Copies)
      /\ SumOver(C \ {e}, charge) = SumOver(C2 \ {e}, charge')
  BY <1>0, OtherEntries
<1>4. e \notin H /\ e \notin C /\ (e \in H2 <=> Wants[e].book = b) /\ (e \in C2 <=> Wants[e].book = b)
  BY <1>0 DEF HeldOf, ChargedOf
<1>5. /\ Capped(Copies[e]) = Wants[e].copies /\ Capped(charge'[e]) = Wants[e].copies
      /\ Wants[e].copies \in Nat
  BY <1>0, CopiesType DEF Capped
<1>6. Wants[e].book = b => Wants[e].copies <= release[b] - SumOver(C, charge)
  BY WithheldOf DEF Invite
<1> HIDE DEF H, H2, C, C2
<1>7. /\ SumOver(H2, Copies) = SumOver(H2 \ {e}, Copies) + (IF e \in H2 THEN Wants[e].copies ELSE 0)
      /\ SumOver(H, Copies) = SumOver(H \ {e}, Copies)
      /\ SumOver(C2, charge') = SumOver(C2 \ {e}, charge') + (IF e \in C2 THEN Wants[e].copies ELSE 0)
      /\ SumOver(C, charge) = SumOver(C \ {e}, charge)
      /\ SumOver(H \ {e}, Copies) \in Nat /\ SumOver(C \ {e}, charge) \in Nat
  <2>1. \A S \in SUBSET Entry :
          /\ SumOver(S, Copies) \in Nat /\ SumOver(S \ {e}, Copies) \in Nat
          /\ SumOver(S, Copies) = SumOver(S \ {e}, Copies) + (IF e \in S THEN Capped(Copies[e]) ELSE 0)
    BY CopiesType, SumSplits
  <2>2. \A S \in SUBSET Entry :
          /\ SumOver(S, charge) \in Nat /\ SumOver(S \ {e}, charge) \in Nat
          /\ SumOver(S, charge) = SumOver(S \ {e}, charge) + (IF e \in S THEN Capped(charge[e]) ELSE 0)
    BY <1>1, SumSplits
  <2>3. \A S \in SUBSET Entry :
          /\ SumOver(S, charge') \in Nat /\ SumOver(S \ {e}, charge') \in Nat
          /\ SumOver(S, charge') = SumOver(S \ {e}, charge') + (IF e \in S THEN Capped(charge'[e]) ELSE 0)
    BY <1>1, SumSplits
  <2>4. \A S : e \notin S => S \ {e} = S
    OBVIOUS
  <2> QED BY <1>2, <1>4, <1>5, <2>1, <2>2, <2>3, <2>4
<1>8. SumOver(H2, Copies) + LeftOf(release[b], SumOver(C2, charge'))
        <= SumOver(H, Copies) + LeftOf(release[b], SumOver(C, charge))
  <2> DEFINE h == SumOver(H \ {e}, Copies)
             c == SumOver(C \ {e}, charge)
  <2>1. h \in Nat /\ c \in Nat /\ SumOver(H, Copies) = h /\ SumOver(C, charge) = c
    BY <1>7
  <2>2. CASE Wants[e].book = b
    <3>1. /\ SumOver(H2, Copies) = h + Wants[e].copies /\ SumOver(C2, charge') = c + Wants[e].copies
          /\ Wants[e].copies <= release[b] - c
      BY <1>3, <1>4, <1>6, <1>7, <2>1, <2>2
    <3> HIDE DEF h, c
    <3> QED BY <1>1, <1>5, <2>1, <3>1 DEF LeftOf
  <2>3. CASE Wants[e].book # b
    <3>1. SumOver(H2, Copies) = h /\ SumOver(C2, charge') = c
      BY <1>3, <1>4, <1>7, <2>3
    <3> HIDE DEF h, c
    <3> QED BY <1>1, <2>1, <3>1 DEF LeftOf
  <2> QED BY <2>2, <2>3
<1> QED BY <1>1, <1>8, WithheldOf DEF H, H2, C, C2

(* Who spends an invite has it left out of what is reserved. *)
LEMMA SpentIsNotReserved ==
  ASSUME NEW e \in Entry, invite'[e] = "spent",
         \A x \in Entry : x # e => invite'[x] = invite[x], NEW b
  PROVE  Reserved(b, {})' = Reserved(b, {e})
<1>1. HeldOf(invite', b, {}) = HeldOf(invite, b, {e})
  BY DEF HeldOf
<1> QED BY <1>1, WithheldOf

(* A hold is part of what is withheld. *)
LEMMA ReservedIsWithheld ==
  ASSUME CheckoutTypeOK, NEW b \in Book, NEW mine
  PROVE  Reserved(b, mine) \in Nat /\ Withheld(b, mine) \in Nat /\ Reserved(b, mine) <= Withheld(b, mine)
<1>1. Reserved(b, mine) \in Nat
  <2>1. Held(b, mine) \subseteq Entry
    BY DEF Held
  <2> QED BY <2>1, SumIsNat DEF Reserved
<1>2. Committed(b) \in Nat
  BY SumIsNat DEF Committed
<1>3. release[b] \in Nat
  BY CheckoutAssumption DEF CheckoutTypeOK, CheckoutAssumption
<1> QED BY <1>1, <1>2, <1>3 DEF Withheld, Ringfenced

(* More holds reserve more. *)
LEMMA FewerHoldLess ==
  ASSUME NEW S, NEW T, S \subseteq T, T \subseteq Entry, NEW n
  PROVE  SumOver(S, n) <= SumOver(T, n)
<1> DEFINE A == {p \in S \X (1..MaxLine) : p[2] <= n[p[1]]}
           B == {p \in T \X (1..MaxLine) : p[2] <= n[p[1]]}
<1>1. A \subseteq B
  OBVIOUS
<1>2. IsFiniteSet(B)
  <2>1. IsFiniteSet(T) /\ IsFiniteSet(1..MaxLine)
    BY FS_Subset, FS_Interval, CheckoutAssumption DEF CheckoutAssumption
  <2>2. IsFiniteSet(T \X (1..MaxLine))
    BY <2>1, FS_Product
  <2> QED BY <2>2, FS_Subset
<1>3. Cardinality(A) = SumOver(S, n) /\ Cardinality(B) = SumOver(T, n)
  BY DEF SumOver
<1> HIDE DEF A, B
<1>4. Cardinality(A) <= Cardinality(B)
  BY <1>1, <1>2, FS_Subset
<1> QED BY <1>3, <1>4

LEMMA LeavingReservesLess ==
  ASSUME \A x \in Entry : invite'[x] = "live" => invite[x] = "live", NEW b, NEW mine
  PROVE  Reserved(b, mine)' <= Reserved(b, mine)
<1>1. /\ HeldOf(invite', b, mine) \subseteq HeldOf(invite, b, mine)
      /\ HeldOf(invite, b, mine) \subseteq Entry
  BY DEF HeldOf
<1> HIDE DEF HeldOf
<1>2. SumOver(HeldOf(invite', b, mine), Copies) <= SumOver(HeldOf(invite, b, mine), Copies)
  BY <1>1, FewerHoldLess
<1> QED BY <1>2, WithheldOf

(* Where the queue does not move, nothing else is withheld. *)
LEMMA QueueStands ==
  ASSUME UNCHANGED <<invite, charge>>, NEW b, NEW mine
  PROVE  /\ Reserved(b, mine)' = Reserved(b, mine)
         /\ release'[b] = release[b] => Withheld(b, mine)' = Withheld(b, mine)
BY WithheldOf

LEMMA QueueHoldsNoMore ==
  ASSUME CheckoutTypeOK, UNCHANGED <<invite, charge>>, NEW b \in Book, release'[b] = release[b]
  PROVE  \A s : Withheld(b, {s})' <= Withheld(b, {s})
<1> TAKE s
<1> DEFINE x == Withheld(b, {s})
           y == Withheld(b, {s})'
<1>1. y = x /\ x \in Nat
  BY QueueStands, ReservedIsWithheld
<1> HIDE DEF x, y
<1>2. y <= x
  BY <1>1
<1> QED BY <1>2 DEF x, y

(* A release that is closed sets nothing aside. *)
LEMMA ClosingWithholdsLess ==
  ASSUME CheckoutTypeOK, UNCHANGED <<invite, charge>>, NEW b \in Book, release'[b] = 0, NEW mine
  PROVE  Withheld(b, mine)' <= Withheld(b, mine)
<1> DEFINE c == SumOver(ChargedOf(invite, b), charge)
           h == SumOver(HeldOf(invite, b, mine), Copies)
<1>1. c \in Nat /\ h \in Nat
  <2>1. ChargedOf(invite, b) \subseteq Entry /\ HeldOf(invite, b, mine) \subseteq Entry
    BY DEF ChargedOf, HeldOf
  <2> QED BY <2>1, SumIsNat
<1>2. release[b] \in Nat
  BY CheckoutAssumption DEF CheckoutTypeOK, CheckoutAssumption
<1>3. Withheld(b, mine) = h + LeftOf(release[b], c) /\ Withheld(b, mine)' = h + LeftOf(0, c)
  BY WithheldOf
<1> HIDE DEF c, h
<1> QED BY <1>1, <1>2, <1>3 DEF LeftOf

-----------------------------------------------------------------------------
(* A checkout that moves on leaves the holds alone, if what it spends is   *)
(* its own and what it goes on to rely on is so.                           *)
LEMMA HoldsSurviveAJob ==
  ASSUME HInv, CInv', UNCHANGED shopVars, NEW w \in Worker, NEW n,
         job' = [job EXCEPT ![w] = n],
         n.spent # NoEntry =>
           invite[n.spent] = "live" /\ \A v \in Worker : v # w => job[v].spent # n.spent,
         \A b \in Book \ surprised : SawEnough(n, b)
  PROVE  HInv'
<1>0. CInv /\ Invites /\ HoldsAreCovered /\ job \in [Worker -> Jobs]
  BY DEF HInv, CInv, CheckoutTypeOK
<1>1. job'[w] = n /\ \A v \in Worker : v # w => job'[v] = job[v]
  BY <1>0
<1>2. invite' = invite /\ charge' = charge /\ release' = release /\ stock' = stock /\ surprised' = surprised
  BY DEF shopVars
<1>3. Invites'
  BY <1>0, <1>1, <1>2 DEF Invites
<1>4. HoldsAreCovered'
  <2>1. ASSUME NEW b \in Book \ surprised PROVE Reserved(b, {})' <= stock[b]
    BY <1>0, <1>2, QueueStands DEF HoldsAreCovered
  <2> QED BY <1>2, <2>1 DEF HoldsAreCovered
<1>5. ASSUME NEW b \in Book \ surprised, NEW v \in Worker PROVE SawEnough(job[v], b)'
  <2>1. SawEnough(job'[v], b)
    BY <1>1 DEF HInv
  <2>2. \A s : Withheld(b, {s})' = Withheld(b, {s})
    BY <1>2, QueueStands
  <2> QED BY <1>2, <2>1, <2>2 DEF SawEnough, HoldsBook
<1> QED BY <1>2, <1>3, <1>4, <1>5 DEF HInv

(* An end frees its invite and relies on nothing more. *)
LEMMA FinishHolds ==
  ASSUME HInv, CInv', UNCHANGED shopVars, NEW w \in Worker, Finish(w)
  PROVE  HInv'
<1>1. Idle.spent = NoEntry /\ Idle.pc = "idle"
  BY DEF Idle
<1>2. \A b : SawEnough(Idle, b)
  BY <1>1 DEF SawEnough, HoldsBook, Writer
<1> QED BY <1>1, <1>2, HoldsSurviveAJob DEF Finish

LEMMA StartHolds ==
  ASSUME HInv, CInv', NEW w \in Worker, NEW r \in Request, Start(w, r)
  PROVE  HInv'
<1> DEFINE n == [Idle EXCEPT !.pc = "key", !.req = r]
<1>1. n.spent = NoEntry /\ n.pc = "key"
  BY DEF Idle
<1>2. \A b : SawEnough(n, b)
  BY <1>1 DEF SawEnough, HoldsBook, Writer
<1>3. UNCHANGED shopVars /\ job' = [job EXCEPT ![w] = n]
  BY DEF Start
<1> HIDE DEF n
<1> QED BY <1>1, <1>2, <1>3, HoldsSurviveAJob

(* A statement that locks no further book. *)
LEMMA GoHolds ==
  ASSUME HInv, CInv', UNCHANGED shopVars, NEW w \in Worker, NEW pc, Go(w, pc), pc # "wait",
         \/ job[w].pc \in {"key", "spend", "price"}
         \/ job[w].pc \in Writer
  PROVE  HInv'
<1> DEFINE n == [job[w] EXCEPT !.pc = pc]
<1>0. CInv /\ job[w] \in Jobs /\ job \in [Worker -> Jobs]
  BY DEF HInv, CInv, CheckoutTypeOK
<1>1. n.spent = job[w].spent /\ n.pc = pc /\ n.req = job[w].req /\ n.line = job[w].line
  BY <1>0 DEF Jobs
<1>2. job' = [job EXCEPT ![w] = n]
  BY <1>0 DEF Go
<1> HIDE DEF n
<1>3. ASSUME NEW b, HoldsBook(n, b) PROVE HoldsBook(job[w], b)
  <2>1. CASE job[w].pc \in Writer
    BY <1>1, <1>3, <2>1 DEF HoldsBook
  <2>2. CASE job[w].pc \in {"key", "spend", "price"}
    <3>1. job[w].line = 1 /\ job[w].req \in Request
      BY <1>0, <2>2, JobFacts DEF Sane, OnItsLine
    <3>2. DOMAIN job[w].req.lines = 1..Len(job[w].req.lines) /\ Len(job[w].req.lines) \in Nat
      BY <3>1, RequestTypes
    <3> QED BY <1>1, <1>3, <3>1, <3>2 DEF HoldsBook
  <2> QED BY <2>1, <2>2
<1>4. \A b \in Book \ surprised : SawEnough(n, b)
  BY <1>1, <1>3 DEF HInv, SawEnough
<1>5. n.spent # NoEntry =>
        invite[n.spent] = "live" /\ \A v \in Worker : v # w => job[v].spent # n.spent
  BY <1>1 DEF HInv, Invites
<1> QED BY <1>2, <1>4, <1>5, HoldsSurviveAJob

(* An invite is spent by the one checkout that got its row, while it is    *)
(* live.                                                                   *)
LEMMA SpendHolds ==
  ASSUME HInv, CInv', NEW w \in Worker, SpendInvite(w)
  PROVE  HInv'
<1> DEFINE r == job[w].req
           e == IF r.link \/ Recognised(r) THEN r.entry ELSE NoEntry
           n == [job[w] EXCEPT !.pc = "price", !.spent = e]
<1>0. /\ CInv /\ job[w] \in Jobs /\ job \in [Worker -> Jobs] /\ UNCHANGED shopVars
      /\ job[w].pc = "spend" /\ ~Waits(w)
  BY DEF HInv, CInv, CheckoutTypeOK, SpendInvite
<1>1. CASE Finish(w)
  BY <1>0, <1>1, FinishHolds
<1>2. CASE ~Finish(w)
  <2>1. ~(r.link /\ ~LinkAccepted(r)) /\ job' = [job EXCEPT ![w].pc = "price", ![w].spent = e]
    BY <1>2 DEF SpendInvite
  <2>2. job' = [job EXCEPT ![w] = n]
    BY <1>0, <2>1
  <2>3. n.spent = e /\ n.pc = "price"
    BY <1>0 DEF Jobs
  <2>4. \A b : SawEnough(n, b)
    BY <2>3 DEF SawEnough, HoldsBook, Writer
  <2>5. e # NoEntry => invite[e] = "live" /\ e = r.entry
    BY <2>1 DEF LinkAccepted, Recognised
  <2>6. e # NoEntry => \A v \in Worker : v # w => job[v].spent # e
    BY <1>0, <2>5 DEF Waits, WaitsFor, EntryLocked
  <2> HIDE DEF n, e
  <2> QED BY <1>0, <2>2, <2>3, <2>4, <2>5, <2>6, HoldsSurviveAJob
<1> QED BY <1>1, <1>2

(* What a decrement's subqueries answer is so when they answer. *)
LEMMA SendHolds ==
  ASSUME HInv, CInv', NEW w \in Worker, SendDecrement(w)
  PROVE  HInv'
<1> DEFINE k == Withheld(Line(w).book, {job[w].spent})
           n == [job[w] EXCEPT !.pc = "wait", !.seen = k]
<1>0. /\ CInv /\ job[w] \in Jobs /\ job \in [Worker -> Jobs] /\ UNCHANGED shopVars
      /\ job[w].pc = "line" /\ job[w].req \in Request /\ job[w].line \in DOMAIN job[w].req.lines
  BY JobFacts DEF HInv, CInv, CheckoutTypeOK, SendDecrement, Sane, OnItsLine
<1>1. /\ n.spent = job[w].spent /\ n.pc = "wait" /\ n.req = job[w].req /\ n.line = job[w].line
      /\ n.seen = k
  BY <1>0 DEF Jobs
<1>2. job' = [job EXCEPT ![w] = n]
  BY <1>0 DEF SendDecrement
<1>3. k \in Nat /\ Line(w) = job[w].req.lines[job[w].line]
  <2>1. Line(w) = job[w].req.lines[job[w].line]
    BY DEF Line, Lines
  <2>2. Line(w).book \in Book
    BY <1>0, <2>1, RequestTypes
  <2> QED BY <1>0, <2>1, <2>2, WithheldIsNat DEF CInv
<1> HIDE DEF n
<1>4. \A b \in Book \ surprised : SawEnough(n, b)
  <2> TAKE b \in Book \ surprised
  <2>1. HoldsBook(n, b) => HoldsBook(job[w], b)
    BY <1>0, <1>1 DEF HoldsBook, Writer
  <2>2. n.req.lines[n.line].book = b => Withheld(b, {n.spent}) <= n.seen
    BY <1>1, <1>3
  <2> QED BY <1>1, <2>1, <2>2 DEF HInv, SawEnough
<1>5. n.spent # NoEntry =>
        invite[n.spent] = "live" /\ \A v \in Worker : v # w => job[v].spent # n.spent
  BY <1>1 DEF HInv, Invites
<1> QED BY <1>0, <1>2, <1>4, <1>5, HoldsSurviveAJob

(* The guard of the decrement makes sure of its copies for good. *)
LEMMA DecrementHolds ==
  ASSUME HInv, CInv', NEW w \in Worker, Decrement(w)
  PROVE  HInv'
<1> DEFINE n == NextLine(w)
           r == job[w].req
           l == job[w].line
<1>0. /\ CInv /\ job[w] \in Jobs /\ job \in [Worker -> Jobs] /\ UNCHANGED shopVars
      /\ job[w].pc = "wait" /\ r \in Request /\ l \in DOMAIN r.lines
      /\ Line(w) = r.lines[l] /\ Lines(w) = r.lines
  BY JobFacts DEF HInv, CInv, CheckoutTypeOK, Decrement, Sane, OnItsLine, Line, Lines
<1>1. CASE Finish(w)
  BY <1>0, <1>1, FinishHolds
<1>2. CASE ~Finish(w)
  <2>1. stock[Line(w).book] - job[w].seen >= Line(w).copies /\ job' = [job EXCEPT ![w] = n]
    BY <1>2 DEF Decrement
  <2>2. /\ n.spent = job[w].spent /\ n.pc \in {"line", "redeem"} /\ n.req = r /\ n.line = l + 1
    BY <1>0 DEF NextLine, Jobs
  <2>3. DOMAIN r.lines = 1..Len(r.lines) /\ r.lines[l].book \in Book /\ r.lines[l].copies \in Nat
    BY <1>0, RequestTypes
  <2> HIDE DEF n
  <2>4. ASSUME NEW b \in Book \ surprised PROVE SawEnough(n, b)
    <3>1. SawEnough(job[w], b)
      BY <2>4 DEF HInv
    <3>2. CASE r.lines[l].book = b
      <4>1. Withheld(b, {job[w].spent}) <= job[w].seen
        BY <1>0, <3>1, <3>2 DEF SawEnough
      <4>2. CopiesOf(r, b) = r.lines[l].copies
        BY <1>0, <3>2, CopiesOfLine
      <4>3. Withheld(b, {job[w].spent}) \in Nat /\ job[w].seen \in Nat /\ stock[b] \in Nat
        BY <1>0, WithheldIsNat DEF CInv, CheckoutTypeOK, Jobs
      <4>4. Withheld(b, {job[w].spent}) + CopiesOf(r, b) <= stock[b]
        BY <1>0, <2>1, <2>3, <3>2, <4>1, <4>2, <4>3
      <4> QED BY <2>2, <4>4 DEF SawEnough
    <3>3. CASE r.lines[l].book # b
      <4>1. HoldsBook(n, b) => HoldsBook(job[w], b)
        <5> HAVE HoldsBook(n, b)
        <5>1. PICK i \in DOMAIN r.lines : i < l + 1 /\ r.lines[i].book = b
          BY <2>2 DEF HoldsBook
        <5>2. i < l
          BY <1>0, <2>3, <3>3, <5>1
        <5> QED BY <1>0, <5>1, <5>2 DEF HoldsBook, Writer
      <4> QED BY <2>2, <3>1, <4>1 DEF SawEnough
    <3> QED BY <3>2, <3>3
  <2>5. n.spent # NoEntry =>
          invite[n.spent] = "live" /\ \A v \in Worker : v # w => job[v].spent # n.spent
    BY <2>2 DEF HInv, Invites
  <2> QED BY <1>0, <2>1, <2>4, <2>5, HoldsSurviveAJob
<1> QED BY <1>1, <1>2

-----------------------------------------------------------------------------
(* The queue's own steps, and the commit: what is withheld of a book from  *)
(* anyone does not grow, and the shelf shrinks by no more than was made    *)
(* sure of.                                                                *)
LEMMA HoldsSurviveTheQueue ==
  ASSUME HInv, CInv', UNCHANGED <<job, surprised>>, Invites',
         \A b \in Book : stock'[b] \in Nat /\ stock'[b] >= stock[b],
         \A b \in Book \ surprised : Reserved(b, {})' <= stock'[b],
         \A b \in Book \ surprised, w \in Worker :
           Withheld(b, {job[w].spent})' <= Withheld(b, {job[w].spent})
  PROVE  HInv'
<1>0. CInv /\ CheckoutTypeOK /\ CheckoutTypeOK'
  BY DEF HInv, CInv
<1>1. HoldsAreCovered'
  BY DEF HoldsAreCovered
<1>2. ASSUME NEW b \in Book \ surprised, NEW w \in Worker PROVE SawEnough(job[w], b)'
  <2> DEFINE j == job[w]
             x == Withheld(b, {job[w].spent})
             y == Withheld(b, {job[w].spent})'
  <2>1. SawEnough(j, b) /\ y <= x /\ job'[w] = j
    BY DEF HInv
  <2>2. x \in Nat /\ j \in Jobs
    BY <1>0, ReservedIsWithheld DEF CheckoutTypeOK
  <2>3. y \in Nat
    <3>1. HeldOf(invite', b, {j.spent}) \subseteq Entry /\ ChargedOf(invite', b) \subseteq Entry
      BY DEF HeldOf, ChargedOf
    <3>2. /\ SumOver(HeldOf(invite', b, {j.spent}), Copies) \in Nat
          /\ SumOver(ChargedOf(invite', b), charge') \in Nat
      BY <3>1, SumIsNat
    <3>3. release'[b] \in Nat
      BY <1>0, CheckoutAssumption DEF CheckoutTypeOK, CheckoutAssumption
    <3>4. y = SumOver(HeldOf(invite', b, {j.spent}), Copies)
               + LeftOf(release'[b], SumOver(ChargedOf(invite', b), charge'))
      BY <2>1, WithheldOf
    <3> QED BY <3>2, <3>3, <3>4 DEF LeftOf
  <2>4. j.pc = "wait" /\ j.req.lines[j.line].book = b => y <= j.seen
    BY <2>1, <2>2, <2>3 DEF SawEnough, Jobs
  <2>5. HoldsBook(j, b) => y + CopiesOf(j.req, b) <= stock'[b]
    <3> HAVE HoldsBook(j, b)
    <3>1. j.req \in Request
      BY <1>0, JobFacts DEF HoldsBook, Writer
    <3>2. CopiesOf(j.req, b) \in Nat
      BY <3>1, CopiesOfType
    <3>3. stock[b] \in Nat
      BY <1>0 DEF CheckoutTypeOK
    <3>4. x + CopiesOf(j.req, b) <= stock[b]
      BY <2>1 DEF SawEnough
    <3> HIDE DEF x, y
    <3> QED BY <2>1, <2>2, <2>3, <3>2, <3>3, <3>4
  <2> QED BY <2>1, <2>4, <2>5 DEF SawEnough, HoldsBook, CopiesOf
<1> QED BY <1>1, <1>2 DEF HInv

LEMMA RestockHolds ==
  ASSUME HInv, CInv', NEW c \in Book, Restock(c)
  PROVE  HInv'
<1>0. /\ CInv /\ CheckoutTypeOK /\ Invites /\ HoldsAreCovered
      /\ UNCHANGED <<job, surprised, invite, charge, release>>
  BY DEF HInv, CInv, Restock
<1>1. \A b \in Book : stock'[b] \in Nat /\ stock[b] \in Nat /\ stock'[b] >= stock[b]
  BY <1>0 DEF Restock, CheckoutTypeOK
<1>2. Invites'
  BY <1>0 DEF Invites
<1>3. ASSUME NEW b \in Book \ surprised PROVE Reserved(b, {})' <= stock'[b]
  <2>1. Reserved(b, {})' = Reserved(b, {}) /\ Reserved(b, {}) <= stock[b] /\ Reserved(b, {}) \in Nat
    BY <1>0, QueueStands, ReservedIsWithheld DEF HoldsAreCovered
  <2> QED BY <1>1, <2>1
<1>4. ASSUME NEW b \in Book \ surprised, NEW w \in Worker
      PROVE  Withheld(b, {job[w].spent})' <= Withheld(b, {job[w].spent})
  <2>1. \A s : Withheld(b, {s})' <= Withheld(b, {s})
    BY <1>0, QueueHoldsNoMore
  <2>2. job'[w] = job[w]
    BY <1>0
  <2> QED BY <2>1, <2>2
<1> QED BY <1>0, <1>1, <1>2, <1>3, <1>4, HoldsSurviveTheQueue

LEMMA CloseReleaseHolds ==
  ASSUME HInv, CInv', NEW c \in Book, CloseRelease(c)
  PROVE  HInv'
<1>0. /\ CInv /\ CheckoutTypeOK /\ Invites /\ HoldsAreCovered
      /\ UNCHANGED <<job, surprised, invite, charge, stock>>
  BY DEF HInv, CInv, CloseRelease
<1>1. \A b \in Book : stock'[b] \in Nat /\ stock'[b] >= stock[b]
  BY <1>0 DEF CheckoutTypeOK
<1>2. Invites'
  BY <1>0 DEF Invites
<1>3. \A b \in Book \ surprised : Reserved(b, {})' <= stock'[b]
  BY <1>0, QueueStands DEF HoldsAreCovered
<1>4. ASSUME NEW b \in Book \ surprised, NEW w \in Worker
      PROVE  Withheld(b, {job[w].spent})' <= Withheld(b, {job[w].spent})
  <2>1. \A s : Withheld(b, {s})' <= Withheld(b, {s})
    <3>1. CASE b = c
      <4>1. release'[b] = 0
        BY <1>0, <3>1 DEF CloseRelease, CheckoutTypeOK
      <4> QED BY <1>0, <4>1, ClosingWithholdsLess
    <3>2. CASE b # c
      <4>1. release'[b] = release[b]
        BY <1>0, <3>2 DEF CloseRelease, CheckoutTypeOK
      <4> QED BY <1>0, <4>1, QueueHoldsNoMore
    <3> QED BY <3>1, <3>2
  <2>2. job'[w] = job[w]
    BY <1>0
  <2> QED BY <2>1, <2>2
<1> QED BY <1>0, <1>1, <1>2, <1>3, <1>4, HoldsSurviveTheQueue

(* A new release is one no checkout under way has seen: either nobody is   *)
(* taking copies of its book, or it is a surprise.                         *)
LEMMA OpenReleaseHolds ==
  ASSUME HInv, CInv', NEW c \in Book, NEW n \in 1..MaxStock, OpenRelease(c, n)
  PROVE  HInv'
<1>0. /\ CInv /\ CheckoutTypeOK /\ Invites /\ HoldsAreCovered
      /\ UNCHANGED <<job, invite, charge, stock>>
      /\ surprised' = IF Taking(c) THEN surprised \cup {c} ELSE surprised
  BY DEF HInv, CInv, OpenRelease
<1>1. Invites'
  BY <1>0 DEF Invites
<1>2. HoldsAreCovered'
  <2>1. \A b \in Book \ surprised : Reserved(b, {})' <= stock'[b]
    BY <1>0, QueueStands DEF HoldsAreCovered
  <2> QED BY <1>0, <2>1 DEF HoldsAreCovered
<1>3. ASSUME NEW b \in Book, b \notin surprised', NEW w \in Worker PROVE SawEnough(job[w], b)'
  <2>1. SawEnough(job[w], b) /\ job'[w] = job[w]
    BY <1>0, <1>3 DEF HInv
  <2>2. CASE b # c
    <3>1. release'[b] = release[b]
      BY <1>0, <2>2 DEF OpenRelease, CheckoutTypeOK
    <3>2. \A s : Withheld(b, {s})' = Withheld(b, {s})
      BY <1>0, <3>1, QueueStands
    <3> QED BY <1>0, <2>1, <3>2 DEF SawEnough, HoldsBook, CopiesOf
  <2>3. CASE b = c
    <3>1. ~Taking(b)
      BY <1>0, <1>3, <2>3
    <3>2. ~HoldsBook(job[w], b) /\ ~(job[w].pc = "wait" /\ job[w].req.lines[job[w].line].book = b)
      BY <3>1 DEF Taking, BookLocked, HoldsBook, Writing, Writer, Line, Lines
    <3> QED BY <1>0, <3>2 DEF SawEnough, HoldsBook
  <2> QED BY <2>2, <2>3
<1> QED BY <1>1, <1>2, <1>3 DEF HInv

(* An invite asks both the shelf and the release for its copies. *)
LEMMA InviteHolds ==
  ASSUME HInv, CInv', NEW e \in Entry, Invite(e)
  PROVE  HInv'
<1>0. /\ CInv /\ CheckoutTypeOK /\ CheckoutTypeOK' /\ Invites /\ HoldsAreCovered
      /\ UNCHANGED <<job, surprised, stock, release>>
  BY DEF HInv, CInv, Invite
<1>1. \A b \in Book : stock[b] \in Nat /\ stock'[b] = stock[b]
  BY <1>0 DEF CheckoutTypeOK
<1>2. /\ invite[e] \in {"none", "lapsed"} /\ invite'[e] = "live" /\ charge'[e] = Wants[e].copies
      /\ \A x \in Entry : x # e => invite'[x] = invite[x] /\ charge'[x] = charge[x]
      /\ Wants[e].copies <= stock[Wants[e].book] - Reserved(Wants[e].book, {})
  BY <1>0 DEF Invite, CheckoutTypeOK
<1>3. \A w \in Worker : job[w].spent # e /\ (job[w].spent # NoEntry => job[w].spent \in Entry)
  BY <1>0, <1>2, JobFacts, CheckoutAssumption DEF Invites, CheckoutAssumption
<1>4. Invites'
  BY <1>0, <1>2, <1>3 DEF Invites
<1>5. ASSUME NEW b \in Book \ surprised PROVE Reserved(b, {})' <= stock'[b]
  <2> DEFINE H == HeldOf(invite, b, {})
             H2 == HeldOf(invite', b, {})
  <2>1. H \in SUBSET Entry /\ H2 \in SUBSET Entry /\ e \notin H /\ (e \in H2 => Wants[e].book = b)
    BY <1>2 DEF HeldOf
  <2>2. H2 \ {e} = H \ {e} /\ H \ {e} = H
    BY <1>2 DEF HeldOf
  <2> HIDE DEF H, H2
  <2>3. /\ SumOver(H, Copies) \in Nat
        /\ SumOver(H2, Copies) = SumOver(H, Copies) + (IF e \in H2 THEN Capped(Copies[e]) ELSE 0)
    <3>1. SumOver(H, Copies) \in Nat
      BY <2>1, SumIsNat
    <3>2. SumOver(H2, Copies) = SumOver(H2 \ {e}, Copies) + (IF e \in H2 THEN Capped(Copies[e]) ELSE 0)
      BY <2>1, CopiesType, SumSplits
    <3> QED BY <2>2, <3>1, <3>2
  <2>4. Capped(Copies[e]) = Wants[e].copies /\ Wants[e].copies \in Nat
    BY CopiesType DEF Capped
  <2>5. SumOver(H, Copies) = Reserved(b, {}) /\ SumOver(H2, Copies) = Reserved(b, {})'
    BY WithheldOf DEF H, H2
  <2>6. Reserved(b, {}) <= stock[b]
    BY <1>0 DEF HoldsAreCovered
  <2>7. CASE e \in H2
    <3>1. Wants[e].copies <= stock[b] - Reserved(b, {})
      BY <1>2, <2>1, <2>7
    <3> QED BY <1>1, <2>3, <2>4, <2>5, <2>7, <3>1
  <2>8. CASE e \notin H2
    BY <1>1, <2>3, <2>5, <2>6, <2>8
  <2> QED BY <2>7, <2>8
<1>6. ASSUME NEW b \in Book \ surprised, NEW w \in Worker
      PROVE  Withheld(b, {job[w].spent})' <= Withheld(b, {job[w].spent})
  <2>1. \A s : s # e => Withheld(b, {s})' <= Withheld(b, {s})
    BY <1>0, InvitingWithholdsNoMore
  <2>2. job'[w] = job[w] /\ job[w].spent # e
    BY <1>0, <1>3
  <2> QED BY <2>1, <2>2
<1>7. \A b \in Book : stock'[b] \in Nat /\ stock'[b] >= stock[b]
  BY <1>1
<1> QED BY <1>0, <1>4, <1>5, <1>6, <1>7, HoldsSurviveTheQueue

(* A window that closes gives its copies back to the release or to all. *)
LEMMA LapseHolds ==
  ASSUME HInv, CInv', NEW e \in Entry, Lapse(e)
  PROVE  HInv'
<1>0. /\ CInv /\ CheckoutTypeOK /\ CheckoutTypeOK' /\ Invites /\ HoldsAreCovered
      /\ UNCHANGED <<job, surprised, stock, release, charge>>
  BY DEF HInv, CInv, Lapse
<1>1. \A b \in Book : stock[b] \in Nat /\ stock'[b] = stock[b] /\ stock'[b] >= stock[b]
  BY <1>0 DEF CheckoutTypeOK
<1>2. /\ invite[e] = "live" /\ charge[e] = Wants[e].copies /\ invite'[e] = "lapsed"
      /\ \A x \in Entry : x # e => invite'[x] = invite[x] /\ charge'[x] = charge[x]
      /\ \A x \in Entry : invite'[x] = "live" => invite[x] = "live"
  BY <1>0 DEF Lapse, CheckoutTypeOK, Invites
<1>3. \A w \in Worker : job[w].spent # e /\ (job[w].spent # NoEntry => job[w].spent \in Entry)
  <2>1. e # NoEntry
    BY CheckoutAssumption DEF CheckoutAssumption
  <2> QED BY <1>0, <2>1, JobFacts DEF Lapse, EntryLocked
<1>4. Invites'
  BY <1>0, <1>2, <1>3 DEF Invites
<1>5. ASSUME NEW b \in Book \ surprised PROVE Reserved(b, {})' <= stock'[b]
  <2>1. Reserved(b, {})' <= Reserved(b, {}) /\ Reserved(b, {}) <= stock[b]
    BY <1>0, <1>2, LeavingReservesLess DEF HoldsAreCovered
  <2>2. Reserved(b, {}) \in Nat /\ Reserved(b, {})' \in Nat
    <3>1. HeldOf(invite', b, {}) \subseteq Entry
      BY DEF HeldOf
    <3>2. SumOver(HeldOf(invite', b, {}), Copies) \in Nat
      BY <3>1, SumIsNat
    <3> QED BY <1>0, <3>2, WithheldOf, ReservedIsWithheld
  <2> QED BY <1>1, <2>1, <2>2
<1>6. ASSUME NEW b \in Book \ surprised, NEW w \in Worker
      PROVE  Withheld(b, {job[w].spent})' <= Withheld(b, {job[w].spent})
  <2>1. \A s : s # e => Withheld(b, {s})' <= Withheld(b, {s})
    BY <1>0, <1>2, LeavingWithholdsLess
  <2>2. job'[w] = job[w] /\ job[w].spent # e
    BY <1>0, <1>3
  <2> QED BY <2>1, <2>2
<1> QED BY <1>0, <1>1, <1>4, <1>5, <1>6, HoldsSurviveTheQueue

(* The commit: its copies were made sure of against everyone's holds but   *)
(* the one it spends.                                                      *)
LEMMA CommitHolds ==
  ASSUME HInv, CInv', NEW w \in Worker, Commit(w)
  PROVE  HInv'
<1> DEFINE r == job[w].req
           e == job[w].spent
<1>0. /\ CInv /\ CheckoutTypeOK /\ CheckoutTypeOK' /\ Invites /\ HoldsAreCovered
      /\ job[w].pc = "commit" /\ r \in Request /\ e \in Entry \cup {NoEntry}
      /\ job' = [job EXCEPT ![w] = Idle] /\ UNCHANGED <<release, surprised>>
      /\ stock' = [b \in Book |-> stock[b] - CopiesOf(r, b)]
  BY JobFacts DEF HInv, CInv, Commit, Finish
<1>1. /\ job'[w] = Idle /\ \A v \in Worker : v # w => job'[v] = job[v]
      /\ Idle.spent = NoEntry /\ Idle.pc = "idle"
  BY <1>0 DEF CheckoutTypeOK, Idle
<1>2. \A b \in Book : /\ CopiesOf(r, b) \in Nat /\ stock[b] \in Nat
                      /\ stock'[b] = stock[b] - CopiesOf(r, b) /\ stock'[b] \in Nat
                      /\ CopiesOf(r, b) > 0 => HoldsBook(job[w], b)
  BY <1>0, CommitFits DEF CheckoutTypeOK
<1>3. ASSUME e \in Entry
      PROVE  /\ invite[e] = "live" /\ charge[e] = Wants[e].copies /\ invite'[e] = "spent"
             /\ \A x \in Entry : x # e => invite'[x] = invite[x] /\ charge'[x] = charge[x]
             /\ \A v \in Worker : v # w => job[v].spent # e
  <2>1. e # NoEntry
    BY <1>3, CheckoutAssumption DEF CheckoutAssumption
  <2>2. /\ invite' = [invite EXCEPT ![e] = "spent"]
        /\ charge' = [charge EXCEPT ![e] = CopiesOf(r, Wants[e].book)]
    BY <2>1 DEF Commit
  <2> HIDE DEF r
  <2>3. invite[e] = "live" /\ charge[e] = Wants[e].copies
    BY <1>0, <1>3, <2>1 DEF Invites
  <2>4. invite'[e] = "spent" /\ \A x \in Entry : x # e => invite'[x] = invite[x] /\ charge'[x] = charge[x]
    BY <1>0, <1>3, <2>2 DEF CheckoutTypeOK
  <2>5. \A v \in Worker : v # w => job[v].spent # e
    BY <1>0, <2>1 DEF Invites
  <2> QED BY <2>3, <2>4, <2>5
<1>4. e = NoEntry => UNCHANGED <<invite, charge>>
  BY DEF Commit
<1>5. Invites'
  <2>1. CASE e = NoEntry
    BY <1>0, <1>1, <1>4, <2>1 DEF Invites
  <2>2. CASE e \in Entry
    <3>1. ASSUME NEW x \in Entry, invite'[x] = "live" PROVE charge'[x] = Wants[x].copies
      BY <1>0, <1>3, <2>2, <3>1 DEF Invites
    <3>2. ASSUME NEW v \in Worker, job'[v].spent # NoEntry PROVE invite'[job'[v].spent] = "live"
      <4>1. v # w /\ job'[v] = job[v]
        BY <1>1, <3>2
      <4>2. job[v].spent \in Entry /\ job[v].spent # e /\ invite[job[v].spent] = "live"
        BY <1>0, <1>3, <2>2, <3>2, <4>1, JobFacts DEF Invites
      <4> QED BY <1>3, <2>2, <4>1, <4>2
    <3>3. ASSUME NEW u \in Worker, NEW v \in Worker, u # v, job'[u].spent # NoEntry
          PROVE  job'[u].spent # job'[v].spent
      BY <1>0, <1>1, <3>3 DEF Invites
    <3> QED BY <3>1, <3>2, <3>3 DEF Invites
  <2> QED BY <1>0, <2>1, <2>2
<1>6. ASSUME NEW b \in Book PROVE Reserved(b, {})' = Reserved(b, {e})
  <2>1. CASE e = NoEntry
    <3>1. HeldOf(invite, b, {e}) = HeldOf(invite, b, {})
      BY <2>1, CheckoutAssumption DEF HeldOf, CheckoutAssumption
    <3>2. Reserved(b, {})' = Reserved(b, {}) /\ Reserved(b, {}) = Reserved(b, {e})
      BY <1>4, <2>1, <3>1, QueueStands, WithheldOf
    <3> QED BY <3>2
  <2>2. CASE e \in Entry
    BY <1>3, <2>2, SpentIsNotReserved
  <2> QED BY <1>0, <2>1, <2>2
<1>7. HoldsAreCovered'
  <2>1. ASSUME NEW b \in Book \ surprised PROVE Reserved(b, {})' <= stock'[b]
    <3> DEFINE c == CopiesOf(r, b)
    <3>0. /\ c \in Nat /\ stock[b] \in Nat /\ stock'[b] = stock[b] - c /\ stock'[b] \in Nat
          /\ c > 0 => HoldsBook(job[w], b)
      BY <1>2
    <3> HIDE DEF c
    <3>1. CASE c > 0
      <4>0. SawEnough(job[w], b) /\ HoldsBook(job[w], b)
        BY <3>0, <3>1 DEF HInv
      <4>1. Withheld(b, {e}) + c <= stock[b]
        BY <4>0 DEF SawEnough, c
      <4>2. /\ Reserved(b, {e}) <= Withheld(b, {e}) /\ Reserved(b, {e}) \in Nat
            /\ Withheld(b, {e}) \in Nat
        BY <1>0, ReservedIsWithheld
      <4>3. Reserved(b, {})' = Reserved(b, {e})
        BY <1>6
      <4> HIDE DEF r, e
      <4> QED BY <3>0, <4>1, <4>2, <4>3
    <3>2. CASE ~(c > 0)
      <4>1. stock'[b] = stock[b]
        BY <3>0, <3>2
      <4>2. \A x \in Entry : invite'[x] = "live" => invite[x] = "live"
        BY <1>0, <1>3, <1>4
      <4>3. Reserved(b, {})' <= Reserved(b, {}) /\ Reserved(b, {}) <= stock[b]
        BY <1>0, <4>2, LeavingReservesLess DEF HoldsAreCovered
      <4>4. Reserved(b, {}) \in Nat /\ Reserved(b, {})' \in Nat
        BY <1>0, <1>6, ReservedIsWithheld
      <4> HIDE DEF r, e
      <4> QED BY <3>0, <4>1, <4>3, <4>4
    <3> QED BY <3>1, <3>2
  <2> QED BY <1>0, <2>1 DEF HoldsAreCovered
<1>8. ASSUME NEW b \in Book \ surprised, NEW v \in Worker PROVE SawEnough(job[v], b)'
  <2>1. CASE v = w
    BY <1>1, <2>1 DEF SawEnough, HoldsBook, Writer
  <2>2. CASE v # w
    <3> DEFINE j == job[v]
               x == Withheld(b, {job[v].spent})
               y == Withheld(b, {job[v].spent})'
    <3>1. SawEnough(j, b) /\ job'[v] = j /\ j \in Jobs
      BY <1>0, <1>1, <2>2 DEF HInv, CheckoutTypeOK
    <3>2. \A s : s # e => Withheld(b, {s})' <= Withheld(b, {s})
      <4>1. CASE e = NoEntry
        BY <1>0, <1>4, <4>1, QueueHoldsNoMore
      <4>2. CASE e \in Entry
        BY <1>0, <1>3, <4>2, LeavingWithholdsLess
      <4> QED BY <1>0, <4>1, <4>2
    <3>3. y <= x
      <4>1. CASE e = NoEntry
        <5>1. \A s : Withheld(b, {s})' <= Withheld(b, {s})
          BY <1>0, <1>4, <4>1, QueueHoldsNoMore
        <5> QED BY <3>1, <5>1
      <4>2. CASE e \in Entry
        <5>1. j.spent # e
          BY <1>3, <2>2, <4>2
        <5> QED BY <3>1, <3>2, <5>1
      <4> QED BY <1>0, <4>1, <4>2
    <3>4. x \in Nat /\ y \in Nat
      <4>1. x \in Nat
        BY <1>0, ReservedIsWithheld
      <4>2. HeldOf(invite', b, {j.spent}) \subseteq Entry /\ ChargedOf(invite', b) \subseteq Entry
        BY DEF HeldOf, ChargedOf
      <4>3. /\ SumOver(HeldOf(invite', b, {j.spent}), Copies) \in Nat
            /\ SumOver(ChargedOf(invite', b), charge') \in Nat
        BY <4>2, SumIsNat
      <4>4. release'[b] \in Nat
        BY <1>0, CheckoutAssumption DEF CheckoutTypeOK, CheckoutAssumption
      <4>5. y = SumOver(HeldOf(invite', b, {j.spent}), Copies)
                 + LeftOf(release'[b], SumOver(ChargedOf(invite', b), charge'))
        BY <3>1, WithheldOf
      <4> QED BY <4>1, <4>3, <4>4, <4>5 DEF LeftOf
    <3>5. j.pc = "wait" /\ j.req.lines[j.line].book = b => y <= j.seen
      BY <3>1, <3>3, <3>4 DEF SawEnough, Jobs
    <3>6. HoldsBook(j, b) => y + CopiesOf(j.req, b) <= stock'[b]
      <4> HAVE HoldsBook(j, b)
      <4>1. ~HoldsBook(job[w], b)
        BY <1>0, <2>2 DEF CInv, Apart
      <4>2. stock'[b] = stock[b] /\ stock[b] \in Nat
        <5> DEFINE c == CopiesOf(r, b)
        <5>1. /\ c \in Nat /\ stock[b] \in Nat /\ stock'[b] = stock[b] - c
              /\ ~(c > 0)
          BY <1>2, <4>1
        <5> HIDE DEF c
        <5> QED BY <5>1
      <4>3. j.req \in Request
        BY <1>0, JobFacts DEF HoldsBook, Writer
      <4>4. CopiesOf(j.req, b) \in Nat
        BY <4>3, CopiesOfType
      <4>5. x + CopiesOf(j.req, b) <= stock[b]
        BY <3>1 DEF SawEnough
      <4> HIDE DEF x, y
      <4> QED BY <3>3, <3>4, <4>2, <4>4, <4>5
    <3> QED BY <3>1, <3>5, <3>6 DEF SawEnough, HoldsBook, CopiesOf
  <2> QED BY <2>1, <2>2
<1> QED BY <1>0, <1>5, <1>7, <1>8 DEF HInv

-----------------------------------------------------------------------------
LEMMA HoldsInitially == CheckoutInit => HInv
<1> SUFFICES ASSUME CheckoutInit PROVE HInv
  OBVIOUS
<1>0. CInv /\ CheckoutTypeOK
  BY InitEstablishes DEF CInv
<1>1. \A w \in Worker : job[w] = Idle
  BY DEF CheckoutInit
<1>2. \A e \in Entry : invite[e] = "none"
  BY DEF CheckoutInit
<1>3. Invites
  BY <1>1, <1>2 DEF Invites, Idle
<1>4. HoldsAreCovered
  <2>1. ASSUME NEW b \in Book PROVE Reserved(b, {}) <= stock[b]
    <3>1. Held(b, {}) = {}
      BY <1>2 DEF Held
    <3>2. \A n : SumOver({}, n) = 0
      <4>1. \A n : {p \in {} \X (1..MaxLine) : p[2] <= n[p[1]]} = {}
        OBVIOUS
      <4> QED BY <4>1, FS_EmptySet DEF SumOver
    <3>3. stock[b] \in Nat
      BY <1>0 DEF CheckoutTypeOK
    <3> QED BY <3>1, <3>2, <3>3 DEF Reserved
  <2> QED BY <2>1 DEF HoldsAreCovered
<1>5. \A b, w : w \in Worker => SawEnough(job[w], b)
  BY <1>1 DEF SawEnough, HoldsBook, Writer, Idle
<1> QED BY <1>0, <1>3, <1>4, <1>5 DEF HInv

LEMMA HoldsNext == HInv /\ [CheckoutNext]_checkoutVars => HInv'
<1> SUFFICES ASSUME HInv, [CheckoutNext]_checkoutVars PROVE HInv'
  OBVIOUS
<1>0. CInv'
  BY NextPreserves DEF HInv
<1>1. ASSUME NEW w \in Worker, NEW r \in Request, Start(w, r) PROVE HInv'
  BY <1>0, <1>1, StartHolds
<1>2. ASSUME NEW w \in Worker, Proceed(w) PROVE HInv'
  <2>1. ASSUME FindByIdempotencyKey(w) PROVE HInv'
    BY <1>0, <2>1, FinishHolds, GoHolds DEF FindByIdempotencyKey
  <2>2. ASSUME Reprice(w) PROVE HInv'
    BY <1>0, <2>2, FinishHolds, GoHolds DEF Reprice
  <2>3. ASSUME Redeem(w) PROVE HInv'
    BY <1>0, <2>3, FinishHolds, GoHolds DEF Redeem, Writer
  <2>4. ASSUME InsertOrder(w) PROVE HInv'
    BY <1>0, <2>4, FinishHolds, GoHolds DEF InsertOrder, Writer
  <2> QED BY <1>0, <1>2, <2>1, <2>2, <2>3, <2>4, SpendHolds, SendHolds, DecrementHolds, CommitHolds
          DEF Proceed
<1>3. ASSUME NEW w \in Worker, DeadlockVictim(w) PROVE HInv'
  BY <1>0, <1>3, FinishHolds DEF DeadlockVictim
<1>4. CASE Elsewhere
  BY <1>0, <1>4, RestockHolds, CloseReleaseHolds, OpenReleaseHolds, InviteHolds, LapseHolds
  DEF Elsewhere
<1>5. CASE UNCHANGED checkoutVars
  <2>1. \A b, mine : Withheld(b, mine)' = Withheld(b, mine) /\ Reserved(b, mine)' = Reserved(b, mine)
    BY <1>5, QueueStands DEF checkoutVars
  <2>2. Invites' /\ HoldsAreCovered'
    BY <1>5, <2>1 DEF HInv, Invites, HoldsAreCovered, checkoutVars
  <2>3. ASSUME NEW b \in Book \ surprised, NEW w \in Worker PROVE SawEnough(job[w], b)'
    <3>1. SawEnough(job[w], b)
      BY DEF HInv
    <3>2. job' = job /\ stock' = stock /\ \A s : Withheld(b, {s})' = Withheld(b, {s})
      BY <1>5, <2>1 DEF checkoutVars
    <3> QED BY <3>1, <3>2 DEF SawEnough, HoldsBook, CopiesOf
  <2> QED BY <1>0, <1>5, <2>2, <2>3 DEF HInv, checkoutVars
<1> QED BY <1>1, <1>2, <1>3, <1>4, <1>5 DEF CheckoutNext

(* The inductive invariant of the holds: what each decrement saw withheld, *)
(* or made sure of, is still at least what is withheld.                    *)
THEOREM HoldsInvariant == CheckoutSpec => []HInv
BY HoldsInitially, HoldsNext, PTL DEF CheckoutSpec

(* Whoever holds a live invite can be sold the copies it keeps, for any    *)
(* carts, releases and invites, unless a release was opened under a        *)
(* checkout that was taking copies (reservations.ts, inventory.service.ts). *)
THEOREM HoldsStayCovered == CheckoutSpec => []HoldsAreCovered
<1>1. HInv => HoldsAreCovered
  BY DEF HInv
<1> QED BY <1>1, HoldsInvariant, PTL

-----------------------------------------------------------------------------
(* Tracking: the history is kept, and so answered, by its times.           *)

(* A status of OrderMachine, as OrderTracking's instance names it.         *)
Standing == standing \in Tracking!OrderStatus

Row == [status : Tracking!OrderStatus, time : Nat \ {0}, noted : BOOLEAN]

(* Rows of a later walk come later, whatever the order within one walk.    *)
Dated(rows) ==
  /\ rows \in Seq(Row)
  /\ \A i, j \in DOMAIN rows : i <= j => rows[i].time <= rows[j].time

History == Dated(events) /\ \A i \in DOMAIN events : events[i].time <= Len(events)

Card ==
  /\ DOMAIN card = {"open", "real", "shown", "now", "failed", "try", "hidden"}
  /\ card.try \in 0..2
  /\ ~card.open => card = Tracking!Closed
  /\ Dated(card.shown)
  /\ card.shown # <<>> => card.real

TrackInv == scene = "tracking" => Standing /\ History /\ Card

(* A nonempty set of positions has a last one.                             *)
LEMMA ThereIsALast ==
  ASSUME NEW n \in Nat, NEW S \in SUBSET (1..n), S # {}
  PROVE  \E i \in S : \A j \in S : j <= i
<1> DEFINE T == {n - i : i \in S}
<1>1. T \subseteq Nat /\ T # {}
  <2>1. \A i \in S : i \in 1..n /\ n - i \in Nat
    OBVIOUS
  <2> QED BY <2>1
<1>2. PICK m \in T : \A k \in T : ~(<<k, m>> \in OpToRel(<, Nat))
  <2> HIDE DEF T
  <2> QED BY <1>1, NatLessThanWellFounded, WFMin
<1>3. \A k \in T : ~(k < m)
  BY <1>1, <1>2 DEF OpToRel
<1>4. PICK i \in S : m = n - i
  OBVIOUS
<1>5. ASSUME NEW j \in S PROVE j <= i
  BY <1>3, <1>4
<1> QED BY <1>5

LEMMA TheLastIsTheLatest ==
  ASSUME NEW rows, Dated(rows), NEW S \in SUBSET DOMAIN rows
  PROVE  (IF S = {} THEN 0 ELSE rows[CHOOSE i \in S : \A j \in S : j <= i].time)
           = Tracking!LatestOf({rows[i].time : i \in S})
<1> DEFINE T == {rows[i].time : i \in S}
           last == CHOOSE i \in S : \A j \in S : j <= i
<1>1. CASE S = {}
  BY <1>1 DEF Tracking!LatestOf
<1>2. CASE S # {}
  <2>1. Len(rows) \in Nat /\ DOMAIN rows = 1..Len(rows)
    BY DEF Dated
  <2>2. last \in S /\ \A j \in S : j <= last
    BY <1>2, <2>1, ThereIsALast
  <2> HIDE DEF last
  <2>3. \A i \in S : rows[i].time \in Nat /\ rows[i].time <= rows[last].time
    <3>1. \A i \in DOMAIN rows : rows[i] \in Row
      BY <2>1 DEF Dated
    <3>2. \A i \in DOMAIN rows : rows[i].time \in Nat
      BY <3>1 DEF Row
    <3> QED BY <2>2, <3>2 DEF Dated
  <2>4. rows[last].time \in T /\ \A t \in T : t \in Nat /\ t <= rows[last].time
    BY <2>2, <2>3
  <2> HIDE DEF T
  <2>5. Tracking!LatestOf(T) = rows[last].time
    <3>1. T # {} /\ rows[last].time \in Nat
      BY <2>4
    <3>2. \A t \in T : (\A u \in T : u <= t) => t = rows[last].time
      BY <2>4
    <3> QED BY <2>4, <3>1, <3>2 DEF Tracking!LatestOf
  <2> QED BY <1>2, <2>5 DEF T, last
<1> QED BY <1>1, <1>2

LEMMA TheCardIsRight == Card => Tracking!TrackingTypeOK /\ Tracking!CardReadsTheHistory
<1> SUFFICES ASSUME Card PROVE Tracking!TrackingTypeOK /\ Tracking!CardReadsTheHistory
  OBVIOUS
<1>1. Tracking!TrackingTypeOK
  BY DEF Card, Tracking!TrackingTypeOK, Tracking!Loaded
<1>2. ASSUME NEW shown, Dated(shown)
      PROVE  LET seen == {shown[i] : i \in DOMAIN shown} IN
             /\ Tracking!occurredAt(shown, "PAYMENT_CONFIRMED")
                  = Tracking!LatestOf({e.time : e \in {f \in seen : f.status = "PAYMENT_CONFIRMED"}})
             /\ Tracking!lastNote(shown) = Tracking!LatestOf({e.time : e \in {f \in seen : f.noted}})
  <2> DEFINE seen == {shown[i] : i \in DOMAIN shown}
             at == {i \in DOMAIN shown : shown[i].status = "PAYMENT_CONFIRMED"}
             told == {i \in DOMAIN shown : shown[i].noted}
  <2>1. {e.time : e \in {f \in seen : f.status = "PAYMENT_CONFIRMED"}} = {shown[i].time : i \in at}
    OBVIOUS
  <2>2. {e.time : e \in {f \in seen : f.noted}} = {shown[i].time : i \in told}
    OBVIOUS
  <2>3. Tracking!occurredAt(shown, "PAYMENT_CONFIRMED") = Tracking!LatestOf({shown[i].time : i \in at})
    BY <1>2, TheLastIsTheLatest DEF Tracking!occurredAt
  <2>4. Tracking!lastNote(shown) = Tracking!LatestOf({shown[i].time : i \in told})
    BY <1>2, TheLastIsTheLatest DEF Tracking!lastNote
  <2> QED BY <2>1, <2>2, <2>3, <2>4
<1>3. Tracking!CardReadsTheHistory
  BY <1>2 DEF Card, Tracking!CardReadsTheHistory
<1> QED BY <1>1, <1>3

(* A route read off the table is a nonempty sequence of statuses. *)
LEMMA TrackedRoute ==
  ASSUME NEW s \in Tracking!OrderStatus, NEW t \in Tracking!OrderStatus, Tracking!IsReachable(s, t)
  PROVE  Tracking!forwardPathTo(s, t) \in Seq(Tracking!OrderStatus)
<1> DEFINE r == Tracking!forwardPathTo(s, t)
<1>1. PICK e \in Tracking!RouteTable : e.pair = <<s, t>> /\ r = e.route
  BY DEF Tracking!IsReachable, Tracking!forwardPathTo
<1>2. e.route = CHOOSE route \in Tracking!ShortestRoutes(s, t) : TRUE
  BY <1>1 DEF Tracking!RouteTable
<1>3. Tracking!HasRoute(s, t)
  BY <1>1 DEF Tracking!RouteTable
<1>4. r \in Tracking!Routes(s, t)
  BY <1>1, <1>2, <1>3 DEF Tracking!HasRoute, Tracking!ShortestRoutes
<1>5. PICK n \in 0..Tracking!LongestRoute : r \in [1..n -> Tracking!OrderStatus]
  BY <1>4 DEF Tracking!Routes
<1> QED BY <1>5 DEF Tracking!LongestRoute

LEMMA AWalkKeepsTheOrder ==
  ASSUME Standing, History, NEW route \in Seq(Tracking!OrderStatus), NEW noted \in BOOLEAN,
         Tracking!Walk(route, noted)
  PROVE  Standing' /\ History'
<1> DEFINE n == Len(events)
           steps == 1..Len(route)
           Step(i) == Tracking!Event(route[i], n + 1, noted /\ i = Len(route))
<1>0. /\ Len(route) \in Nat \ {0} /\ n \in Nat /\ route[Len(route)] \in Tracking!OrderStatus
      /\ events \in Seq(Row) /\ DOMAIN events = 1..n
  BY DEF Tracking!Walk, History, Dated
<1>1. Standing'
  <2>1. standing' = route[Len(route)]
    BY DEF Tracking!Walk
  <2> QED BY <1>0, <2>1 DEF Standing, Tracking!OrderStatus
<1>2. PICK order \in [steps -> steps] : events' = events \o [i \in steps |-> Step(order[i])]
  BY DEF Tracking!Walk
<1> DEFINE added == [i \in steps |-> Step(order[i])]
<1>3. \A i \in steps : added[i] \in Row /\ added[i].time = n + 1
  <2> TAKE i \in steps
  <2>1. order[i] \in steps /\ route[order[i]] \in Tracking!OrderStatus
    BY <1>0
  <2>2. added[i] = Step(order[i])
    OBVIOUS
  <2>3. (noted /\ order[i] = Len(route)) \in BOOLEAN
    OBVIOUS
  <2> QED BY <1>0, <2>1, <2>2, <2>3 DEF Tracking!Event, Row
<1>4. added \in Seq(Row) /\ Len(added) = Len(route) /\ DOMAIN added = steps
  <2>1. added \in [1..Len(route) -> Row]
    BY <1>3
  <2> QED BY <1>0, <2>1
<1>5. events' = events \o added
  BY <1>2
<1> HIDE DEF added, n
<1>6. /\ events' \in Seq(Row) /\ Len(events') = n + Len(route)
      /\ \A i \in 1..n : events'[i] = events[i]
      /\ \A i \in (n + 1)..(n + Len(route)) : events'[i] = added[i - n]
  <2>1. Len(events) = n
    BY DEF n
  <2>2. events' \in Seq(Row) /\ Len(events') = n + Len(route)
    <3>1. events \o added \in Seq(Row)
      BY <1>0, <1>4, ConcatProperties
    <3>2. Len(events \o added) = Len(events) + Len(added)
      BY <1>0, <1>4, ConcatProperties
    <3> QED BY <1>4, <1>5, <2>1, <3>1, <3>2
  <2>3. \A i \in 1..(n + Len(route)) :
           (events \o added)[i] = IF i <= n THEN events[i] ELSE added[i - n]
    <3>1. \A i \in 1..(Len(events) + Len(added)) :
             (events \o added)[i] = IF i <= Len(events) THEN events[i] ELSE added[i - Len(events)]
      BY <1>0, <1>4, ConcatProperties
    <3> QED BY <1>4, <2>1, <3>1
  <2>4. /\ \A i \in 1..n : i \in 1..(n + Len(route)) /\ i <= n
        /\ \A i \in (n + 1)..(n + Len(route)) : i \in 1..(n + Len(route)) /\ ~(i <= n)
    BY <1>0
  <2> QED BY <1>5, <2>2, <2>3, <2>4
<1>7. \A i \in 1..n : events[i].time \in Nat /\ events[i].time <= n
  <2>1. \A i \in 1..n : events[i] \in Row
    BY <1>0
  <2> QED BY <1>0, <2>1 DEF History, Row, n
<1>8. \A i \in (n + 1)..(n + Len(route)) : events'[i].time = n + 1
  <2>1. \A i \in (n + 1)..(n + Len(route)) : i - n \in steps
    BY <1>0
  <2> QED BY <1>3, <1>6, <2>1
<1>9. \A i, j \in 1..n : i <= j => events[i].time <= events[j].time
  BY <1>0 DEF History, Dated
<1>10. \A i, j \in 1..(n + Len(route)) : i <= j => events'[i].time <= events'[j].time
  BY <1>0, <1>6, <1>7, <1>8, <1>9
<1>11. \A i \in 1..(n + Len(route)) : events'[i].time <= n + Len(route)
  BY <1>0, <1>6, <1>7, <1>8
<1>12. DOMAIN events' = 1..(n + Len(route))
  BY <1>6
<1> QED BY <1>1, <1>6, <1>10, <1>11, <1>12 DEF History, Dated, Row, Tracking!OrderStatus

LEMMA TheCardOpens ==
  ASSUME NEW real, Tracking!Open(real)
  PROVE  Card'
<1> DEFINE c == [Tracking!Closed EXCEPT !.open = TRUE, !.real = real, !.try = 1]
<1>1. DOMAIN c = {"open", "real", "shown", "now", "failed", "try", "hidden"}
      /\ c.try = 1 /\ c.open /\ c.shown = <<>>
  BY DEF Tracking!Closed
<1>2. card' = c
  BY DEF Tracking!Open
<1>3. Dated(<<>>)
  BY DEF Dated
<1> HIDE DEF c
<1>4. card'.try \in 0..2 /\ card'.open /\ card'.shown = <<>>
      /\ DOMAIN card' = {"open", "real", "shown", "now", "failed", "try", "hidden"}
  BY <1>1, <1>2
<1> QED BY <1>3, <1>4 DEF Card, Dated, Row, Tracking!OrderStatus
LEMMA TrackInitially == Init => TrackInv
<1> SUFFICES ASSUME Init, scene = "tracking" PROVE Standing /\ History /\ Card
  BY DEF TrackInv
<1>1. Tracking!TrackingInit
  BY DEF Init
<1>2. Standing
  BY <1>1 DEF Tracking!TrackingInit, Standing, Tracking!OrderStatus
<1>3. History
  <2> DEFINE e == Tracking!Event("PENDING", 1, FALSE)
  <2>1. e \in Row /\ e.time = 1
    BY DEF Tracking!Event, Row, Tracking!OrderStatus
  <2>2. events = <<e>>
    BY <1>1 DEF Tracking!TrackingInit
  <2> HIDE DEF e
  <2>3. events \in Seq(Row) /\ Len(events) = 1 /\ DOMAIN events = 1..1 /\ events[1] = e
    BY <2>1, <2>2
  <2>4. \A i \in DOMAIN events : i = 1
    BY <2>3
  <2> QED BY <2>1, <2>3, <2>4 DEF History, Dated
<1>4. Card
  <2>1. card = Tracking!Closed
    BY <1>1 DEF Tracking!TrackingInit
  <2>2. DOMAIN Tracking!Closed = {"open", "real", "shown", "now", "failed", "try", "hidden"}
        /\ Tracking!Closed.try = 0 /\ Tracking!Closed.shown = <<>>
    BY DEF Tracking!Closed
  <2>3. Dated(<<>>)
    BY DEF Dated
  <2> QED BY <2>1, <2>2, <2>3 DEF Card
<1> QED BY <1>2, <1>3, <1>4

LEMMA OrdersMove ==
  ASSUME Standing, History, Card, NEW noted \in BOOLEAN,
         \/ Tracking!StaffReopens(noted)
         \/ \E target \in Tracking!OrderStatus : Tracking!StaffMoves(target, noted)
  PROVE  Standing' /\ History' /\ Card'
<1>1. PICK route \in Seq(Tracking!OrderStatus) : Tracking!Walk(route, noted)
  <2>1. CASE Tracking!StaffReopens(noted)
    <3>1. <<"PENDING">> \in Seq(Tracking!OrderStatus)
      BY DEF Tracking!OrderStatus
    <3> QED BY <2>1, <3>1 DEF Tracking!StaffReopens
  <2>2. CASE \E target \in Tracking!OrderStatus : Tracking!StaffMoves(target, noted)
    BY <2>2, TrackedRoute DEF Tracking!StaffMoves, Standing
  <2> QED BY <2>1, <2>2
<1>2. card' = card
  BY <1>1 DEF Tracking!Walk
<1>3. Card'
  BY <1>2 DEF Card, Dated, Row, Tracking!OrderStatus, Tracking!Closed
<1> QED BY <1>1, <1>3, AWalkKeepsTheOrder

LEMMA HistoryStays ==
  ASSUME Standing, History, UNCHANGED Tracking!orderVars PROVE Standing' /\ History'
  BY DEF Tracking!orderVars, Standing, History, Dated, Row, Tracking!OrderStatus

(* Only an answer changes what the open page shows.                        *)
LEMMA TheCardStays ==
  ASSUME Card, card.open,
         DOMAIN card' = DOMAIN card, card'.try \in 0..2, card'.open = card.open,
         card'.shown = card.shown, card'.real = card.real
  PROVE  Card'
  BY DEF Card, Dated, Row, Tracking!OrderStatus, Tracking!Closed

LEMMA PagesMove ==
  ASSUME Standing, History, Card,
         \/ Tracking!HandleSubmit \/ Tracking!Found \/ \E real \in BOOLEAN : Tracking!OpenCard(real)
         \/ Tracking!Poll \/ Tracking!Refresh \/ Tracking!Hide \/ Tracking!Return \/ Tracking!Answer
         \/ Tracking!NoAnswerComes \/ Tracking!Leave
  PROVE  Standing' /\ History' /\ Card'
<1>1. UNCHANGED Tracking!orderVars
  BY DEF Tracking!HandleSubmit, Tracking!Found, Tracking!OpenCard, Tracking!Poll, Tracking!Refresh, Tracking!Asks,
         Tracking!Hide, Tracking!Return, Tracking!Answer, Tracking!NoAnswerComes, Tracking!Leave
<1>2. ASSUME UNCHANGED card PROVE Card'
  BY <1>2 DEF Card, Dated, Row, Tracking!OrderStatus, Tracking!Closed
<1>3. CASE Tracking!HandleSubmit \/ Tracking!Found \/ \E real \in BOOLEAN : Tracking!OpenCard(real)
  BY <1>1, <1>2, <1>3, HistoryStays, TheCardOpens DEF Tracking!HandleSubmit, Tracking!Found, Tracking!OpenCard
<1>4. card.try > 0 => card.open
  BY DEF Card, Tracking!Closed
<1>5. CASE Tracking!Poll \/ Tracking!Refresh
  <2>1. card' = [card EXCEPT !.try = 1] /\ card.open
    BY <1>5 DEF Tracking!Poll, Tracking!Refresh, Tracking!Asks
  <2>2. /\ DOMAIN card' = DOMAIN card /\ card'.try = 1 /\ card'.open = card.open
        /\ card'.shown = card.shown /\ card'.real = card.real
    BY <2>1 DEF Card
  <2> QED BY <1>1, <2>1, <2>2, HistoryStays, TheCardStays
<1>6. CASE Tracking!Hide
  <2>1. card' = [card EXCEPT !.hidden = TRUE] /\ card.open
    BY <1>6 DEF Tracking!Hide
  <2>2. /\ DOMAIN card' = DOMAIN card /\ card'.try = card.try /\ card'.open = card.open
        /\ card'.shown = card.shown /\ card'.real = card.real
    BY <2>1 DEF Card
  <2>3. card'.try \in 0..2
    BY <2>2 DEF Card
  <2> QED BY <1>1, <2>1, <2>2, <2>3, HistoryStays, TheCardStays
<1>7. CASE Tracking!Return
  <2> DEFINE try == IF card.try = 0 THEN 1 ELSE card.try
  <2>1. card' = [card EXCEPT !.hidden = FALSE, !.try = try] /\ card.open
    BY <1>7 DEF Tracking!Return
  <2>2. try \in 0..2
    BY DEF Card
  <2> HIDE DEF try
  <2>3. /\ DOMAIN card' = DOMAIN card /\ card'.try = try /\ card'.open = card.open
        /\ card'.shown = card.shown /\ card'.real = card.real
    BY <2>1 DEF Card
  <2> QED BY <1>1, <2>1, <2>2, <2>3, HistoryStays, TheCardStays
<1>8. CASE Tracking!NoAnswerComes
  <2> DEFINE try == IF card.try = 1 THEN 2 ELSE 0
             failed == card.failed \/ card.try = 2
  <2>1. card' = [card EXCEPT !.try = try, !.failed = failed] /\ card.open
    BY <1>4, <1>8 DEF Tracking!NoAnswerComes
  <2>2. try \in 0..2
    OBVIOUS
  <2> HIDE DEF try, failed
  <2>3. /\ DOMAIN card' = DOMAIN card /\ card'.try = try /\ card'.open = card.open
        /\ card'.shown = card.shown /\ card'.real = card.real
    BY <2>1 DEF Card
  <2> QED BY <1>1, <2>1, <2>2, <2>3, HistoryStays, TheCardStays
<1>9. CASE Tracking!Answer
  <2> DEFINE shown == IF card.real THEN events ELSE <<>>
             now == IF card.real THEN standing ELSE "none"
  <2>1. card' = [card EXCEPT !.try = 0, !.failed = FALSE, !.shown = shown, !.now = now] /\ card.open
    BY <1>4, <1>9 DEF Tracking!Answer
  <2>2. Dated(shown) /\ (shown # <<>> => card.real)
    BY DEF History, Dated
  <2> HIDE DEF shown, now
  <2>3. /\ DOMAIN card' = DOMAIN card /\ card'.try = 0 /\ card'.open = card.open
        /\ card'.shown = shown /\ card'.real = card.real
    BY <2>1 DEF Card
  <2> QED BY <1>1, <2>1, <2>2, <2>3, HistoryStays DEF Card, Dated, Row, Tracking!OrderStatus
<1>10. CASE Tracking!Leave
  <2>1. card' = Tracking!Closed
    BY <1>10 DEF Tracking!Leave
  <2>2. /\ DOMAIN Tracking!Closed = {"open", "real", "shown", "now", "failed", "try", "hidden"}
        /\ Tracking!Closed.try = 0 /\ Tracking!Closed.shown = <<>>
    BY DEF Tracking!Closed
  <2>3. Dated(<<>>)
    BY DEF Dated
  <2>4. Card'
    BY <2>1, <2>2, <2>3 DEF Card, Dated, Row, Tracking!OrderStatus, Tracking!Closed
  <2> QED BY <1>1, <2>4, HistoryStays
<1> QED BY <1>3, <1>5, <1>6, <1>7, <1>8, <1>9, <1>10

LEMMA TrackNext == TrackInv /\ [Next]_<<checkoutVars, scene, trackVars>> => TrackInv'
<1> SUFFICES ASSUME TrackInv, [Next]_<<checkoutVars, scene, trackVars>>, scene' = "tracking"
             PROVE  Standing' /\ History' /\ Card'
  BY DEF TrackInv
<1>1. scene = "tracking" /\ Standing /\ History /\ Card
  BY DEF Next, TrackInv
<1>2. CASE UNCHANGED trackVars
  BY <1>1, <1>2 DEF trackVars, Standing, History, Card, Dated, Row, Tracking!OrderStatus, Tracking!Closed
<1>3. CASE Tracking!TrackingNext
  BY <1>1, <1>3, OrdersMove, PagesMove DEF Tracking!TrackingNext
<1> QED BY <1>1, <1>2, <1>3 DEF Next

(* However the rows of one walk are shuffled by the answer, the card dates *)
(* the confirmation by the latest there is and tells the latest note, for  *)
(* a history of any length.                                                *)
THEOREM TheCardReadsTheHistory == Spec => []CardReadsTheHistory
<1>1. TrackInv => CardReadsTheHistory
  BY TheCardIsRight DEF TrackInv, CardReadsTheHistory
<1> QED BY <1>1, TrackInitially, TrackNext, PTL DEF Spec
=============================================================================
