--------------------------- MODULE PaymentsProofs ---------------------------
(***************************************************************************)
(* What holds of the orders desk and of the payment rows for any number of *)
(* orders, requests and payments.  The requests are those of module Orders *)
(* with an errand, so the inductive invariant is that of OrdersProofs and  *)
(* what each errand says of the job that serves it.                        *)
(***************************************************************************)
EXTENDS MCPayments, OrdersProofs

USE OrdersAssumption, DeskAssumption, PaymentsAssumption

Errands == {"other", "desk", "packing", "confirm", "revert", "refund"}

(* Where an order can be on its way to its parcel. *)
Forward == {"PAYMENT_CONFIRMED"} \cup FULFILLMENT_TRANSITION_TARGETS

(* A move enters the one status it was asked for. *)
OneEntry(j) ==
  j.op = "move" =>
    /\ j.pc \in {"before", "read", "update", "commit", "announce"}
    /\ j.pc \in {"before", "read", "update"} => j.draft = <<>>
    /\ j.pc \in {"read", "update"} => j.route = <<j.to>>
    /\ j.pc \in {"commit", "announce"} => j.draft = <<j.to>> /\ j.seen = j.to

(* A packer's request was judged when it arrived; what it enters later is  *)
(* on the way to where it was asked to go.                                 *)
PacksOnly(j) ==
  /\ j.op \in {"move", "advance"} /\ j.to \in FULFILLMENT_TRANSITION_TARGETS
  /\ j.pc \in {"before", "read", "update", "walk", "commit", "announce"}
  /\ ToSet(j.draft) \subseteq Forward /\ ~j.returned
  /\ j.pc \in {"read", "update", "walk"} => ToSet(j.route) \subseteq Forward

(* What the errand of a request says of its job. *)
ErrandFits(what, j) ==
  /\ OneEntry(j)
  /\ what # "other" => j.pc # "idle"
  /\ what = "packing" => PacksOnly(j)
  /\ what = "confirm" => j.op = "move" /\ j.to = PaidStatus
  /\ what = "revert" => j.op = "move" /\ j.to = "PENDING"
  /\ what = "refund" => j.op = "move" /\ j.to = "REFUNDED"

(* The requests of the desk are in order. *)
DeskInv ==
  /\ OrdersInv
  /\ rejected \subseteq Order
  /\ errand \in [Worker -> Errands]
  /\ \A w \in Worker : ErrandFits(errand[w], job[w])

(* A voided row is a SUCCEEDED one, in the hands of one withdrawal that    *)
(* has not ended.                                                          *)
VoidsHeld ==
  /\ \A w \in Worker : voids[w] =>
       /\ errand[w] = "revert" /\ slip[job[w].o] = "SUCCEEDED"
       /\ job[w].pc \in {"before", "read", "update", "commit"}
  /\ \A v, w \in Worker : voids[v] /\ voids[w] /\ job[v].o = job[w].o => v = w

PayInv ==
  /\ DeskInv
  /\ slip \in [Order -> {"none", "SUCCEEDED", "FAILED"}]
  /\ refunds \subseteq Order
  /\ voids \in [Worker -> BOOLEAN]
  /\ VoidsHeld
  /\ RefundRowOnlyOnRefunded

-----------------------------------------------------------------------------
(* Routes.  Only a pending order is confirmed, only a confirmed one packed *)
(* and only a packed one sent, so a shortest route to the parcel enters    *)
(* nothing else.                                                           *)

LEMMA Predecessors ==
  ASSUME NEW s \in OrderStatus, NEW t \in OrderStatus, canTransition(s, t)
  PROVE  /\ t = "SHIPPED" => s = "PROCESSING"
         /\ t = "PROCESSING" => s = "PAYMENT_CONFIRMED"
         /\ t = "PAYMENT_CONFIRMED" => s = "PENDING"
         /\ t = "PENDING" => s = "PAYMENT_CONFIRMED"
         /\ t = "REFUNDED" => s \in {"PAYMENT_CONFIRMED", "SHIPPED", "DELIVERED"}
BY DEF OrderStatus, ORDER_STATUS_TRANSITIONS, canTransition

(* The edges the desk walks along. *)
LEMMA ForwardEdges ==
  /\ canTransition("PENDING", "PAYMENT_CONFIRMED")
  /\ canTransition("PAYMENT_CONFIRMED", "PROCESSING")
  /\ canTransition("PROCESSING", "SHIPPED")
BY DEF OrderStatus, ORDER_STATUS_TRANSITIONS, canTransition

(* forwardPathTo answers one of the shortest routes. *)
LEMMA ForwardPathIsShortest ==
  ASSUME NEW s \in OrderStatus, NEW t \in OrderStatus, IsReachable(s, t)
  PROVE  forwardPathTo(s, t) \in ShortestRoutes(s, t)
<1>1. PICK e \in RouteTable : e.pair = <<s, t>> /\ forwardPathTo(s, t) = e.route
  BY DEF IsReachable, forwardPathTo
<1>2. e.route = CHOOSE route \in ShortestRoutes(s, t) : TRUE
  BY <1>1 DEF RouteTable
<1>3. HasRoute(s, t)
  BY <1>1 DEF RouteTable
<1> QED BY <1>1, <1>2, <1>3 DEF HasRoute

(* A route is a sequence of statuses, each entered from the one before.    *)
LEMMA RouteShape ==
  ASSUME NEW s \in OrderStatus, NEW t \in OrderStatus, NEW r \in Routes(s, t)
  PROVE  /\ r \in Seq(OrderStatus) /\ Len(r) <= 4
         /\ r = <<>> => s = t
         /\ r # <<>> => r[Len(r)] = t /\ canTransition(s, r[1])
         /\ \A i \in 1..(Len(r) - 1) : canTransition(r[i], r[i + 1])
<1> DEFINE walk == <<s>> \o r
<1>1. PICK n \in 0..4 : r \in [1..n -> OrderStatus]
  BY DEF Routes, LongestRoute
<1>2. r \in Seq(OrderStatus) /\ Len(r) = n
  BY <1>1
<1>3. /\ Len(walk) = n + 1 /\ walk[1] = s
      /\ \A i \in 1..n : walk[i + 1] = r[i]
  BY <1>2
<1>4. walk[n + 1] = t /\ \A i \in 1..n : canTransition(walk[i], walk[i + 1])
  BY <1>2, <1>3 DEF Routes, IsRoute
<1> HIDE DEF walk
<1>5. r = <<>> => s = t
  BY <1>2, <1>3, <1>4
<1>6. r # <<>> => r[Len(r)] = t /\ canTransition(s, r[1])
  <2> HAVE r # <<>>
  <2>1. n \in 1..4
    BY <1>2
  <2>2. walk[n + 1] = r[n] /\ walk[2] = r[1] /\ canTransition(walk[1], walk[2])
    BY <2>1, <1>3, <1>4
  <2> QED BY <2>2, <1>2, <1>3, <1>4
<1>7. ASSUME NEW i \in 1..(Len(r) - 1) PROVE canTransition(r[i], r[i + 1])
  <2>1. i \in 1..n /\ i + 1 \in 1..n
    BY <1>2
  <2>2. canTransition(walk[i + 1], walk[(i + 1) + 1])
    BY <2>1, <1>4
  <2> QED BY <2>1, <2>2, <1>3
<1> QED BY <1>2, <1>5, <1>6, <1>7

(* A walk of at most three steps is a route. *)
LEMMA ShortWalks ==
  ASSUME NEW p \in OrderStatus, NEW q \in OrderStatus, canTransition(p, q)
  PROVE  /\ <<q>> \in Routes(p, q)
         /\ \A r \in OrderStatus : canTransition(q, r) =>
              /\ <<q, r>> \in Routes(p, r)
              /\ \A s \in OrderStatus : canTransition(r, s) => <<q, r, s>> \in Routes(p, s)
<1>1. <<q>> \in Routes(p, q)
  <2>1. <<q>> \in [1..1 -> OrderStatus]
    OBVIOUS
  <2>2. IsRoute(p, <<q>>, q)
    BY DEF IsRoute
  <2> QED BY <2>1, <2>2 DEF Routes, LongestRoute
<1>2. ASSUME NEW r \in OrderStatus, canTransition(q, r) PROVE <<q, r>> \in Routes(p, r)
  <2>1. <<q, r>> \in [1..2 -> OrderStatus]
    OBVIOUS
  <2>2. IsRoute(p, <<q, r>>, r)
    BY <1>2 DEF IsRoute
  <2> QED BY <2>1, <2>2 DEF Routes, LongestRoute
<1>3. ASSUME NEW r \in OrderStatus, canTransition(q, r), NEW s \in OrderStatus,
             canTransition(r, s)
      PROVE  <<q, r, s>> \in Routes(p, s)
  <2>1. <<q, r, s>> \in [1..3 -> OrderStatus]
    OBVIOUS
  <2>2. IsRoute(p, <<q, r, s>>, s)
    BY <1>3 DEF IsRoute
  <2> QED BY <2>1, <2>2 DEF Routes, LongestRoute
<1> QED BY <1>1, <1>2, <1>3

(* The statuses on the way to a parcel: PENDING among them only as the     *)
(* place the order starts from.                                            *)
LEMMA RoutesToTheParcel ==
  ASSUME NEW s \in OrderStatus, NEW t \in FULFILLMENT_TRANSITION_TARGETS,
         NEW r \in ShortestRoutes(s, t)
  PROVE  ToSet(r) \subseteq Forward
<1>0. t \in OrderStatus
  BY DEF FULFILLMENT_TRANSITION_TARGETS, OrderStatus
<1>1. r \in Routes(s, t)
  BY DEF ShortestRoutes
<1>2. /\ r \in Seq(OrderStatus) /\ Len(r) <= 4 /\ Len(r) \in Nat
      /\ r # <<>> => r[Len(r)] = t /\ canTransition(s, r[1])
      /\ \A i \in 1..(Len(r) - 1) : canTransition(r[i], r[i + 1])
  BY <1>0, <1>1, RouteShape
<1>3. \A i \in 1..Len(r) : r[i] \in OrderStatus
  BY <1>2
<1>4. \A i \in 1..(Len(r) - 1) :
        /\ r[i + 1] = "SHIPPED" => r[i] = "PROCESSING"
        /\ r[i + 1] = "PROCESSING" => r[i] = "PAYMENT_CONFIRMED"
        /\ r[i + 1] = "PAYMENT_CONFIRMED" => r[i] = "PENDING"
        /\ r[i + 1] = "PENDING" => r[i] = "PAYMENT_CONFIRMED"
  <2> TAKE i \in 1..(Len(r) - 1)
  <2>1. i \in 1..Len(r) /\ i + 1 \in 1..Len(r)
    BY <1>2
  <2>2. r[i] \in OrderStatus /\ r[i + 1] \in OrderStatus
    BY <1>3, <2>1
  <2> QED BY <1>2, <2>2, Predecessors
<1>5. \A other \in Routes(s, t) : Len(r) <= Len(other)
  BY DEF ShortestRoutes
<1>6. r # <<>> => /\ r[1] = "SHIPPED" => s = "PROCESSING"
                  /\ r[1] = "PROCESSING" => s = "PAYMENT_CONFIRMED"
                  /\ r[1] = "PAYMENT_CONFIRMED" => s = "PENDING"
                  /\ r[1] = "PENDING" => s = "PAYMENT_CONFIRMED"
  <2> HAVE r # <<>>
  <2>1. r[1] \in OrderStatus /\ canTransition(s, r[1])
    BY <1>2, <1>3
  <2> QED BY <2>1, Predecessors
<1>7. {"PENDING", "PAYMENT_CONFIRMED", "PROCESSING", "SHIPPED"} \subseteq OrderStatus
  BY DEF OrderStatus
<1>8. /\ s = "PENDING" /\ t = "PROCESSING" => Len(r) <= 2
      /\ s = "PENDING" /\ t = "SHIPPED" => Len(r) <= 3
      /\ s = "PAYMENT_CONFIRMED" /\ t = "PROCESSING" => Len(r) <= 1
      /\ s = "PAYMENT_CONFIRMED" /\ t = "SHIPPED" => Len(r) <= 2
      /\ s = "PROCESSING" /\ t = "SHIPPED" => Len(r) <= 1
  <2>1. s = "PENDING" /\ t = "PROCESSING" => Len(r) <= 2
    <3> HAVE s = "PENDING" /\ t = "PROCESSING"
    <3>1. <<"PAYMENT_CONFIRMED", "PROCESSING">> \in Routes(s, t)
      BY <1>7, ForwardEdges, ShortWalks
    <3> QED BY <3>1, <1>5
  <2>2. s = "PENDING" /\ t = "SHIPPED" => Len(r) <= 3
    <3> HAVE s = "PENDING" /\ t = "SHIPPED"
    <3>1. <<"PAYMENT_CONFIRMED", "PROCESSING", "SHIPPED">> \in Routes(s, t)
      BY <1>7, ForwardEdges, ShortWalks
    <3> QED BY <3>1, <1>5
  <2>3. s = "PAYMENT_CONFIRMED" /\ t = "PROCESSING" => Len(r) <= 1
    <3> HAVE s = "PAYMENT_CONFIRMED" /\ t = "PROCESSING"
    <3>1. <<"PROCESSING">> \in Routes(s, t)
      BY <1>7, ForwardEdges, ShortWalks
    <3> QED BY <3>1, <1>5
  <2>4. s = "PAYMENT_CONFIRMED" /\ t = "SHIPPED" => Len(r) <= 2
    <3> HAVE s = "PAYMENT_CONFIRMED" /\ t = "SHIPPED"
    <3>1. <<"PROCESSING", "SHIPPED">> \in Routes(s, t)
      BY <1>7, ForwardEdges, ShortWalks
    <3> QED BY <3>1, <1>5
  <2>5. s = "PROCESSING" /\ t = "SHIPPED" => Len(r) <= 1
    <3> HAVE s = "PROCESSING" /\ t = "SHIPPED"
    <3>1. <<"SHIPPED">> \in Routes(s, t)
      BY <1>7, ForwardEdges, ShortWalks
    <3> QED BY <3>1, <1>5
  <2> QED BY <2>1, <2>2, <2>3, <2>4, <2>5
<1>9. \A i \in 1..Len(r) : r[i] \in Forward
  <2>1. CASE Len(r) = 0
    BY <2>1
  <2>2. CASE Len(r) = 1
    BY <2>2, <1>2 DEF Forward, FULFILLMENT_TRANSITION_TARGETS
  <2>3. CASE Len(r) = 2
    <3>0. r # <<>>
      BY <2>3
    <3>1. r[2] = t /\ r # <<>>
      BY <2>3, <3>0, <1>2
    <3>2. r[1] \in Forward
      BY <2>3, <3>1, <1>4, <1>6, <1>8 DEF Forward, FULFILLMENT_TRANSITION_TARGETS
    <3> QED BY <2>3, <3>1, <3>2 DEF Forward
  <2>4. CASE Len(r) = 3
    <3>0. r # <<>>
      BY <2>4
    <3>1. r[3] = t /\ r # <<>>
      BY <2>4, <3>0, <1>2
    <3>2. r[2] \in Forward /\ r[1] \in Forward
      BY <2>4, <3>1, <1>4, <1>6, <1>8 DEF Forward, FULFILLMENT_TRANSITION_TARGETS
    <3> QED BY <2>4, <3>1, <3>2 DEF Forward
  <2>5. CASE Len(r) = 4
    <3>0. r # <<>>
      BY <2>5
    <3>1. r[4] = t /\ r # <<>>
      BY <2>5, <3>0, <1>2
    <3>2. t = "PROCESSING" => FALSE
      BY <2>5, <3>1, <1>4, <1>6, <1>8 DEF FULFILLMENT_TRANSITION_TARGETS
    <3>3. t = "SHIPPED" => FALSE
      BY <2>5, <3>1, <1>4, <1>6, <1>8 DEF FULFILLMENT_TRANSITION_TARGETS
    <3> QED BY <3>2, <3>3 DEF FULFILLMENT_TRANSITION_TARGETS
  <2>0. Len(r) \in Nat /\ Len(r) <= 4
    BY <1>2
  <2>6. Len(r) \in {0, 1, 2, 3, 4}
    <3>1. \A n \in Nat : n <= 4 => n \in {0, 1, 2, 3, 4}
      OBVIOUS
    <3> QED BY <2>0, <3>1
  <2> QED BY <2>1, <2>2, <2>3, <2>4, <2>5, <2>6
<1>10. DOMAIN r = 1..Len(r)
  BY <1>2
<1> QED BY <1>9, <1>10 DEF ToSet

-----------------------------------------------------------------------------
(* Jobs.  What a statement does to the job that makes it, field by field.  *)

LEMMA EnterFields ==
  ASSUME TypeOK, NEW w \in Worker, Enter(w)
  PROVE  /\ job'[w].op = job[w].op /\ job'[w].to = job[w].to /\ job'[w].o = job[w].o
         /\ job'[w].seen = Head(job[w].route) /\ job'[w].route = Tail(job[w].route)
         /\ job'[w].draft = Append(job[w].draft, Head(job[w].route))
         /\ job'[w].returned =
              (job[w].returned \/ releasesStock(job[w].seen, Head(job[w].route)))
         /\ job'[w].pc = IF Len(job[w].route) = 1 THEN "commit" ELSE "walk"
  BY DEF Enter, TypeOK, Job

(* A request acts on its own job. *)
LEMMA OthersWait ==
  ASSUME TypeOK, NEW w \in Worker, Work(w), NEW v \in Worker, v # w
  PROVE  job'[v] = job[v]
BY DEF Work, FindByIdempotencyKey, RejectReusedReceipt, WriteOrder, ReadBefore, ReadStatus,
       Update, Walk, Commit, ReadForReopen, Retake, Enter, Go, Finish, TypeOK

(* The first status of a route, and the rest of it, are of the route.      *)
LEMMA RouteParts ==
  ASSUME NEW r \in Seq(OrderStatus), r # <<>>, NEW d \in Seq(OrderStatus), NEW S,
         ToSet(r) \subseteq S, ToSet(d) \subseteq S
  PROVE  Head(r) \in S /\ ToSet(Tail(r)) \subseteq S /\ ToSet(Append(d, Head(r))) \subseteq S
<1>1. DOMAIN r = 1..Len(r) /\ Len(r) \in Nat /\ Len(r) # 0 /\ Head(r) = r[1]
  BY EmptySeq
<1>2. Head(r) \in S
  BY <1>1 DEF ToSet
<1>3. /\ Tail(r) \in Seq(OrderStatus) /\ Len(Tail(r)) = Len(r) - 1
      /\ \A i \in 1..Len(Tail(r)) : Tail(r)[i] = r[i + 1]
  BY HeadTailProperties
<1>4. ToSet(Tail(r)) \subseteq S
  <2>1. DOMAIN Tail(r) = 1..Len(Tail(r))
    BY <1>3
  <2>2. \A i \in 1..Len(Tail(r)) : Tail(r)[i] \in S
    BY <1>1, <1>3 DEF ToSet
  <2> QED BY <2>1, <2>2 DEF ToSet
<1>5. ToSet(Append(d, Head(r))) \subseteq S
  <2> DEFINE e == Append(d, Head(r))
  <2>1. /\ DOMAIN e = 1..(Len(d) + 1) /\ Len(d) \in Nat /\ e[Len(d) + 1] = Head(r)
        /\ \A i \in 1..Len(d) : e[i] = d[i]
    BY <1>1
  <2>2. \A i \in 1..Len(d) : d[i] \in S
    BY DEF ToSet
  <2> HIDE DEF e
  <2>3. \A i \in 1..(Len(d) + 1) : e[i] \in S
    BY <2>1, <2>2, <1>2
  <2>4. ToSet(e) \subseteq S
    BY <2>1, <2>3 DEF ToSet
  <2> QED BY <2>4 DEF e
<1> QED BY <1>2, <1>4, <1>5

(* Nothing on the way to a parcel gives copies back. *)
LEMMA ForwardKeepsCopies ==
  ASSUME NEW s, NEW t \in Forward
  PROVE  ~releasesStock(s, t)
BY DEF Forward, FULFILLMENT_TRANSITION_TARGETS, releasesStock, isTerminal, OrderStatus,
       ORDER_STATUS_TRANSITIONS

-----------------------------------------------------------------------------
(* Whatever the next statement of a request is, its job goes on fitting    *)
(* its errand, or the request is over.                                     *)

LEMMA FinishFits ==
  ASSUME TypeOK, NEW w \in Worker, Finish(w)
  PROVE  job'[w].pc = "idle" /\ ErrandFits("other", job'[w])
BY DEF Finish, TypeOK, Idle, ErrandFits, OneEntry

LEMMA ReadBeforeFits ==
  ASSUME DeskInv, NEW w \in Worker, ReadBefore(w)
  PROVE  Finish(w) \/ ErrandFits(errand[w], job'[w])
<1> DEFINE o == job[w].o
           here == status[o]
           to == job[w].to
           r == IF job[w].op = "advance" THEN forwardPathTo(here, to) ELSE <<to>>
<1>1. TypeOK /\ ErrandFits(errand[w], job[w]) /\ job[w].pc = "before"
  BY DEF DeskInv, OrdersInv, ReadBefore
<1>2. CASE Finish(w)
  BY <1>2
<1>3. CASE ~Finish(w)
  <2>1. /\ job' = [job EXCEPT ![w].from = here, ![w].route = r, ![w].pc = "read"]
        /\ job[w].op = "advance" => IsReachable(here, to)
    BY <1>3 DEF ReadBefore
  <2> HIDE DEF r
  <2>2. /\ job'[w].op = job[w].op /\ job'[w].to = to /\ job'[w].route = r /\ job'[w].pc = "read"
        /\ job'[w].draft = job[w].draft /\ job'[w].returned = job[w].returned
    BY <1>1, <2>1 DEF TypeOK, Job
  <2>3. OneEntry(job'[w])
    BY <1>1, <2>2 DEF ErrandFits, OneEntry, r
  <2>4. errand[w] = "packing" => PacksOnly(job'[w])
    <3> HAVE errand[w] = "packing"
    <3>1. PacksOnly(job[w])
      BY <1>1 DEF ErrandFits
    <3>2. here \in OrderStatus /\ to \in OrderStatus
      <4>1. o \in Order /\ Exists(o) /\ job[w] \in Job
        BY <1>1 DEF DeskInv, OrdersInv, JobOK, TypeOK
      <4> QED BY <1>1, <4>1 DEF TypeOK, Exists, Job
    <3>3. ToSet(r) \subseteq Forward
      <4>1. CASE job[w].op = "advance"
        <5>1. r = forwardPathTo(here, to) /\ r \in ShortestRoutes(here, to)
          BY <2>1, <3>2, <4>1, ForwardPathIsShortest DEF r
        <5> QED BY <3>1, <3>2, <5>1, RoutesToTheParcel DEF PacksOnly
      <4>2. CASE job[w].op # "advance"
        <5>1. r = <<to>> /\ to \in Forward
          BY <3>1, <4>2 DEF r, PacksOnly, Forward
        <5> QED BY <5>1 DEF ToSet
      <4> QED BY <4>1, <4>2
    <3> QED BY <2>2, <3>1, <3>3 DEF PacksOnly
  <2> QED BY <1>1, <2>2, <2>3, <2>4 DEF ErrandFits
<1> QED BY <1>2, <1>3

LEMMA ReadStatusFits ==
  ASSUME DeskInv, NEW w \in Worker, ReadStatus(w)
  PROVE  Finish(w) \/ ErrandFits(errand[w], job'[w])
<1>1. TypeOK /\ ErrandFits(errand[w], job[w]) /\ job[w].pc = "read"
  BY DEF DeskInv, OrdersInv, ReadStatus
<1>2. CASE Finish(w)
  BY <1>2
<1>3. CASE ~Finish(w)
  <2>1. job' = [job EXCEPT ![w].seen = status[job[w].o], ![w].pc = "update"]
    BY <1>3 DEF ReadStatus
  <2>2. /\ job'[w].op = job[w].op /\ job'[w].to = job[w].to /\ job'[w].route = job[w].route
        /\ job'[w].pc = "update"
        /\ job'[w].draft = job[w].draft /\ job'[w].returned = job[w].returned
    BY <1>1, <2>1 DEF TypeOK, Job
  <2> QED BY <1>1, <2>2 DEF ErrandFits, OneEntry, PacksOnly
<1> QED BY <1>2, <1>3

LEMMA EnterFits ==
  ASSUME DeskInv, NEW w \in Worker, job[w].pc \in {"update", "walk"}, Enter(w)
  PROVE  ErrandFits(errand[w], job'[w])
<1> DEFINE r == job[w].route
           d == job[w].draft
<1>1. /\ TypeOK /\ ErrandFits(errand[w], job[w]) /\ job[w] \in Job /\ r # <<>>
      /\ r \in Seq(OrderStatus) /\ d \in Seq(OrderStatus)
  <2>1. TypeOK /\ ErrandFits(errand[w], job[w]) /\ job[w] \in Job /\ r # <<>>
    BY DEF DeskInv, OrdersInv, TypeOK, JobOK
  <2> QED BY <2>1 DEF Job
<1>2. /\ job'[w].op = job[w].op /\ job'[w].to = job[w].to
      /\ job'[w].seen = Head(r) /\ job'[w].route = Tail(r) /\ job'[w].draft = Append(d, Head(r))
      /\ job'[w].returned = (job[w].returned \/ releasesStock(job[w].seen, Head(r)))
      /\ job'[w].pc = IF Len(r) = 1 THEN "commit" ELSE "walk"
  BY <1>1, EnterFields
<1>3. OneEntry(job'[w])
  <2> SUFFICES ASSUME job[w].op = "move" PROVE OneEntry(job'[w])
    BY <1>2 DEF OneEntry
  <2>1. r = <<job[w].to>> /\ d = <<>>
    BY <1>1 DEF ErrandFits, OneEntry
  <2>2. Head(r) = job[w].to /\ Len(r) = 1 /\ Append(d, Head(r)) = <<job[w].to>>
    BY <2>1
  <2>3. job'[w].pc = "commit" /\ job'[w].seen = job[w].to /\ job'[w].draft = <<job[w].to>>
    BY <1>2, <2>2
  <2> QED BY <1>2, <2>3 DEF OneEntry
<1>4. errand[w] = "packing" => PacksOnly(job'[w])
  <2> HAVE errand[w] = "packing"
  <2>1. PacksOnly(job[w])
    BY <1>1 DEF ErrandFits
  <2>2. ToSet(r) \subseteq Forward /\ ToSet(d) \subseteq Forward /\ ~job[w].returned
    BY <2>1 DEF PacksOnly
  <2>3. /\ Head(r) \in Forward /\ ToSet(Tail(r)) \subseteq Forward
        /\ ToSet(Append(d, Head(r))) \subseteq Forward
    <3> HIDE DEF r, d
    <3>1. r \in Seq(OrderStatus) /\ r # <<>> /\ d \in Seq(OrderStatus)
      BY <1>1 DEF r, d
    <3>2. ToSet(r) \subseteq Forward /\ ToSet(d) \subseteq Forward
      BY <2>2 DEF r, d
    <3> QED BY ONLY <3>1, <3>2, RouteParts
  <2>4. ~job'[w].returned
    BY <1>2, <2>2, <2>3, ForwardKeepsCopies
  <2>5. job'[w].pc \in {"commit", "walk"}
    BY <1>2
  <2> QED BY <1>2, <2>1, <2>3, <2>4, <2>5 DEF PacksOnly
<1>5. job'[w].pc # "idle"
  BY <1>2
<1> QED BY <1>1, <1>2, <1>3, <1>4, <1>5 DEF ErrandFits

(* A request that is not about a move has no errand a desk would give. *)
LEMMA GoFits ==
  ASSUME DeskInv, NEW w \in Worker, NEW next,
         \/ Go(w, next) /\ next # "idle" /\ job[w].pc \in {"key", "receipt", "claim"}
         \/ Go(w, next) /\ next = "announce" /\ job[w].pc = "commit"
  PROVE  ErrandFits(errand[w], job'[w])
<1>1. TypeOK /\ ErrandFits(errand[w], job[w]) /\ job[w] \in Job
  BY DEF DeskInv, OrdersInv, TypeOK
<1>2. /\ job'[w].op = job[w].op /\ job'[w].to = job[w].to /\ job'[w].route = job[w].route
      /\ job'[w].pc = next /\ job'[w].seen = job[w].seen
      /\ job'[w].draft = job[w].draft /\ job'[w].returned = job[w].returned
  BY <1>1 DEF Go, TypeOK, Job
<1> QED BY <1>1, <1>2 DEF ErrandFits, OneEntry, PacksOnly

LEMMA RetakeFits ==
  ASSUME DeskInv, NEW w \in Worker, Retake(w)
  PROVE  Finish(w) \/ ErrandFits(errand[w], job'[w])
<1>1. TypeOK /\ ErrandFits(errand[w], job[w]) /\ job[w] \in Job /\ job[w].pc = "retake"
  BY DEF DeskInv, OrdersInv, TypeOK, Retake
<1>2. CASE Finish(w)
  BY <1>2
<1>3. CASE ~Finish(w)
  <2>1. job' = [job EXCEPT ![w].from = "CANCELLED", ![w].draft = <<"PENDING">>,
                           ![w].pc = "announce"]
    BY <1>3 DEF Retake
  <2>2. job'[w].op = job[w].op /\ job'[w].to = job[w].to /\ job'[w].pc = "announce"
    BY <1>1, <2>1 DEF TypeOK, Job
  <2> QED BY <1>1, <2>2 DEF ErrandFits, OneEntry, PacksOnly
<1> QED BY <1>2, <1>3

LEMMA WorkFits ==
  ASSUME DeskInv, NEW w \in Worker, Work(w)
  PROVE  \/ job'[w].pc = "idle" /\ ErrandFits("other", job'[w])
         \/ ErrandFits(errand[w], job'[w])
<1>0. TypeOK
  BY DEF DeskInv, OrdersInv
<1>1. ASSUME Finish(w) PROVE job'[w].pc = "idle" /\ ErrandFits("other", job'[w])
  BY <1>0, <1>1, FinishFits
<1>2. ASSUME FindByIdempotencyKey(w) \/ RejectReusedReceipt(w) \/ ReadForReopen(w)
      PROVE  Finish(w) \/ ErrandFits(errand[w], job'[w])
  BY <1>2, GoFits DEF FindByIdempotencyKey, RejectReusedReceipt, ReadForReopen
<1>3. ASSUME WriteOrder(w) PROVE Finish(w)
  BY <1>3 DEF WriteOrder
<1>4. ASSUME ReadBefore(w) \/ ReadStatus(w) \/ Retake(w)
      PROVE  Finish(w) \/ ErrandFits(errand[w], job'[w])
  BY <1>4, ReadBeforeFits, ReadStatusFits, RetakeFits
<1>5. ASSUME Update(w) \/ Walk(w) PROVE Finish(w) \/ ErrandFits(errand[w], job'[w])
  BY <1>5, EnterFits DEF Update, Walk
<1>6. ASSUME Commit(w) PROVE ErrandFits(errand[w], job'[w])
  BY <1>6, GoFits DEF Commit
<1> QED BY <1>1, <1>2, <1>3, <1>4, <1>5, <1>6 DEF Work

-----------------------------------------------------------------------------
(* The desk.  Every step of it is a step of module Orders, made by one     *)
(* request, or by none.                                                    *)

LEMMA OneRequest ==
  ASSUME DeskInv, [Next]_vars, NEW w \in Worker,
         \A v \in Worker : v # w => job'[v] = job[v],
         errand' \in [Worker -> Errands], \A v \in Worker : v # w => errand'[v] = errand[v],
         ErrandFits(errand'[w], job'[w]),
         rejected' \subseteq Order
  PROVE  DeskInv'
<1>1. OrdersInv'
  BY NextInv DEF DeskInv
<1>2. \A v \in Worker : ErrandFits(errand'[v], job'[v])
  BY DEF DeskInv
<1> QED BY <1>1, <1>2 DEF DeskInv, ErrandFits, OneEntry, PacksOnly

(* What the arrival of a request leaves in its job. *)
LEMMA Arrivals ==
  ASSUME TypeOK, NEW w \in Worker
  PROVE  /\ \A op, o, to : StartMove(w, op, o, to) =>
              /\ job[w].pc = "idle" /\ job'[w].op = op /\ job'[w].o = o /\ job'[w].to = to
              /\ job'[w].pc = "before" /\ job'[w].draft = <<>> /\ ~job'[w].returned
              /\ \A v \in Worker : v # w => job'[v] = job[v]
         /\ \A c : StartCheckout(w, c) =>
              /\ job[w].pc = "idle" /\ job'[w].op = "checkout" /\ job'[w].pc # "idle"
              /\ \A v \in Worker : v # w => job'[v] = job[v]
         /\ \A o : Cancel(w, o) =>
              /\ job[w].pc = "idle" /\ job'[w].op = "cancel" /\ job'[w].pc # "idle"
              /\ \A v \in Worker : v # w => job'[v] = job[v]
         /\ \A o : StartReopen(w, o) =>
              /\ job[w].pc = "idle" /\ job'[w].op = "reopen" /\ job'[w].pc # "idle"
              /\ \A v \in Worker : v # w => job'[v] = job[v]
<1>1. \A op, o, to : StartMove(w, op, o, to) =>
        /\ job[w].pc = "idle" /\ job'[w].op = op /\ job'[w].o = o /\ job'[w].to = to
        /\ job'[w].pc = "before" /\ job'[w].draft = <<>> /\ ~job'[w].returned
        /\ \A v \in Worker : v # w => job'[v] = job[v]
  BY DEF StartMove, TypeOK, Idle
<1>2. \A c : StartCheckout(w, c) =>
        /\ job[w].pc = "idle" /\ job'[w].op = "checkout" /\ job'[w].pc # "idle"
        /\ \A v \in Worker : v # w => job'[v] = job[v]
  BY DEF StartCheckout, TypeOK, Idle
<1>3. \A o : Cancel(w, o) =>
        /\ job[w].pc = "idle" /\ job'[w].op = "cancel" /\ job'[w].pc # "idle"
        /\ \A v \in Worker : v # w => job'[v] = job[v]
  BY DEF Cancel, TypeOK, Idle
<1>4. \A o : StartReopen(w, o) =>
        /\ job[w].pc = "idle" /\ job'[w].op = "reopen" /\ job'[w].pc # "idle"
        /\ \A v \in Worker : v # w => job'[v] = job[v]
  BY DEF StartReopen, TypeOK, Idle
<1> QED BY <1>1, <1>2, <1>3, <1>4

(* What a request may be told to do, given what it is for. *)
Asks(what, op, to) ==
  /\ what \in Errands \ {"other"} /\ op \in {"move", "advance"} /\ to \in OrderStatus
  /\ what = "packing" => to \in FULFILLMENT_TRANSITION_TARGETS
  /\ what \in {"confirm", "revert", "refund"} => op = "move"
  /\ what = "confirm" => to = PaidStatus
  /\ what = "revert" => to = "PENDING"
  /\ what = "refund" => to = "REFUNDED"

LEMMA AskInv ==
  ASSUME DeskInv, NEW w \in Worker, NEW what, NEW op, NEW o \in Order, NEW to,
         Asks(what, op, to), Ask(w, what, op, o, to)
  PROVE  DeskInv' /\ Next
<1>0. TypeOK /\ errand \in [Worker -> Errands] /\ rejected \subseteq Order
  BY DEF DeskInv, OrdersInv
<1>1. StartMove(w, op, o, to) /\ errand' = [errand EXCEPT ![w] = what] /\ rejected' = rejected
  BY DEF Ask
<1>2. Next
  BY <1>1 DEF Next, Serve, Arrive, Asks
<1>3. /\ job'[w].op = op /\ job'[w].to = to /\ job'[w].pc = "before"
      /\ job'[w].draft = <<>> /\ ~job'[w].returned
      /\ \A v \in Worker : v # w => job'[v] = job[v]
  BY <1>0, <1>1, Arrivals
<1>4. ErrandFits(what, job'[w])
  <2>1. OneEntry(job'[w])
    BY <1>3 DEF OneEntry
  <2>2. ToSet(job'[w].draft) = {}
    BY <1>3 DEF ToSet
  <2>3. what = "packing" => PacksOnly(job'[w])
    BY <1>3, <2>2 DEF Asks, PacksOnly
  <2> QED BY <1>3, <2>1, <2>3 DEF Asks, ErrandFits
<1>5. /\ errand' \in [Worker -> Errands] /\ errand'[w] = what
      /\ \A v \in Worker : v # w => errand'[v] = errand[v]
  BY <1>0, <1>1 DEF Asks
<1> QED BY <1>0, <1>1, <1>2, <1>3, <1>4, <1>5, OneRequest

(* Where the packing table sends an order is one of its two statuses. *)
LEMMA PackersAsk ==
  ASSUME DeskInv, NEW o \in Order, Exists(o), NEW op \in {"move", "advance"},
         NEW to \in OrderStatus, FulfillmentMay(status[o], Entering(o, op, to))
  PROVE  to \in FULFILLMENT_TRANSITION_TARGETS
<1> DEFINE e == Entering(o, op, to)
<1>1. e # <<>> /\ ToSet(e) \subseteq FULFILLMENT_TRANSITION_TARGETS
  BY DEF FulfillmentMay
<1>2. CASE op = "advance" /\ IsReachable(status[o], to)
  <2>1. status[o] \in OrderStatus
    BY DEF DeskInv, OrdersInv, TypeOK, Exists
  <2>2. e = forwardPathTo(status[o], to) /\ e \in Routes(status[o], to)
    BY <1>2, <2>1, ForwardPathIsShortest DEF Entering, ShortestRoutes
  <2> HIDE DEF e
  <2>3. e \in Seq(OrderStatus) /\ e[Len(e)] = to
    BY <1>1, <2>1, <2>2, RouteShape
  <2>4. Len(e) \in DOMAIN e
    BY <1>1, <2>3, EmptySeq
  <2> QED BY <1>1, <2>3, <2>4 DEF ToSet
<1>3. CASE ~(op = "advance" /\ IsReachable(status[o], to))
  <2>1. e = <<to>>
    BY <1>3 DEF Entering
  <2> HIDE DEF e
  <2> QED BY <1>1, <2>1 DEF ToSet
<1> QED BY <1>2, <1>3

LEMMA AdminTransitionInv ==
  ASSUME DeskInv, NEW w \in Worker, NEW o \in Order, AdminTransition(w, o)
  PROVE  DeskInv' /\ Next
<1>1. PICK role \in Roles, to \in OrderStatus, op \in {"move", "advance"} :
        /\ role = "packing" => FulfillmentMay(status[o], Entering(o, op, to))
        /\ Ask(w, role, op, o, to)
  BY DEF AdminTransition
<1>2. Exists(o)
  BY <1>1 DEF Ask, StartMove
<1>3. role = "packing" => to \in FULFILLMENT_TRANSITION_TARGETS
  BY <1>1, <1>2, PackersAsk
<1>4. Asks(role, op, to)
  BY <1>3 DEF Asks, Errands
<1> QED BY <1>1, <1>4, AskInv

(* The endpoints of one direction. *)
LEMMA EndpointsInv ==
  ASSUME DeskInv, NEW w \in Worker, NEW o \in Order,
         ConfirmPayment(w, o) \/ RevertConfirmation(w, o) \/ RecordRefund(w, o)
  PROVE  DeskInv' /\ Next
<1>1. ASSUME ConfirmPayment(w, o) PROVE DeskInv' /\ Next
  <2>1. Asks("confirm", "move", "PAYMENT_CONFIRMED")
    BY DEF Asks, Errands, OrderStatus, PaidStatus
  <2> QED BY <1>1, <2>1, AskInv DEF ConfirmPayment
<1>2. ASSUME RevertConfirmation(w, o) PROVE DeskInv' /\ Next
  <2>1. Asks("revert", "move", "PENDING")
    BY DEF Asks, Errands, OrderStatus, PaidStatus
  <2> QED BY <1>2, <2>1, AskInv DEF RevertConfirmation
<1>3. ASSUME RecordRefund(w, o) PROVE DeskInv' /\ Next
  <2>1. Asks("refund", "move", "REFUNDED")
    BY DEF Asks, Errands, OrderStatus, PaidStatus
  <2> QED BY <1>3, <2>1, AskInv DEF RecordRefund
<1> QED BY <1>1, <1>2, <1>3

(* Requests without an errand. *)
LEMMA OtherArrivalsInv ==
  ASSUME DeskInv, NEW w \in Worker,
         CustomerArrives(w) \/ \E o \in Order : AdminReopen(w, o)
  PROVE  DeskInv' /\ Next
<1>0. TypeOK /\ errand' = errand /\ rejected' = rejected
  BY DEF DeskInv, OrdersInv, CustomerArrives, AdminReopen, deskVars
<1>1. \/ \E c \in Cart : StartCheckout(w, c)
      \/ \E o \in Order : Cancel(w, o) \/ StartReopen(w, o)
  BY DEF CustomerArrives, AdminReopen
<1>2. Next
  BY <1>1 DEF Next, Serve, Arrive
<1>3. /\ job[w].pc = "idle" /\ job'[w].op \in {"checkout", "cancel", "reopen"}
      /\ \A v \in Worker : v # w => job'[v] = job[v]
  BY <1>0, <1>1, Arrivals
<1>4. errand[w] = "other"
  BY <1>3 DEF DeskInv, ErrandFits
<1>5. ErrandFits(errand'[w], job'[w])
  BY <1>0, <1>3, <1>4 DEF ErrandFits, OneEntry
<1> QED BY <1>0, <1>2, <1>3, <1>5, OneRequest DEF DeskInv

LEMMA DeskWorkInv ==
  ASSUME DeskInv, NEW w \in Worker, DeskWork(w)
  PROVE  DeskInv' /\ Next
<1>0. TypeOK /\ Work(w) /\ errand' = StillFor(w) /\ errand \in [Worker -> Errands]
  BY DEF DeskInv, OrdersInv, DeskWork
<1>1. Next
  BY <1>0 DEF Next, Serve
<1>2. \A v \in Worker : v # w => job'[v] = job[v]
  BY <1>0, OthersWait
<1>3. errand' \in [Worker -> Errands] /\ \A v \in Worker : v # w => errand'[v] = errand[v]
  BY <1>0 DEF StillFor, Errands
<1>4. ErrandFits(errand'[w], job'[w])
  <2>1. CASE job'[w].pc = "idle"
    <3>1. errand'[w] = "other"
      BY <1>0, <2>1 DEF StillFor
    <3>2. ErrandFits(errand[w], job'[w]) => ErrandFits("other", job'[w])
      BY DEF ErrandFits
    <3> QED BY <1>0, <3>1, <3>2, WorkFits
  <2>2. CASE job'[w].pc # "idle"
    BY <1>0, <2>2, WorkFits DEF StillFor
  <2> QED BY <2>1, <2>2
<1>5. rejected' \subseteq Order
  BY DEF DeskWork, DeskInv
<1> QED BY <1>1, <1>2, <1>3, <1>4, <1>5, OneRequest

LEMMA DeskAnnounceInv ==
  ASSUME DeskInv, NEW w \in Worker, DeskAnnounce(w)
  PROVE  DeskInv' /\ Next
<1>0. /\ TypeOK /\ Announce(w) /\ Finish(w) /\ errand' = StillFor(w)
      /\ errand \in [Worker -> Errands] /\ job[w].o \in Order
  BY DEF DeskInv, OrdersInv, DeskAnnounce, Announce, JobOK
<1>1. Next
  BY <1>0 DEF Next
<1>2. \A v \in Worker : v # w => job'[v] = job[v]
  BY <1>0 DEF Finish, TypeOK
<1>3. job'[w].pc = "idle" /\ ErrandFits("other", job'[w])
  BY <1>0, FinishFits
<1>4. /\ errand' \in [Worker -> Errands] /\ errand'[w] = "other"
      /\ \A v \in Worker : v # w => errand'[v] = errand[v]
  BY <1>0, <1>3 DEF StillFor, Errands
<1>5. rejected' \subseteq Order
  BY <1>0 DEF DeskAnnounce, DeskInv
<1> QED BY <1>1, <1>2, <1>3, <1>4, <1>5, OneRequest

LEMMA DeskCrashInv ==
  ASSUME DeskInv, DeskCrash
  PROVE  DeskInv' /\ Next
<1>1. Next
  BY DEF DeskCrash, Next
<1>2. OrdersInv'
  BY <1>1, NextInv DEF DeskInv
<1>3. \A w \in Worker : job'[w] = Idle /\ errand'[w] = "other"
  BY DEF DeskCrash, Crash
<1>4. ErrandFits("other", Idle)
  BY DEF ErrandFits, OneEntry, Idle
<1>5. \A w \in Worker : ErrandFits(errand'[w], job'[w])
  BY <1>3, <1>4
<1>6. errand' \in [Worker -> Errands] /\ rejected' \subseteq Order
  BY DEF DeskCrash, DeskInv, Errands
<1> QED BY <1>1, <1>2, <1>5, <1>6 DEF DeskInv, ErrandFits, OneEntry, PacksOnly

(* Steps that are about no request of the desk. *)
LEMMA ElsewhereInv ==
  ASSUME DeskInv, UNCHANGED deskVars,
         UNCHANGED vars \/ \E b \in Book : WaitlistHolds(b)
  PROVE  DeskInv' /\ [Next]_vars
<1>1. [Next]_vars /\ job' = job
  BY DEF Next, vars, WaitlistHolds
<1>2. OrdersInv'
  BY <1>1, NextInv DEF DeskInv
<1> QED BY <1>1, <1>2 DEF DeskInv, deskVars, ErrandFits, OneEntry, PacksOnly

LEMMA DeskNextInv == DeskInv /\ [DeskNext]_<<vars, deskVars>> => DeskInv' /\ [Next]_vars
<1> SUFFICES ASSUME DeskInv, [DeskNext]_<<vars, deskVars>> PROVE DeskInv' /\ [Next]_vars
  OBVIOUS
<1>1. ASSUME NEW w \in Worker, CustomerArrives(w) PROVE DeskInv' /\ Next
  BY <1>1, OtherArrivalsInv
<1>2. ASSUME NEW w \in Worker, NEW o \in Order, AdminTransition(w, o) PROVE DeskInv' /\ Next
  BY <1>2, AdminTransitionInv
<1>3. ASSUME NEW w \in Worker, NEW o \in Order,
             ConfirmPayment(w, o) \/ RevertConfirmation(w, o) \/ RecordRefund(w, o)
      PROVE  DeskInv' /\ Next
  BY <1>3, EndpointsInv
<1>4. ASSUME NEW w \in Worker, NEW o \in Order, AdminReopen(w, o) PROVE DeskInv' /\ Next
  BY <1>4, OtherArrivalsInv
<1>5. ASSUME NEW w \in Worker, DeskWork(w) PROVE DeskInv' /\ Next
  BY <1>5, DeskWorkInv
<1>6. ASSUME NEW w \in Worker, DeskAnnounce(w) PROVE DeskInv' /\ Next
  BY <1>6, DeskAnnounceInv
<1>7. ASSUME NEW b \in Book, WaitlistHolds(b), UNCHANGED deskVars PROVE DeskInv' /\ [Next]_vars
  BY <1>7, ElsewhereInv
<1>8. CASE DeskCrash
  BY <1>8, DeskCrashInv
<1>9. CASE UNCHANGED <<vars, deskVars>>
  BY <1>9, ElsewhereInv
<1> QED BY <1>1, <1>2, <1>3, <1>4, <1>5, <1>6, <1>7, <1>8, <1>9 DEF DeskNext

LEMMA DeskInitInv == DeskInit => DeskInv
<1> SUFFICES ASSUME DeskInit PROVE DeskInv
  OBVIOUS
<1>1. OrdersInv /\ \A w \in Worker : job[w] = Idle
  BY InitInv DEF DeskInit, Init
<1>2. ErrandFits("other", Idle)
  BY DEF ErrandFits, OneEntry, Idle
<1> QED BY <1>1, <1>2 DEF DeskInit, DeskInv, Errands

(* The inductive invariant of the desk: what each request is for and how   *)
(* far it has got.                                                         *)
THEOREM DeskInvariant == DeskSpec => []DeskInv
BY DeskInitInv, DeskNextInv, PTL DEF DeskSpec

(* The desk adds no way of changing an order: it implements module Orders. *)
THEOREM DeskRefinesOrders == DeskSpec => Spec
<1>1. DeskInit => Init
  BY DEF DeskInit
<1>2. DeskInv /\ [DeskNext]_<<vars, deskVars>> => [Next]_vars
  BY DeskNextInv
<1> QED BY <1>1, <1>2, DeskInvariant, PTL DEF DeskSpec, Spec

(* However long ago the packing table judged by what it read, a packer's   *)
(* request carries an order forward only: it closes nothing, withdraws     *)
(* nothing and gives no copies back (fulfillment-scope.ts).                *)
THEOREM PackersGoForward == DeskSpec => []PackersOnlyGoForward
<1>1. DeskInv => PackersOnlyGoForward
  BY DEF DeskInv, ErrandFits, PacksOnly, PackersOnlyGoForward, EntersOnly, Forward
<1> QED BY <1>1, DeskInvariant, PTL

-----------------------------------------------------------------------------
(* Payments.  What a step of a request does to the row it is about.        *)

(* A refunded order stays refunded: no edge leaves REFUNDED, a reopening   *)
(* wants CANCELLED, and an insertion a row that is not there yet.          *)
LEMMA RefundedStays ==
  ASSUME OrdersInv, [Next]_vars, NEW o \in Order, status[o] = "REFUNDED"
  PROVE  status'[o] = "REFUNDED"
<1>0. TypeOK
  BY DEF OrdersInv
<1>1. CASE UNCHANGED <<orderVars, stock>>
  BY <1>1 DEF orderVars
<1>2. ASSUME NEW w \in Worker, WriteOrder(w) PROVE status'[o] = "REFUNDED"
  BY <1>0, <1>2 DEF WriteOrder, TypeOK, Exists, orderVars
<1>3. ASSUME NEW w \in Worker, Commit(w) PROVE status'[o] = "REFUNDED"
  <2>1. DraftIsAWalk(w) /\ job[w].o \in Order
    BY <1>3 DEF Commit, OrdersInv, JobOK
  <2>2. job[w].o # o
    <3> SUFFICES ASSUME job[w].o = o PROVE FALSE
      OBVIOUS
    <3>1. canTransition("REFUNDED", job[w].draft[1])
      BY <2>1 DEF DraftIsAWalk
    <3> QED BY <3>1, MachineType DEF OrderStatus
  <2> QED BY <1>0, <1>3, <2>2 DEF Commit, TypeOK
<1>4. ASSUME NEW w \in Worker, Retake(w) PROVE status'[o] = "REFUNDED"
  BY <1>0, <1>4 DEF Retake, MayRetake, TypeOK, orderVars
<1> QED BY <1>1, <1>2, <1>3, <1>4, OnlyThreeWrite

(* A statement of a request is about the order the request is about. *)
LEMMA SameOrder ==
  ASSUME TypeOK, NEW w \in Worker, Work(w)
  PROVE  Finish(w) \/ job'[w].o = job[w].o
<1>1. ASSUME NEW next, Go(w, next) PROVE job'[w].o = job[w].o
  BY <1>1 DEF Go, TypeOK, Job
<1>2. ASSUME FindByIdempotencyKey(w) \/ RejectReusedReceipt(w) \/ WriteOrder(w) \/ Commit(w)
             \/ ReadForReopen(w)
      PROVE  Finish(w) \/ \E next : Go(w, next)
  BY <1>2 DEF FindByIdempotencyKey, RejectReusedReceipt, WriteOrder, Commit, ReadForReopen
<1>3. ASSUME Enter(w) PROVE job'[w].o = job[w].o
  BY <1>3, EnterFields
<1>4. ASSUME Update(w) \/ Walk(w) PROVE Finish(w) \/ Enter(w)
  BY <1>4 DEF Update, Walk
<1>5. ASSUME ReadBefore(w), ~Finish(w) PROVE job'[w].o = job[w].o
  BY <1>5 DEF ReadBefore, TypeOK, Job
<1>6. ASSUME ReadStatus(w), ~Finish(w) PROVE job'[w].o = job[w].o
  BY <1>6 DEF ReadStatus, TypeOK, Job
<1>7. ASSUME Retake(w), ~Finish(w) PROVE job'[w].o = job[w].o
  <2>1. job' = [job EXCEPT ![w].from = "CANCELLED", ![w].draft = <<"PENDING">>,
                           ![w].pc = "announce"]
    BY <1>7 DEF Retake
  <2> QED BY <2>1 DEF TypeOK, Job
<1> QED BY <1>1, <1>2, <1>3, <1>4, <1>5, <1>6, <1>7 DEF Work

(* Of its statements only the last writes the order's status. *)
LEMMA CommitWrites ==
  ASSUME TypeOK, NEW w \in Worker, Work(w), Committed(w)
  PROVE  Commit(w) /\ status' = [status EXCEPT ![job[w].o] = job[w].seen]
BY DEF Work, FindByIdempotencyKey, RejectReusedReceipt, WriteOrder, ReadBefore, ReadStatus,
       Update, Walk, Commit, ReadForReopen, Retake, Committed

(* A request with an errand that commits has entered what it was sent for. *)
LEMMA ErrandCommits ==
  ASSUME DeskInv, NEW w \in Worker, Work(w), Committed(w), errand[w] \in {"revert", "refund"}
  PROVE  /\ job[w].o \in Order /\ job[w].draft = <<job[w].to>> /\ job[w].to \in OrderStatus
         /\ status'[job[w].o] = job[w].to
         /\ status[job[w].o] \in OrderStatus /\ canTransition(status[job[w].o], job[w].to)
<1>1. TypeOK /\ ErrandFits(errand[w], job[w]) /\ job[w].pc = "commit" /\ job[w] \in Job
  BY DEF DeskInv, OrdersInv, TypeOK, Committed
<1>2. job[w].draft = <<job[w].to>> /\ job[w].seen = job[w].to
  BY <1>1 DEF ErrandFits, OneEntry
<1>3. job[w].o \in Order /\ Exists(job[w].o) /\ DraftIsAWalk(w)
  BY <1>1 DEF DeskInv, OrdersInv, JobOK
<1>4. status' = [status EXCEPT ![job[w].o] = job[w].seen]
  BY <1>1, CommitWrites
<1>5. status'[job[w].o] = job[w].to
  BY <1>1, <1>2, <1>3, <1>4 DEF TypeOK
<1>6. status[job[w].o] \in OrderStatus /\ job[w].to \in OrderStatus
  BY <1>1, <1>3 DEF TypeOK, Exists, Job
<1>7. canTransition(status[job[w].o], job[w].draft[1])
  BY <1>3 DEF DraftIsAWalk
<1> QED BY <1>2, <1>3, <1>5, <1>6, <1>7

(* No row of an idle request is voided. *)
LEMMA IdleVoidsNothing ==
  ASSUME PayInv, NEW w \in Worker, job[w].pc \in {"idle", "announce"}
  PROVE  ~voids[w]
BY DEF PayInv, VoidsHeld

(* The order of a voided row is there. *)
LEMMA VoidsOfOrders ==
  ASSUME PayInv, NEW w \in Worker, voids[w]
  PROVE  job[w].o \in Order
BY DEF PayInv, VoidsHeld, DeskInv, OrdersInv, JobOK

-----------------------------------------------------------------------------
(* Steps that void nothing and free nothing. *)
LEMMA RowsStay ==
  ASSUME PayInv, DeskInv', [Next]_vars, refunds' = refunds, voids' = voids,
         slip' \in [Order -> {"none", "SUCCEEDED", "FAILED"}],
         \A o \in Order : slip[o] = "SUCCEEDED" => slip'[o] = "SUCCEEDED",
         \A w \in Worker : voids[w] => job'[w] = job[w] /\ errand'[w] = errand[w]
  PROVE  PayInv'
<1>1. VoidsHeld'
  <2>1. ASSUME NEW w \in Worker, voids[w]
        PROVE  /\ errand'[w] = "revert" /\ slip'[job'[w].o] = "SUCCEEDED"
               /\ job'[w].pc \in {"before", "read", "update", "commit"} /\ job'[w] = job[w]
    BY <2>1, VoidsOfOrders DEF PayInv, VoidsHeld
  <2>2. ASSUME NEW v \in Worker, NEW w \in Worker, voids[v], voids[w], job'[v].o = job'[w].o
        PROVE  v = w
    BY <2>1, <2>2 DEF PayInv, VoidsHeld
  <2> QED BY <2>1, <2>2 DEF VoidsHeld
<1>2. RefundRowOnlyOnRefunded'
  BY RefundedStays DEF PayInv, DeskInv, RefundRowOnlyOnRefunded
<1> QED BY <1>1, <1>2 DEF PayInv

(* A request that arrives was idle, and the others wait. *)
LEMMA ArrivalKeepsVoids ==
  ASSUME PayInv, NEW w \in Worker,
         \/ \E what, op, to, o : Ask(w, what, op, o, to)
         \/ DeskArrives(w)
  PROVE  \A v \in Worker : voids[v] => job'[v] = job[v] /\ errand'[v] = errand[v]
<1>0. TypeOK /\ errand \in [Worker -> Errands]
  BY DEF PayInv, DeskInv, OrdersInv
<1>1. /\ job[w].pc = "idle"
      /\ \A v \in Worker : v # w => job'[v] = job[v] /\ errand'[v] = errand[v]
  <2>1. ASSUME NEW what, NEW op, NEW to, NEW o, Ask(w, what, op, o, to)
        PROVE  /\ job[w].pc = "idle"
               /\ \A v \in Worker : v # w => job'[v] = job[v] /\ errand'[v] = errand[v]
    <3>1. StartMove(w, op, o, to) /\ errand' = [errand EXCEPT ![w] = what]
      BY <2>1 DEF Ask
    <3> QED BY <1>0, <3>1, Arrivals
  <2>2. ASSUME CustomerArrives(w) \/ \E o \in Order : AdminReopen(w, o)
        PROVE  /\ job[w].pc = "idle"
               /\ \A v \in Worker : v # w => job'[v] = job[v] /\ errand'[v] = errand[v]
    <3>1. /\ errand' = errand
          /\ \/ \E c \in Cart : StartCheckout(w, c)
             \/ \E o \in Order : Cancel(w, o) \/ StartReopen(w, o)
      BY <2>2 DEF CustomerArrives, AdminReopen, deskVars
    <3> QED BY <1>0, <3>1, Arrivals
  <2> QED BY <2>1, <2>2 DEF DeskArrives, AdminTransition
<1> QED BY <1>1, IdleVoidsNothing

LEMMA RecordInv ==
  ASSUME PayInv, NEW w \in Worker, NEW o \in Order, NEW outcome \in Outcomes,
         Record(w, o, outcome)
  PROVE  PayInv' /\ [DeskNext]_<<vars, deskVars>>
<1>1. /\ slip' \in [Order -> {"none", "SUCCEEDED", "FAILED"}]
      /\ \A x \in Order : slip[x] = "SUCCEEDED" => slip'[x] = "SUCCEEDED"
      /\ refunds' = refunds /\ voids' = voids
  BY DEF Record, PayInv
<1>2. CASE Ask(w, "confirm", "move", o, PaidStatus)
  <2>1. ConfirmPayment(w, o)
    BY <1>2 DEF ConfirmPayment, PaidStatus
  <2>2. DeskInv' /\ Next
    BY <2>1, EndpointsInv DEF PayInv
  <2>3. \A v \in Worker : voids[v] => job'[v] = job[v] /\ errand'[v] = errand[v]
    BY <1>2, ArrivalKeepsVoids
  <2>4. PayInv'
    BY <1>1, <2>2, <2>3, RowsStay
  <2>5. DeskNext
    BY <2>1 DEF DeskNext
  <2> QED BY <2>4, <2>5
<1>3. CASE UNCHANGED <<vars, deskVars>>
  <2>1. DeskInv' /\ [Next]_vars
    BY <1>3, ElsewhereInv DEF PayInv
  <2>2. job' = job /\ errand' = errand
    BY <1>3 DEF vars, deskVars
  <2>3. PayInv'
    BY <1>1, <2>1, <2>2, RowsStay
  <2> QED BY <1>3, <2>3
<1> QED BY <1>2, <1>3 DEF Record

LEMMA StartRefundInv ==
  ASSUME PayInv, NEW w \in Worker, NEW o \in Order, StartRefund(w, o)
  PROVE  PayInv' /\ DeskNext
<1>1. RecordRefund(w, o) /\ UNCHANGED payVars
  BY DEF StartRefund
<1>2. DeskInv' /\ Next
  BY <1>1, EndpointsInv DEF PayInv
<1>3. \A v \in Worker : voids[v] => job'[v] = job[v] /\ errand'[v] = errand[v]
  BY <1>1, ArrivalKeepsVoids DEF RecordRefund
<1>4. slip' = slip /\ refunds' = refunds /\ voids' = voids
  BY <1>1 DEF payVars
<1>5. PayInv'
  BY <1>2, <1>3, <1>4, RowsStay DEF PayInv
<1>6. DeskNext
  BY <1>1 DEF DeskNext
<1> QED BY <1>5, <1>6

LEMMA DeskArrivesInv ==
  ASSUME PayInv, NEW w \in Worker, DeskArrives(w)
  PROVE  PayInv' /\ DeskNext
<1>1. DeskNext /\ UNCHANGED payVars
  BY DEF DeskArrives, DeskNext
<1>2. DeskInv' /\ [Next]_vars
  BY <1>1, DeskNextInv DEF PayInv
<1>3. \A v \in Worker : voids[v] => job'[v] = job[v] /\ errand'[v] = errand[v]
  BY ArrivalKeepsVoids
<1>4. slip' = slip /\ refunds' = refunds /\ voids' = voids
  BY <1>1 DEF payVars
<1>5. PayInv'
  BY <1>2, <1>3, <1>4, RowsStay DEF PayInv
<1> QED BY <1>1, <1>5

(* The withdrawal takes the SUCCEEDED row of its order, which no other     *)
(* withdrawal has.                                                         *)
LEMMA StartRevertInv ==
  ASSUME PayInv, NEW w \in Worker, NEW o \in Order, StartRevert(w, o)
  PROVE  PayInv' /\ DeskNext
<1>0. TypeOK /\ errand \in [Worker -> Errands]
  BY DEF PayInv, DeskInv, OrdersInv
<1>1. /\ RevertConfirmation(w, o) /\ ~SlipLocked(o)
      /\ voids' = [voids EXCEPT ![w] = slip[o] = "SUCCEEDED"]
      /\ slip' = slip /\ refunds' = refunds
  BY DEF StartRevert
<1>2. DeskInv' /\ Next
  BY <1>1, EndpointsInv DEF PayInv
<1>3. DeskNext
  BY <1>1 DEF DeskNext
<1>4. StartMove(w, "move", o, "PENDING") /\ errand' = [errand EXCEPT ![w] = "revert"]
  BY <1>1 DEF RevertConfirmation, Ask
<1>5. /\ job'[w].o = o /\ job'[w].pc = "before" /\ errand'[w] = "revert"
      /\ \A v \in Worker : v # w => job'[v] = job[v] /\ errand'[v] = errand[v]
  BY <1>0, <1>4, Arrivals
<1>6. /\ voids' \in [Worker -> BOOLEAN] /\ voids'[w] = (slip[o] = "SUCCEEDED")
      /\ \A v \in Worker : v # w => voids'[v] = voids[v]
  BY <1>1 DEF PayInv
<1>7. ASSUME NEW v \in Worker, v # w, voids[v]
      PROVE  job[v].o # o /\ errand[v] = "revert" /\ slip[job[v].o] = "SUCCEEDED"
             /\ job[v].pc \in {"before", "read", "update", "commit"}
  BY <1>1, <1>7 DEF PayInv, VoidsHeld, SlipLocked
<1>8. VoidsHeld'
  <2>1. ASSUME NEW v \in Worker, voids'[v]
        PROVE  /\ errand'[v] = "revert" /\ slip'[job'[v].o] = "SUCCEEDED"
               /\ job'[v].pc \in {"before", "read", "update", "commit"}
    <3>1. CASE v = w
      <4>1. slip[o] = "SUCCEEDED"
        BY <1>6, <2>1, <3>1
      <4> QED BY <1>1, <1>5, <3>1, <4>1
    <3>2. CASE v # w
      <4>1. voids[v]
        BY <1>6, <2>1, <3>2
      <4> QED BY <1>1, <1>5, <1>7, <3>2, <4>1
    <3> QED BY <3>1, <3>2
  <2>2. ASSUME NEW u \in Worker, NEW v \in Worker, voids'[u], voids'[v], job'[u].o = job'[v].o
        PROVE  u = v
    BY <1>5, <1>6, <1>7, <2>2 DEF PayInv, VoidsHeld
  <2> QED BY <2>1, <2>2 DEF VoidsHeld
<1>9. RefundRowOnlyOnRefunded'
  BY <1>1, <1>2, RefundedStays DEF PayInv, DeskInv, RefundRowOnlyOnRefunded
<1> QED BY <1>1, <1>2, <1>3, <1>6, <1>8, <1>9 DEF PayInv

(* What a transaction wrote to payments ends with it, one way or the       *)
(* other.                                                                  *)
LEMMA PaymentWorkInv ==
  ASSUME PayInv, NEW w \in Worker, PaymentWork(w)
  PROVE  PayInv' /\ DeskNext
<1>0. /\ TypeOK /\ errand \in [Worker -> Errands] /\ Work(w) /\ DeskInv
      /\ voids \in [Worker -> BOOLEAN]
  BY DEF PayInv, DeskInv, OrdersInv, PaymentWork, DeskWork
<1>1. DeskNext
  BY DEF PaymentWork, DeskNext
<1>2. DeskInv' /\ [Next]_vars
  BY <1>0, <1>1, DeskNextInv
<1>3. \A v \in Worker : v # w => job'[v] = job[v] /\ errand'[v] = errand[v]
  BY <1>0, OthersWait DEF PaymentWork, DeskWork, StillFor
<1>4. /\ voids' \in [Worker -> BOOLEAN]
      /\ \A v \in Worker : v # w => voids'[v] = voids[v]
      /\ Ended(w) => ~voids'[w]
      /\ ~Ended(w) => voids'[w] = voids[w]
  BY <1>0 DEF PaymentWork
<1>5. slip' \in [Order -> {"none", "SUCCEEDED", "FAILED"}]
  BY DEF PaymentWork, PayInv
<1>6. ASSUME NEW v \in Worker, v # w, voids[v] PROVE slip'[job[v].o] = "SUCCEEDED"
  <2>1. slip[job[v].o] = "SUCCEEDED" /\ job[v].o \in Order
    BY <1>6, VoidsOfOrders DEF PayInv, VoidsHeld
  <2>2. voids[w] => job[w].o # job[v].o
    BY <1>6 DEF PayInv, VoidsHeld
  <2> QED BY <2>1, <2>2 DEF PaymentWork, Voided, PayInv
<1>7. ASSUME voids'[w]
      PROVE  /\ voids[w] /\ job'[w].o = job[w].o /\ errand'[w] = "revert"
             /\ slip'[job'[w].o] = "SUCCEEDED"
             /\ job'[w].pc \in {"before", "read", "update", "commit"}
  <2>1. ~Ended(w) /\ voids[w]
    BY <1>4, <1>7
  <2>2. job'[w].pc \notin {"idle", "announce"}
    BY <2>1 DEF Ended
  <2>3. ~Finish(w)
    BY <1>0, <2>2, FinishFits
  <2>4. job'[w].o = job[w].o
    BY <1>0, <2>3, SameOrder
  <2>5. errand'[w] = errand[w] /\ errand[w] = "revert" /\ slip[job[w].o] = "SUCCEEDED"
    BY <2>1, <2>2 DEF PaymentWork, DeskWork, StillFor, PayInv, VoidsHeld
  <2>6. slip' = slip
    BY <2>2 DEF PaymentWork, Voided, Committed
  <2>7. job'[w].pc \in {"before", "read", "update", "commit"}
    BY <1>2, <2>2, <2>5 DEF DeskInv, ErrandFits, OneEntry
  <2> QED BY <2>1, <2>4, <2>5, <2>6, <2>7
<1>8. VoidsHeld'
  <2>1. ASSUME NEW v \in Worker, voids'[v]
        PROVE  /\ errand'[v] = "revert" /\ slip'[job'[v].o] = "SUCCEEDED"
               /\ job'[v].pc \in {"before", "read", "update", "commit"}
    BY <1>3, <1>4, <1>6, <1>7, <2>1 DEF PayInv, VoidsHeld
  <2>2. ASSUME NEW u \in Worker, NEW v \in Worker, voids'[u], voids'[v], job'[u].o = job'[v].o
        PROVE  u = v
    <3>1. voids[u] /\ voids[v] /\ job'[u].o = job[u].o /\ job'[v].o = job[v].o
      BY <1>3, <1>4, <1>7, <2>2
    <3> QED BY <2>2, <3>1 DEF PayInv, VoidsHeld
  <2> QED BY <2>1, <2>2 DEF VoidsHeld
<1>9. refunds' \subseteq Order /\ RefundRowOnlyOnRefunded'
  <2>1. refunds' = refunds \cup RefundRows(w)
    BY DEF PaymentWork
  <2>2. ASSUME NEW o \in refunds PROVE o \in Order /\ status'[o] = "REFUNDED"
    BY <1>0, <1>2, RefundedStays DEF PayInv, DeskInv, RefundRowOnlyOnRefunded
  <2>3. ASSUME NEW o \in RefundRows(w) PROVE o \in Order /\ status'[o] = "REFUNDED"
    <3>1. Committed(w) /\ errand[w] = "refund" /\ o = job[w].o
      BY DEF RefundRows
    <3>2. job[w].o \in Order /\ status'[job[w].o] = job[w].to
      BY <1>0, <3>1, ErrandCommits
    <3>3. job[w].to = "REFUNDED"
      BY <1>0, <3>1 DEF DeskInv, ErrandFits
    <3> QED BY <3>1, <3>2, <3>3
  <2> QED BY <2>1, <2>2, <2>3 DEF RefundRowOnlyOnRefunded
<1> QED BY <1>1, <1>2, <1>4, <1>5, <1>8, <1>9 DEF PayInv

LEMMA PaymentAnnounceInv ==
  ASSUME PayInv, NEW w \in Worker, PaymentAnnounce(w)
  PROVE  PayInv' /\ DeskNext
<1>0. /\ TypeOK /\ errand \in [Worker -> Errands] /\ DeskInv /\ Announce(w)
      /\ errand' = StillFor(w)
  BY DEF PayInv, DeskInv, OrdersInv, PaymentAnnounce, DeskAnnounce
<1>1. DeskNext /\ slip' = slip /\ refunds' = refunds /\ voids' = voids
  BY DEF PaymentAnnounce, DeskNext, payVars
<1>2. DeskInv' /\ [Next]_vars
  BY <1>0, <1>1, DeskNextInv
<1>3. ~voids[w]
  BY <1>0, IdleVoidsNothing DEF Announce
<1>4. \A v \in Worker : v # w => job'[v] = job[v] /\ errand'[v] = errand[v]
  BY <1>0 DEF Announce, Finish, StillFor, TypeOK
<1>5. \A v \in Worker : voids[v] => job'[v] = job[v] /\ errand'[v] = errand[v]
  BY <1>3, <1>4
<1>6. PayInv'
  BY <1>1, <1>2, <1>5, RowsStay DEF PayInv
<1> QED BY <1>1, <1>6

LEMMA PaymentCrashInv ==
  ASSUME PayInv, PaymentCrash
  PROVE  PayInv' /\ DeskNext
<1>1. /\ DeskNext /\ slip' = slip /\ refunds' = refunds
      /\ voids' = [w \in Worker |-> FALSE]
  BY DEF PaymentCrash, DeskNext
<1>2. DeskInv' /\ [Next]_vars
  BY <1>1, DeskNextInv DEF PayInv
<1>3. VoidsHeld' /\ voids' \in [Worker -> BOOLEAN]
  BY <1>1 DEF VoidsHeld
<1>4. RefundRowOnlyOnRefunded'
  BY <1>1, <1>2, RefundedStays DEF PayInv, DeskInv, RefundRowOnlyOnRefunded
<1> QED BY <1>1, <1>2, <1>3, <1>4 DEF PayInv

(* Steps of the waitlist, and none at all. *)
LEMMA PaymentsElsewhereInv ==
  ASSUME PayInv, UNCHANGED <<deskVars, payVars>>,
         UNCHANGED vars \/ \E b \in Book : WaitlistHolds(b)
  PROVE  PayInv' /\ [DeskNext]_<<vars, deskVars>>
<1>1. DeskInv' /\ [Next]_vars
  BY ElsewhereInv DEF PayInv
<1>2. slip' = slip /\ refunds' = refunds /\ voids' = voids /\ job' = job /\ errand' = errand
  BY DEF payVars, deskVars, vars, WaitlistHolds
<1>3. PayInv'
  BY <1>1, <1>2, RowsStay DEF PayInv
<1> QED BY <1>3 DEF DeskNext

LEMMA PaymentsNextInv ==
  PayInv /\ [PaymentsNext]_allVars => PayInv' /\ [DeskNext]_<<vars, deskVars>>
<1> SUFFICES ASSUME PayInv, [PaymentsNext]_allVars
             PROVE  PayInv' /\ [DeskNext]_<<vars, deskVars>>
  OBVIOUS
<1>1. ASSUME NEW w \in Worker, NEW o \in Order, NEW outcome \in Outcomes, Record(w, o, outcome)
      PROVE  PayInv' /\ [DeskNext]_<<vars, deskVars>>
  BY <1>1, RecordInv
<1>2. ASSUME NEW w \in Worker, NEW o \in Order, StartRevert(w, o) PROVE PayInv' /\ DeskNext
  BY <1>2, StartRevertInv
<1>3. ASSUME NEW w \in Worker, NEW o \in Order, StartRefund(w, o) PROVE PayInv' /\ DeskNext
  BY <1>3, StartRefundInv
<1>4. ASSUME NEW w \in Worker, DeskArrives(w) PROVE PayInv' /\ DeskNext
  BY <1>4, DeskArrivesInv
<1>5. ASSUME NEW w \in Worker, PaymentWork(w) PROVE PayInv' /\ DeskNext
  BY <1>5, PaymentWorkInv
<1>6. ASSUME NEW w \in Worker, PaymentAnnounce(w) PROVE PayInv' /\ DeskNext
  BY <1>6, PaymentAnnounceInv
<1>7. ASSUME NEW b \in Book, WaitlistHolds(b), UNCHANGED <<deskVars, payVars>>
      PROVE  PayInv' /\ [DeskNext]_<<vars, deskVars>>
  BY <1>7, PaymentsElsewhereInv
<1>8. CASE PaymentCrash
  BY <1>8, PaymentCrashInv
<1>9. CASE UNCHANGED allVars
  BY <1>9, PaymentsElsewhereInv DEF allVars
<1> QED BY <1>1, <1>2, <1>3, <1>4, <1>5, <1>6, <1>7, <1>8, <1>9 DEF PaymentsNext

LEMMA PaymentsInitInv == PaymentsInit => PayInv
<1> SUFFICES ASSUME PaymentsInit PROVE PayInv
  OBVIOUS
<1>1. DeskInv
  BY DeskInitInv DEF PaymentsInit
<1> QED BY <1>1 DEF PaymentsInit, PayInv, VoidsHeld, RefundRowOnlyOnRefunded

(* The inductive invariant of the payment rows: what an open transaction   *)
(* has voided is the paid row of the order it withdraws, and one open      *)
(* transaction has it.                                                     *)
THEOREM PaymentsInvariant == PaymentsSpec => []PayInv
BY PaymentsInitInv, PaymentsNextInv, PTL DEF PaymentsSpec

(* Payments move orders only as the desk may. *)
THEOREM PaymentsRefineTheDesk == PaymentsSpec => DeskSpec
<1>1. PaymentsInit => DeskInit
  BY DEF PaymentsInit
<1>2. PayInv /\ [PaymentsNext]_allVars => [DeskNext]_<<vars, deskVars>>
  BY PaymentsNextInv
<1> QED BY <1>1, <1>2, PaymentsInvariant, PTL DEF PaymentsSpec, DeskSpec

(* Rows keep their types, and a refund row stands only beside an order     *)
(* that is REFUNDED, for any number of requests, orders and webhooks       *)
(* (payments.service.ts:181).                                              *)
THEOREM RowsStaySound == PaymentsSpec => []RowsAreSound
<1>1. PayInv => RowsAreSound
  <2> SUFFICES ASSUME PayInv PROVE RowsAreSound
    OBVIOUS
  <2>1. \A w \in Worker : job[w] = Idle => errand[w] = "other"
    BY DEF PayInv, DeskInv, ErrandFits, Idle
  <2> QED BY <2>1 DEF PayInv, DeskInv, VoidsHeld, RowsAreSound, PaymentsTypeOK, DeskTypeOK, Errands
<1> QED BY <1>1, PaymentsInvariant, PTL

(* A step takes a paid row away only as it takes its order from            *)
(* PAYMENT_CONFIRMED back to PENDING.                                      *)
LEMMA VoidStep ==
  ASSUME PayInv, [PaymentsNext]_allVars,
         NEW o \in Order, slip[o] = "SUCCEEDED", slip'[o] # "SUCCEEDED"
  PROVE  status[o] = "PAYMENT_CONFIRMED" /\ status'[o] = "PENDING"
<1>1. PICK w \in Worker : PaymentWork(w) /\ Voided(w)
  BY DEF PayInv, PaymentsNext, allVars, payVars, Record, StartRevert, StartRefund, DeskArrives,
         PaymentWork, PaymentAnnounce, PaymentCrash
<1>2. Committed(w) /\ voids[w] /\ Work(w) /\ DeskInv /\ errand[w] = "revert"
  BY <1>1 DEF Voided, PaymentWork, DeskWork, PayInv, VoidsHeld
<1>3. job[w].o = o
  <2>1. slip' = [slip EXCEPT ![job[w].o] = "none"]
    BY <1>1 DEF PaymentWork
  <2> QED BY <2>1 DEF PayInv
<1>4. job[w].to = "PENDING"
  BY <1>2 DEF DeskInv, ErrandFits
<1>5. status[o] \in OrderStatus /\ canTransition(status[o], "PENDING") /\ status'[o] = "PENDING"
  BY <1>2, <1>3, <1>4, ErrandCommits
<1>6. "PENDING" \in OrderStatus
  BY DEF OrderStatus
<1> QED BY <1>5, <1>6, Predecessors

(* A recorded payment is withdrawn only in the commit that takes its order *)
(* back to PENDING (payments.service.ts:223), whoever else is at it.       *)
THEOREM WithdrawnTogether == PaymentsSpec => VoidsWithTheWithdrawal
<1>1. PayInv /\ [PaymentsNext]_allVars =>
        [\A o \in Order : slip[o] = "SUCCEEDED" /\ slip'[o] # "SUCCEEDED" =>
           status[o] = "PAYMENT_CONFIRMED" /\ status'[o] = "PENDING"]_allVars
  BY VoidStep
<1> QED BY <1>1, PaymentsInvariant, PTL DEF PaymentsSpec, VoidsWithTheWithdrawal

(* With payments, refunds and withdrawals at work, copies still move as    *)
(* the ledger of module ShelfLedger says.                                  *)
THEOREM PaymentsKeepTheLedger == PaymentsSpec => LedgerSpec
BY PaymentsRefineTheDesk, DeskRefinesOrders, OrdersKeepTheLedger

(* Nor can the desk, a packer or a webhook give one receipt two live       *)
(* orders or break an order's history, and packers still go forward only.  *)
THEOREM PaymentsKeepOrders ==
  PaymentsSpec => [](OrdersInv /\ ClaimsAreExclusive /\ PackersOnlyGoForward)
<1>1. Spec => []OrdersInv
  BY OrdersInvariant
<1>2. Spec => []ClaimsAreExclusive
  BY ClaimsStayExclusive
<1>3. DeskSpec => []PackersOnlyGoForward
  BY PackersGoForward
<1> QED BY <1>1, <1>2, <1>3, PaymentsRefineTheDesk, DeskRefinesOrders, PTL

=============================================================================
