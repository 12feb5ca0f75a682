---------------------------- MODULE OrdersProofs ----------------------------
(***************************************************************************)
(* What holds of Orders for any number of orders, books, requests and      *)
(* copies: the inductive invariant, and from it the history, the claims    *)
(* and the copies; and what holds of SalesRollup, which follows the orders *)
(* into books.units_sold.                                                  *)
(***************************************************************************)
EXTENDS SalesRollup, SequenceTheorems, FiniteSetTheorems, WellFoundedInduction, TLAPS

USE OrdersAssumption

-----------------------------------------------------------------------------
(* The table leads from statuses to statuses, and out of no terminal one.  *)
LEMMA MachineType ==
  ASSUME NEW s \in OrderStatus, NEW t, canTransition(s, t)
  PROVE  t \in OrderStatus /\ s \notin {"CANCELLED", "REFUNDED"}
BY DEF OrderStatus, ORDER_STATUS_TRANSITIONS, canTransition

(* Copies come back exactly when a stock-held order is closed. *)
LEMMA ReleaseIsClosing ==
  ASSUME NEW s \in OrderStatus, NEW t \in OrderStatus, canTransition(s, t)
  PROVE  releasesStock(s, t) <=> s \in STOCK_HELD_STATUSES /\ t \in {"CANCELLED", "REFUNDED"}
BY DEF OrderStatus, ORDER_STATUS_TRANSITIONS, canTransition, releasesStock, isTerminal,
       STOCK_HELD_STATUSES

(* Where the table can go from a status that holds stock, and from one     *)
(* whose parcel has left.                                                  *)
LEMMA MachineSides ==
  ASSUME NEW s \in OrderStatus, NEW t \in OrderStatus, canTransition(s, t)
  PROVE  /\ t \in STOCK_HELD_STATUSES \cup {"CANCELLED"} => s \in STOCK_HELD_STATUSES
         /\ t = "DELIVERED" => s = "SHIPPED"
         /\ s \in STOCK_HELD_STATUSES \cup {"SHIPPED", "DELIVERED"}
BY DEF OrderStatus, ORDER_STATUS_TRANSITIONS, canTransition, STOCK_HELD_STATUSES

(* A route read off the table is a nonempty sequence of statuses. *)
LEMMA RouteType ==
  ASSUME NEW s \in OrderStatus, NEW t \in OrderStatus, IsReachable(s, t), s # t
  PROVE  forwardPathTo(s, t) \in Seq(OrderStatus) /\ forwardPathTo(s, t) # <<>>
<1> DEFINE r == forwardPathTo(s, t)
<1>1. r \in Routes(s, t)
  <2>1. PICK e \in RouteTable : e.pair = <<s, t>> /\ r = e.route
    BY DEF IsReachable, forwardPathTo
  <2>2. e.route = CHOOSE route \in ShortestRoutes(s, t) : TRUE
    BY <2>1 DEF RouteTable
  <2>3. e.route \in ShortestRoutes(s, t)
    <3>1. HasRoute(s, t)
      BY <2>1 DEF RouteTable
    <3> QED BY <2>2, <3>1 DEF HasRoute
  <2> QED BY <2>1, <2>3 DEF ShortestRoutes
<1>2. PICK n \in 0..LongestRoute : r \in [1..n -> OrderStatus]
  BY <1>1 DEF Routes
<1>3. r \in Seq(OrderStatus) /\ Len(r) = n
  BY <1>2 DEF LongestRoute
<1>4. r # <<>>
  <2> SUFFICES ASSUME r = <<>> PROVE FALSE
    OBVIOUS
  <2>1. IsRoute(s, <<>>, t)
    BY <1>1 DEF Routes
  <2> QED BY <2>1 DEF IsRoute
<1> QED BY <1>3, <1>4

-----------------------------------------------------------------------------
(* An action that changes one job and nothing else keeps the invariant if  *)
(* it leaves that job in order and takes no lock another job holds.        *)
LEMMA JobStep ==
  ASSUME OrdersInv, NEW w \in Worker, NEW j \in Job,
         job' = [job EXCEPT ![w] = j], UNCHANGED <<orderVars, stock, withheld>>,
         JobOK(w)',
         j.pc \in {"walk", "commit"} => LockedBy(w, j.o) \/ ~Locked(j.o)
  PROVE  OrdersInv'
<1>1. TypeOK'
  BY DEF OrdersInv, TypeOK, orderVars
<1>2. ASSUME NEW v \in Worker PROVE JobOK(v)'
  <2>1. CASE v = w
    BY <2>1
  <2>2. CASE v # w
    <3>1. job'[v] = job[v]
      BY <2>2 DEF OrdersInv, TypeOK
    <3> QED
      BY <3>1 DEF OrdersInv, JobOK, DraftIsAWalk, DraftPlace, DraftShipped, Exists, orderVars
  <2> QED BY <2>1, <2>2
<1>3. OneWriter'
  <2> SUFFICES ASSUME NEW o \in Order, NEW u \in Worker, NEW v \in Worker,
                      LockedBy(u, o)', LockedBy(v, o)'
               PROVE  u = v
    BY DEF OneWriter
  <2>1. \A x \in Worker : x # w => (LockedBy(x, o)' <=> LockedBy(x, o))
    BY DEF LockedBy, OrdersInv, TypeOK
  <2>2. LockedBy(w, o)' => LockedBy(w, o) \/ ~Locked(o)
    BY DEF LockedBy, OrdersInv, TypeOK
  <2> QED BY <2>1, <2>2 DEF Locked, OrdersInv, OneWriter
<1>4. HistoryIsTheLife' /\ ShippedAgrees'
  BY DEF OrdersInv, HistoryIsTheLife, ShippedAgrees, Shipped, Exists, orderVars
<1> QED BY <1>1, <1>2, <1>3, <1>4 DEF OrdersInv

(* An idle worker's job is a job. *)
LEMMA IdleIsAJob == Idle \in Job
BY DEF Idle, Job, OrderStatus

(* A job that is dropped, whatever it was. *)
LEMMA FinishInv ==
  ASSUME OrdersInv, NEW w \in Worker, Finish(w), UNCHANGED <<orderVars, stock, withheld>>
  PROVE  OrdersInv'
<1>1. JobOK(w)'
  BY DEF Finish, Idle, JobOK, OrdersInv, TypeOK
<1> QED BY <1>1, IdleIsAJob, JobStep DEF Finish, Idle

(* A job that only goes on to its next statement. *)
LEMMA GoInv ==
  ASSUME OrdersInv, NEW w \in Worker, NEW next \in {"receipt", "write", "retake"},
         Go(w, next), UNCHANGED <<orderVars, stock, withheld>>,
         next \in {"receipt", "write"} => job[w].pc \in {"key", "receipt"},
         next = "retake" => job[w].pc = "claim"
  PROVE  OrdersInv'
<1> DEFINE j == [job[w] EXCEPT !.pc = next]
<1>1. job[w] \in Job
  BY DEF OrdersInv, TypeOK
<1>2. job' = [job EXCEPT ![w] = j]
  BY DEF Go
<1>3. j \in Job /\ j.pc = next
  BY <1>1 DEF Job
<1>4. JobOK(w)'
  BY <1>1, <1>2 DEF JobOK, OrdersInv, TypeOK, Exists, orderVars, Job
<1> HIDE DEF j
<1> QED BY <1>2, <1>3, <1>4, JobStep

(* A request that arrives about an order that exists is in order. *)
LEMMA StartInv ==
  ASSUME OrdersInv, NEW w \in Worker
  PROVE  /\ \A c \in Cart : StartCheckout(w, c) => OrdersInv'
         /\ \A o \in Order, to \in OrderStatus, op \in {"move", "advance"} :
              StartMove(w, op, o, to) => OrdersInv'
         /\ \A o \in Order : StartReopen(w, o) => OrdersInv'
<1>1. ASSUME NEW c \in Cart, StartCheckout(w, c) PROVE OrdersInv'
  <2> DEFINE j == [Idle EXCEPT !.op = "checkout", !.pc = "key", !.cart = c]
  <2>1. j \in Job /\ job' = [job EXCEPT ![w] = j]
    BY <1>1, IdleIsAJob DEF StartCheckout, Job
  <2>2. JobOK(w)'
    BY <1>1, <2>1 DEF JobOK, OrdersInv, TypeOK, Idle
  <2> QED BY <1>1, <2>1, <2>2, JobStep DEF StartCheckout, Idle
<1>2. ASSUME NEW o \in Order, NEW to \in OrderStatus, NEW op \in {"move", "advance"},
             StartMove(w, op, o, to)
      PROVE  OrdersInv'
  <2> DEFINE j == [Idle EXCEPT !.op = op, !.pc = "before", !.o = o, !.to = to]
  <2>1. j \in Job /\ job' = [job EXCEPT ![w] = j]
    <3>1. /\ op \in {"none", "checkout", "move", "advance", "reopen", "delete"} /\ to \in OrderStatus
          /\ job' = [job EXCEPT ![w] = j]
      BY <1>2 DEF StartMove
    <3> QED BY <1>2, <3>1, IdleIsAJob DEF Job
  <2>2. JobOK(w)'
    BY <1>2, <2>1 DEF JobOK, OrdersInv, TypeOK, Idle, StartMove, Exists, orderVars
  <2> QED BY <1>2, <2>1, <2>2, JobStep DEF StartMove, Idle
<1>3. ASSUME NEW o \in Order, StartReopen(w, o) PROVE OrdersInv'
  <2> DEFINE j == [Idle EXCEPT !.op = "reopen", !.pc = "claim", !.o = o]
  <2>1. j \in Job /\ job' = [job EXCEPT ![w] = j]
    BY <1>3, IdleIsAJob DEF StartReopen, Job
  <2>2. JobOK(w)'
    BY <1>3, <2>1 DEF JobOK, OrdersInv, TypeOK, Idle, StartReopen, Exists, orderVars
  <2> QED BY <1>3, <2>1, <2>2, JobStep DEF StartReopen, Idle
<1> QED BY <1>1, <1>2, <1>3

(* The reads of a checkout and of a reopening only move the request on, or *)
(* end it (checkout.service.ts placeOrder, orders.service.ts reopen).      *)
LEMMA ReadsInv ==
  ASSUME OrdersInv, NEW w \in Worker
  PROVE  FindByIdempotencyKey(w) \/ RejectReusedReceipt(w) \/ ReadForReopen(w) => OrdersInv'
<1>1. ASSUME FindByIdempotencyKey(w) PROVE OrdersInv'
  BY <1>1, FinishInv, GoInv DEF FindByIdempotencyKey
<1>2. ASSUME RejectReusedReceipt(w) PROVE OrdersInv'
  BY <1>2, FinishInv, GoInv DEF RejectReusedReceipt
<1>3. ASSUME ReadForReopen(w) PROVE OrdersInv'
  BY <1>3, FinishInv, GoInv DEF ReadForReopen
<1> QED BY <1>1, <1>2, <1>3

(* transitionAndCommit and advanceAndCommit: the route read off the table  *)
(* is there to be walked.                                                  *)
LEMMA ReadBeforeInv ==
  ASSUME OrdersInv, NEW w \in Worker, ReadBefore(w)
  PROVE  OrdersInv'
<1> DEFINE o == job[w].o
           here == status[o]
           to == job[w].to
           r == IF job[w].op = "advance" THEN forwardPathTo(here, to) ELSE <<to>>
<1>1. o \in Order /\ Exists(o) /\ job[w] \in Job /\ job[w].draft = <<>> /\ ~job[w].returned
  BY DEF ReadBefore, OrdersInv, JobOK, TypeOK
<1>2. here \in OrderStatus /\ to \in OrderStatus
  BY <1>1 DEF OrdersInv, TypeOK, Exists, Job
<1>3. CASE job[w].op = "advance" /\ (~IsReachable(here, to) \/ here = to)
  BY <1>3, FinishInv DEF ReadBefore
<1>4. CASE ~(job[w].op = "advance" /\ (~IsReachable(here, to) \/ here = to))
  <2> DEFINE j == [job[w] EXCEPT !.from = here, !.route = r, !.pc = "read"]
  <2>1. r \in Seq(OrderStatus) /\ r # <<>>
    BY <1>2, <1>4, RouteType
  <2> HIDE DEF r
  <2>2. job' = [job EXCEPT ![w] = j]
    BY <1>4 DEF ReadBefore, r, OrdersInv, TypeOK
  <2>3. j \in Job /\ j.pc = "read"
    BY <1>1, <1>2, <2>1 DEF Job
  <2>4. JobOK(w)'
    BY <1>1, <2>1, <2>2 DEF JobOK, OrdersInv, TypeOK, Exists, ReadBefore, orderVars
  <2> HIDE DEF j
  <2> QED BY <2>2, <2>3, <2>4, JobStep DEF ReadBefore
<1> QED BY <1>3, <1>4

(* transition() goes on to its UPDATE only along an edge of the table. *)
LEMMA ReadStatusInv ==
  ASSUME OrdersInv, NEW w \in Worker, ReadStatus(w)
  PROVE  OrdersInv'
<1> DEFINE o == job[w].o
           here == status[o]
           j == [job[w] EXCEPT !.seen = here, !.pc = "update"]
<1>1. o \in Order /\ Exists(o) /\ job[w] \in Job /\ job[w].route # <<>>
      /\ job[w].draft = <<>> /\ ~job[w].returned
  BY DEF ReadStatus, OrdersInv, JobOK, TypeOK
<1>2. here \in OrderStatus
  BY <1>1 DEF OrdersInv, TypeOK, Exists
<1>3. CASE canTransition(here, Head(job[w].route))
  <2>1. job' = [job EXCEPT ![w] = j]
    BY <1>3 DEF ReadStatus, OrdersInv, TypeOK
  <2>2. j \in Job /\ j.pc = "update"
    BY <1>1, <1>2 DEF Job
  <2>3. JobOK(w)'
    BY <1>1, <1>3, <2>1 DEF JobOK, OrdersInv, TypeOK, Exists, ReadStatus, orderVars
  <2> HIDE DEF j
  <2> QED BY <2>1, <2>2, <2>3, JobStep DEF ReadStatus
<1>4. CASE ~canTransition(here, Head(job[w].route))
  BY <1>4, FinishInv DEF ReadStatus
<1> QED BY <1>3, <1>4

-----------------------------------------------------------------------------
(* Entering one more status inside a transaction: the draft stays a walk,  *)
(* and the copies are noted as due back exactly when the order closes      *)
(* before its parcel left.                                                 *)
LEMMA EnterInv ==
  ASSUME OrdersInv, NEW w \in Worker, job[w].pc \in {"update", "walk"},
         canTransition(job[w].seen, Head(job[w].route)),
         job[w].pc = "update" => StillThere(w) /\ ~Locked(job[w].o),
         Enter(w), UNCHANGED <<orderVars, stock, withheld>>
  PROVE  OrdersInv'
<1> DEFINE o == job[w].o
           s == job[w].seen
           t == Head(job[w].route)
           d == job[w].draft
           back == job[w].returned \/ releasesStock(s, t)
           pc == IF Len(job[w].route) = 1 THEN "commit" ELSE "walk"
           j == [job[w] EXCEPT !.seen = t, !.route = Tail(job[w].route),
                               !.draft = Append(d, t), !.returned = back, !.pc = pc]
<1>1. /\ o \in Order /\ Exists(o) /\ job[w] \in Job /\ job[w].route # <<>>
      /\ s \in OrderStatus /\ t \in OrderStatus /\ d \in Seq(OrderStatus)
      /\ status[o] \in OrderStatus /\ job[w].returned \in BOOLEAN
      /\ job[w].route \in Seq(OrderStatus) /\ Tail(job[w].route) \in Seq(OrderStatus)
  <2>1. o \in Order /\ Exists(o) /\ job[w] \in Job /\ job[w].route # <<>>
    BY DEF OrdersInv, JobOK, TypeOK
  <2>2. /\ s \in OrderStatus /\ d \in Seq(OrderStatus) /\ job[w].returned \in BOOLEAN
        /\ job[w].route \in Seq(OrderStatus)
    BY <2>1 DEF Job
  <2>3. t \in OrderStatus /\ Tail(job[w].route) \in Seq(OrderStatus)
    BY <2>1, <2>2
  <2>4. status[o] \in OrderStatus
    BY <2>1 DEF OrdersInv, TypeOK, Exists
  <2> QED BY <2>1, <2>2, <2>3, <2>4
<1>2. job' = [job EXCEPT ![w] = j]
  BY DEF Enter
<1>3. j \in Job
  <2>1. back \in BOOLEAN /\ pc \in {"commit", "walk"} /\ Append(d, t) \in Seq(OrderStatus)
    BY <1>1 DEF releasesStock, isTerminal
  <2> HIDE DEF back, pc
  <2> QED BY <1>1, <2>1 DEF Job
<1>4. /\ job'[w].o = o /\ job'[w].seen = t /\ job'[w].draft = Append(d, t)
      /\ job'[w].returned = back /\ job'[w].pc = pc /\ job'[w].route = Tail(job[w].route)
  BY <1>1, <1>2 DEF OrdersInv, TypeOK, Job
<1>5. status' = status
  BY DEF orderVars
<1>6. pc = "walk" => Tail(job[w].route) # <<>>
  <2> DEFINE r == job[w].route
  <2>1. r \in Seq(OrderStatus) /\ r # <<>>
    BY <1>1
  <2> HIDE DEF r
  <2>2. Len(r) \in Nat /\ Len(r) # 0 /\ Len(Tail(r)) = Len(r) - 1
    BY <2>1, EmptySeq, HeadTailProperties
  <2>3. Len(r) # 1 => Tail(r) # <<>>
    <3>1. Tail(r) = <<>> => Len(Tail(r)) = 0
      BY EmptySeq
    <3> QED BY <2>2, <3>1
  <2> QED BY <2>3 DEF r
<1>7. CASE job[w].pc = "update"
  <2>1. d = <<>> /\ ~job[w].returned /\ status[o] = s
    BY <1>7 DEF OrdersInv, JobOK, StillThere
  <2>2. Append(d, t) = <<t>>
    BY <2>1
  <2>3. DraftIsAWalk(w)'
    BY <1>1, <1>4, <1>5, <2>1, <2>2 DEF DraftIsAWalk
  <2>4. DraftShipped(w)' <=> t = "SHIPPED"
    BY <1>4, <2>2 DEF DraftShipped
  <2>5. DraftPlace(w)'
    <3>1. back <=> s \in STOCK_HELD_STATUSES /\ t \in {"CANCELLED", "REFUNDED"}
      BY <1>1, <2>1, ReleaseIsClosing
    <3> HIDE DEF back
    <3>2. /\ t \in STOCK_HELD_STATUSES \cup {"CANCELLED"} => s \in STOCK_HELD_STATUSES
          /\ t = "DELIVERED" => s = "SHIPPED"
          /\ s \in STOCK_HELD_STATUSES \cup {"SHIPPED", "DELIVERED"}
      BY <1>1, MachineSides
    <3> QED
      BY <1>1, <1>4, <1>5, <2>1, <2>4, <3>1, <3>2 DEF DraftPlace, STOCK_HELD_STATUSES
  <2>6. JobOK(w)'
    BY <1>1, <1>4, <1>5, <1>6, <2>3, <2>5 DEF JobOK, Exists
  <2> HIDE DEF j
  <2> QED BY <1>2, <1>3, <1>7, <1>4, <2>6, JobStep DEF OrdersInv, TypeOK
<1>8. CASE job[w].pc = "walk"
  <2>1. DraftIsAWalk(w) /\ DraftPlace(w)
    BY <1>8 DEF OrdersInv, JobOK
  <2>2. /\ Len(Append(d, t)) = Len(d) + 1 /\ Append(d, t)[Len(d) + 1] = t
        /\ \A i \in 1..Len(d) : Append(d, t)[i] = d[i]
        /\ Len(d) \in Nat
    BY <1>1
  <2>3. DraftIsAWalk(w)'
    <3>1. Len(d) > 0 /\ d[Len(d)] = s /\ canTransition(status[o], d[1])
          /\ \A i \in 1..(Len(d) - 1) : canTransition(d[i], d[i + 1])
      BY <2>1 DEF DraftIsAWalk
    <3> DEFINE e == Append(d, t)
    <3> HIDE DEF e
    <3>2. Len(e) = Len(d) + 1 /\ e[Len(d) + 1] = t /\ \A i \in 1..Len(d) : e[i] = d[i]
      BY <2>2 DEF e
    <3>3. \A i \in 1..(Len(e) - 1) : canTransition(e[i], e[i + 1])
      BY <2>2, <3>1, <3>2
    <3>4. canTransition(status[o], e[1]) /\ Len(e) > 0 /\ e[Len(e)] = t
      BY <2>2, <3>1, <3>2
    <3>5. job'[w].draft = e
      BY <1>4 DEF e
    <3> QED BY <1>4, <1>5, <3>3, <3>4, <3>5 DEF DraftIsAWalk
  <2>4. DraftShipped(w)' <=> DraftShipped(w) \/ t = "SHIPPED"
    BY <1>4, <2>2 DEF DraftShipped
  <2>5. DraftPlace(w)'
    <3>1. back <=> \/ job[w].returned
                   \/ s \in STOCK_HELD_STATUSES /\ t \in {"CANCELLED", "REFUNDED"}
      BY <1>1, ReleaseIsClosing
    <3> HIDE DEF back
    <3>2. /\ t \in STOCK_HELD_STATUSES \cup {"CANCELLED"} => s \in STOCK_HELD_STATUSES
          /\ t = "DELIVERED" => s = "SHIPPED"
          /\ s \in STOCK_HELD_STATUSES \cup {"SHIPPED", "DELIVERED"}
      BY <1>1, MachineSides
    <3>3. job[w].returned = FALSE
      BY <1>1, <2>1, <3>2 DEF DraftPlace, STOCK_HELD_STATUSES
    <3> QED
      BY <1>1, <1>4, <1>5, <2>1, <2>4, <3>1, <3>2, <3>3 DEF DraftPlace, STOCK_HELD_STATUSES
  <2>6. JobOK(w)'
    BY <1>1, <1>4, <1>5, <1>6, <2>3, <2>5 DEF JobOK, Exists
  <2>7. LockedBy(w, o)
    BY <1>8 DEF LockedBy
  <2> HIDE DEF j
  <2> QED BY <1>2, <1>3, <1>4, <2>6, <2>7, JobStep DEF OrdersInv, TypeOK
<1> QED BY <1>7, <1>8

(* The guarded UPDATE finds the status that was read, takes the row and    *)
(* enters the first status of the route.                                   *)
LEMMA UpdateInv ==
  ASSUME OrdersInv, NEW w \in Worker, Update(w) \/ Walk(w)
  PROVE  OrdersInv'
<1>1. ASSUME Update(w) PROVE OrdersInv'
  <2>1. canTransition(job[w].seen, Head(job[w].route))
    BY <1>1 DEF Update, OrdersInv, JobOK
  <2> QED BY <1>1, <2>1, FinishInv, EnterInv DEF Update
<1>2. ASSUME Walk(w) PROVE OrdersInv'
  BY <1>2, FinishInv, EnterInv DEF Walk
<1> QED BY <1>1, <1>2

-----------------------------------------------------------------------------
(* The customer's cancellation locks the row it has just read. *)
LEMMA CancelInv ==
  ASSUME OrdersInv, NEW w \in Worker, NEW o \in Order, Cancel(w, o)
  PROVE  OrdersInv'
<1> DEFINE s == status[o]
           j == [Idle EXCEPT !.op = "cancel", !.pc = "commit", !.o = o, !.from = s,
                             !.seen = "CANCELLED", !.draft = <<"CANCELLED">>,
                             !.returned = releasesStock(s, "CANCELLED")]
<1>1. s \in STOCK_HELD_STATUSES /\ s \in OrderStatus /\ canTransition(s, "CANCELLED") /\ Exists(o)
  BY DEF Cancel, STOCK_HELD_STATUSES, OrderStatus, Exists
<1>2. releasesStock(s, "CANCELLED") = TRUE
  <2>1. releasesStock(s, "CANCELLED")
    BY <1>1, ReleaseIsClosing DEF OrderStatus
  <2> QED BY <2>1 DEF releasesStock, isTerminal
<1>3. j \in Job /\ j.pc = "commit" /\ j.o = o
  <2>1. "CANCELLED" \in OrderStatus /\ <<"CANCELLED">> \in Seq(OrderStatus)
    BY DEF OrderStatus
  <2> QED BY <1>1, <1>2, <2>1, IdleIsAJob DEF Job, Idle
<1>4. job' = [job EXCEPT ![w] = j] /\ status' = status
  BY DEF Cancel, orderVars
<1>5. /\ job'[w].o = o /\ job'[w].seen = "CANCELLED" /\ job'[w].draft = <<"CANCELLED">>
      /\ job'[w].returned = TRUE /\ job'[w].pc = "commit"
  BY <1>2, <1>4 DEF OrdersInv, TypeOK, Idle
<1>6. DraftIsAWalk(w)' /\ DraftPlace(w)'
  <2>1. DraftIsAWalk(w)'
    <3> DEFINE d == <<"CANCELLED">>
    <3>1. Len(d) = 1 /\ d[1] = "CANCELLED"
      OBVIOUS
    <3> HIDE DEF d
    <3>2. job'[w].draft = d /\ job'[w].seen = "CANCELLED" /\ job'[w].o = o
      BY <1>5 DEF d
    <3>3. \A i \in 1..(Len(d) - 1) : canTransition(d[i], d[i + 1])
      BY <3>1
    <3> HIDE DEF j
    <3> QED BY <1>1, <1>4, <3>1, <3>2, <3>3 DEF DraftIsAWalk
  <2>2. ~DraftShipped(w)'
    BY <1>5 DEF DraftShipped
  <2>3. DraftPlace(w)'
    BY <1>1, <1>4, <1>5, <2>2 DEF DraftPlace, STOCK_HELD_STATUSES
  <2> QED BY <2>1, <2>3
<1>7. JobOK(w)'
  BY <1>1, <1>4, <1>5, <1>6 DEF JobOK, Exists
<1> HIDE DEF j
<1> QED BY <1>3, <1>4, <1>7, JobStep DEF Cancel

(* The request is over, or the process died: every lock goes with it.      *)
LEMMA AnnounceInv ==
  ASSUME OrdersInv, NEW w \in Worker, Announce(w)
  PROVE  OrdersInv'
BY FinishInv DEF Announce

(* A crash leaves every job idle and the tables as they were committed. *)
LEMMA CrashInv ==
  ASSUME OrdersInv, Crash
  PROVE  OrdersInv'
<1>1. TypeOK'
  BY IdleIsAJob DEF Crash, OrdersInv, TypeOK, orderVars
<1>2. \A w \in Worker : JobOK(w)'
  BY DEF Crash, JobOK, Idle
<1>3. OneWriter'
  BY DEF Crash, OneWriter, LockedBy, Idle
<1>4. HistoryIsTheLife' /\ ShippedAgrees'
  BY DEF Crash, OrdersInv, HistoryIsTheLife, ShippedAgrees, Shipped, Exists, orderVars
<1> QED BY <1>1, <1>2, <1>3, <1>4 DEF OrdersInv

(* What the waitlist withholds is no part of an order. *)
LEMMA WaitlistInv ==
  ASSUME OrdersInv, NEW b \in Book, WaitlistHolds(b)
  PROVE  OrdersInv'
<1>1. TypeOK'
  BY DEF WaitlistHolds, OrdersInv, TypeOK, orderVars
<1>2. \A w \in Worker : JobOK(w)'
  BY DEF WaitlistHolds, OrdersInv, JobOK, DraftIsAWalk, DraftPlace, DraftShipped, Exists,
         orderVars
<1>3. OneWriter'
  BY DEF WaitlistHolds, OrdersInv, OneWriter, LockedBy
<1>4. HistoryIsTheLife' /\ ShippedAgrees'
  BY DEF WaitlistHolds, OrdersInv, HistoryIsTheLife, ShippedAgrees, Shipped, Exists, orderVars
<1> QED BY <1>1, <1>2, <1>3, <1>4 DEF OrdersInv

-----------------------------------------------------------------------------
(* The job of a worker that did not move keeps its order, and the order    *)
(* its status, when what is written is a row nobody holds a draft of.      *)
LEMMA OtherJobs ==
  ASSUME OrdersInv, NEW v \in Worker, NEW o, NEW s, s # "ABSENT",
         status' = [status EXCEPT ![o] = s], job'[v] = job[v],
         ~LockedBy(v, o)
  PROVE  JobOK(v)'
<1>1. \A x \in Order : Exists(x) => Exists(x)'
  BY DEF Exists, OrdersInv, TypeOK
<1>2. CASE job[v].pc \in {"walk", "commit"}
  <2>1. job[v].o # o /\ job[v].o \in Order
    BY <1>2 DEF LockedBy, OrdersInv, JobOK
  <2>2. status'[job[v].o] = status[job[v].o]
    BY <2>1 DEF OrdersInv, TypeOK
  <2>3. DraftIsAWalk(v) /\ DraftPlace(v)
    BY <1>2 DEF OrdersInv, JobOK
  <2>4. DraftIsAWalk(v)' /\ DraftPlace(v)'
    BY <2>2, <2>3 DEF DraftIsAWalk, DraftPlace, DraftShipped
  <2> QED BY <1>1, <1>2, <2>4 DEF OrdersInv, JobOK
<1>3. CASE job[v].pc \notin {"walk", "commit"}
  BY <1>1, <1>3 DEF OrdersInv, JobOK
<1> QED BY <1>2, <1>3

(* A worker whose job ends or is announced holds no row, and the others    *)
(* hold what they held.                                                    *)
LEMMA LocksKept ==
  ASSUME OrdersInv, NEW w \in Worker, job'[w].pc \notin {"walk", "commit"},
         \A v \in Worker : v # w => job'[v] = job[v]
  PROVE  OneWriter'
BY DEF OrdersInv, OneWriter, LockedBy

(* Copies that are available can be taken: no stock column goes below zero *)
(* (inventory.service.ts decrement).                                       *)
LEMMA TakenType ==
  ASSUME TypeOK, NEW basket \in [Book -> Nat], Available(basket)
  PROVE  [b \in Book |-> stock[b] - basket[b]] \in [Book -> Nat]
<1> SUFFICES ASSUME NEW b \in Book PROVE stock[b] - basket[b] \in Nat
  OBVIOUS
<1>1. stock[b] \in Nat /\ basket[b] \in Nat /\ withheld[b] \in Nat
  BY DEF TypeOK
<1>2. basket[b] = 0 \/ stock[b] - withheld[b] >= basket[b]
  BY DEF Available
<1> QED BY <1>1, <1>2

(* A committed checkout: a new order, pending, with its copies taken. *)
LEMMA WriteOrderInv ==
  ASSUME OrdersInv, NEW w \in Worker, WriteOrder(w)
  PROVE  OrdersInv'
<1> DEFINE c == job[w].cart
<1>1. c \in Cart /\ TypeOK
  BY DEF WriteOrder, OrdersInv, JobOK
<1>2. c.basket \in [Book -> Nat] /\ c.receipt \in Receipt \cup {NoReceipt} /\ c.key \in Key
  BY <1>1
<1>3. CASE ~MayInsert(c)
  BY <1>3, FinishInv DEF WriteOrder
<1>4. CASE MayInsert(c)
  <2>1. PICK o \in Order :
          /\ ~Exists(o)
          /\ stock' = [b \in Book |-> stock[b] - c.basket[b]]
          /\ status' = [status EXCEPT ![o] = "PENDING"]
          /\ items' = [items EXCEPT ![o] = c.basket]
          /\ receipt' = [receipt EXCEPT ![o] = c.receipt]
          /\ key' = [key EXCEPT ![o] = c.key]
          /\ history' = [history EXCEPT ![o] = <<"PENDING">>]
    BY <1>4 DEF WriteOrder
  <2>2. job' = [job EXCEPT ![w] = Idle] /\ withheld' = withheld
    BY DEF WriteOrder, Finish
  <2>3. TypeOK'
    <3>1. stock' \in [Book -> Nat]
      BY <1>1, <1>2, <1>4, <2>1, TakenType DEF MayInsert
    <3>2. "PENDING" \in OrderStatus /\ <<"PENDING">> \in Seq(OrderStatus)
      BY DEF OrderStatus
    <3> QED BY <1>1, <1>2, <2>1, <2>2, <3>1, <3>2, IdleIsAJob DEF TypeOK
  <2>4. ASSUME NEW v \in Worker PROVE JobOK(v)'
    <3>1. CASE v = w
      BY <1>1, <2>2, <3>1 DEF JobOK, Idle, TypeOK
    <3>2. CASE v # w
      <4>1. job'[v] = job[v]
        BY <1>1, <2>2, <3>2 DEF TypeOK
      <4>2. ~LockedBy(v, o)
        BY <2>1 DEF LockedBy, OrdersInv, JobOK
      <4> QED BY <2>1, <4>1, <4>2, OtherJobs
    <3> QED BY <3>1, <3>2
  <2>5. OneWriter'
    BY <1>1, <2>2, LocksKept DEF Idle, TypeOK
  <2>6. HistoryIsTheLife'
    <3> SUFFICES ASSUME NEW x \in Order
                 PROVE  HistoryIsTheLife!(x)'
      BY DEF HistoryIsTheLife
    <3>1. CASE x = o
      BY <1>1, <2>1, <3>1 DEF Exists, TypeOK
    <3>2. CASE x # o
      BY <1>1, <2>1, <3>2 DEF Exists, TypeOK, OrdersInv, HistoryIsTheLife
    <3> QED BY <3>1, <3>2
  <2>7. ShippedAgrees'
    <3> SUFFICES ASSUME NEW x \in Order
                 PROVE  ShippedAgrees!(x)'
      BY DEF ShippedAgrees
    <3>1. CASE x = o
      BY <1>1, <2>1, <3>1 DEF Shipped, TypeOK
    <3>2. CASE x # o
      BY <1>1, <2>1, <3>2 DEF Shipped, TypeOK, OrdersInv, ShippedAgrees
    <3> QED BY <3>1, <3>2
  <2> QED BY <2>3, <2>4, <2>5, <2>6, <2>7 DEF OrdersInv
<1> QED BY <1>3, <1>4

(* A life or a piece of one: each status may follow the one before it. *)
IsWalk(q) == Len(q) > 0 /\ \A i \in 1..(Len(q) - 1) : LegalMove(q[i], q[i + 1])
(* The parcel leaves somewhere along it. *)
Ships(q) == \E i \in 1..Len(q) : q[i] = "SHIPPED"

(* A life and the moves that follow it make a life; it has shipped if      *)
(* either part has.                                                        *)
LEMMA LifeContinues ==
  ASSUME NEW h \in Seq(OrderStatus), NEW d \in Seq(OrderStatus), NEW g, g = h \o d,
         IsWalk(h), IsWalk(d), h[1] = "PENDING", LegalMove(h[Len(h)], d[1])
  PROVE  /\ IsWalk(g) /\ g[1] = "PENDING" /\ g[Len(g)] = d[Len(d)]
         /\ Ships(g) <=> Ships(h) \/ Ships(d)
<1>1. /\ Len(g) = Len(h) + Len(d) /\ Len(h) \in Nat /\ Len(d) \in Nat /\ Len(g) \in Nat
      /\ \A i \in 1..Len(h) : g[i] = h[i]
      /\ \A i \in 1..Len(d) : g[Len(h) + i] = d[i]
  <2>1. g \in Seq(OrderStatus) /\ Len(g) = Len(h) + Len(d)
    BY ConcatProperties
  <2>2. \A i \in 1..(Len(h) + Len(d)) : g[i] = IF i <= Len(h) THEN h[i] ELSE d[i - Len(h)]
    BY ConcatProperties
  <2>3. Len(h) \in Nat /\ Len(d) \in Nat
    BY LenProperties
  <2>4. ASSUME NEW i \in 1..Len(d) PROVE g[Len(h) + i] = d[i]
    <3>1. Len(h) + i \in 1..(Len(h) + Len(d)) /\ ~(Len(h) + i <= Len(h))
          /\ (Len(h) + i) - Len(h) = i
      BY <2>3
    <3> QED BY <2>2, <3>1
  <2> QED BY <2>1, <2>2, <2>3, <2>4
<1> DEFINE m == Len(h)
           n == Len(d)
<1>2. /\ Len(g) = m + n /\ m \in Nat /\ n \in Nat /\ m > 0 /\ n > 0
      /\ \A i \in 1..m : g[i] = h[i]
      /\ \A i \in 1..n : g[m + i] = d[i]
      /\ LegalMove(h[m], d[1])
      /\ \A i \in 1..(m - 1) : LegalMove(h[i], h[i + 1])
      /\ \A i \in 1..(n - 1) : LegalMove(d[i], d[i + 1])
  BY <1>1 DEF IsWalk
<1> HIDE DEF m, n
<1>4. g[1] = "PENDING" /\ g[m + n] = d[n]
  BY <1>2
<1>5. ASSUME NEW i \in 1..(m + n - 1) PROVE LegalMove(g[i], g[i + 1])
  <2>1. CASE i < m
    <3>1. i \in 1..m /\ i + 1 \in 1..m /\ i \in 1..(m - 1)
      BY <1>2, <2>1
    <3> QED BY <1>2, <3>1
  <2>2. CASE i = m
    <3>1. i \in 1..m /\ 1 \in 1..n
      BY <1>2, <2>2
    <3>2. g[i] = h[m] /\ g[i + 1] = d[1]
      BY <1>2, <2>2, <3>1
    <3> QED BY <1>2, <3>2
  <2>3. CASE i > m
    <3>1. PICK k \in 1..(n - 1) : i = m + k
      <4>1. i - m \in 1..(n - 1) /\ i = m + (i - m)
        BY <1>2, <2>3
      <4> QED BY <4>1
    <3>2. k \in 1..n /\ k + 1 \in 1..n /\ i + 1 = m + (k + 1)
      BY <1>2, <3>1
    <3>3. g[i] = d[k] /\ g[i + 1] = d[k + 1]
      BY <1>2, <3>1, <3>2
    <3> QED BY <1>2, <3>3
  <2> QED BY <1>2, <2>1, <2>2, <2>3
<1>6. ASSUME NEW i \in 1..(m + n), g[i] = "SHIPPED"
      PROVE  (\E k \in 1..m : h[k] = "SHIPPED") \/ (\E k \in 1..n : d[k] = "SHIPPED")
  <2>1. CASE i <= m
    BY <1>2, <1>6, <2>1
  <2>2. CASE i > m
    <3>1. PICK k \in 1..n : i = m + k
      <4>1. i - m \in 1..n /\ i = m + (i - m)
        BY <1>2, <2>2
      <4> QED BY <4>1
    <3>2. d[k] = "SHIPPED"
      BY <1>2, <1>6, <3>1
    <3> QED BY <3>2
  <2> QED BY <1>2, <2>1, <2>2
<1>7. ASSUME NEW i \in 1..m, h[i] = "SHIPPED" PROVE \E k \in 1..(m + n) : g[k] = "SHIPPED"
  <2>1. i \in 1..(m + n) /\ g[i] = "SHIPPED"
    BY <1>2, <1>7
  <2> QED BY <2>1
<1>8. ASSUME NEW i \in 1..n, d[i] = "SHIPPED" PROVE \E k \in 1..(m + n) : g[k] = "SHIPPED"
  <2>1. m + i \in 1..(m + n) /\ g[m + i] = "SHIPPED"
    BY <1>2, <1>8
  <2> QED BY <2>1
<1>9. IsWalk(g) /\ g[Len(g)] = d[Len(d)]
  BY <1>2, <1>4, <1>5 DEF IsWalk, n
<1>10. /\ Ships(g) <=> \E i \in 1..(m + n) : g[i] = "SHIPPED"
       /\ Ships(h) <=> \E i \in 1..m : h[i] = "SHIPPED"
       /\ Ships(d) <=> \E i \in 1..n : d[i] = "SHIPPED"
  BY <1>2 DEF Ships, m, n
<1> QED BY <1>4, <1>6, <1>7, <1>8, <1>9, <1>10

(* A reopened order: cancelled, then pending again with its copies retaken. *)
LEMMA RetakeInv ==
  ASSUME OrdersInv, NEW w \in Worker, Retake(w)
  PROVE  OrdersInv'
<1>1. PICK o \in Order, h \in Seq(OrderStatus) : o = job[w].o /\ h = history[o]
  BY DEF Retake, OrdersInv, JobOK, TypeOK
<1>2. TypeOK /\ Exists(o) /\ ~Locked(o) /\ job[w] \in Job
  BY <1>1 DEF Retake, OrdersInv, JobOK, TypeOK
<1>3. CASE ~MayRetake(o)
  BY <1>1, <1>3, FinishInv DEF Retake
<1>4. CASE MayRetake(o)
  <2>1. PICK d, g : d = <<"PENDING">> /\ g = Append(h, "PENDING")
    OBVIOUS
  <2>2. PICK j : j = [job[w] EXCEPT !.from = "CANCELLED", !.draft = <<"PENDING">>,
                                    !.pc = "announce"]
    OBVIOUS
  <2>3. /\ status' = [status EXCEPT ![o] = "PENDING"]
        /\ history' = [history EXCEPT ![o] = g]
        /\ stock' = [b \in Book |-> stock[b] - items[o][b]]
        /\ job' = [job EXCEPT ![w] = j]
        /\ UNCHANGED <<items, receipt, key, withheld>>
    BY <1>1, <1>4, <2>1, <2>2 DEF Retake
  <2>4. j \in Job /\ j.pc = "announce" /\ j.o = o
    <3>1. {"CANCELLED", "PENDING"} \subseteq OrderStatus /\ <<"PENDING">> \in Seq(OrderStatus)
      BY DEF OrderStatus
    <3> QED BY <1>1, <1>2, <2>2, <3>1 DEF Job
  <2>5. /\ "PENDING" \in OrderStatus /\ g \in Seq(OrderStatus)
        /\ d \in Seq(OrderStatus) /\ Len(d) = 1 /\ d[1] = "PENDING" /\ g = h \o d
    <3>1. "PENDING" \in OrderStatus
      BY DEF OrderStatus
    <3> QED BY <2>1, <3>1, AppendProperties, AppendIsConcat
  <2>6. TypeOK'
    <3>1. stock' \in [Book -> Nat]
      BY <1>2, <1>4, <2>3, TakenType DEF MayRetake, TypeOK
    <3> QED BY <1>2, <2>3, <2>4, <2>5, <3>1 DEF TypeOK
  <2>7. ASSUME NEW v \in Worker PROVE JobOK(v)'
    <3>1. CASE v = w
      BY <1>2, <2>3, <2>4, <3>1 DEF JobOK, TypeOK, Exists
    <3>2. CASE v # w
      BY <1>2, <2>3, <3>2, OtherJobs DEF TypeOK, Locked
    <3> QED BY <3>1, <3>2
  <2>8. OneWriter'
    BY <1>2, <2>3, <2>4, LocksKept DEF TypeOK
  <2>9. /\ Len(h) > 0 /\ h[1] = "PENDING" /\ h[Len(h)] = "CANCELLED"
        /\ \A i \in 1..(Len(h) - 1) : LegalMove(h[i], h[i + 1])
        /\ \A i \in 1..Len(h) : h[i] # "SHIPPED"
    BY <1>1, <1>2, <1>4 DEF MayRetake, OrdersInv, HistoryIsTheLife, ShippedAgrees, Shipped
  <2>10. /\ Len(g) > 0 /\ g[1] = "PENDING" /\ g[Len(g)] = "PENDING"
         /\ \A i \in 1..(Len(g) - 1) : LegalMove(g[i], g[i + 1])
         /\ \A i \in 1..Len(g) : g[i] # "SHIPPED"
    <3>1. LegalMove(h[Len(h)], d[1])
      BY <2>5, <2>9 DEF LegalMove
    <3>2. IsWalk(d) /\ ~Ships(d)
      BY <2>5 DEF IsWalk, Ships
    <3>3. IsWalk(h) /\ ~Ships(h)
      BY <2>9 DEF IsWalk, Ships
    <3>4. IsWalk(g) /\ ~Ships(g) /\ g[1] = "PENDING" /\ g[Len(g)] = d[Len(d)]
      BY <2>5, <2>9, <3>1, <3>2, <3>3, LifeContinues
    <3> QED BY <2>5, <3>4 DEF IsWalk, Ships
  <2>11. history'[o] = g /\ status'[o] = "PENDING"
         /\ \A x \in Order : x # o => history'[x] = history[x] /\ status'[x] = status[x]
    BY <1>2, <2>3 DEF TypeOK
  <2>12. HistoryIsTheLife'
    <3> SUFFICES ASSUME NEW x \in Order
                 PROVE  HistoryIsTheLife!(x)'
      BY DEF HistoryIsTheLife
    <3>1. CASE x = o
      BY <2>10, <2>11, <3>1 DEF Exists
    <3>2. CASE x # o
      BY <2>11, <3>2 DEF Exists, OrdersInv, HistoryIsTheLife
    <3> QED BY <3>1, <3>2
  <2>13. ShippedAgrees'
    <3> SUFFICES ASSUME NEW x \in Order
                 PROVE  ShippedAgrees!(x)'
      BY DEF ShippedAgrees
    <3>1. CASE x = o
      <4>1. ~Shipped(o)'
        BY <2>10, <2>11 DEF Shipped
      <4> QED BY <2>11, <3>1, <4>1
    <3>2. CASE x # o
      BY <2>11, <3>2 DEF Shipped, OrdersInv, ShippedAgrees
    <3> QED BY <3>1, <3>2
  <2> QED BY <2>6, <2>7, <2>8, <2>12, <2>13 DEF OrdersInv
<1> QED BY <1>3, <1>4

(* A committed transition, of one status or of a whole walk: the order is  *)
(* still whole, and has shipped if the walk went through SHIPPED.          *)
LEMMA CommitWhole ==
  ASSUME OrdersInv, NEW w \in Worker, Commit(w)
  PROVE  /\ OrdersInv'
         /\ \A x \in Order :
              x = job[w].o => (Shipped(x)' <=> Shipped(x) \/ DraftShipped(w))
<1>1. PICK o \in Order, h \in Seq(OrderStatus) : o = job[w].o /\ h = history[o]
  BY DEF Commit, OrdersInv, JobOK, TypeOK
<1>2. TypeOK /\ Exists(o) /\ job[w] \in Job
  BY <1>1 DEF Commit, OrdersInv, JobOK, TypeOK
<1>3. PICK s \in OrderStatus, d \in Seq(OrderStatus) : s = job[w].seen /\ d = job[w].draft
  BY <1>2 DEF Job
<1>4. PICK j : j = [job[w] EXCEPT !.pc = "announce"]
  OBVIOUS
<1>5. PICK g : g = h \o d
  OBVIOUS
<1>6. /\ status' = [status EXCEPT ![o] = s]
      /\ history' = [history EXCEPT ![o] = g]
      /\ stock' = Restored(w)
      /\ job' = [job EXCEPT ![w] = j]
      /\ UNCHANGED <<items, receipt, key, withheld>>
  BY <1>1, <1>3, <1>4, <1>5 DEF Commit, Go
<1>7. j \in Job /\ j.pc = "announce" /\ j.o = o
  BY <1>1, <1>2, <1>4 DEF Job
<1>8. g \in Seq(OrderStatus)
  BY <1>5, ConcatProperties
<1>9. DraftIsAWalk(w) /\ DraftPlace(w)
  BY DEF Commit, OrdersInv, JobOK
<1>10. TypeOK'
  <2>1. stock' \in [Book -> Nat]
    BY <1>1, <1>2, <1>6 DEF Restored, TypeOK
  <2> QED BY <1>2, <1>6, <1>7, <1>8, <2>1 DEF TypeOK
<1>11. /\ history'[o] = g /\ status'[o] = s /\ s # "ABSENT"
       /\ \A x \in Order : x # o => history'[x] = history[x] /\ status'[x] = status[x]
  BY <1>2, <1>6 DEF TypeOK, OrderStatus
<1>12. ASSUME NEW v \in Worker PROVE JobOK(v)'
  <2>1. CASE v = w
    BY <1>2, <1>6, <1>7, <1>11, <2>1 DEF JobOK, TypeOK, Exists
  <2>2. CASE v # w
    <3>1. ~LockedBy(v, o)
      BY <1>1, <2>2 DEF OrdersInv, OneWriter, LockedBy, Commit
    <3>2. job'[v] = job[v]
      BY <1>2, <1>6, <2>2 DEF TypeOK
    <3> QED BY <1>6, <1>11, <3>1, <3>2, OtherJobs
  <2> QED BY <2>1, <2>2
<1>13. OneWriter'
  BY <1>2, <1>6, <1>7, LocksKept DEF TypeOK
<1>14. /\ Len(h) > 0 /\ h[1] = "PENDING" /\ h[Len(h)] = status[o]
       /\ \A i \in 1..(Len(h) - 1) : LegalMove(h[i], h[i + 1])
  BY <1>1, <1>2 DEF OrdersInv, HistoryIsTheLife
<1>15. /\ Len(d) > 0 /\ d[Len(d)] = s /\ LegalMove(status[o], d[1])
       /\ \A i \in 1..(Len(d) - 1) : LegalMove(d[i], d[i + 1])
  BY <1>1, <1>3, <1>9 DEF DraftIsAWalk, LegalMove
<1>16. /\ Len(g) > 0 /\ g[1] = "PENDING" /\ g[Len(g)] = s
       /\ \A i \in 1..(Len(g) - 1) : LegalMove(g[i], g[i + 1])
       /\ (\E i \in 1..Len(g) : g[i] = "SHIPPED") <=>
            (\E i \in 1..Len(h) : h[i] = "SHIPPED") \/ (\E i \in 1..Len(d) : d[i] = "SHIPPED")
  <2>1. IsWalk(h) /\ IsWalk(d) /\ LegalMove(h[Len(h)], d[1])
    BY <1>14, <1>15 DEF IsWalk
  <2>2. IsWalk(g) /\ g[1] = "PENDING" /\ g[Len(g)] = s /\ (Ships(g) <=> Ships(h) \/ Ships(d))
    BY <1>5, <1>14, <1>15, <2>1, LifeContinues
  <2> QED BY <2>2 DEF IsWalk, Ships
<1>17. Shipped(o)' <=> Shipped(o) \/ DraftShipped(w)
  <2>1. Shipped(o)' <=> \E i \in 1..Len(g) : g[i] = "SHIPPED"
    BY <1>11 DEF Shipped
  <2>2. Shipped(o) <=> \E i \in 1..Len(h) : h[i] = "SHIPPED"
    BY <1>1 DEF Shipped
  <2>3. DraftShipped(w) <=> \E i \in 1..Len(d) : d[i] = "SHIPPED"
    BY <1>3 DEF DraftShipped
  <2> QED BY <1>16, <2>1, <2>2, <2>3
<1>18. HistoryIsTheLife'
  <2> SUFFICES ASSUME NEW x \in Order
               PROVE  HistoryIsTheLife!(x)'
    BY DEF HistoryIsTheLife
  <2>1. CASE x = o
    BY <1>11, <1>16, <2>1 DEF Exists
  <2>2. CASE x # o
    BY <1>11, <2>2 DEF Exists, OrdersInv, HistoryIsTheLife
  <2> QED BY <2>1, <2>2
<1>19. ShippedAgrees'
  <2> SUFFICES ASSUME NEW x \in Order
               PROVE  ShippedAgrees!(x)'
    BY DEF ShippedAgrees
  <2>1. CASE x = o
    BY <1>1, <1>3, <1>9, <1>11, <1>17, <2>1
       DEF DraftPlace, OrdersInv, ShippedAgrees, STOCK_HELD_STATUSES
  <2>2. CASE x # o
    BY <1>11, <2>2 DEF Shipped, OrdersInv, ShippedAgrees
  <2> QED BY <2>1, <2>2
<1> QED BY <1>1, <1>10, <1>12, <1>13, <1>17, <1>18, <1>19 DEF OrdersInv

(* A commit keeps the invariant. *)
LEMMA CommitInv ==
  ASSUME OrdersInv, NEW w \in Worker, Commit(w)
  PROVE  OrdersInv'
BY CommitWhole

(* A commit's history has shipped if it had, or if the draft does. *)
LEMMA CommitShips ==
  ASSUME OrdersInv, NEW w \in Worker, Commit(w), NEW o \in Order, o = job[w].o
  PROVE  Shipped(o)' <=> Shipped(o) \/ DraftShipped(w)
BY CommitWhole

-----------------------------------------------------------------------------
(* The empty shop satisfies the invariant. *)
LEMMA InitInv == Init => OrdersInv
<1> SUFFICES ASSUME Init PROVE OrdersInv
  OBVIOUS
<1>1. TypeOK
  BY IdleIsAJob DEF Init, TypeOK
<1>2. \A w \in Worker : JobOK(w) /\ job[w].pc = "idle"
  BY DEF Init, JobOK, Idle
<1>3. OneWriter
  BY <1>2 DEF OneWriter, LockedBy
<1>4. \A o \in Order : status[o] = "ABSENT" /\ history[o] = <<>>
  BY DEF Init
<1>5. HistoryIsTheLife
  BY <1>4 DEF HistoryIsTheLife, Exists
<1>6. ShippedAgrees
  BY <1>4 DEF ShippedAgrees, STOCK_HELD_STATUSES
<1> QED BY <1>1, <1>2, <1>3, <1>5, <1>6 DEF OrdersInv

(* The invariant reads nothing but the variables of the specification. *)
LEMMA StutterInv == OrdersInv /\ UNCHANGED vars => OrdersInv'
BY DEF OrdersInv, TypeOK, JobOK, OneWriter, LockedBy, HistoryIsTheLife, ShippedAgrees, Shipped,
       Exists, DraftIsAWalk, DraftPlace, DraftShipped, vars

(* Every step keeps the invariant. *)
LEMMA NextInv == OrdersInv /\ [Next]_vars => OrdersInv'
<1> SUFFICES ASSUME OrdersInv, [Next]_vars PROVE OrdersInv'
  OBVIOUS
<1>1. ASSUME NEW w \in Worker, NEW c \in Cart, StartCheckout(w, c) PROVE OrdersInv'
  BY <1>1, StartInv
<1>2. ASSUME NEW w \in Worker, NEW o \in Order, NEW to \in OrderStatus,
             NEW op \in {"move", "advance"}, StartMove(w, op, o, to)
      PROVE  OrdersInv'
  BY <1>2, StartInv
<1>3. ASSUME NEW w \in Worker, NEW o \in Order, Cancel(w, o) PROVE OrdersInv'
  BY <1>3, CancelInv
<1>4. ASSUME NEW w \in Worker, NEW o \in Order, StartReopen(w, o) PROVE OrdersInv'
  BY <1>4, StartInv
<1>5. ASSUME NEW w \in Worker, Work(w) PROVE OrdersInv'
  BY <1>5, ReadsInv, WriteOrderInv, ReadBeforeInv, ReadStatusInv, UpdateInv, CommitInv,
     RetakeInv DEF Work
<1>6. ASSUME NEW w \in Worker, Announce(w) PROVE OrdersInv'
  BY <1>6, AnnounceInv
<1>7. ASSUME NEW b \in Book, WaitlistHolds(b) PROVE OrdersInv'
  BY <1>7, WaitlistInv
<1>8. CASE Crash
  BY <1>8, CrashInv
<1>9. CASE UNCHANGED vars
  BY <1>9, StutterInv
<1> QED BY <1>1, <1>2, <1>3, <1>4, <1>5, <1>6, <1>7, <1>8, <1>9 DEF Next, Serve, Arrive

(* The inductive invariant: at every statement of every request, what a    *)
(* transaction has written but not committed continues the committed life  *)
(* of its order, one transaction at a time writes an order, and the        *)
(* returned flag says what that walk owes the shelf.                       *)
THEOREM OrdersInvariant == Spec => []OrdersInv
BY InitInv, NextInv, PTL DEF Spec

(* Every column and every job keeps its type: in particular no stock       *)
(* column ever leaves the naturals (book.ts, CHECK stock_quantity >= 0).   *)
THEOREM TypeCorrect == Spec => []TypeOK
<1>1. OrdersInv => TypeOK
  BY DEF OrdersInv
<1> QED BY <1>1, OrdersInvariant, PTL

(* However requests interleave, an order's history is a legal life that    *)
(* ends at its status column.                                              *)
THEOREM HistoryIsAlwaysTheLife == Spec => []HistoryIsTheLife
<1>1. OrdersInv => HistoryIsTheLife
  BY DEF OrdersInv
<1> QED BY <1>1, OrdersInvariant, PTL

-----------------------------------------------------------------------------
(* Only three actions touch the tables an order's claims and copies are    *)
(* read from.                                                              *)
LEMMA OnlyThreeWrite ==
  ASSUME [Next]_vars
  PROVE  \/ UNCHANGED <<orderVars, stock>>
         \/ \E w \in Worker : WriteOrder(w) \/ Commit(w) \/ Retake(w)
<1>1. ASSUME NEW w \in Worker, NEW c \in Cart, StartCheckout(w, c)
      PROVE  UNCHANGED <<orderVars, stock>>
  BY <1>1 DEF StartCheckout
<1>2. ASSUME NEW w \in Worker, NEW o \in Order, NEW to \in OrderStatus,
             NEW op \in {"move", "advance"}, StartMove(w, op, o, to)
      PROVE  UNCHANGED <<orderVars, stock>>
  BY <1>2 DEF StartMove
<1>3. ASSUME NEW w \in Worker, NEW o \in Order, Cancel(w, o) \/ StartReopen(w, o)
      PROVE  UNCHANGED <<orderVars, stock>>
  BY <1>3 DEF Cancel, StartReopen
<1>4. ASSUME NEW w \in Worker, Work(w) \/ Announce(w)
      PROVE  UNCHANGED <<orderVars, stock>> \/ WriteOrder(w) \/ Commit(w) \/ Retake(w)
  BY <1>4 DEF Work, FindByIdempotencyKey, RejectReusedReceipt, ReadBefore, ReadStatus, Update,
              Walk, ReadForReopen, Announce
<1>5. ASSUME NEW b \in Book, WaitlistHolds(b) PROVE UNCHANGED <<orderVars, stock>>
  BY <1>5 DEF WaitlistHolds
<1>6. CASE Crash
  BY <1>6 DEF Crash
<1>7. CASE UNCHANGED vars
  BY <1>7 DEF vars, orderVars
<1> QED BY <1>1, <1>2, <1>3, <1>4, <1>5, <1>6, <1>7 DEF Next, Serve, Arrive

(* Committing a transition makes no order live that was not. *)
LEMMA CommitOpensNothing ==
  ASSUME OrdersInv, NEW w \in Worker, Commit(w), NEW o \in Order, Live(o)'
  PROVE  Live(o)
<1>1. TypeOK /\ job[w].o \in Order /\ Exists(job[w].o) /\ DraftIsAWalk(w)
  BY DEF Commit, OrdersInv, JobOK
<1>2. status' = [status EXCEPT ![job[w].o] = job[w].seen]
  BY DEF Commit
<1>3. CASE o = job[w].o
  <2>1. status[o] \in OrderStatus /\ canTransition(status[o], job[w].draft[1])
    BY <1>1, <1>3 DEF DraftIsAWalk, Exists, TypeOK
  <2>2. status[o] \notin {"CANCELLED", "REFUNDED"}
    BY <2>1, MachineType
  <2> QED BY <1>1, <1>3, <2>2 DEF Live, RELEASED_STATUSES
<1>4. CASE o # job[w].o
  BY <1>1, <1>2, <1>4 DEF Live, Exists, TypeOK
<1> QED BY <1>3, <1>4

(* No step gives a receipt a second live order, or a key a second order:   *)
(* the insertion and the reopening ask the index again when they write.    *)
LEMMA ClaimsNext ==
  ASSUME OrdersInv, ClaimsAreExclusive, [Next]_vars
  PROVE  ClaimsAreExclusive'
<1>1. TypeOK
  BY DEF OrdersInv
<1>2. CASE UNCHANGED <<orderVars, stock>>
  BY <1>2 DEF ClaimsAreExclusive, Exists, Live, orderVars
<1>3. ASSUME NEW w \in Worker, WriteOrder(w) PROVE ClaimsAreExclusive'
  <2> DEFINE c == job[w].cart
  <2>1. CASE ~MayInsert(c)
    BY <1>3, <2>1 DEF WriteOrder, ClaimsAreExclusive, Exists, Live, orderVars
  <2>2. CASE MayInsert(c)
    <3>1. PICK o \in Order :
            /\ ~Exists(o)
            /\ status' = [status EXCEPT ![o] = "PENDING"]
            /\ receipt' = [receipt EXCEPT ![o] = c.receipt]
            /\ key' = [key EXCEPT ![o] = c.key]
      BY <1>3, <2>2 DEF WriteOrder
    <3>2. \A x \in Order : key[x] # c.key /\ (c.receipt # NoReceipt /\ Live(x) => receipt[x] # c.receipt)
      BY <2>2 DEF MayInsert, Claims
    <3>3. /\ key'[o] = c.key /\ receipt'[o] = c.receipt
          /\ \A x \in Order : x # o => /\ key'[x] = key[x] /\ receipt'[x] = receipt[x]
                                     /\ status'[x] = status[x]
      BY <1>1, <3>1 DEF TypeOK
    <3>4. \A x \in Order : x # o => (Live(x)' <=> Live(x)) /\ (Exists(x)' <=> Exists(x))
      BY <3>3 DEF Live, Exists
    <3> HIDE DEF c
    <3> QED BY <3>2, <3>3, <3>4 DEF ClaimsAreExclusive
  <2> QED BY <2>1, <2>2
<1>4. ASSUME NEW w \in Worker, Commit(w) PROVE ClaimsAreExclusive'
  <2>1. \A o \in Order : Live(o)' => Live(o)
    BY <1>4, CommitOpensNothing
  <2>2. \A o \in Order : Exists(o)' => Exists(o)
    BY <1>1, <1>4 DEF Commit, Exists, TypeOK, OrdersInv, JobOK
  <2>3. receipt' = receipt /\ key' = key
    BY <1>4 DEF Commit
  <2> QED BY <2>1, <2>2, <2>3 DEF ClaimsAreExclusive
<1>5. ASSUME NEW w \in Worker, Retake(w) PROVE ClaimsAreExclusive'
  <2>1. PICK o \in Order : o = job[w].o /\ Exists(o)
    BY <1>5 DEF Retake, OrdersInv, JobOK
  <2>2. CASE ~MayRetake(o)
    BY <1>5, <2>1, <2>2 DEF Retake, ClaimsAreExclusive, Exists, Live, orderVars
  <2>3. CASE MayRetake(o)
    <3>1. status' = [status EXCEPT ![o] = "PENDING"] /\ receipt' = receipt /\ key' = key
      BY <1>5, <2>1, <2>3 DEF Retake
    <3>2. \A x \in Order \ {o} : receipt[o] # NoReceipt /\ Live(x) => receipt[x] # receipt[o]
      BY <2>3 DEF MayRetake, Claims
    <3>3. \A x \in Order : x # o => (Live(x)' <=> Live(x)) /\ (Exists(x)' <=> Exists(x))
      BY <1>1, <3>1 DEF Live, Exists, TypeOK
    <3> QED BY <2>1, <3>1, <3>2, <3>3 DEF ClaimsAreExclusive
  <2> QED BY <2>2, <2>3
<1> QED BY <1>2, <1>3, <1>4, <1>5, OnlyThreeWrite

(* No two orders ever share an idempotency key, and no two live ones a     *)
(* receipt.                                                                *)
THEOREM ClaimsStayExclusive == Spec => []ClaimsAreExclusive
<1>1. Init => ClaimsAreExclusive
  BY DEF Init, ClaimsAreExclusive, Exists
<1>2. OrdersInv /\ ClaimsAreExclusive /\ [Next]_vars => ClaimsAreExclusive'
  BY ClaimsNext
<1> QED BY <1>1, <1>2, OrdersInvariant, PTL DEF Spec

-----------------------------------------------------------------------------
(* The refinement of ShelfLedger: each step of the tables is one step of   *)
(* the ledger or none.                                                     *)

LEMMA PlaceStays ==
  ASSUME NEW o \in Order, status'[o] = status[o], history'[o] = history[o]
  PROVE  Place(o)' = Place(o)
BY DEF Place, Shipped

(* Where an order's copies are, for an order that is of a known status. *)
LEMMA PlaceByStatus ==
  ASSUME OrdersInv, NEW o \in Order
  PROVE  /\ ~Exists(o) => Place(o) = "none"
         /\ status[o] \in STOCK_HELD_STATUSES => Place(o) = "held"
         /\ Exists(o) /\ Shipped(o) => Place(o) = "gone"
         /\ Exists(o) /\ status[o] \notin STOCK_HELD_STATUSES /\ ~Shipped(o) => Place(o) = "returned"
         /\ status[o] = "CANCELLED" => Place(o) = "returned"
         /\ status[o] \in {"SHIPPED", "DELIVERED"} => Place(o) = "gone"
<1>1. /\ status[o] \in STOCK_HELD_STATUSES \cup {"CANCELLED"} => ~Shipped(o)
      /\ status[o] \in {"SHIPPED", "DELIVERED"} => Shipped(o)
      /\ ~Exists(o) => history[o] = <<>>
  BY DEF OrdersInv, ShippedAgrees, HistoryIsTheLife
<1>2. "ABSENT" \notin STOCK_HELD_STATUSES /\ "CANCELLED" \notin STOCK_HELD_STATUSES
  BY DEF STOCK_HELD_STATUSES
<1> QED BY <1>1, <1>2 DEF Place, Exists

(* One order's place changes, the others keep theirs. *)
LEMMA OnePlace ==
  ASSUME NEW o \in Order, NEW p, Place(o)' = p,
         \A x \in Order : x # o => status'[x] = status[x] /\ history'[x] = history[x]
  PROVE  [x \in Order |-> Place(x)]' = [[x \in Order |-> Place(x)] EXCEPT ![o] = p]
BY PlaceStays

(* A committed checkout is the ledger's Sell; a refused one is a stutter. *)
LEMMA SellRefined ==
  ASSUME OrdersInv, NEW w \in Worker, WriteOrder(w)
  PROVE  Ledger!LedgerNext \/ UNCHANGED Ledger!ledgerVars
<1>1. PICK c \in Cart : c = job[w].cart
  BY DEF WriteOrder, OrdersInv, JobOK
<1>2. CASE ~MayInsert(c)
  BY <1>1, <1>2, PlaceStays DEF WriteOrder, orderVars, Ledger!ledgerVars
<1>3. CASE MayInsert(c)
  <2>1. PICK o \in Order :
          /\ ~Exists(o)
          /\ stock' = [b \in Book |-> stock[b] - c.basket[b]]
          /\ status' = [status EXCEPT ![o] = "PENDING"]
          /\ items' = [items EXCEPT ![o] = c.basket]
          /\ history' = [history EXCEPT ![o] = <<"PENDING">>]
    BY <1>1, <1>3 DEF WriteOrder
  <2>2. status'[o] = "PENDING" /\ history'[o] = <<"PENDING">>
        /\ \A x \in Order : x # o => status'[x] = status[x] /\ history'[x] = history[x]
    BY <2>1 DEF OrdersInv, TypeOK
  <2>3. Place(o) = "none"
    BY <2>1, PlaceByStatus
  <2>4. Place(o)' = "held"
    BY <2>2 DEF Place, Shipped, STOCK_HELD_STATUSES
  <2>5. [x \in Order |-> Place(x)]' = [[x \in Order |-> Place(x)] EXCEPT ![o] = "held"]
    BY <2>2, <2>4, OnePlace
  <2>6. \A b \in Book : c.basket[b] <= stock[b]
    <3> SUFFICES ASSUME NEW b \in Book PROVE c.basket[b] <= stock[b]
      OBVIOUS
    <3>1. c.basket[b] \in Nat /\ stock[b] \in Nat /\ withheld[b] \in Nat
      BY DEF OrdersInv, TypeOK
    <3> QED BY <1>3, <3>1 DEF MayInsert, Available
  <2>7. Ledger!Sell(o)
    BY <2>1, <2>3, <2>5, <2>6 DEF Ledger!Sell, Ledger!Fits, Ledger!Taken
  <2> QED BY <2>7 DEF Ledger!LedgerNext
<1> QED BY <1>2, <1>3

(* A reopening is the ledger's SellAgain, or a stutter. *)
LEMMA SellAgainRefined ==
  ASSUME OrdersInv, NEW w \in Worker, Retake(w)
  PROVE  Ledger!LedgerNext \/ UNCHANGED Ledger!ledgerVars
<1>1. PICK o \in Order : o = job[w].o /\ Exists(o)
  BY DEF Retake, OrdersInv, JobOK
<1>2. CASE ~MayRetake(o)
  BY <1>1, <1>2, PlaceStays DEF Retake, orderVars, Ledger!ledgerVars
<1>3. CASE MayRetake(o)
  <2>1. /\ status' = [status EXCEPT ![o] = "PENDING"]
        /\ history' = [history EXCEPT ![o] = Append(history[o], "PENDING")]
        /\ stock' = [b \in Book |-> stock[b] - items[o][b]]
        /\ items' = items
    BY <1>1, <1>3 DEF Retake
  <2>2. status'[o] = "PENDING"
        /\ \A x \in Order : x # o => status'[x] = status[x] /\ history'[x] = history[x]
    BY <2>1 DEF OrdersInv, TypeOK
  <2>3. Place(o) = "returned"
    BY <1>3, PlaceByStatus DEF MayRetake
  <2>4. Place(o)' = "held"
    <3>1. ~Shipped(o)'
      BY <2>2, RetakeInv DEF OrdersInv, ShippedAgrees, STOCK_HELD_STATUSES
    <3> QED BY <2>2, <3>1 DEF Place, STOCK_HELD_STATUSES
  <2>5. [x \in Order |-> Place(x)]' = [[x \in Order |-> Place(x)] EXCEPT ![o] = "held"]
    BY <2>2, <2>4, OnePlace
  <2>6. \A b \in Book : items[o][b] <= stock[b]
    <3> SUFFICES ASSUME NEW b \in Book PROVE items[o][b] <= stock[b]
      OBVIOUS
    <3>1. items[o][b] \in Nat /\ stock[b] \in Nat /\ withheld[b] \in Nat
      BY DEF OrdersInv, TypeOK
    <3> QED BY <1>3, <3>1 DEF MayRetake, Available
  <2>7. Ledger!SellAgain(o)
    BY <2>1, <2>3, <2>5, <2>6 DEF Ledger!SellAgain, Ledger!Fits, Ledger!Taken
  <2> QED BY <2>7 DEF Ledger!LedgerNext
<1> QED BY <1>2, <1>3

(* A committed transition gives the copies back, hands them over, or       *)
(* leaves them where they are.                                             *)
LEMMA CommitRefined ==
  ASSUME OrdersInv, NEW w \in Worker, Commit(w)
  PROVE  Ledger!LedgerNext \/ UNCHANGED Ledger!ledgerVars
<1>1. PICK o \in Order : o = job[w].o /\ Exists(o)
  BY DEF Commit, OrdersInv, JobOK
<1>2. PICK s \in OrderStatus : s = job[w].seen
  BY DEF OrdersInv, TypeOK, Job
<1>3. /\ status' = [status EXCEPT ![o] = s] /\ items' = items /\ stock' = Restored(w)
      /\ history' = [history EXCEPT ![o] = history[o] \o job[w].draft]
  BY <1>1, <1>2 DEF Commit
<1>4. status'[o] = s
      /\ \A x \in Order : x # o => status'[x] = status[x] /\ history'[x] = history[x]
  BY <1>3 DEF OrdersInv, TypeOK
<1>5. DraftPlace(w) /\ OrdersInv'
  BY CommitInv DEF Commit, OrdersInv, JobOK
<1>6. status[o] \in STOCK_HELD_STATUSES \cup {"SHIPPED", "DELIVERED"}
  <2>1. DraftIsAWalk(w) /\ status[o] \in OrderStatus
    BY <1>1 DEF Commit, OrdersInv, JobOK, TypeOK, Exists
  <2>2. canTransition(status[o], job[w].draft[1])
    BY <1>1, <2>1 DEF DraftIsAWalk
  <2> QED BY <2>1, <2>2, MachineType, MachineSides
<1>7. Place(o) = IF status[o] \in STOCK_HELD_STATUSES THEN "held" ELSE "gone"
  BY <1>6, PlaceByStatus
<1>8. CASE s \in STOCK_HELD_STATUSES
  <2>1. Place(o)' = Place(o) /\ stock' = stock
    <3>1. Place(o)' = "held"
      <4>1. ~Shipped(o)'
        BY <1>4, <1>5, <1>8 DEF OrdersInv, ShippedAgrees
      <4> QED BY <1>4, <1>8, <4>1 DEF Place, STOCK_HELD_STATUSES
    <3> QED BY <1>1, <1>2, <1>3, <1>5, <1>7, <1>8, <3>1 DEF DraftPlace, Restored
  <2>2. \A x \in Order : Place(x)' = Place(x)
    BY <1>4, <2>1, PlaceStays
  <2> QED BY <1>3, <2>1, <2>2 DEF Ledger!ledgerVars
<1>9. CASE s \notin STOCK_HELD_STATUSES /\ job[w].returned
  <2>1. status[o] \in STOCK_HELD_STATUSES /\ ~DraftShipped(w) /\ s \in {"CANCELLED", "REFUNDED"}
    BY <1>1, <1>2, <1>5, <1>9 DEF DraftPlace, OrderStatus, STOCK_HELD_STATUSES
  <2>2. Place(o)' = "returned"
    <3>1. ~Shipped(o)'
      BY <1>1, <1>4, <2>1, CommitShips DEF OrdersInv, ShippedAgrees
    <3> QED BY <1>4, <1>9, <2>1, <3>1 DEF Place
  <2>3. [x \in Order |-> Place(x)]' = [[x \in Order |-> Place(x)] EXCEPT ![o] = "returned"]
    BY <1>4, <2>2, OnePlace
  <2>4. stock' = [b \in Book |-> stock[b] + items[o][b]]
    BY <1>1, <1>3, <1>9 DEF Restored
  <2>5. Ledger!Return(o)
    BY <1>3, <1>7, <2>1, <2>3, <2>4 DEF Ledger!Return, Ledger!Put
  <2> QED BY <2>5 DEF Ledger!LedgerNext
<1>10. CASE s \notin STOCK_HELD_STATUSES /\ ~job[w].returned
  <2>1. DraftShipped(w) \/ status[o] \in {"SHIPPED", "DELIVERED"}
    BY <1>1, <1>2, <1>5, <1>10 DEF DraftPlace, OrderStatus, STOCK_HELD_STATUSES
  <2>2. Place(o)' = "gone"
    <3>1. Shipped(o)'
      BY <1>1, <2>1, CommitShips DEF OrdersInv, ShippedAgrees
    <3> QED BY <1>4, <3>1, <1>2 DEF Place, OrderStatus
  <2>3. [x \in Order |-> Place(x)]' = [[x \in Order |-> Place(x)] EXCEPT ![o] = "gone"]
    BY <1>4, <2>2, OnePlace
  <2>4. stock' = stock
    BY <1>3, <1>10 DEF Restored
  <2>5. CASE Place(o) = "held"
    <3>1. Ledger!HandOver(o)
      BY <1>3, <2>3, <2>4, <2>5 DEF Ledger!HandOver
    <3> QED BY <3>1 DEF Ledger!LedgerNext
  <2>6. CASE Place(o) = "gone"
    <3>1. \A x \in Order : Place(x)' = Place(x)
      BY <1>4, <2>2, <2>6, PlaceStays
    <3> QED BY <1>3, <2>4, <3>1 DEF Ledger!ledgerVars
  <2> QED BY <1>7, <2>5, <2>6
<1> QED BY <1>8, <1>9, <1>10

LEMMA LedgerStep == OrdersInv /\ [Next]_vars => [Ledger!LedgerNext]_(Ledger!ledgerVars)
<1> SUFFICES ASSUME OrdersInv, [Next]_vars
             PROVE  Ledger!LedgerNext \/ UNCHANGED Ledger!ledgerVars
  OBVIOUS
<1>1. CASE UNCHANGED <<orderVars, stock>>
  BY <1>1, PlaceStays DEF orderVars, Ledger!ledgerVars
<1> QED BY <1>1, SellRefined, SellAgainRefined, CommitRefined, OnlyThreeWrite

(* Copies move as ShelfLedger says, whatever the requests do: taken once   *)
(* when an order is placed, given back at most once per taking, and never  *)
(* after the parcel has gone.                                              *)
THEOREM OrdersKeepTheLedger == Spec => LedgerSpec
<1>1. Init => Ledger!LedgerInit
  <2> SUFFICES ASSUME Init PROVE Ledger!LedgerInit
    OBVIOUS
  <2>1. \A o \in Order : Place(o) = "none"
    BY InitInv, PlaceByStatus DEF Init, Exists
  <2> QED BY <2>1 DEF Init, Ledger!LedgerInit, Ledger!Nothing
<1> QED BY <1>1, LedgerStep, OrdersInvariant, PTL DEF Spec, LedgerSpec, Ledger!LedgerSpec

-----------------------------------------------------------------------------
(* The copies: what the shelf and the orders have together.                *)

CopiesInv ==
  /\ OrdersInv
  /\ \A b \in Book : IsFiniteSet(CopiesWithOrders(b))
  /\ CopiesAreConserved

(* The copies of one order, beside those of others.                        *)
LEMMA OneMoreOrder ==
  ASSUME NEW A, IsFiniteSet(A), NEW o, NEW n \in Nat, \A p \in A : p[1] # o
  PROVE  /\ IsFiniteSet(A \cup ({o} \X (1..n)))
         /\ Cardinality(A \cup ({o} \X (1..n))) = Cardinality(A) + n
         /\ Cardinality(A) \in Nat
<1> DEFINE B == {o} \X (1..n)
<1>1. IsFiniteSet(B) /\ Cardinality(B) = n
  <2>1. IsFiniteSet({o}) /\ Cardinality({o}) = 1
    BY FS_Singleton
  <2>2. IsFiniteSet(1..n) /\ Cardinality(1..n) = n
    BY FS_Interval
  <2>3. IsFiniteSet(B) /\ Cardinality(B) = Cardinality({o}) * Cardinality(1..n)
    BY <2>1, <2>2, FS_Product
  <2> QED BY <2>1, <2>2, <2>3
<1>2. A \cap B = {}
  OBVIOUS
<1> HIDE DEF B
<1>3. IsFiniteSet(A \cup B) /\ Cardinality(A \cup B) = Cardinality(A) + Cardinality(B) - Cardinality(A \cap B)
  BY <1>1, FS_Union
<1>4. Cardinality(A \cap B) = 0 /\ Cardinality(A) \in Nat
  BY <1>2, FS_EmptySet, FS_CardinalityType
<1> QED BY <1>1, <1>3, <1>4 DEF B

(* The copies that the orders of S have.                                   *)
With(S, lines, b) == UNION {{o} \X (1..lines[o][b]) : o \in S}

LEMMA WithOneMore ==
  ASSUME NEW S, NEW lines, NEW b, NEW o, o \notin S, NEW n \in Nat, lines[o][b] = n,
         IsFiniteSet(With(S, lines, b))
  PROVE  /\ IsFiniteSet(With(S \cup {o}, lines, b))
         /\ Cardinality(With(S \cup {o}, lines, b)) = Cardinality(With(S, lines, b)) + n
         /\ Cardinality(With(S, lines, b)) \in Nat
<1>1. With(S \cup {o}, lines, b) = With(S, lines, b) \cup ({o} \X (1..n))
  BY DEF With
<1>2. \A p \in With(S, lines, b) : p[1] # o
  BY DEF With
<1> DEFINE A == With(S, lines, b)
<1>3. IsFiniteSet(A) /\ \A p \in A : p[1] # o
  BY <1>2
<1> HIDE DEF A
<1>4. /\ IsFiniteSet(A \cup ({o} \X (1..n)))
      /\ Cardinality(A \cup ({o} \X (1..n))) = Cardinality(A) + n
      /\ Cardinality(A) \in Nat
  BY <1>3, OneMoreOrder
<1> QED BY <1>1, <1>4 DEF A

LEMMA WithOneMoreOf ==
  ASSUME NEW S, NEW b, NEW o, o \notin S, items[o][b] \in Nat, IsFiniteSet(With(S, items, b))
  PROVE  /\ IsFiniteSet(With(S \cup {o}, items, b))
         /\ Cardinality(With(S \cup {o}, items, b)) = Cardinality(With(S, items, b)) + items[o][b]
         /\ Cardinality(With(S, items, b)) \in Nat
<1> DEFINE A == With(S, items, b)
           n == items[o][b]
<1>1. With(S \cup {o}, items, b) = A \cup ({o} \X (1..n))
  BY DEF With
<1>2. IsFiniteSet(A) /\ n \in Nat /\ \A p \in A : p[1] # o
  BY DEF With
<1> HIDE DEF A, n
<1>3. /\ IsFiniteSet(A \cup ({o} \X (1..n)))
      /\ Cardinality(A \cup ({o} \X (1..n))) = Cardinality(A) + n
      /\ Cardinality(A) \in Nat
  BY <1>2, OneMoreOrder
<1> QED BY <1>1, <1>3 DEF A, n

LEMMA WithOneLess ==
  ASSUME NEW S, NEW lines, NEW b, NEW o \in S, NEW n \in Nat, lines[o][b] = n,
         IsFiniteSet(With(S, lines, b))
  PROVE  /\ IsFiniteSet(With(S \ {o}, lines, b))
         /\ Cardinality(With(S \ {o}, lines, b)) + n = Cardinality(With(S, lines, b))
         /\ Cardinality(With(S \ {o}, lines, b)) \in Nat
<1>1. IsFiniteSet(With(S \ {o}, lines, b))
  <2>1. With(S \ {o}, lines, b) \subseteq With(S, lines, b)
    BY DEF With
  <2> QED BY <2>1, FS_Subset
<1>2. (S \ {o}) \cup {o} = S
  OBVIOUS
<1>3. o \notin S \ {o}
  OBVIOUS
<1> DEFINE R == S \ {o}
<1>4. IsFiniteSet(With(R, lines, b)) /\ o \notin R /\ R \cup {o} = S
  BY <1>1, <1>2
<1> HIDE DEF R
<1>5. /\ IsFiniteSet(With(R \cup {o}, lines, b))
      /\ Cardinality(With(R \cup {o}, lines, b)) = Cardinality(With(R, lines, b)) + n
      /\ Cardinality(With(R, lines, b)) \in Nat
  <2>1. lines[o][b] = n
    OBVIOUS
  <2> QED BY <1>4, <2>1, WithOneMore, Zenon
<1> QED BY <1>1, <1>4, <1>5 DEF R

(* Orders whose lines stay have the copies they had.                       *)
LEMMA WithLooksAt ==
  ASSUME NEW S, NEW old, NEW new, \A o \in S : new[o] = old[o], NEW b
  PROVE  With(S, new, b) = With(S, old, b)
BY DEF With

Buyers == {x \in Order : Place(x) \in {"held", "gone"}}

LEMMA CopiesOfBuyers ==
  ASSUME NEW b
  PROVE  /\ CopiesWithOrders(b) = With(Buyers, items, b)
         /\ CopiesWithOrders(b)' = With(Buyers', items', b)
BY DEF CopiesWithOrders, With, Buyers

LEMMA LedgerKeepsCopies ==
  ASSUME CopiesInv, OrdersInv', [Ledger!LedgerNext]_(Ledger!ledgerVars)
  PROVE  CopiesInv'
<1> DEFINE place == [x \in Order |-> Place(x)]
<1>0. /\ items \in [Order -> [Book -> Nat]] /\ items' \in [Order -> [Book -> Nat]]
      /\ stock \in [Book -> Nat] /\ stock' \in [Book -> Nat]
  BY DEF CopiesInv, OrdersInv, TypeOK
<1>1. /\ \A x \in Order : place[x] = Place(x) /\ place'[x] = Place(x)'
      /\ Printed \in [Book -> Nat]
  BY OrdersAssumption DEF OrdersAssumption
<1> SUFFICES ASSUME NEW b \in Book
             PROVE  /\ IsFiniteSet(CopiesWithOrders(b)')
                    /\ stock'[b] + Cardinality(CopiesWithOrders(b)') = Printed[b]
  BY DEF CopiesInv, CopiesAreConserved
<1>2. /\ IsFiniteSet(With(Buyers, items, b))
      /\ stock[b] + Cardinality(With(Buyers, items, b)) = Printed[b]
      /\ Cardinality(With(Buyers, items, b)) \in Nat
      /\ stock[b] \in Nat /\ stock'[b] \in Nat /\ Printed[b] \in Nat
  <2>1. IsFiniteSet(With(Buyers, items, b)) /\ stock[b] + Cardinality(With(Buyers, items, b)) = Printed[b]
    BY CopiesOfBuyers DEF CopiesInv, CopiesAreConserved
  <2> QED BY <1>0, <1>1, <2>1, FS_CardinalityType
<1> SUFFICES /\ IsFiniteSet(With(Buyers', items', b))
             /\ stock'[b] + Cardinality(With(Buyers', items', b)) = Printed[b]
  BY CopiesOfBuyers
<1>3. CASE UNCHANGED Ledger!ledgerVars
  <2>1. Buyers' = Buyers
    BY <1>1, <1>3 DEF Ledger!ledgerVars, Buyers
  <2>2. items' = items /\ stock' = stock
    BY <1>3 DEF Ledger!ledgerVars
  <2> QED BY <1>2, <2>1, <2>2
<1>4. ASSUME NEW o \in Order, Ledger!Sell(o)
      PROVE  /\ IsFiniteSet(With(Buyers', items', b))
             /\ stock'[b] + Cardinality(With(Buyers', items', b)) = Printed[b]
  <2>1. PICK basket \in {c.basket : c \in Cart} :
          /\ Ledger!Fits(basket) /\ stock' = Ledger!Taken(basket)
          /\ items' = [items EXCEPT ![o] = basket]
    BY <1>4 DEF Ledger!Sell
  <2>2. place[o] = "none" /\ place' = [place EXCEPT ![o] = "held"]
    BY <1>4 DEF Ledger!Sell
  <2> HIDE DEF place
  <2>3. Buyers' = Buyers \cup {o} /\ o \notin Buyers
    <3>1. place \in [Order -> {Place(x) : x \in Order}]
      BY DEF place
    <3>2. \A x \in Order : place'[x] = IF x = o THEN "held" ELSE place[x]
      BY <2>2, <3>1
    <3> QED BY <1>1, <2>2, <3>2 DEF Buyers
  <2>4. basket[b] \in Nat /\ basket[b] <= stock[b] /\ stock'[b] = stock[b] - basket[b]
        /\ items'[o][b] = basket[b]
    BY <1>0, <1>4, <2>1, OrdersAssumption DEF Ledger!Fits, Ledger!Taken, OrdersAssumption
  <2>5. With(Buyers, items', b) = With(Buyers, items, b)
    <3>1. \A x \in Buyers : items'[x] = items[x]
      BY <1>0, <2>1, <2>3 DEF Buyers
    <3> QED BY <3>1, WithLooksAt
  <2>6. /\ IsFiniteSet(With(Buyers \cup {o}, items', b))
        /\ Cardinality(With(Buyers \cup {o}, items', b)) = Cardinality(With(Buyers, items', b)) + basket[b]
    BY <1>2, <2>3, <2>4, <2>5, WithOneMore
  <2> QED BY <1>2, <2>3, <2>4, <2>5, <2>6
<1>5. ASSUME NEW o \in Order, Ledger!Return(o)
      PROVE  /\ IsFiniteSet(With(Buyers', items', b))
             /\ stock'[b] + Cardinality(With(Buyers', items', b)) = Printed[b]
  <2>1. /\ place[o] = "held" /\ place' = [place EXCEPT ![o] = "returned"]
        /\ stock' = Ledger!Put(items[o]) /\ items' = items
    BY <1>5 DEF Ledger!Return
  <2> HIDE DEF place
  <2>2. Buyers' = Buyers \ {o} /\ o \in Buyers
    <3>1. place \in [Order -> {Place(x) : x \in Order}]
      BY DEF place
    <3>2. \A x \in Order : place'[x] = IF x = o THEN "returned" ELSE place[x]
      BY <2>1, <3>1
    <3> QED BY <1>1, <2>1, <3>2 DEF Buyers
  <2>3. items[o][b] \in Nat /\ stock'[b] = stock[b] + items[o][b]
    BY <1>0, <1>5, <2>1 DEF Ledger!Put
  <2>4. /\ IsFiniteSet(With(Buyers \ {o}, items, b))
        /\ Cardinality(With(Buyers \ {o}, items, b)) + items[o][b] = Cardinality(With(Buyers, items, b))
        /\ Cardinality(With(Buyers \ {o}, items, b)) \in Nat
    BY <1>2, <2>2, <2>3, WithOneLess
  <2> QED BY <1>2, <2>1, <2>2, <2>3, <2>4
<1>6. ASSUME NEW o \in Order, Ledger!SellAgain(o)
      PROVE  /\ IsFiniteSet(With(Buyers', items', b))
             /\ stock'[b] + Cardinality(With(Buyers', items', b)) = Printed[b]
  <2>1. /\ place[o] = "returned" /\ place' = [place EXCEPT ![o] = "held"]
        /\ Ledger!Fits(items[o]) /\ stock' = Ledger!Taken(items[o]) /\ items' = items
    BY <1>6 DEF Ledger!SellAgain
  <2> HIDE DEF place
  <2>2. Buyers' = Buyers \cup {o} /\ o \notin Buyers
    <3>1. place \in [Order -> {Place(x) : x \in Order}]
      BY DEF place
    <3>2. \A x \in Order : place'[x] = IF x = o THEN "held" ELSE place[x]
      BY <2>1, <3>1
    <3> QED BY <1>1, <2>1, <3>2 DEF Buyers
  <2>3. items[o][b] \in Nat /\ items[o][b] <= stock[b] /\ stock'[b] = stock[b] - items[o][b]
    BY <1>0, <1>6, <2>1 DEF Ledger!Fits, Ledger!Taken
  <2>4. /\ IsFiniteSet(With(Buyers \cup {o}, items, b))
        /\ Cardinality(With(Buyers \cup {o}, items, b)) = Cardinality(With(Buyers, items, b)) + items[o][b]
    BY <1>2, <2>2, <2>3, WithOneMoreOf
  <2> QED BY <1>2, <2>1, <2>2, <2>3, <2>4
<1>7. ASSUME NEW o \in Order, Ledger!HandOver(o)
      PROVE  /\ IsFiniteSet(With(Buyers', items', b))
             /\ stock'[b] + Cardinality(With(Buyers', items', b)) = Printed[b]
  <2>1. /\ place[o] = "held" /\ place' = [place EXCEPT ![o] = "gone"]
        /\ stock' = stock /\ items' = items
    BY <1>7 DEF Ledger!HandOver
  <2> HIDE DEF place
  <2>2. Buyers' = Buyers
    <3>1. place \in [Order -> {Place(x) : x \in Order}]
      BY DEF place
    <3>2. \A x \in Order : place'[x] = IF x = o THEN "gone" ELSE place[x]
      BY <2>1, <3>1
    <3> QED BY <1>1, <2>1, <3>2 DEF Buyers
  <2> QED BY <1>2, <2>1, <2>2
<1> QED BY <1>3, <1>4, <1>5, <1>6, <1>7 DEF Ledger!LedgerNext

(* Every copy printed is on the shelf or with exactly one order, for any   *)
(* books, orders and requests: no interleaving invents a copy or loses one.*)
THEOREM CopiesStayConserved == Spec => []CopiesAreConserved
<1>1. Init => CopiesInv
  <2> SUFFICES ASSUME Init PROVE CopiesInv
    OBVIOUS
  <2>1. \A o \in Order : Place(o) = "none"
    BY InitInv, PlaceByStatus DEF Init, Exists
  <2>2. \A b \in Book : CopiesWithOrders(b) = {}
    BY <2>1 DEF CopiesWithOrders
  <2>3. \A b \in Book : stock[b] = Printed[b] /\ Printed[b] \in Nat
    BY OrdersAssumption DEF OrdersAssumption, Init
  <2>4. ASSUME NEW b \in Book
        PROVE  IsFiniteSet(CopiesWithOrders(b)) /\ stock[b] + Cardinality(CopiesWithOrders(b)) = Printed[b]
    <3>1. IsFiniteSet(CopiesWithOrders(b)) /\ Cardinality(CopiesWithOrders(b)) = 0
      BY <2>2, FS_EmptySet
    <3> QED BY <2>3, <3>1
  <2> QED BY <2>4, InitInv DEF CopiesInv, CopiesAreConserved
<1>2. CopiesInv /\ [Next]_vars => CopiesInv'
  BY NextInv, LedgerStep, LedgerKeepsCopies DEF CopiesInv
<1>3. CopiesInv => CopiesAreConserved
  BY DEF CopiesInv
<1> QED BY <1>1, <1>2, <1>3, PTL DEF Spec

-----------------------------------------------------------------------------
(* The sales rollup (module SalesRollup).  Its argument: until one of the  *)
(* four hazards happens, the UPDATEs under way of an order count it and    *)
(* un-count it in turn, and end where the order is or where its one        *)
(* announcement says it was.                                               *)

(* A set of numbers has a least one. *)
LEMMA ThereIsAFirst ==
  ASSUME NEW S \in SUBSET Nat, S # {}
  PROVE  \E m \in S : \A k \in S : m <= k
<1>1. PICK m \in S : \A k \in S : ~(<<k, m>> \in OpToRel(<, Nat))
  BY NatLessThanWellFounded, WFMin
<1>2. \A k \in S : ~(k < m)
  BY <1>1 DEF OpToRel
<1> QED BY <1>2

(* The rule of the listener: along every move an order can make, the       *)
(* direction is the change of whether the reconciler would count it.       *)
LEMMA DirectionIsTheChange ==
  ASSUME NEW s \in OrderStatus, NEW t \in OrderStatus
  PROVE  /\ directionFor(s, t) \in {1, 0, -1}
         /\ LegalMove(s, t) =>
              directionFor(s, t) =
                IF (s \in RECONCILER_COUNTED_STATUSES) = (t \in RECONCILER_COUNTED_STATUSES) THEN 0
                ELSE IF t \in RECONCILER_COUNTED_STATUSES THEN 1 ELSE -1
<1>1. directionFor(s, t) \in {1, 0, -1}
  BY DEF directionFor
<1>2. ASSUME LegalMove(s, t)
      PROVE  directionFor(s, t) =
                IF (s \in RECONCILER_COUNTED_STATUSES) = (t \in RECONCILER_COUNTED_STATUSES) THEN 0
                ELSE IF t \in RECONCILER_COUNTED_STATUSES THEN 1 ELSE -1
  BY <1>2 DEF directionFor, LegalMove, canTransition, ORDER_STATUS_TRANSITIONS, OrderStatus,
          RECONCILER_COUNTED_STATUSES, LISTENER_COUNTED_STATUSES
<1> QED BY <1>1, <1>2

-----------------------------------------------------------------------------
(* Queues that count and un-count in turn. *)

LEMMA NothingAlternates ==
  ASSUME NEW a \in BOOLEAN
  PROVE  Alternates(<<>>, a, a)
BY DEF Alternates

(* One more UPDATE behind the others, if it changes anything.              *)
LEMMA OneMoreAlternates ==
  ASSUME NEW q \in Seq({1, -1}), NEW a \in BOOLEAN, NEW m \in BOOLEAN, Alternates(q, a, m),
         NEW d, d = IF m THEN -1 ELSE 1
  PROVE  Alternates(Append(q, d), a, ~m)
<1> DEFINE r == Append(q, d)
<1>1. /\ Len(r) = Len(q) + 1 /\ r[Len(q) + 1] = d /\ \A i \in 1..Len(q) : r[i] = q[i]
      /\ Len(q) \in Nat /\ r # <<>>
  OBVIOUS
<1>2. CASE q = <<>>
  <2>1. Len(q) = 0 /\ a = m
    BY <1>2 DEF Alternates
  <2> HIDE DEF r
  <2>2. Len(r) = 1 /\ r[1] = d
    BY <1>1, <2>1
  <2> QED BY <1>1, <2>1, <2>2 DEF Alternates, r
<1>3. CASE q # <<>>
  <2>1. Len(q) > 0
    BY <1>3, EmptySeq
  <2>2. /\ q[1] = (IF a THEN -1 ELSE 1) /\ q[Len(q)] = (IF m THEN 1 ELSE -1)
        /\ \A i \in 1..(Len(q) - 1) : q[i + 1] = -q[i]
    BY <1>3 DEF Alternates
  <2> HIDE DEF r
  <2>3. ASSUME NEW i \in 1..(Len(r) - 1) PROVE r[i + 1] = -r[i]
    <3>1. CASE i = Len(q)
      BY <1>1, <2>1, <2>2, <3>1
    <3>2. CASE i # Len(q)
      <4>1. i \in 1..(Len(q) - 1) /\ i + 1 \in 1..Len(q) /\ i \in 1..Len(q)
        BY <1>1, <3>2
      <4> QED BY <1>1, <2>2, <4>1
    <3> QED BY <3>1, <3>2
  <2>4. r[1] = (IF a THEN -1 ELSE 1) /\ r[Len(r)] = (IF ~m THEN 1 ELSE -1)
    BY <1>1, <2>1, <2>2
  <2> QED BY <1>1, <2>3, <2>4 DEF Alternates, r
<1> QED BY <1>2, <1>3

(* One announcement's UPDATEs behind those of the ones before it.          *)
LEMMA MoreAlternate ==
  ASSUME NEW q \in Seq({1, -1}), NEW r \in Seq({1, -1}), NEW a \in BOOLEAN, NEW m \in BOOLEAN,
         NEW e \in BOOLEAN, Alternates(q, a, m), Alternates(r, m, e)
  PROVE  Alternates(q \o r, a, e) /\ q \o r \in Seq({1, -1})
<1> DEFINE p == q \o r
<1>1. /\ Len(p) = Len(q) + Len(r) /\ Len(q) \in Nat /\ Len(r) \in Nat
      /\ \A i \in 1..Len(q) : p[i] = q[i]
      /\ \A i \in 1..Len(r) : p[Len(q) + i] = r[i]
      /\ p \in Seq({1, -1})
  BY ConcatProperties, LenProperties
<1>2. CASE q = <<>>
  BY <1>2 DEF Alternates
<1>3. CASE r = <<>>
  BY <1>3 DEF Alternates
<1>4. CASE q # <<>> /\ r # <<>>
  <2>1. Len(q) > 0 /\ Len(r) > 0
    BY <1>4, EmptySeq
  <2>2. /\ q[1] = (IF a THEN -1 ELSE 1) /\ q[Len(q)] = (IF m THEN 1 ELSE -1)
        /\ \A i \in 1..(Len(q) - 1) : q[i + 1] = -q[i]
        /\ r[1] = (IF m THEN -1 ELSE 1) /\ r[Len(r)] = (IF e THEN 1 ELSE -1)
        /\ \A i \in 1..(Len(r) - 1) : r[i + 1] = -r[i]
    BY <1>4 DEF Alternates
  <2> HIDE DEF p
  <2>3. ASSUME NEW i \in 1..(Len(p) - 1) PROVE p[i + 1] = -p[i]
    <3>1. CASE i < Len(q)
      <4>1. i \in 1..(Len(q) - 1) /\ i + 1 \in 1..Len(q) /\ i \in 1..Len(q)
        BY <1>1, <3>1
      <4> QED BY <1>1, <2>2, <4>1
    <3>2. CASE i = Len(q)
      <4>1. p[i] = q[Len(q)] /\ p[i + 1] = r[1]
        BY <1>1, <2>1, <3>2
      <4> QED BY <2>2, <4>1
    <3>3. CASE i > Len(q)
      <4>1. PICK k \in 1..(Len(r) - 1) : i = Len(q) + k
        <5>1. i - Len(q) \in 1..(Len(r) - 1) /\ i = Len(q) + (i - Len(q))
          BY <1>1, <3>3
        <5> QED BY <5>1
      <4>2. p[i] = r[k] /\ p[i + 1] = r[k + 1]
        <5>1. k \in 1..Len(r) /\ k + 1 \in 1..Len(r) /\ i + 1 = Len(q) + (k + 1)
          BY <1>1, <4>1
        <5> QED BY <1>1, <4>1, <5>1
      <4> QED BY <2>2, <4>2
    <3> QED BY <1>1, <3>1, <3>2, <3>3
  <2>4. p[1] = q[1] /\ p[Len(p)] = r[Len(r)] /\ p # <<>>
    <3>1. p[1] = q[1] /\ p[Len(q) + Len(r)] = r[Len(r)]
      BY <1>1, <2>1
    <3>2. p # <<>>
      BY <1>1, <2>1, EmptySeq
    <3> QED BY <1>1, <3>1, <3>2
  <2> QED BY <1>1, <2>2, <2>3, <2>4 DEF Alternates, p
<1> QED BY <1>1, <1>2, <1>3, <1>4

(* Taking one UPDATE out. *)
LEMMA RemovalType ==
  ASSUME NEW q \in Seq({1, -1}), NEW i \in 1..Len(q)
  PROVE  RemoveAt(q, i) \in Seq({1, -1}) /\ q # <<>> /\ q[i] \in {1, -1}
BY DEF RemoveAt

LEMMA OneOrMore ==
  ASSUME NEW n \in Nat \ {0}
  PROVE  n \in Nat /\ n > 0 /\ (n = 1 \/ n > 1)
OBVIOUS

(* When the oldest UPDATE has run, the others go on from its result.       *)
LEMMA OldestFirst ==
  ASSUME NEW q \in Seq({1, -1}), q # <<>>, NEW a \in BOOLEAN, NEW e \in BOOLEAN, Alternates(q, a, e)
  PROVE  /\ q[1] = (IF a THEN -1 ELSE 1)
         /\ Alternates(RemoveAt(q, 1), ~a, e)
<1> DEFINE r == RemoveAt(q, 1)
<1>1. Len(q) \in Nat /\ Len(q) > 0 /\ (Len(q) = 1 \/ Len(q) > 1)
  <2>1. Len(q) \in Nat \ {0}
    BY EmptySeq, Zenon
  <2> QED BY <2>1, OneOrMore, Zenon
<1>2. /\ q[1] = (IF a THEN -1 ELSE 1) /\ q[Len(q)] = (IF e THEN 1 ELSE -1)
      /\ \A i \in 1..(Len(q) - 1) : q[i + 1] = -q[i]
  BY DEF Alternates
<1>3. r = Tail(q)
  BY <1>1 DEF RemoveAt
<1> HIDE DEF r
<1>4. Len(r) = Len(q) - 1 /\ (\A i \in 1..Len(r) : r[i] = q[i + 1]) /\ r \in Seq({1, -1})
  BY <1>3, HeadTailProperties, Zenon
<1>5. CASE Len(q) = 1
  <2>1. r = <<>>
    BY <1>4, <1>5, EmptySeq
  <2>2. ~a = e
    BY <1>2, <1>5
  <2> QED BY <1>2, <2>1, <2>2 DEF Alternates, r
<1>6. CASE Len(q) > 1
  <2>1. r # <<>> /\ r[1] = q[2] /\ r[Len(r)] = q[Len(q)]
    <3>1. 1 \in 1..Len(r) /\ Len(r) \in 1..Len(r) /\ Len(r) + 1 = Len(q)
      BY <1>1, <1>4, <1>6
    <3>2. r # <<>>
      BY <3>1, EmptySeq
    <3> QED BY <1>4, <3>1, <3>2
  <2>2. q[2] = (IF ~a THEN -1 ELSE 1)
    <3>1. q[1 + 1] = -q[1]
      BY <1>1, <1>2, <1>6
    <3> QED BY <1>2, <3>1
  <2>3. ASSUME NEW i \in 1..(Len(r) - 1) PROVE r[i + 1] = -r[i]
    <3>1. i \in 1..Len(r) /\ i + 1 \in 1..Len(r) /\ i + 1 \in 1..(Len(q) - 1)
      BY <1>1, <1>4
    <3>2. q[(i + 1) + 1] = -q[i + 1]
      BY <1>2, <3>1
    <3> QED BY <1>4, <3>1, <3>2
  <2> QED BY <1>2, <2>1, <2>2, <2>3 DEF Alternates, r
<1> QED BY <1>1, <1>5, <1>6

-----------------------------------------------------------------------------
(* What an announcement sends, event by event. *)

(* What is sent once event n has been looked at, after `before`.           *)
SentAfter(events, n, before) ==
  LET direction == directionFor(events[n][1], events[n][2])
  IN  IF direction = 0 THEN before ELSE Append(before, direction)

IsSent(f, events, n) ==
  f = [k \in 0..n |-> IF k = 0 THEN <<>> ELSE SentAfter(events, k, f[k - 1])]

LEMMA SentExists ==
  ASSUME NEW events, NEW L \in Nat
  PROVE  \E f : IsSent(f, events, L)
<1> DEFINE Bad == {n \in Nat : ~\E f : IsSent(f, events, n)}
<1>1. SUFFICES ASSUME Bad # {} PROVE FALSE
  OBVIOUS
<1>2. PICK m \in Bad : \A k \in Bad : m <= k
  <2> HIDE DEF Bad
  <2>1. Bad \subseteq Nat
    BY DEF Bad
  <2> QED BY <1>1, <2>1, ThereIsAFirst
<1>3. m # 0
  <2>1. IsSent([k \in 0..0 |-> <<>>], events, 0)
    BY DEF IsSent
  <2> QED BY <2>1
<1>4. m - 1 \in Nat /\ m - 1 \notin Bad
  BY <1>2, <1>3
<1>5. PICK f : IsSent(f, events, m - 1)
  BY <1>4
<1> DEFINE g == [k \in 0..m |-> IF k = m THEN SentAfter(events, m, f[m - 1]) ELSE f[k]]
<1>6. ASSUME NEW i \in 0..m PROVE g[i] = IF i = 0 THEN <<>> ELSE SentAfter(events, i, g[i - 1])
  <2>1. \A j \in 0..(m - 1) : f[j] = IF j = 0 THEN <<>> ELSE SentAfter(events, j, f[j - 1])
    BY <1>4, <1>5 DEF IsSent
  <2>2. \A j \in 0..(m - 1) : g[j] = f[j]
    BY <1>4
  <2>3. CASE i = m
    BY <1>3, <1>4, <2>2, <2>3
  <2>4. CASE i # m
    <3>1. i \in 0..(m - 1) /\ (i # 0 => i - 1 \in 0..(m - 1))
      BY <1>4, <2>4
    <3> QED BY <2>1, <2>2, <3>1
  <2> QED BY <2>3, <2>4
<1>7. IsSent(g, events, m)
  <2>1. g = [k \in 0..m |-> g[k]]
    OBVIOUS
  <2> HIDE DEF g
  <2> QED BY <1>6, <2>1 DEF IsSent
<1> QED BY <1>7

(* The statuses a job says it went through. *)
Steps(j) == <<j.from>> \o j.draft

LEMMA StepsAre ==
  ASSUME NEW j \in Job
  PROVE  /\ Len(j.draft) \in Nat /\ j.from \in OrderStatus
         /\ \A k \in 1..Len(j.draft) : j.draft[k] \in OrderStatus
         /\ Steps(j)[1] = j.from
         /\ \A k \in 1..Len(j.draft) : Steps(j)[k + 1] = j.draft[k]
         /\ \A k \in 1..(Len(j.draft) + 1) : Steps(j)[k] \in OrderStatus
<1>1. j.from \in OrderStatus /\ j.draft \in Seq(OrderStatus)
  BY DEF Job
<1>2. /\ Len(j.draft) \in Nat /\ \A k \in 1..Len(j.draft) : j.draft[k] \in OrderStatus
  BY <1>1
<1> DEFINE d == j.draft
           f == j.from
<1> HIDE DEF d, f
<1>3. f \in OrderStatus /\ d \in Seq(OrderStatus)
  BY <1>1 DEF d, f
<1>4. /\ (<<f>> \o d)[1] = f
      /\ \A k \in 1..Len(d) : (<<f>> \o d)[k + 1] = d[k]
  BY <1>3
<1>5. \A k \in 1..(Len(d) + 1) : (<<f>> \o d)[k] \in OrderStatus
  BY <1>3
<1> QED BY <1>1, <1>2, <1>4, <1>5 DEF Steps, d, f

LEMMA DirectionsAre ==
  ASSUME NEW j \in Job
  PROVE  \E f : /\ Directions(j) = f[Len(j.draft)]
                /\ f[0] = <<>>
                /\ \A k \in 1..Len(j.draft) :
                     LET d == directionFor(Steps(j)[k], Steps(j)[k + 1])
                     IN  f[k] = IF d = 0 THEN f[k - 1] ELSE Append(f[k - 1], d)
<1> DEFINE events == Announced(j)
           L == Len(j.draft)
           f == CHOOSE g : IsSent(g, events, Len(events))
<1>1. L \in Nat
  BY StepsAre
<1>2. events = [k \in 1..L |-> <<Steps(j)[k], Steps(j)[k + 1]>>]
  BY DEF Announced, Steps
<1> HIDE DEF L
<1>3. Len(events) = L
  BY <1>1, <1>2
<1>4. Directions(j) = f[Len(events)]
  BY DEF Directions, IsSent, SentAfter
<1> HIDE DEF events
<1>5. IsSent(f, events, L)
  BY <1>1, <1>3, SentExists
<1> HIDE DEF f
<1>6. \A k \in 0..L : f[k] = IF k = 0 THEN <<>> ELSE SentAfter(events, k, f[k - 1])
  BY <1>5 DEF IsSent
<1>7. f[0] = <<>>
  BY <1>1, <1>6
<1>8. ASSUME NEW k \in 1..L
      PROVE  LET d == directionFor(Steps(j)[k], Steps(j)[k + 1])
             IN  f[k] = IF d = 0 THEN f[k - 1] ELSE Append(f[k - 1], d)
  <2>1. events[k][1] = Steps(j)[k] /\ events[k][2] = Steps(j)[k + 1]
    BY <1>1, <1>2
  <2>2. f[k] = SentAfter(events, k, f[k - 1])
    BY <1>1, <1>6
  <2> QED BY <2>1, <2>2 DEF SentAfter
<1> QED BY <1>3, <1>4, <1>7, <1>8 DEF L

(* A job that went along the machine. *)
Strolls(j) == \A k \in 1..Len(j.draft) : LegalMove(Steps(j)[k], Steps(j)[k + 1])

(* What an announcement sends counts and un-counts in turn, from the       *)
(* status the job started at to the one it committed.                      *)
LEMMA DirectionsAlternate ==
  ASSUME NEW j \in Job
  PROVE  /\ Directions(j) \in Seq({1, -1})
         /\ Strolls(j) =>
              Alternates(Directions(j), Steps(j)[1] \in RECONCILER_COUNTED_STATUSES,
                         Steps(j)[Len(j.draft) + 1] \in RECONCILER_COUNTED_STATUSES)
<1> DEFINE L == Len(j.draft)
           C(k) == Steps(j)[k] \in RECONCILER_COUNTED_STATUSES
<1>0. L \in Nat /\ \A k \in 1..(L + 1) : Steps(j)[k] \in OrderStatus
  BY StepsAre
<1>1. PICK f : /\ Directions(j) = f[L]
               /\ f[0] = <<>>
               /\ \A k \in 1..L :
                    LET d == directionFor(Steps(j)[k], Steps(j)[k + 1])
                    IN  f[k] = IF d = 0 THEN f[k - 1] ELSE Append(f[k - 1], d)
  BY DirectionsAre
<1> DEFINE Fine(k) == /\ f[k] \in Seq({1, -1})
                      /\ Strolls(j) => Alternates(f[k], C(1), C(k + 1))
           Bad == {k \in 0..L : ~Fine(k)}
<1>2. SUFFICES \A k \in 0..L : Fine(k)
  BY <1>0, <1>1
<1>3. SUFFICES ASSUME Bad # {} PROVE FALSE
  OBVIOUS
<1>4. PICK m \in Bad : \A k \in Bad : m <= k
  <2> HIDE DEF Bad, Fine
  <2>1. Bad \subseteq Nat
    BY <1>0 DEF Bad
  <2> QED BY <1>3, <2>1, ThereIsAFirst
<1>5. m # 0
  <2>1. Fine(0)
    <3>1. f[0] \in Seq({1, -1}) /\ C(0 + 1) = C(1) /\ C(1) \in BOOLEAN
      BY <1>1
    <3> HIDE DEF C
    <3> QED BY <1>1, <3>1, NothingAlternates
  <2> QED BY <2>1
<1>6. m \in 1..L /\ m - 1 \in 0..L /\ m - 1 \notin Bad
  BY <1>0, <1>4, <1>5
<1> DEFINE p == f[m - 1]
           d == directionFor(Steps(j)[m], Steps(j)[m + 1])
<1>7. /\ p \in Seq({1, -1})
      /\ Strolls(j) => Alternates(p, C(1), C(m))
  <2>1. Fine(m - 1) /\ (m - 1) + 1 = m
    BY <1>6
  <2> QED BY <2>1
<1>8. f[m] = IF d = 0 THEN p ELSE Append(p, d)
  BY <1>1, <1>6
<1>9. /\ d \in {1, 0, -1}
      /\ LegalMove(Steps(j)[m], Steps(j)[m + 1]) =>
           d = IF C(m) = C(m + 1) THEN 0 ELSE IF C(m + 1) THEN 1 ELSE -1
  <2>1. Steps(j)[m] \in OrderStatus /\ Steps(j)[m + 1] \in OrderStatus
    BY <1>0, <1>6
  <2> QED BY <2>1, DirectionIsTheChange
<1>10. C(1) \in BOOLEAN /\ C(m) \in BOOLEAN /\ C(m + 1) \in BOOLEAN
  OBVIOUS
<1>11. Strolls(j) => LegalMove(Steps(j)[m], Steps(j)[m + 1])
  BY <1>6 DEF Strolls
<1>12. f[m] \in Seq({1, -1})
  <2> HIDE DEF p, d
  <2> QED BY <1>7, <1>8, <1>9
<1>13. ASSUME Strolls(j) PROVE Alternates(f[m], C(1), C(m + 1))
  <2> HIDE DEF C, p, d
  <2>1. CASE C(m) = C(m + 1)
    BY <1>7, <1>8, <1>9, <1>11, <1>13, <2>1
  <2>2. CASE C(m) # C(m + 1)
    <3>1. d = IF C(m) THEN -1 ELSE 1
      BY <1>9, <1>10, <1>11, <1>13, <2>2
    <3>2. f[m] = Append(p, d)
      BY <1>8, <3>1
    <3>3. Alternates(Append(p, d), C(1), ~C(m))
      BY <1>7, <1>10, <1>13, <3>1, OneMoreAlternates
    <3>4. C(m + 1) = ~C(m)
      BY <1>10, <2>2
    <3> QED BY <3>2, <3>3, <3>4
  <2> QED BY <2>1, <2>2
<1>14. Fine(m)
  BY <1>12, <1>13
<1> QED BY <1>4, <1>14

-----------------------------------------------------------------------------
(* What a step of Orders does to the figures. *)

(* The requests that have something to announce, and what, stay.           *)
SameNews ==
  \A w \in Worker :
    /\ job[w].pc = "announce" => job'[w] = job[w]
    /\ job'[w].pc = "announce" => job[w].pc = "announce"

Nothing == SameNews /\ status' = status /\ items' = items

Inserted(o) ==
  /\ SameNews /\ ~Exists(o) /\ ~Counted(o)'
  /\ status' = [status EXCEPT ![o] = "PENDING"]
  /\ \E basket \in [Book -> Nat] : items' = [items EXCEPT ![o] = basket]

(* Request w has committed a change of order o, and will announce it.      *)
Moved(w, o) ==
  /\ items' = items /\ Exists(o)
  /\ \E s \in OrderStatus : status' = [status EXCEPT ![o] = s]
  /\ job[w].pc # "announce" /\ job'[w].pc = "announce" /\ job'[w].o = o
  /\ \A v \in Worker : v # w => job'[v] = job[v]
  /\ \/ StaleCommit
     \/ \A E : (o \in E <=> Counted(o)) => Tells(w, o, E)'

(* A request that is not at its commit has nothing new to announce.        *)
LEMMA OneJobMoves ==
  ASSUME TypeOK, NEW w \in Worker, NEW j, job' = [job EXCEPT ![w] = j],
         job[w].pc # "announce", j.pc # "announce"
  PROVE  SameNews
BY DEF TypeOK, SameNews

LEMMA ServeTells ==
  ASSUME OrdersInv, Serve
  PROVE  Nothing \/ (\E o \in Order : Inserted(o)) \/ (\E w \in Worker, o \in Order : Moved(w, o))
<1>0. TypeOK
  BY DEF OrdersInv
<1>1. ASSUME NEW w \in Worker, Arrive(w) PROVE Nothing
  <2>1. status' = status /\ items' = items /\ job[w] = Idle
    BY <1>1 DEF Arrive, StartCheckout, StartMove, Cancel, StartReopen, orderVars
  <2>2. job[w].pc # "announce"
    BY <2>1 DEF Idle
  <2>3. ASSUME NEW c \in Cart, StartCheckout(w, c) PROVE SameNews
    <3> DEFINE j == [Idle EXCEPT !.op = "checkout", !.pc = "key", !.cart = c]
    <3>1. j.pc = "key" /\ job' = [job EXCEPT ![w] = j]
      BY <2>3, IdleIsAJob DEF StartCheckout, Job
    <3> HIDE DEF j
    <3> QED BY <1>0, <2>2, <3>1, OneJobMoves
  <2>4. ASSUME NEW o \in Order, NEW to \in OrderStatus, NEW op \in {"move", "advance"},
               StartMove(w, op, o, to)
        PROVE  SameNews
    <3> DEFINE j == [Idle EXCEPT !.op = op, !.pc = "before", !.o = o, !.to = to]
    <3>1. j.pc = "before" /\ job' = [job EXCEPT ![w] = j]
      BY <2>4, IdleIsAJob DEF StartMove, Job
    <3> HIDE DEF j
    <3> QED BY <1>0, <2>2, <3>1, OneJobMoves
  <2>5. ASSUME NEW o \in Order, Cancel(w, o) PROVE SameNews
    <3> DEFINE j == [Idle EXCEPT !.op = "cancel", !.pc = "commit", !.o = o, !.from = status[o],
                                 !.seen = "CANCELLED", !.draft = <<"CANCELLED">>,
                                 !.returned = releasesStock(status[o], "CANCELLED")]
    <3>1. j.pc = "commit" /\ job' = [job EXCEPT ![w] = j]
      BY <2>5, IdleIsAJob DEF Cancel, Job
    <3> HIDE DEF j
    <3> QED BY <1>0, <2>2, <3>1, OneJobMoves
  <2>6. ASSUME NEW o \in Order, StartReopen(w, o) PROVE SameNews
    <3> DEFINE j == [Idle EXCEPT !.op = "reopen", !.pc = "claim", !.o = o]
    <3>1. j.pc = "claim" /\ job' = [job EXCEPT ![w] = j]
      BY <2>6, IdleIsAJob DEF StartReopen, Job
    <3> HIDE DEF j
    <3> QED BY <1>0, <2>2, <3>1, OneJobMoves
  <2> QED BY <1>1, <2>1, <2>3, <2>4, <2>5, <2>6 DEF Nothing, Arrive
<1>2. ASSUME NEW w \in Worker, Finish(w) \/ \E pc \in {"receipt", "write", "retake"} : Go(w, pc),
             job[w].pc # "announce"
      PROVE  SameNews
  <2>1. CASE Finish(w)
    <3>1. Idle.pc # "announce" /\ job' = [job EXCEPT ![w] = Idle]
      BY <2>1 DEF Finish, Idle
    <3> QED BY <1>0, <1>2, <3>1, OneJobMoves
  <2>2. ASSUME NEW pc \in {"receipt", "write", "retake"}, Go(w, pc) PROVE SameNews
    <3>1. job[w] \in Job
      BY <1>0 DEF TypeOK
    <3>2. [job[w] EXCEPT !.pc = pc].pc # "announce" /\ job' = [job EXCEPT ![w] = [job[w] EXCEPT !.pc = pc]]
      BY <2>2, <3>1 DEF Go, Job
    <3> QED BY <1>0, <1>2, <3>2, OneJobMoves
  <2> QED BY <1>2, <2>1, <2>2
<1>3. ASSUME NEW w \in Worker,
             FindByIdempotencyKey(w) \/ RejectReusedReceipt(w) \/ ReadForReopen(w)
      PROVE  Nothing
  <2>1. status' = status /\ items' = items /\ job[w].pc # "announce"
    BY <1>3 DEF FindByIdempotencyKey, RejectReusedReceipt, ReadForReopen, orderVars
  <2>2. Finish(w) \/ \E pc \in {"receipt", "write", "retake"} : Go(w, pc)
    BY <1>3 DEF FindByIdempotencyKey, RejectReusedReceipt, ReadForReopen
  <2> QED BY <1>2, <2>1, <2>2 DEF Nothing
<1>4. ASSUME NEW w \in Worker, ReadBefore(w) PROVE Nothing
  <2>1. status' = status /\ items' = items /\ job[w].pc # "announce" /\ job[w] \in Job
    BY <1>0, <1>4 DEF ReadBefore, orderVars, TypeOK
  <2>2. CASE Finish(w)
    BY <1>2, <2>1, <2>2 DEF Nothing
  <2>3. ASSUME NEW here, NEW route,
               job' = [job EXCEPT ![w].from = here, ![w].route = route, ![w].pc = "read"]
        PROVE  Nothing
    <3>1. job'[w].pc = "read" /\ \A v \in Worker : v # w => job'[v] = job[v]
      BY <1>0, <2>1, <2>3 DEF TypeOK, Job
    <3> QED BY <2>1, <3>1 DEF Nothing, SameNews
  <2> DEFINE here == status[job[w].o]
             route == IF job[w].op = "advance" THEN forwardPathTo(here, job[w].to) ELSE <<job[w].to>>
  <2>4. Finish(w) \/ job' = [job EXCEPT ![w].from = here, ![w].route = route, ![w].pc = "read"]
    BY <1>4 DEF ReadBefore
  <2> HIDE DEF here, route
  <2> QED BY <2>2, <2>3, <2>4
<1>5. ASSUME NEW w \in Worker, ReadStatus(w) PROVE Nothing
  <2>1. status' = status /\ items' = items /\ job[w].pc # "announce" /\ job[w] \in Job
    BY <1>0, <1>5 DEF ReadStatus, orderVars, TypeOK
  <2>2. CASE Finish(w)
    BY <1>2, <2>1, <2>2 DEF Nothing
  <2>3. ASSUME NEW here, job' = [job EXCEPT ![w].seen = here, ![w].pc = "update"]
        PROVE  Nothing
    <3>1. job'[w].pc = "update" /\ \A v \in Worker : v # w => job'[v] = job[v]
      BY <1>0, <2>1, <2>3 DEF TypeOK, Job
    <3> QED BY <2>1, <3>1 DEF Nothing, SameNews
  <2> QED BY <1>5, <2>2, <2>3 DEF ReadStatus
<1>6. ASSUME NEW w \in Worker, Update(w) \/ Walk(w) PROVE Nothing
  <2>1. status' = status /\ items' = items /\ job[w].pc # "announce" /\ job[w] \in Job
    BY <1>0, <1>6 DEF Update, Walk, orderVars, TypeOK
  <2>2. CASE Finish(w)
    BY <1>2, <2>1, <2>2 DEF Nothing
  <2>3. CASE Enter(w)
    <3>1. job'[w].pc \in {"commit", "walk"} /\ \A v \in Worker : v # w => job'[v] = job[v]
      BY <1>0, <2>1, <2>3 DEF TypeOK, Job, Enter
    <3> QED BY <2>1, <3>1 DEF Nothing, SameNews
  <2> QED BY <1>6, <2>2, <2>3 DEF Update, Walk
<1>7. ASSUME NEW w \in Worker, WriteOrder(w) PROVE Nothing \/ \E o \in Order : Inserted(o)
  <2>1. SameNews
    BY <1>2, <1>7 DEF WriteOrder
  <2>2. CASE UNCHANGED <<orderVars, stock>>
    BY <2>1, <2>2 DEF Nothing, orderVars
  <2>3. ASSUME NEW o \in Order, ~Exists(o), status' = [status EXCEPT ![o] = "PENDING"],
               items' = [items EXCEPT ![o] = job[w].cart.basket]
        PROVE  Inserted(o)
    <3>1. job[w].cart.basket \in [Book -> Nat]
      <4>1. job[w].cart \in Cart
        BY <1>7 DEF WriteOrder, OrdersInv, JobOK
      <4> QED BY <4>1, OrdersAssumption
    <3>2. status'[o] = "PENDING"
      BY <1>0, <2>3 DEF TypeOK
    <3>3. ~Counted(o)'
      BY <3>2 DEF Counted, RECONCILER_COUNTED_STATUSES, LISTENER_COUNTED_STATUSES
    <3> QED BY <2>1, <2>3, <3>1, <3>3 DEF Inserted
  <2> QED BY <1>7, <2>2, <2>3 DEF WriteOrder
<1>8. ASSUME NEW w \in Worker, Commit(w) PROVE \E o \in Order : Moved(w, o)
  <2>0. PICK o \in Order : o = job[w].o /\ Exists(o)
    BY <1>8 DEF Commit, OrdersInv, JobOK
  <2> DEFINE j == job[w]
  <2>1. o = j.o /\ j \in Job /\ DraftIsAWalk(w) /\ j.seen \in OrderStatus
    BY <1>0, <1>8, <2>0 DEF Commit, OrdersInv, JobOK, TypeOK, Job
  <2>2. /\ items' = items /\ status' = [status EXCEPT ![o] = j.seen] /\ j.pc = "commit"
        /\ job' = [job EXCEPT ![w].pc = "announce"]
    BY <1>8, <2>0 DEF Commit, Go
  <2>3. /\ job'[w] = [j EXCEPT !.pc = "announce"] /\ \A v \in Worker : v # w => job'[v] = job[v]
    BY <1>0, <2>2 DEF TypeOK
  <2>4. /\ job'[w].pc = "announce" /\ job'[w].o = o /\ job'[w].from = j.from
        /\ job'[w].draft = j.draft
    BY <2>1, <2>3 DEF Job
  <2>5. status'[o] = j.seen
    BY <1>0, <2>1, <2>2 DEF TypeOK
  <2>6. j.from # status[o] => StaleCommit
    BY <2>2, <2>4 DEF StaleCommit
  <2>7. ASSUME j.from = status[o], NEW E, o \in E <=> Counted(o) PROVE Tells(w, o, E)'
    <3>1. /\ Len(j.draft) > 0 /\ j.draft[Len(j.draft)] = j.seen /\ canTransition(j.from, j.draft[1])
          /\ \A i \in 1..(Len(j.draft) - 1) : canTransition(j.draft[i], j.draft[i + 1])
      BY <2>1, <2>7 DEF DraftIsAWalk
    <3>2. o \in E <=> j.from \in RECONCILER_COUNTED_STATUSES
      BY <2>7 DEF Counted
    <3> HIDE DEF j
    <3> QED BY <2>4, <2>5, <3>1, <3>2 DEF Tells, LegalMove, Counted
  <2>8. job[w].pc # "announce" /\ \E s \in OrderStatus : status' = [status EXCEPT ![o] = s]
    BY <2>1, <2>2
  <2>9. StaleCommit \/ \A E : (o \in E <=> Counted(o)) => Tells(w, o, E)'
    BY <2>0, <2>6, <2>7
  <2>10. job'[w].o = o
    BY <2>1, <2>4
  <2> HIDE DEF j
  <2> QED BY <2>0, <2>2, <2>3, <2>4, <2>8, <2>9, <2>10 DEF Moved
<1>9. ASSUME NEW w \in Worker, Retake(w) PROVE Nothing \/ \E o \in Order : Moved(w, o)
  <2>0. PICK o \in Order : o = job[w].o /\ Exists(o)
    BY <1>9 DEF Retake, OrdersInv, JobOK
  <2>1. job[w] \in Job /\ job[w].pc # "announce"
    BY <1>0, <1>9 DEF Retake, TypeOK
  <2>2. CASE ~MayRetake(o)
    <3>1. Finish(w) /\ status' = status /\ items' = items
      BY <1>9, <2>0, <2>2 DEF Retake, orderVars
    <3> QED BY <1>2, <2>1, <3>1 DEF Nothing
  <2>3. CASE MayRetake(o)
    <3>1. /\ status' = [status EXCEPT ![o] = "PENDING"] /\ items' = items
          /\ job' = [job EXCEPT ![w].from = "CANCELLED", ![w].draft = <<"PENDING">>,
                                ![w].pc = "announce"]
          /\ status[o] = "CANCELLED"
      BY <1>9, <2>0, <2>3 DEF Retake, MayRetake
    <3>2. /\ job'[w].pc = "announce" /\ job'[w].o = o /\ job'[w].from = "CANCELLED"
          /\ job'[w].draft = <<"PENDING">> /\ \A v \in Worker : v # w => job'[v] = job[v]
      BY <1>0, <2>0, <2>1, <3>1 DEF TypeOK, Job
    <3>3. status'[o] = "PENDING"
      BY <1>0, <2>1, <3>1 DEF TypeOK
    <3>4. ASSUME NEW E, o \in E <=> Counted(o) PROVE Tells(w, o, E)'
      <4>1. o \notin E
        BY <3>1, <3>4 DEF Counted, RECONCILER_COUNTED_STATUSES, LISTENER_COUNTED_STATUSES
      <4>2. /\ ~Counted(o)' /\ "CANCELLED" \notin RECONCILER_COUNTED_STATUSES
            /\ "PENDING" \notin RECONCILER_COUNTED_STATUSES
        BY <3>3 DEF Counted, RECONCILER_COUNTED_STATUSES, LISTENER_COUNTED_STATUSES
      <4>3. Len(<<"PENDING">>) = 1 /\ <<"PENDING">>[1] = "PENDING"
        OBVIOUS
      <4> QED BY <3>2, <4>1, <4>2, <4>3 DEF Tells, LegalMove
    <3>5. "PENDING" \in OrderStatus
      BY DEF OrderStatus
    <3> QED BY <2>0, <2>1, <3>1, <3>2, <3>4, <3>5 DEF Moved
  <2> QED BY <2>2, <2>3
<1> QED BY <1>1, <1>3, <1>4, <1>5, <1>6, <1>7, <1>8, <1>9 DEF Serve, Work

-----------------------------------------------------------------------------
(* Whatever happens, the column, the UPDATEs under way and the report keep *)
(* their types, and what is under way is of orders that exist.             *)

(* A step of the rollup is a step of Orders, or none of it. *)
LEMMA RollupStep == RollupNext => [Next]_vars
BY DEF RollupNext, Next, Emit, RollUp, RollUpFails, Measure, Correct, CrashAll

LEMMA CopiesAreWith ==
  ASSUME NEW S, NEW b
  PROVE  Copies(S, b) = With(S, items, b) /\ Copies(S, b)' = With(S', items', b)
BY DEF Copies, With

Rows == {o \in Order : Exists(o)}

(* The orders that exist stay, and one that is inserted brings its lines.  *)
LEMMA ServeRows ==
  ASSUME OrdersInv, Serve, \A b \in Book : IsFiniteSet(Copies(Rows, b))
  PROVE  /\ \A o \in Order : Exists(o) => Exists(o)'
         /\ \A b \in Book : IsFiniteSet(Copies(Rows, b))'
<1>0. status \in [Order -> OrderStatus \cup {"ABSENT"}] /\ items \in [Order -> [Book -> Nat]]
  BY DEF OrdersInv, TypeOK
<1>1. ASSUME items' = items, \A o \in Order : Exists(o)' <=> Exists(o)
      PROVE  \A b \in Book : IsFiniteSet(Copies(Rows, b))'
  <2>1. Rows' = Rows
    BY <1>1 DEF Rows
  <2> QED BY <1>1, <2>1 DEF Copies
<1>2. CASE Nothing
  <2>1. \A o \in Order : Exists(o)' <=> Exists(o)
    BY <1>2 DEF Nothing, Exists
  <2> QED BY <1>1, <1>2, <2>1 DEF Nothing
<1>3. ASSUME NEW w \in Worker, NEW o \in Order, Moved(w, o)
      PROVE  /\ \A x \in Order : Exists(x) => Exists(x)'
             /\ \A b \in Book : IsFiniteSet(Copies(Rows, b))'
  <2>1. PICK s \in OrderStatus : status' = [status EXCEPT ![o] = s]
    BY <1>3 DEF Moved
  <2>2. s # "ABSENT" /\ Exists(o)
    BY <1>3 DEF OrderStatus, Moved
  <2>3. \A x \in Order : Exists(x)' <=> Exists(x)
    BY <1>0, <2>1, <2>2 DEF Exists
  <2> QED BY <1>1, <1>3, <2>3 DEF Moved
<1>4. ASSUME NEW o \in Order, Inserted(o)
      PROVE  /\ \A x \in Order : Exists(x) => Exists(x)'
             /\ \A b \in Book : IsFiniteSet(Copies(Rows, b))'
  <2>1. PICK basket \in [Book -> Nat] : items' = [items EXCEPT ![o] = basket]
    BY <1>4 DEF Inserted
  <2>2. status' = [status EXCEPT ![o] = "PENDING"] /\ ~Exists(o)
    BY <1>4 DEF Inserted
  <2>3. \A x \in Order : Exists(x)' <=> Exists(x) \/ x = o
    BY <1>0, <2>2 DEF Exists
  <2>4. Rows' = Rows \cup {o} /\ o \notin Rows
    BY <2>2, <2>3 DEF Rows
  <2>5. ASSUME NEW b \in Book PROVE IsFiniteSet(Copies(Rows, b))'
    <3>1. With(Rows, items', b) = With(Rows, items, b)
      <4>1. \A x \in Rows : items'[x] = items[x]
        BY <1>0, <2>1, <2>4 DEF Rows
      <4> QED BY <4>1, WithLooksAt
    <3>2. IsFiniteSet(With(Rows, items', b)) /\ items'[o][b] \in Nat
      BY <1>0, <2>1, <3>1, CopiesAreWith
    <3>3. IsFiniteSet(With(Rows \cup {o}, items', b))
      BY <2>4, <3>2, WithOneMore
    <3> QED BY <2>4, <3>3, CopiesAreWith
  <2> QED BY <2>3, <2>5
<1> QED BY <1>2, <1>3, <1>4, ServeTells

(* What the reconciler sums up is a number. *)
LEMMA SoldIsANumber ==
  ASSUME NEW b \in Book, IsFiniteSet(Copies(Rows, b))
  PROVE  Sold(b) \in Nat /\ IsFiniteSet(Copies({o \in Order : Counted(o)}, b))
<1>1. \A o \in Order : Counted(o) => Exists(o)
  BY DEF Counted, Exists, RECONCILER_COUNTED_STATUSES, LISTENER_COUNTED_STATUSES
<1>2. Copies({o \in Order : Counted(o)}, b) \subseteq Copies(Rows, b)
  BY <1>1 DEF Copies, Rows
<1> QED BY <1>2, FS_Subset, FS_CardinalityType DEF Sold

LEMMA FlooredIs ==
  ASSUME NEW n \in Int
  PROVE  Floored(n) = IF n >= 0 THEN n ELSE 0
BY DEF Floored, Max

LEMMA FlooredType ==
  ASSUME NEW n \in Int
  PROVE  Floored(n) \in Nat
BY FlooredIs

(* A crash, like a start, leaves nothing under way.                        *)
LEMMA NoneUnderWay ==
  /\ [o \in Order |-> <<>>] \in [Order -> Seq({1, -1})]
  /\ NoFigures \in [Book -> [recorded : Nat, actual : Nat]]
BY DEF NoFigures

LEMMA KeptInit == RollupInit => RollupKept
<1> SUFFICES ASSUME RollupInit PROVE RollupKept
  OBVIOUS
<1>1. RollupTypeOK
  <2>1. units = [b \in Book |-> 0] /\ rollups = [o \in Order |-> <<>>] /\ report = NoFigures
    BY DEF RollupInit
  <2>2. units \in [Book -> Nat] /\ rollups \in [Order -> Seq({1, -1})]
        /\ report \in [Book -> [recorded : Nat, actual : Nat]]
    BY <2>1, NoneUnderWay
  <2>3. reconciles \in 0..MaxReconciles
    BY RollupAssumption DEF RollupInit
  <2>4. desk \in {"idle", "measured"} /\ excused \in BOOLEAN
    BY Zenon DEF RollupInit
  <2> QED BY <2>2, <2>3, <2>4 DEF RollupTypeOK
<1>2. \A o \in Order : rollups[o] = <<>> /\ ~Exists(o)
  BY DEF RollupInit, Init, Exists
<1>3. \A b \in Book : Copies({o \in Order : Exists(o)}, b) = {}
  BY <1>2 DEF Copies
<1> QED BY <1>1, <1>2, <1>3, FS_EmptySet DEF RollupKept

(* Who announces is about an order that exists. *)
LEMMA AnnouncerOf ==
  ASSUME OrdersInv, NEW w \in Worker, job[w].pc = "announce"
  PROVE  job[w] \in Job /\ job[w].o \in Order /\ Exists(job[w].o)
BY DEF OrdersInv, JobOK, TypeOK

LEMMA KeptNext ==
  ASSUME RollupKept, OrdersInv, OrdersInv', [RollupNext]_<<vars, rollupVars>>
  PROVE  RollupKept'
<1>0. /\ RollupTypeOK /\ \A b \in Book : IsFiniteSet(Copies(Rows, b))
      /\ \A o \in Order : rollups[o] # <<>> => Exists(o)
      /\ items \in [Order -> [Book -> Nat]]
  BY DEF RollupKept, Rows, OrdersInv, TypeOK
<1>1. ASSUME UNCHANGED <<status, items>>, RollupTypeOK',
             \A o \in Order : rollups'[o] # <<>> => rollups[o] # <<>> \/ Exists(o)
      PROVE  RollupKept'
  <2>1. Rows' = Rows /\ \A o \in Order : Exists(o)' <=> Exists(o)
    BY <1>1 DEF Rows, Exists
  <2>2. \A b \in Book : IsFiniteSet(Copies(Rows, b))'
    BY <1>0, <1>1, <2>1 DEF Copies
  <2>3. \A o \in Order : rollups'[o] # <<>> => Exists(o)'
    BY <1>0, <1>1, <2>1
  <2> QED BY <1>1, <2>2, <2>3 DEF RollupKept, Rows
<1>2. CASE UNCHANGED <<vars, rollupVars>>
  BY <1>0, <1>1, <1>2 DEF vars, rollupVars, RollupTypeOK, orderVars
<1>3. CASE Serve /\ excused' = (excused \/ Excuse("stale", StaleCommit))
            /\ UNCHANGED <<units, rollups, desk, report, reconciles>>
  <2>1. RollupTypeOK'
    BY <1>0, <1>3 DEF RollupTypeOK
  <2> QED BY <1>0, <1>3, <2>1, ServeRows DEF RollupKept, Rows
<1>4. ASSUME NEW b \in Book, WaitlistHolds(b), UNCHANGED rollupVars PROVE RollupKept'
  BY <1>0, <1>1, <1>4 DEF WaitlistHolds, rollupVars, RollupTypeOK, orderVars
<1>5. ASSUME NEW w \in Worker, Emit(w) PROVE RollupKept'
  <2>1. PICK o \in Order : o = job[w].o /\ Exists(o) /\ job[w] \in Job
    BY <1>5, AnnouncerOf DEF Emit, Announce
  <2>2. rollups' = [rollups EXCEPT ![o] = rollups[o] \o Directions(job[w])]
    BY <1>5, <2>1 DEF Emit
  <2>3. rollups[o] \o Directions(job[w]) \in Seq({1, -1})
    <3>1. Directions(job[w]) \in Seq({1, -1}) /\ rollups[o] \in Seq({1, -1})
      BY <1>0, <2>1, DirectionsAlternate DEF RollupTypeOK
    <3> QED BY <3>1
  <2>4. RollupTypeOK'
    <3>1. rollups' \in [Order -> Seq({1, -1})]
      BY <1>0, <2>2, <2>3 DEF RollupTypeOK
    <3> QED BY <1>0, <1>5, <3>1 DEF RollupTypeOK, Emit
  <2>5. \A x \in Order : x # o => rollups'[x] = rollups[x]
    BY <1>0, <2>2 DEF RollupTypeOK
  <2>6. UNCHANGED <<status, items>>
    BY <1>5 DEF Emit, Announce, orderVars
  <2> QED BY <1>1, <2>1, <2>4, <2>5, <2>6
<1>6. ASSUME NEW o \in Order, NEW i \in 1..Len(rollups[o]), RollUp(o, i) \/ RollUpFails(o, i)
      PROVE  RollupKept'
  <2>1. /\ RemoveAt(rollups[o], i) \in Seq({1, -1}) /\ rollups[o] # <<>> /\ rollups[o][i] \in {1, -1}
    BY <1>0, RemovalType DEF RollupTypeOK
  <2>2. rollups' = [rollups EXCEPT ![o] = RemoveAt(rollups[o], i)]
    BY <1>6 DEF RollUp, RollUpFails, Done
  <2>3. rollups' \in [Order -> Seq({1, -1})]
        /\ \A x \in Order : x # o => rollups'[x] = rollups[x]
    BY <1>0, <2>1, <2>2 DEF RollupTypeOK
  <2>4. units' \in [Book -> Nat]
    <3>1. CASE RollUp(o, i)
      <4>1. \A b \in Book : Floored(units[b] + rollups[o][i] * items[o][b]) \in Nat
        <5> SUFFICES ASSUME NEW b \in Book PROVE Floored(units[b] + rollups[o][i] * items[o][b]) \in Nat
          OBVIOUS
        <5>1. units[b] \in Nat /\ items[o][b] \in Nat
          BY <1>0 DEF RollupTypeOK
        <5>2. units[b] + rollups[o][i] * items[o][b] \in Int
          BY <2>1, <5>1
        <5> QED BY <5>2, FlooredType
      <4> QED BY <3>1, <4>1 DEF RollUp
    <3>2. CASE RollUpFails(o, i)
      BY <1>0, <3>2 DEF RollUpFails, RollupTypeOK
    <3> QED BY <1>6, <3>1, <3>2
  <2>5. RollupTypeOK'
    BY <1>0, <1>6, <2>3, <2>4 DEF RollupTypeOK, RollUp, RollUpFails
  <2>6. UNCHANGED <<status, items>>
    BY <1>6 DEF RollUp, RollUpFails, vars, orderVars
  <2> QED BY <1>1, <2>1, <2>3, <2>5, <2>6
<1>7. CASE Measure
  <2>1. RollupTypeOK'
    <3>1. Figures \in [Book -> [recorded : Nat, actual : Nat]]
      BY <1>0, SoldIsANumber DEF Figures, RollupTypeOK
    <3> QED BY <1>0, <1>7, <3>1, RollupAssumption DEF RollupTypeOK, Measure
  <2> QED BY <1>0, <1>1, <1>7, <2>1 DEF Measure, vars, orderVars
<1>8. CASE Correct
  <2>1. RollupTypeOK'
    <3>1. \A b \in Book : Sold(b) \in Nat
      BY <1>0, SoldIsANumber
    <3> QED BY <1>0, <1>8, <3>1, NoneUnderWay DEF RollupTypeOK, Correct, Excuse
  <2> QED BY <1>0, <1>1, <1>8, <2>1 DEF Correct, vars, orderVars
<1>9. CASE CrashAll
  <2>1. RollupTypeOK'
    BY <1>0, <1>9, NoneUnderWay DEF RollupTypeOK, CrashAll
  <2>2. UNCHANGED <<status, items>> /\ \A o \in Order : rollups'[o] = <<>>
    BY <1>9 DEF CrashAll, Crash, orderVars
  <2> QED BY <1>1, <2>1, <2>2
<1> QED BY <1>2, <1>3, <1>4, <1>5, <1>6, <1>7, <1>8, <1>9 DEF RollupNext

-----------------------------------------------------------------------------
(* Until an excuse, the column is what has been applied.                   *)

(* What is not moved keeps what there is to tell of an order.              *)
LEMMA StaysToTell ==
  ASSUME NEW o \in Order, NEW E, StillToTell(o, E), Counted(o)' <=> Counted(o),
         \A v \in Worker : Announcing(v, o) => job'[v] = job[v],
         \A v \in Worker : Announcing(v, o)' => Announcing(v, o)
  PROVE  StillToTell(o, E)'
<1>1. \A v \in Worker : Announcing(v, o) <=> Announcing(v, o)'
  BY DEF Announcing
<1>2. CASE (\A w \in Worker : ~Announcing(w, o)) /\ (o \in E <=> Counted(o))
  BY <1>1, <1>2 DEF StillToTell
<1>3. ASSUME NEW w \in Worker, Announcing(w, o), Crowded(w) \/ Tells(w, o, E)
      PROVE  StillToTell(o, E)'
  <2>1. job'[w] = job[w] /\ job[w].o = o
    BY <1>3 DEF Announcing
  <2>2. CASE Crowded(w)
    <3>1. Crowded(w)'
      BY <1>1, <2>1, <2>2 DEF Crowded
    <3> QED BY <1>1, <1>3, <3>1 DEF StillToTell
  <2>3. CASE Tells(w, o, E)
    <3>1. Tells(w, o, E)'
      BY <2>1, <2>3 DEF Tells
    <3> QED BY <1>1, <1>3, <3>1 DEF StillToTell
  <2> QED BY <1>3, <2>2, <2>3
<1> QED BY <1>2, <1>3 DEF StillToTell

(* A step that moves neither the column nor an UPDATE nor a row. *)
LEMMA AccountsStay ==
  ASSUME NEW A \in SUBSET Order, NEW E \in SUBSET Order, Accounts(A, E),
         UNCHANGED <<units, rollups, status, items>>, SameNews
  PROVE  Accounts(A, E)'
<1>1. \A o \in Order : (Counted(o)' <=> Counted(o)) /\ (Exists(o)' <=> Exists(o))
  BY DEF Counted, Exists
<1>2. ASSUME NEW o \in Order PROVE StillToTell(o, E)'
  <2>1. StillToTell(o, E)
    BY DEF Accounts
  <2>2. /\ \A v \in Worker : Announcing(v, o) => job'[v] = job[v]
        /\ \A v \in Worker : Announcing(v, o)' => Announcing(v, o)
    BY DEF SameNews, Announcing
  <2> QED BY <1>1, <2>1, <2>2, StaysToTell
<1>3. \A b \in Book : Copies(A, b)' = Copies(A, b)
  BY DEF Copies
<1> QED BY <1>1, <1>2, <1>3 DEF Accounts

LEMMA AccountsServe ==
  ASSUME OrdersInv, Serve, UNCHANGED <<units, rollups>>, ~StaleCommit,
         \A o \in Order : rollups[o] # <<>> => Exists(o),
         NEW A \in SUBSET Order, NEW E \in SUBSET Order, Accounts(A, E)
  PROVE  Accounts(A, E)'
<1>0. /\ status \in [Order -> OrderStatus \cup {"ABSENT"}] /\ items \in [Order -> [Book -> Nat]]
      /\ \A w \in Worker : job[w].pc = "announce" => job[w].o \in Order /\ Exists(job[w].o)
  BY AnnouncerOf DEF OrdersInv, TypeOK
<1>1. CASE Nothing
  BY <1>1, AccountsStay DEF Nothing
<1>2. ASSUME NEW o \in Order, Inserted(o) PROVE Accounts(A, E)'
  <2>1. status' = [status EXCEPT ![o] = "PENDING"] /\ ~Exists(o) /\ SameNews /\ ~Counted(o)'
    BY <1>2 DEF Inserted
  <2>2. PICK basket \in [Book -> Nat] : items' = [items EXCEPT ![o] = basket]
    BY <1>2 DEF Inserted
  <2>3. o \notin A /\ o \notin E /\ \A x \in A \cup E : Exists(x)
    BY <2>1 DEF Accounts
  <2>4. \A x \in Order : x # o => status'[x] = status[x] /\ items'[x] = items[x]
    BY <1>0, <2>1, <2>2
  <2>5. ASSUME NEW x \in Order PROVE StillToTell(x, E)'
    <3>1. StillToTell(x, E)
      BY DEF Accounts
    <3>2. Counted(x)' <=> Counted(x)
      <4>1. ~Counted(o)
        BY <2>1 DEF Exists, Counted, RECONCILER_COUNTED_STATUSES, LISTENER_COUNTED_STATUSES
      <4> QED BY <2>1, <2>4, <4>1 DEF Counted
    <3>3. /\ \A v \in Worker : Announcing(v, x) => job'[v] = job[v]
          /\ \A v \in Worker : Announcing(v, x)' => Announcing(v, x)
      BY <2>1 DEF SameNews, Announcing
    <3> QED BY <3>1, <3>2, <3>3, StaysToTell
  <2>6. \A b \in Book : Copies(A, b)' = Copies(A, b)
    <3>1. \A x \in A : items'[x] = items[x]
      BY <2>3, <2>4
    <3> QED BY <3>1 DEF Copies
  <2>7. \A x \in A \cup E : Exists(x)'
    BY <2>3, <2>4 DEF Exists
  <2> QED BY <2>5, <2>6, <2>7 DEF Accounts
<1>3. ASSUME NEW w \in Worker, NEW o \in Order, Moved(w, o) PROVE Accounts(A, E)'
  <2>1. PICK s \in OrderStatus : status' = [status EXCEPT ![o] = s]
    BY <1>3 DEF Moved
  <2>2. /\ items' = items /\ Exists(o) /\ job[w].pc # "announce" /\ job'[w].pc = "announce"
        /\ job'[w].o = o /\ \A v \in Worker : v # w => job'[v] = job[v]
        /\ \A F : (o \in F <=> Counted(o)) => Tells(w, o, F)'
    BY <1>3 DEF Moved
  <2>3. \A x \in Order : Exists(x) => Exists(x)'
    BY <1>0, <2>1 DEF Exists, OrderStatus
  <2>4. ASSUME NEW x \in Order PROVE StillToTell(x, E)'
    <3>1. StillToTell(x, E)
      BY DEF Accounts
    <3>2. CASE x # o
      <4>1. Counted(x)' <=> Counted(x)
        BY <1>0, <2>1, <3>2 DEF Counted
      <4>2. /\ \A v \in Worker : Announcing(v, x) => job'[v] = job[v]
            /\ \A v \in Worker : Announcing(v, x)' => Announcing(v, x)
        BY <2>2, <3>2 DEF Announcing
      <4> QED BY <3>1, <4>1, <4>2, StaysToTell
    <3>3. CASE x = o /\ \E v \in Worker : Announcing(v, o)
      <4>1. PICK v \in Worker : Announcing(v, o)
        BY <3>3
      <4>2. v # w /\ Announcing(v, o)'
        BY <2>2, <4>1 DEF Announcing
      <4>3. Announcing(w, o)' /\ Crowded(w)'
        BY <2>2, <4>2 DEF Announcing, Crowded
      <4> QED BY <3>3, <4>3 DEF StillToTell
    <3>4. CASE x = o /\ \A v \in Worker : ~Announcing(v, o)
      <4>1. x \in E <=> Counted(o)
        BY <3>1, <3>4 DEF StillToTell
      <4>2. Tells(w, o, E)'
        BY <2>2, <3>4, <4>1
      <4>3. Announcing(w, o)'
        BY <2>2 DEF Announcing
      <4> QED BY <3>4, <4>2, <4>3 DEF StillToTell
    <3> QED BY <3>2, <3>3, <3>4
  <2>5. \A b \in Book : Copies(A, b)' = Copies(A, b)
    BY <2>2 DEF Copies
  <2> QED BY <2>3, <2>4, <2>5 DEF Accounts
<1> QED BY <1>1, <1>2, <1>3, ServeTells

(* What is told is what Directions says. *)
LEMMA TellsIsAStroll ==
  ASSUME NEW w \in Worker, job[w] \in Job, NEW o \in Order, NEW E, Tells(w, o, E)
  PROVE  /\ Strolls(job[w])
         /\ Steps(job[w])[1] \in RECONCILER_COUNTED_STATUSES <=> o \in E
         /\ Steps(job[w])[Len(job[w].draft) + 1] \in RECONCILER_COUNTED_STATUSES <=> Counted(o)
<1> DEFINE j == job[w]
<1>1. /\ Len(j.draft) \in Nat /\ Steps(j)[1] = j.from
      /\ \A k \in 1..Len(j.draft) : Steps(j)[k + 1] = j.draft[k]
  BY StepsAre
<1>2. /\ o \in E <=> j.from \in RECONCILER_COUNTED_STATUSES
      /\ Len(j.draft) > 0 /\ LegalMove(j.from, j.draft[1])
      /\ \A i \in 1..(Len(j.draft) - 1) : LegalMove(j.draft[i], j.draft[i + 1])
      /\ Counted(o) <=> j.draft[Len(j.draft)] \in RECONCILER_COUNTED_STATUSES
  BY DEF Tells
<1> HIDE DEF j
<1>3. ASSUME NEW k \in 1..Len(j.draft) PROVE LegalMove(Steps(j)[k], Steps(j)[k + 1])
  <2>1. CASE k = 1
    BY <1>1, <1>2, <2>1
  <2>2. CASE k # 1
    <3>1. k - 1 \in 1..(Len(j.draft) - 1) /\ k - 1 \in 1..Len(j.draft) /\ (k - 1) + 1 = k
      BY <1>1, <2>2
    <3>2. LegalMove(j.draft[k - 1], j.draft[k])
      BY <1>2, <3>1
    <3>3. Steps(j)[k] = j.draft[k - 1]
      BY <1>1, <3>1
    <3> QED BY <1>1, <3>2, <3>3
  <2> QED BY <2>1, <2>2
<1>4. Steps(j)[Len(j.draft) + 1] = j.draft[Len(j.draft)]
  BY <1>1, <1>2
<1> QED BY <1>1, <1>2, <1>3, <1>4 DEF Strolls, j

LEMMA AccountsEmit ==
  ASSUME OrdersInv, RollupTypeOK, NEW w \in Worker, Emit(w), ~Crowded(w),
         NEW A \in SUBSET Order, NEW E \in SUBSET Order, Accounts(A, E)
  PROVE  \E F \in SUBSET Order : Accounts(A, F)'
<1>1. PICK o \in Order : o = job[w].o /\ Exists(o) /\ job[w] \in Job /\ Announcing(w, o)
  BY AnnouncerOf DEF Emit, Announce, Announcing
<1>2. Tells(w, o, E)
  <2>1. StillToTell(o, E)
    BY DEF Accounts
  <2>2. \A v \in Worker : Announcing(v, o) => v = w
    BY <1>1 DEF Crowded
  <2> QED BY <1>1, <2>1, <2>2 DEF StillToTell
<1>3. PICK F \in SUBSET Order :
        (o \in F <=> Counted(o)) /\ \A x \in Order : x # o => (x \in F <=> x \in E)
  <2>1. CASE Counted(o)
    <3> WITNESS E \cup {o} \in SUBSET Order
    <3> QED BY <2>1
  <2>2. CASE ~Counted(o)
    <3> WITNESS E \ {o} \in SUBSET Order
    <3> QED BY <2>2
  <2> QED BY <2>1, <2>2
<1>4. /\ rollups' = [rollups EXCEPT ![o] = rollups[o] \o Directions(job[w])]
      /\ UNCHANGED <<units, status, items>> /\ job' = [job EXCEPT ![w] = Idle]
  BY <1>1 DEF Emit, Announce, Finish, orderVars
<1>5. /\ \A v \in Worker : v # w => job'[v] = job[v]
      /\ job'[w].pc # "announce"
  BY <1>4 DEF OrdersInv, TypeOK, Idle
<1>6. rollups \in [Order -> Seq({1, -1})]
  BY DEF RollupTypeOK
<1>7. ASSUME NEW x \in Order PROVE Alternates(rollups'[x], x \in A, x \in F)
  <2>0. Alternates(rollups[x], x \in A, x \in E)
    BY DEF Accounts
  <2>1. CASE x # o
    <3>1. rollups'[x] = rollups[x] /\ (x \in F) = (x \in E)
      BY <1>3, <1>4, <1>6, <2>1
    <3> QED BY <2>0, <3>1
  <2>2. CASE x = o
    <3>1. /\ Strolls(job[w])
          /\ (Steps(job[w])[1] \in RECONCILER_COUNTED_STATUSES) = (o \in E)
          /\ (Steps(job[w])[Len(job[w].draft) + 1] \in RECONCILER_COUNTED_STATUSES) = (o \in F)
      BY <1>1, <1>2, <1>3, TellsIsAStroll
    <3>2. /\ Directions(job[w]) \in Seq({1, -1})
          /\ Alternates(Directions(job[w]), o \in E, o \in F)
      BY <1>1, <3>1, DirectionsAlternate
    <3>3. Alternates(rollups[o] \o Directions(job[w]), o \in A, o \in F)
      <4>0. \A S : \E a \in BOOLEAN : a = (o \in S)
        <5> TAKE S
        <5> WITNESS (o \in S) \in BOOLEAN
        <5> QED OBVIOUS
      <4>1. PICK a \in BOOLEAN, m \in BOOLEAN, e \in BOOLEAN :
              a = (o \in A) /\ m = (o \in E) /\ e = (o \in F)
        BY <4>0, Zenon
      <4>2. Alternates(rollups[o], a, m) /\ Alternates(Directions(job[w]), m, e)
        BY <2>0, <2>2, <3>2, <4>1
      <4>3. Alternates(rollups[o] \o Directions(job[w]), a, e)
        BY <1>6, <3>2, <4>2, MoreAlternate
      <4> QED BY <4>1, <4>3
    <3>4. rollups'[o] = rollups[o] \o Directions(job[w])
      BY <1>4, <1>6
    <3> QED BY <2>2, <3>3, <3>4
  <2> QED BY <2>1, <2>2
<1>8. \A x \in Order : (Counted(x)' <=> Counted(x)) /\ (Exists(x)' <=> Exists(x))
  BY <1>4 DEF Counted, Exists
<1>9. ASSUME NEW x \in Order PROVE StillToTell(x, F)'
  <2>1. CASE x # o
    <3>1. StillToTell(x, E)
      BY DEF Accounts
    <3>2. StillToTell(x, F)
      BY <1>3, <2>1, <3>1 DEF StillToTell, Tells
    <3>3. /\ \A v \in Worker : Announcing(v, x) => job'[v] = job[v]
          /\ \A v \in Worker : Announcing(v, x)' => Announcing(v, x)
      BY <1>1, <1>5, <2>1 DEF Announcing
    <3> QED BY <1>8, <3>2, <3>3, StaysToTell
  <2>2. CASE x = o
    <3>1. \A v \in Worker : ~Announcing(v, o)'
      BY <1>1, <1>5 DEF Announcing, Crowded
    <3> QED BY <1>3, <1>8, <2>2, <3>1 DEF StillToTell
  <2> QED BY <2>1, <2>2
<1>10. \A x \in A \cup F : Exists(x)'
  <2>1. \A x \in A \cup E : Exists(x)
    BY DEF Accounts
  <2> QED BY <1>1, <1>3, <1>8, <2>1
<1>11. \A b \in Book : units'[b] = Cardinality(Copies(A, b)')
  <2>1. \A b \in Book : Copies(A, b)' = Copies(A, b)
    BY <1>4 DEF Copies
  <2> QED BY <1>4, <2>1 DEF Accounts
<1> QED BY <1>3, <1>7, <1>9, <1>10, <1>11 DEF Accounts

(* The oldest UPDATE of an order moves the column by that order's copies:  *)
(* it has room to subtract what it subtracts, so that the floor is not met.*)
LEMMA AccountsRollUp ==
  ASSUME OrdersInv, RollupKept, NEW o \in Order, 1 \in 1..Len(rollups[o]), RollUp(o, 1),
         NEW A \in SUBSET Order, NEW E \in SUBSET Order, Accounts(A, E)
  PROVE  \E B \in SUBSET Order : Accounts(B, E)'
<1>0. /\ items \in [Order -> [Book -> Nat]] /\ rollups \in [Order -> Seq({1, -1})]
      /\ \A b \in Book : IsFiniteSet(Copies(Rows, b))
      /\ \A x \in Order : rollups[x] # <<>> => Exists(x)
  BY DEF OrdersInv, TypeOK, RollupKept, RollupTypeOK, Rows
<1>1. /\ UNCHANGED <<status, items>> /\ job' = job
      /\ units' = [b \in Book |-> Floored(units[b] + rollups[o][1] * items[o][b])]
      /\ rollups' = [rollups EXCEPT ![o] = RemoveAt(rollups[o], 1)]
  BY DEF RollUp, Done, vars, orderVars
<1>2. rollups[o] # <<>> /\ Exists(o)
  BY <1>0, RemovalType
<1>3. /\ \A x \in A \cup E : Exists(x)
      /\ \A b \in Book : units[b] = Cardinality(With(A, items, b)) /\ IsFiniteSet(With(A, items, b))
      /\ \A x \in Order : Alternates(rollups[x], x \in A, x \in E) /\ StillToTell(x, E)
  <2>1. \A x \in A \cup E : Exists(x)
    BY DEF Accounts
  <2>2. ASSUME NEW b \in Book PROVE IsFiniteSet(With(A, items, b))
    <3>1. Copies(A, b) \subseteq Copies(Rows, b)
      BY <2>1 DEF Copies, Rows
    <3> QED BY <1>0, <3>1, FS_Subset, CopiesAreWith
  <2> QED BY <2>1, <2>2, CopiesAreWith DEF Accounts
<1>4. PICK a \in BOOLEAN, e \in BOOLEAN : a = (o \in A) /\ e = (o \in E)
  <2>1. \A S : \E a \in BOOLEAN : a = (o \in S)
    <3> TAKE S
    <3> WITNESS (o \in S) \in BOOLEAN
    <3> QED OBVIOUS
  <2> QED BY <2>1, Zenon
<1>5. /\ rollups[o][1] = (IF o \in A THEN -1 ELSE 1)
      /\ Alternates(RemoveAt(rollups[o], 1), ~a, e)
  <2>1. Alternates(rollups[o], a, e)
    BY <1>3, <1>4
  <2>2. rollups[o] \in Seq({1, -1})
    BY <1>0
  <2>3. /\ rollups[o][1] = (IF a THEN -1 ELSE 1)
        /\ Alternates(RemoveAt(rollups[o], 1), ~a, e)
    BY <1>2, <2>1, <2>2, OldestFirst
  <2> QED BY <1>4, <2>3, Zenon
<1>6. ASSUME NEW B \in SUBSET Order, o \in B <=> o \notin A,
             \A x \in Order : x # o => (x \in B <=> x \in A),
             \A b \in Book : units'[b] = Cardinality(With(B, items, b))
      PROVE  Accounts(B, E)'
  <2>1. \A x \in B \cup E : Exists(x)'
    BY <1>1, <1>2, <1>3, <1>6 DEF Exists
  <2>2. \A b \in Book : units'[b] = Cardinality(Copies(B, b)')
    BY <1>1, <1>6, CopiesAreWith
  <2>3. ASSUME NEW x \in Order PROVE Alternates(rollups'[x], x \in B, x \in E)
    <3>1. CASE x = o
      <4>1. rollups'[o] = RemoveAt(rollups[o], 1)
        BY <1>0, <1>1
      <4>2. (o \in B) = (~a)
        <5>1. a <=> o \in A
          BY <1>4
        <5>2. o \in B <=> ~a
          BY <1>6, <5>1
        <5> QED BY <5>2
      <4>3. (o \in E) = e
        BY <1>4
      <4> QED BY <1>5, <3>1, <4>1, <4>2, <4>3
    <3>2. CASE x # o
      <4>1. rollups'[x] = rollups[x] /\ (x \in B) = (x \in A)
        BY <1>0, <1>1, <1>6, <3>2
      <4> QED BY <1>3, <4>1
    <3> QED BY <3>1, <3>2
  <2>4. ASSUME NEW x \in Order PROVE StillToTell(x, E)'
    <3>1. /\ \A v \in Worker : Announcing(v, x) => job'[v] = job[v]
          /\ \A v \in Worker : Announcing(v, x)' => Announcing(v, x)
          /\ Counted(x)' <=> Counted(x)
      BY <1>1 DEF Announcing, Counted
    <3> QED BY <1>3, <3>1, StaysToTell
  <2> QED BY <2>1, <2>2, <2>3, <2>4 DEF Accounts
<1>7. CASE o \in A
  <2> DEFINE B == A \ {o}
  <2>1. ASSUME NEW b \in Book PROVE units'[b] = Cardinality(With(B, items, b))
    <3>1. /\ Cardinality(With(A \ {o}, items, b)) + items[o][b] = Cardinality(With(A, items, b))
          /\ Cardinality(With(A \ {o}, items, b)) \in Nat
      <4>1. items[o][b] \in Nat /\ IsFiniteSet(With(A, items, b))
        BY <1>0, <1>3
      <4> QED BY <1>7, <4>1, WithOneLess, Zenon
    <3>2. rollups[o][1] = -1 /\ items[o][b] \in Nat
      <4>1. rollups[o][1] = -1
        BY <1>5, <1>7, Zenon
      <4>2. items[o][b] \in Nat
        BY <1>0
      <4> QED BY <4>1, <4>2
    <3>3. units[b] + rollups[o][1] * items[o][b] = Cardinality(With(A \ {o}, items, b))
      BY <1>3, <3>1, <3>2
    <3>4. units'[b] = Floored(Cardinality(With(A \ {o}, items, b)))
      BY <1>1, <3>3
    <3> QED BY <3>1, <3>4, FlooredIs
  <2>2. B \in SUBSET Order /\ o \notin B /\ \A x \in Order : x # o => (x \in B <=> x \in A)
    OBVIOUS
  <2> HIDE DEF B
  <2> QED BY <1>6, <1>7, <2>1, <2>2
<1>8. CASE o \notin A
  <2> DEFINE B == A \cup {o}
  <2>1. ASSUME NEW b \in Book PROVE units'[b] = Cardinality(With(B, items, b))
    <3>1. /\ Cardinality(With(A \cup {o}, items, b)) = Cardinality(With(A, items, b)) + items[o][b]
          /\ Cardinality(With(A, items, b)) \in Nat
      <4>1. items[o][b] \in Nat /\ IsFiniteSet(With(A, items, b))
        BY <1>0, <1>3
      <4> QED BY <1>8, <4>1, WithOneMoreOf, Zenon
    <3>2. rollups[o][1] = 1 /\ items[o][b] \in Nat
      <4>1. rollups[o][1] = 1
        BY <1>5, <1>8, Zenon
      <4>2. items[o][b] \in Nat
        BY <1>0
      <4> QED BY <4>1, <4>2
    <3>3. units[b] + rollups[o][1] * items[o][b] = Cardinality(With(A \cup {o}, items, b))
      BY <1>3, <3>1, <3>2
    <3>4. units'[b] = Floored(Cardinality(With(A \cup {o}, items, b)))
      BY <1>1, <3>3
    <3> QED BY <3>1, <3>2, <3>4, FlooredIs
  <2>2. B \in SUBSET Order /\ o \in B /\ \A x \in Order : x # o => (x \in B <=> x \in A)
    OBVIOUS
  <2> HIDE DEF B
  <2> QED BY <1>6, <1>8, <2>1, <2>2
<1> QED BY <1>7, <1>8

(* With nothing under way, the column that is what the reconciler sums up  *)
(* is accounted for.                                                       *)
LEMMA QuietAccounts ==
  Quiet /\ (\A b \in Book : units[b] = Sold(b)) => \E A, E \in SUBSET Order : Accounts(A, E)
<1> SUFFICES ASSUME Quiet, \A b \in Book : units[b] = Sold(b)
             PROVE  \E A, E \in SUBSET Order : Accounts(A, E)
  OBVIOUS
<1> DEFINE C == {o \in Order : Counted(o)}
<1>1. \A o \in C : Exists(o)
  BY DEF Counted, Exists, RECONCILER_COUNTED_STATUSES, LISTENER_COUNTED_STATUSES
<1>2. \A b \in Book : units[b] = Cardinality(Copies(C, b))
  BY DEF Sold
<1>3. ASSUME NEW o \in Order PROVE StillToTell(o, C)
  BY DEF StillToTell, Quiet, Announcing
<1>4. ASSUME NEW o \in Order PROVE Alternates(rollups[o], o \in C, o \in C)
  BY DEF Quiet, Alternates
<1>5. C \in SUBSET Order
  OBVIOUS
<1> HIDE DEF C
<1>6. Accounts(C, C)
  BY <1>1, <1>2, <1>3, <1>4 DEF Accounts
<1> QED BY <1>5, <1>6

(* And conversely: with nothing under way, what is accounted for is what   *)
(* the reconciler sums up.                                                 *)
LEMMA AccountsAreExact ==
  ASSUME RollupInv
  PROVE  ExactUnlessExcused
<1> SUFFICES ASSUME Quiet, ~excused, NEW b \in Book PROVE units[b] = Sold(b)
  BY DEF ExactUnlessExcused
<1>1. PICK A \in SUBSET Order, E \in SUBSET Order : Accounts(A, E)
  BY DEF RollupInv
<1>2. ASSUME NEW o \in Order PROVE o \in A <=> Counted(o)
  <2>1. StillToTell(o, E) /\ Alternates(<<>>, o \in A, o \in E)
    BY <1>1 DEF Accounts, Quiet
  <2>2. o \in E <=> Counted(o)
    BY <2>1 DEF StillToTell, Quiet, Announcing
  <2> QED BY <2>1, <2>2 DEF Alternates
<1>3. A = {o \in Order : Counted(o)}
  BY <1>2
<1> QED BY <1>1, <1>3 DEF Accounts, Sold

-----------------------------------------------------------------------------
(* The inductive invariant. *)

LEMMA RollupInitInv == RollupInit => RollupInv
<1> SUFFICES ASSUME RollupInit PROVE RollupInv
  OBVIOUS
<1>1. Quiet /\ \A o \in Order : ~Counted(o)
  BY DEF RollupInit, Init, Quiet, Idle, Counted, RECONCILER_COUNTED_STATUSES,
         LISTENER_COUNTED_STATUSES
<1>2. \A b \in Book : units[b] = Sold(b)
  <2>1. \A b \in Book : Copies({o \in Order : Counted(o)}, b) = {}
    BY <1>1 DEF Copies
  <2> QED BY <2>1, FS_EmptySet DEF Sold, RollupInit
<1> QED BY <1>1, <1>2, KeptInit, QuietAccounts DEF RollupInv

LEMMA RollupNextInv ==
  ASSUME Hazards \subseteq Excuses, RollupInv, OrdersInv, OrdersInv',
         [RollupNext]_<<vars, rollupVars>>
  PROVE  RollupInv'
<1>0. RollupKept /\ RollupTypeOK /\ \A o \in Order : rollups[o] # <<>> => Exists(o)
  BY DEF RollupInv, RollupKept
<1>1. RollupKept'
  BY <1>0, KeptNext
<1> SUFFICES ASSUME ~excused' PROVE (\E A, E \in SUBSET Order : Accounts(A, E))'
  BY <1>1 DEF RollupInv
<1>2. \A hazard \in Hazards : \A happened : Excuse(hazard, happened) <=> happened
  BY DEF Excuse
<1>3. ASSUME ~excused PROVE \E A, E \in SUBSET Order : Accounts(A, E)
  BY <1>3 DEF RollupInv
<1>4. ASSUME ~excused, UNCHANGED <<units, rollups, status, items, job>>
      PROVE  (\E A, E \in SUBSET Order : Accounts(A, E))'
  <2>1. PICK A \in SUBSET Order, E \in SUBSET Order : Accounts(A, E)
    BY <1>3, <1>4
  <2>2. SameNews
    BY <1>4 DEF SameNews
  <2> QED BY <1>4, <2>1, <2>2, AccountsStay
<1>5. CASE UNCHANGED <<vars, rollupVars>>
  BY <1>4, <1>5 DEF vars, rollupVars, orderVars
<1>6. CASE Serve /\ excused' = (excused \/ Excuse("stale", StaleCommit))
            /\ UNCHANGED <<units, rollups, desk, report, reconciles>>
  <2>1. ~excused /\ ~StaleCommit
    BY <1>2, <1>6 DEF Hazards
  <2>2. PICK A \in SUBSET Order, E \in SUBSET Order : Accounts(A, E)
    BY <1>3, <2>1
  <2>3. Accounts(A, E)'
    BY <1>0, <1>6, <2>1, <2>2, AccountsServe
  <2> QED BY <2>3
<1>7. ASSUME NEW b \in Book, WaitlistHolds(b), UNCHANGED rollupVars
      PROVE  (\E A, E \in SUBSET Order : Accounts(A, E))'
  BY <1>4, <1>7 DEF WaitlistHolds, rollupVars, orderVars
<1>8. ASSUME NEW w \in Worker, Emit(w) PROVE (\E A, E \in SUBSET Order : Accounts(A, E))'
  <2>1. ~excused /\ ~Crowded(w)
    BY <1>2, <1>8 DEF Hazards, Emit
  <2>2. PICK A \in SUBSET Order, E \in SUBSET Order : Accounts(A, E)
    BY <1>3, <2>1
  <2>3. \E F \in SUBSET Order : Accounts(A, F)'
    BY <1>0, <1>8, <2>1, <2>2, AccountsEmit
  <2> QED BY <2>3
<1>9. ASSUME NEW o \in Order, NEW i \in 1..Len(rollups[o]), RollUp(o, i)
      PROVE  (\E A, E \in SUBSET Order : Accounts(A, E))'
  <2>1. ~excused /\ ~(i > 1)
    BY <1>2, <1>9 DEF Hazards, RollUp
  <2>2. i = 1 /\ 1 \in 1..Len(rollups[o])
    <3>1. Len(rollups[o]) \in Nat
      BY <1>0 DEF RollupTypeOK
    <3> QED BY <2>1, <3>1
  <2>3. PICK A \in SUBSET Order, E \in SUBSET Order : Accounts(A, E)
    BY <1>3, <2>1
  <2>4. \E B \in SUBSET Order : Accounts(B, E)'
    BY <1>0, <1>9, <2>2, <2>3, AccountsRollUp
  <2> QED BY <2>4
<1>10. ASSUME NEW o \in Order, NEW i \in 1..Len(rollups[o]) PROVE ~RollUpFails(o, i)
  BY <1>2 DEF Hazards, RollUpFails
<1>11. CASE Measure
  BY <1>4, <1>11 DEF Measure, vars, orderVars
<1>12. CASE Correct
  <2>1. Quiet
    BY <1>2, <1>12 DEF Hazards, Correct
  <2>2. UNCHANGED <<rollups, status, items, job>> /\ units' = [b \in Book |-> Sold(b)]
    BY <1>12 DEF Correct, vars, orderVars
  <2>3. (Quiet /\ \A b \in Book : units[b] = Sold(b))'
    BY <2>1, <2>2 DEF Quiet, Sold, Copies, Counted
  <2> QED BY <2>3, QuietAccounts, PTL
<1>13. CASE CrashAll
  <2>1. ~excused /\ Quiet
    BY <1>2, <1>13 DEF Hazards, CrashAll
  <2>2. PICK A \in SUBSET Order, E \in SUBSET Order : Accounts(A, E)
    BY <1>3, <2>1
  <2>3. UNCHANGED <<units, status, items>> /\ SameNews /\ rollups' = rollups
    <3>1. UNCHANGED <<units, status, items>>
      BY <1>13 DEF CrashAll, Crash, orderVars
    <3>2. SameNews
      BY <1>13, <2>1 DEF CrashAll, Crash, SameNews, Quiet, Idle
    <3>3. rollups \in [Order -> Seq({1, -1})] /\ rollups' = [o \in Order |-> <<>>]
      BY <1>0, <1>13 DEF RollupTypeOK, CrashAll
    <3>4. rollups = [o \in Order |-> <<>>]
      BY <2>1, <3>3 DEF Quiet
    <3> QED BY <3>1, <3>2, <3>3, <3>4
  <2>4. Accounts(A, E)'
    BY <2>2, <2>3, AccountsStay
  <2> QED BY <2>4
<1> QED BY <1>5, <1>6, <1>7, <1>8, <1>9, <1>10, <1>11, <1>12, <1>13 DEF RollupNext

(* The listener and the reconciler never touch an order: every behaviour   *)
(* of the rollup is one of Orders.                                         *)
THEOREM RollupFollowsTheOrders == RollupSpec => Spec
<1>1. RollupInit => Init
  BY DEF RollupInit
<1>2. [RollupNext]_<<vars, rollupVars>> => [Next]_vars
  BY RollupStep
<1> QED BY <1>1, <1>2, PTL DEF RollupSpec, Spec

(* Whatever is lost, late or raced, units_sold is a number of copies that  *)
(* is never below zero (books.units_sold, greatest(..., 0)).               *)
THEOREM RollupIsTyped == RollupSpec => []RollupTypeOK
<1>1. RollupInit => OrdersInv /\ RollupKept
  BY InitInv, KeptInit DEF RollupInit
<1>2. OrdersInv /\ RollupKept /\ [RollupNext]_<<vars, rollupVars>> => (OrdersInv /\ RollupKept)'
  <2> SUFFICES ASSUME OrdersInv, RollupKept, [RollupNext]_<<vars, rollupVars>>
               PROVE  OrdersInv' /\ RollupKept'
    OBVIOUS
  <2>1. OrdersInv'
    BY RollupStep, NextInv
  <2> QED BY <2>1, KeptNext
<1>3. RollupKept => RollupTypeOK
  BY DEF RollupKept
<1> QED BY <1>1, <1>2, <1>3, PTL DEF RollupSpec

(* When all four hazards excuse, nothing else moves the column away from   *)
(* the orders: whenever no event is on its way and none of the four has    *)
(* happened since the last quiet reconciliation, units_sold is the sum     *)
(* over the counted orders.                                                *)
THEOREM RollupStaysExact ==
  ASSUME Hazards \subseteq Excuses
  PROVE  RollupSpec => []RollupIsExact
<1>1. RollupInit => OrdersInv /\ RollupInv
  BY InitInv, RollupInitInv DEF RollupInit
<1>2. OrdersInv /\ RollupInv /\ [RollupNext]_<<vars, rollupVars>> => (OrdersInv /\ RollupInv)'
  <2> SUFFICES ASSUME OrdersInv, RollupInv, [RollupNext]_<<vars, rollupVars>>
               PROVE  OrdersInv' /\ RollupInv'
    OBVIOUS
  <2>1. OrdersInv'
    BY RollupStep, NextInv
  <2> QED BY <2>1, RollupNextInv
<1>3. RollupInv => RollupIsExact
  BY AccountsAreExact DEF RollupIsExact, RollupInv, RollupKept
<1> QED BY <1>1, <1>2, <1>3, PTL DEF RollupSpec

=============================================================================
