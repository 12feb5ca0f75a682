----------------------------- MODULE SalesRollup -----------------------------
(***************************************************************************)
(* books.units_sold: SalesRollupListener follows the status events of      *)
(* Orders, and an admin may have UnitsSoldReconciler rewrite the column    *)
(* from the orders.  Events are emitted after the commit and not awaited:  *)
(* each becomes an UPDATE of its own, on its own connection, in no order.  *)
(* UPDATEs of different orders commute, so what matters of a mix-up is the *)
(* age of an UPDATE among those of its own order.                          *)
(***************************************************************************)
EXTENDS Orders, SequencesExt

CONSTANTS
  MaxReconciles,  \* bound: how often an admin asks for a reconciliation
  Excuses         \* what may move units_sold away from the orders: a subset of Hazards

Hazards == {"lost", "overtaken", "stale", "raced"}

ASSUME RollupAssumption == MaxReconciles \in Nat /\ Excuses \subseteq Hazards

VARIABLES
  units,       \* books.units_sold
  rollups,     \* per order, the directions of its UPDATEs under way, oldest first
  desk,        \* what the reconciling request is doing
  report,      \* the figures it measured: recorded and actual, per book
  reconciles,  \* how many have been asked for
  excused      \* history: whether one of Excuses has happened

rollupVars == <<units, rollups, desk, report, reconciles, excused>>

RollupTypeOK ==
  /\ units \in [Book -> Nat]
  /\ rollups \in [Order -> Seq({1, -1})]
  /\ desk \in {"idle", "measured"}
  /\ report \in [Book -> [recorded : Nat, actual : Nat]]
  /\ reconciles \in 0..MaxReconciles
  /\ excused \in BOOLEAN

NoFigures == [b \in Book |-> [recorded |-> 0, actual |-> 0]]

RollupInit ==
  /\ Init
  /\ units = [b \in Book |-> 0]
  /\ rollups = [o \in Order |-> <<>>]
  /\ desk = "idle"
  /\ report = NoFigures
  /\ reconciles = 0
  /\ excused = FALSE

-----------------------------------------------------------------------------
(* units-sold-reconciler.ts *)
RECONCILER_COUNTED_STATUSES == LISTENER_COUNTED_STATUSES \cup {"REFUNDED"}

Counted(o) == status[o] \in RECONCILER_COUNTED_STATUSES

Copies(orders, b) == UNION {{o} \X (1..items[o][b]) : o \in orders}

(* sum(quantity) over the counted orders, nothing for a book without any. *)
Sold(b) == Cardinality(Copies({o \in Order : Counted(o)}, b))

Announcing(w, o) == job[w].pc = "announce" /\ job[w].o = o

Quiet ==
  /\ \A o \in Order : rollups[o] = <<>>
  /\ \A w \in Worker : job[w].pc # "announce"

Excuse(hazard, happened) == hazard \in Excuses /\ happened

(* A transition commits from another status than the one read before it,   *)
(* which is the one its event will name.                                   *)
StaleCommit ==
  \E w \in Worker :
    job[w].pc = "commit" /\ job'[w].pc = "announce" /\ job[w].from # status[job[w].o]

(* onStatusChanged: the events of an announcement that count for something. *)
Directions(j) ==
  LET events == Announced(j)
      sent[n \in 0..Len(events)] ==
        IF n = 0 THEN <<>>
        ELSE LET direction == directionFor(events[n][1], events[n][2])
             IN  IF direction = 0 THEN sent[n - 1] ELSE Append(sent[n - 1], direction)
  IN  sent[Len(events)]

(* Another change of the same order is still to be announced, and may be   *)
(* the older of the two.                                                   *)
Crowded(w) == \E v \in Worker \ {w} : Announcing(v, job[w].o)

Emit(w) ==
  /\ Announce(w)
  /\ rollups' = [rollups EXCEPT ![job[w].o] = rollups[job[w].o] \o Directions(job[w])]
  /\ excused' = (excused \/ Excuse("overtaken", Crowded(w)))
  /\ UNCHANGED <<units, desk, report, reconciles>>

(* greatest(..., 0) *)
Floored(n) == Max({n, 0})

Done(o, i) == rollups' = [rollups EXCEPT ![o] = RemoveAt(rollups[o], i)]

(* rollUp: one UPDATE of the books of the order, floored at zero. *)
RollUp(o, i) ==
  /\ units' = [b \in Book |-> Floored(units[b] + rollups[o][i] * items[o][b])]
  /\ Done(o, i)
  /\ excused' = (excused \/ Excuse("overtaken", i > 1))
  /\ UNCHANGED <<vars, desk, report, reconciles>>

(* The UPDATE fails; the error is logged and swallowed. *)
RollUpFails(o, i) ==
  /\ Done(o, i)
  /\ excused' = (excused \/ Excuse("lost", TRUE))
  /\ UNCHANGED <<vars, units, desk, report, reconciles>>

-----------------------------------------------------------------------------
(* UnitsSoldReconciler.reconcile: two statements of one READ COMMITTED     *)
(* transaction, each seeing what has been committed by its own start.      *)
Figures == [b \in Book |-> [recorded |-> units[b], actual |-> Sold(b)]]

Measure ==
  /\ desk = "idle" /\ reconciles < MaxReconciles
  /\ \/ /\ \A b \in Book : units[b] = Sold(b)
        /\ UNCHANGED <<desk, report>>
     \/ /\ \E b \in Book : units[b] # Sold(b)
        /\ desk' = "measured" /\ report' = Figures
  /\ reconciles' = reconciles + 1
  /\ UNCHANGED <<vars, units, rollups, excused>>

Correct ==
  /\ desk = "measured"
  /\ units' = [b \in Book |-> Sold(b)]
  /\ desk' = "idle" /\ report' = NoFigures
  /\ excused' = Excuse("raced", ~Quiet)
  /\ UNCHANGED <<vars, rollups, reconciles>>

CrashAll ==
  /\ Crash
  /\ rollups' = [o \in Order |-> <<>>] /\ desk' = "idle" /\ report' = NoFigures
  /\ excused' = (excused \/ Excuse("lost", ~Quiet))
  /\ UNCHANGED <<units, reconciles>>

RollupNext ==
  \/ Serve /\ excused' = (excused \/ Excuse("stale", StaleCommit))
           /\ UNCHANGED <<units, rollups, desk, report, reconciles>>
  \/ \E b \in Book : WaitlistHolds(b) /\ UNCHANGED rollupVars
  \/ \E w \in Worker : Emit(w)
  \/ \E o \in Order : \E i \in 1..Len(rollups[o]) : RollUp(o, i) \/ RollUpFails(o, i)
  \/ Measure
  \/ Correct
  \/ CrashAll

RollupSpec == RollupInit /\ [][RollupNext]_<<vars, rollupVars>>

-----------------------------------------------------------------------------
(* The counting rule itself is right: through every route of the machine,  *)
(* confirmations withdrawn, cancellations, refunds and reopenings, the     *)
(* increments and reversals add up to what the reconciler would count.     *)
(* What moves the column away is one of: an event that was lost, one that  *)
(* overtook another of its order, one whose `from` was stale, and a        *)
(* reconciliation that ran while an event was on its way; a                *)
(* reconciliation with nothing on its way puts it right.                   *)
ExactUnlessExcused == Quiet /\ ~excused => \A b \in Book : units[b] = Sold(b)

(* SalesRollup: units_sold keeps its type and its floor, and agrees with   *)
(* the orders whenever nothing is on its way, but for a named excuse.      *)
RollupIsExact == RollupTypeOK /\ ExactUnlessExcused

-----------------------------------------------------------------------------
(* units-sold-reconciler.ts:60: the report describes the write that was    *)
(* made.  READ COMMITTED does not keep it (README, section 4).             *)
ReportIsTheWrite ==
  [][desk = "measured" /\ units' # units /\ desk' = "idle" =>
       \A b \in Book : report[b] = [recorded |-> units[b], actual |-> units'[b]]]_<<vars, rollupVars>>

-----------------------------------------------------------------------------
(* The inductive invariant: until one of Excuses happens there are a set   *)
(* of orders the column counts (`applied`) and a set it will count when    *)
(* every UPDATE under way has run (`emitted`), and they differ as those    *)
(* UPDATEs and the announcements still to come say.                        *)

(* The UPDATEs under way of an order count it and un-count it in turn.     *)
Alternates(q, before, after) ==
  IF q = <<>> THEN before = after
  ELSE /\ q[1] = (IF before THEN -1 ELSE 1)
       /\ q[Len(q)] = (IF after THEN 1 ELSE -1)
       /\ \A i \in 1..(Len(q) - 1) : q[i + 1] = -q[i]

(* What one announcement will say: from a status to the one committed.     *)
Tells(w, o, emitted) ==
  LET j == job[w] IN
  /\ o \in emitted <=> j.from \in RECONCILER_COUNTED_STATUSES
  /\ Len(j.draft) > 0 /\ LegalMove(j.from, j.draft[1])
  /\ \A i \in 1..(Len(j.draft) - 1) : LegalMove(j.draft[i], j.draft[i + 1])
  /\ Counted(o) <=> j.draft[Len(j.draft)] \in RECONCILER_COUNTED_STATUSES

StillToTell(o, emitted) ==
  \/ (\A w \in Worker : ~Announcing(w, o)) /\ (o \in emitted <=> Counted(o))
  \/ \E w \in Worker : Announcing(w, o) /\ (Crowded(w) \/ Tells(w, o, emitted))

Accounts(applied, emitted) ==
  /\ \A o \in applied \cup emitted : Exists(o)
  /\ \A b \in Book : units[b] = Cardinality(Copies(applied, b))
  /\ \A o \in Order : /\ Alternates(rollups[o], o \in applied, o \in emitted)
                      /\ StillToTell(o, emitted)

(* What holds of the columns and the UPDATEs whatever has happened.        *)
RollupKept ==
  /\ RollupTypeOK
  /\ \A b \in Book : IsFiniteSet(Copies({o \in Order : Exists(o)}, b))
  /\ \A o \in Order : rollups[o] # <<>> => Exists(o)

RollupInv ==
  /\ RollupKept
  /\ excused \/ \E applied, emitted \in SUBSET Order : Accounts(applied, emitted)

=============================================================================
