----------------------------- MODULE ForwardPath -----------------------------
(***************************************************************************)
(* forwardPathTo of apps/api/src/orders/order-status.machine.ts, loop by   *)
(* loop: a breadth-first search over the lifecycle table, then the route   *)
(* rebuilt backwards along `previous`.  The code scans the successors of a *)
(* status in the order of the table's arrays; here any order is allowed,   *)
(* so the results do not depend on how the table is written.               *)
(***************************************************************************)
EXTENDS OrderMachine

VARIABLES from, to,     \* the arguments
          previous,     \* the Map: status |-> the status it was reached from
          seen, queue,  \* the Set and the array of the search
          current,      \* the status taken off the queue
          todo,         \* its successors not looked at yet
          step, path,   \* the cursor and the route of the rebuilding loop
          pc            \* "loop", "scan", "rebuild", "found" or "null"

vars == <<from, to, previous, seen, queue, current, todo, step, path, pc>>

TypeOK ==
  /\ {from, to, current, step} \cup seen \cup todo \subseteq OrderStatus
  /\ previous \in [OrderStatus -> OrderStatus \cup {"undefined"}]
  /\ queue \in Seq(OrderStatus)
  /\ path \in Seq(OrderStatus)
  /\ pc \in {"loop", "scan", "rebuild", "found", "null"}

Init ==
  /\ from \in OrderStatus /\ to \in OrderStatus
  /\ previous = [s \in OrderStatus |-> "undefined"]
  /\ seen = {from} /\ queue = <<from>>
  /\ current = from /\ todo = {}
  /\ step = to /\ path = <<>>
  /\ pc = IF from = to THEN "found" ELSE "loop"

(* A mutant: queue[0] where the code says queue.shift(). *)
Shifted_Peek(q) == q

Shifted(q) == Tail(q)

(* queue.shift(), or the loop ends and the answer is null. *)
Shift ==
  /\ pc = "loop"
  /\ IF queue = <<>>
     THEN pc' = "null" /\ UNCHANGED <<queue, current, todo>>
     ELSE /\ current' = Head(queue) /\ queue' = Shifted(queue)
          /\ todo' = ORDER_STATUS_TRANSITIONS[Head(queue)]
          /\ pc' = "scan"
  /\ UNCHANGED <<from, to, previous, seen, step, path>>

(* A mutant: only statuses that lead somewhere are looked at. *)
Fresh_NotTerminal(s) == s \notin seen /\ ~isTerminal(s)

(* The `if (seen.has(next)) continue` of the scan. *)
Fresh(s) == s \notin seen

Scan ==
  /\ pc = "scan"
  /\ IF todo = {}
     THEN pc' = "loop" /\ UNCHANGED <<previous, seen, queue, todo>>
     ELSE \E next \in todo :
            /\ todo' = todo \ {next}
            /\ IF Fresh(next)
               THEN /\ seen' = seen \cup {next}
                    /\ previous' = [previous EXCEPT ![next] = current]
                    /\ IF next = to
                       THEN pc' = "rebuild" /\ UNCHANGED queue
                       ELSE queue' = Append(queue, next) /\ UNCHANGED pc
               ELSE UNCHANGED <<previous, seen, queue, pc>>
  /\ UNCHANGED <<from, to, current, step, path>>

(* A mutant: push where the code says unshift. *)
Unshifted_Push(s, route) == Append(route, s)

Unshifted(s, route) == <<s>> \o route

(* A mutant: the loop runs until the Map has no entry left. *)
AtTheStart_NoEntry(s) == s = "undefined"

AtTheStart(s) == s = from

Rebuild ==
  /\ pc = "rebuild"
  /\ IF AtTheStart(step)
     THEN pc' = "found" /\ UNCHANGED <<step, path>>
     ELSE /\ path' = Unshifted(step, path)
          /\ step' = previous[step]
          /\ UNCHANGED pc
  /\ UNCHANGED <<from, to, previous, seen, queue, current, todo>>

Next == Shift \/ Scan \/ Rebuild

(* One synchronous call: nothing can keep it from its next step. *)
Spec == Init /\ [][Next]_vars /\ WF_vars(Next)

-----------------------------------------------------------------------------
(* What the search returns is a shortest route through the table, every    *)
(* step of which the table allows.                                         *)
FoundIsShortest == pc = "found" => path \in ShortestRoutes(from, to)

(* The search answers null only when no sequence of legal moves, of any    *)
(* length, leads there: the statuses it has seen are then closed under the *)
(* table and miss the target.                                              *)
NullMeansUnreachable ==
  pc = "null" =>
    /\ ~HasRoute(from, to)
    /\ from \in seen /\ to \notin seen
    /\ \A s \in seen : ORDER_STATUS_TRANSITIONS[s] \subseteq seen

(* The call returns. *)
Returns == <>(pc \in {"found", "null"})

=============================================================================
