---------------------------- MODULE MCBackOffice ----------------------------
(***************************************************************************)
(* Three small instances of the orders desk, in one state space of three    *)
(* scenes that never meet: the search for a route through the table, one   *)
(* order's page, and the two lists.                                        *)
(***************************************************************************)
EXTENDS OrderPage, Dispatch, TLC

CONSTANT o1

OneOrder == {{o1}, {}}

VARIABLES
  scene, routeFrom, routeTo, routePrevious, routeSeen, routeQueue, routeCurrent, routeTodo, routeStep, routePath, routeAt

Route == INSTANCE ForwardPath WITH
  from <- routeFrom, to <- routeTo, previous <- routePrevious, seen <- routeSeen, queue <- routeQueue,
  current <- routeCurrent, todo <- routeTodo, step <- routeStep, path <- routePath, pc <- routeAt

routeVars == <<routeFrom, routeTo, routePrevious, routeSeen, routeQueue, routeCurrent, routeTodo, routeStep, routePath, routeAt>>
deskVars == <<pageVars, dispatchVars, routeVars>>

(* The scenes that are not on: nothing is under way in them. *)
NoPage ==
  /\ order = Nothing
  /\ page = [role |-> "ADMIN", view |-> Nothing, busy |-> FALSE, open |-> {}, typed |-> {}]
  /\ calls = [c \in Call |-> NoCall]
NoLists ==
  /\ status = [o \in Parcel |-> "PENDING"] /\ list = [shipped |-> {}, items |-> {}, total |-> 0]
  /\ loads = [l \in Load |-> NoLoad] /\ ticks = [o \in Parcel |-> "none"] /\ moves = 0
NoRoute ==
  /\ routeFrom = "-" /\ routeTo = "-" /\ routeCurrent = "-" /\ routeStep = "-" /\ routeAt = "-"
  /\ routePrevious = <<>> /\ routeQueue = <<>> /\ routePath = <<>> /\ routeSeen = {} /\ routeTodo = {}

Init ==
  \/ scene = "page" /\ OrderPageInit /\ NoLists /\ NoRoute
  \/ scene = "lists" /\ NoPage /\ DispatchInit /\ NoRoute
  \/ scene = "route" /\ NoPage /\ NoLists /\ Route!Init

Next ==
  /\ UNCHANGED scene
  /\ \/ scene = "page" /\ OrderPageNext /\ UNCHANGED <<dispatchVars, routeVars>>
     \/ scene = "lists" /\ DispatchNext /\ UNCHANGED <<pageVars, routeVars>>
     \/ scene = "route" /\ Route!Next /\ UNCHANGED <<pageVars, dispatchVars>>

Spec ==
  /\ Init /\ [][Next]_<<scene, deskVars>>
  /\ OrderPageFairness /\ DispatchFairness /\ WF_routeVars(scene = "route" /\ Route!Next)

-----------------------------------------------------------------------------
(* Every component is well formed while its scene is on.                   *)
WellFormed ==
  CASE scene = "page"  -> OrderPageTypeOK
    [] scene = "lists" -> DispatchTypeOK
    [] scene = "route" -> Route!TypeOK

(* forwardPathTo: what the search returns is a shortest route through the  *)
(* table, and it answers null only when no legal moves lead there.         *)
RouteIsRight == Route!FoundIsShortest /\ Route!NullMeansUnreachable

(* What begins, ends: the page's actions are answered and its buttons free *)
(* again, the ticks of the lists are settled, the search returns.          *)
WhatBeginsEnds ==
  EveryActionEnds /\ TicksEnd /\ (scene = "route" ~> routeAt \in {"found", "null"})
=============================================================================
