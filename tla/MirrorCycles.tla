---------------------------- MODULE MirrorCycles ----------------------------
(***************************************************************************)
(* The search for mirror cycles when a configuration is validated          *)
(* (internal/config/config.go, validateMirrorCycles and findCycle). A      *)
(* first loop turns the routes' mirrors into adjacency lists; a search     *)
(* depth first, with three colours, then looks for a cycle, starting from  *)
(* the upstreams in whatever order Go's map iteration gives them.          *)
(*                                                                         *)
(* The recursion is a stack of upstreams with, for each, the position of   *)
(* the neighbour it looks at next. An operator whose name starts with      *)
(* Mutant is no part of the specification: it is a plausible bug in the    *)
(* definition that follows it, kept to show that a property notices it.    *)
(***************************************************************************)
EXTENDS Naturals, Sequences, FiniteSets, Functions

CONSTANTS
  Upstreams,   (* the names the configuration defines                      *)
  Strangers,   (* names it uses without defining them                      *)
  None,        (* the empty name                                           *)
  Configs      (* the lists of routes to validate                          *)

Name == Upstreams \cup Strangers \cup {None}

Route == [upstream : Name, mirrors : Seq(Name)]

(* The search runs whatever else is wrong with the configuration, so that  *)
(* any name can stand anywhere, the empty one among the upstreams, too.    *)
ASSUME ConfigAssumption ==
  /\ IsFiniteSet(Upstreams)
  /\ Strangers \cap Upstreams = {}
  /\ Configs \subseteq Seq(Route)

VARIABLES
  routes,     (* the configuration's routes                                *)
  pc,         (* building the lists, searching, or done                    *)
  route,      (* the route the first loop is at, and ...                   *)
  mirror,     (* ... the mirror of that route                              *)
  adj,        (* per upstream, the upstreams it is mirrored to             *)
  colour,     (* white: not visited, gray: being visited, black: done      *)
  next,       (* per upstream, the neighbour dfs looks at next             *)
  stack,      (* the upstreams being visited                               *)
  cycle       (* the cycle returned; empty: none found                     *)

vars == <<routes, pc, route, mirror, adj, colour, next, stack, cycle>>

search == <<colour, next, stack, cycle>>

Init ==
  /\ routes \in Configs
  /\ pc     = "build"
  /\ route  = 1
  /\ mirror = 1
  /\ adj    = [u \in Upstreams |-> <<>>]
  /\ colour = [u \in Upstreams |-> "white"]
  /\ next   = [u \in Upstreams |-> 1]
  /\ stack  = <<>>
  /\ cycle  = <<>>

-----------------------------------------------------------------------------
(* validateMirrorCycles.                                                   *)

MutantCountsStranger(u, v) ==
  /\ v # None /\ v # u
  /\ u \in Upstreams
  /\ v \notin Range(adj[u])

MutantCountsOnce(u, v) ==
  /\ v # None /\ v # u
  /\ u \in Upstreams /\ v \in Upstreams
  /\ \A w \in Upstreams : v \notin Range(adj[w])

(* A mirror is an edge unless it is empty, the route's own upstream,       *)
(* unknown, or already in the list (seen holds what the lists hold).       *)
Counts(u, v) ==
  /\ v # None /\ v # u
  /\ u \in Upstreams /\ v \in Upstreams
  /\ v \notin Range(adj[u])

(* The next mirror of the route.                                           *)
AddMirror ==
  /\ pc = "build" /\ route <= Len(routes)
  /\ mirror <= Len(routes[route].mirrors)
  /\ LET u == routes[route].upstream
         v == routes[route].mirrors[mirror]
     IN  adj' = IF Counts(u, v) THEN [adj EXCEPT ![u] = Append(@, v)] ELSE adj
  /\ mirror' = mirror + 1
  /\ UNCHANGED <<routes, pc, route, search>>

NextRoute ==
  /\ pc = "build" /\ route <= Len(routes)
  /\ mirror > Len(routes[route].mirrors)
  /\ route'  = route + 1
  /\ mirror' = 1
  /\ UNCHANGED <<routes, pc, adj, search>>

CallFindCycle ==
  /\ pc = "build" /\ route > Len(routes)
  /\ pc' = "search"
  /\ UNCHANGED <<routes, route, mirror, adj, search>>

-----------------------------------------------------------------------------
(* findCycle.                                                              *)

built == <<routes, route, mirror, adj>>

Top       == stack[Len(stack)]
More      == stack # <<>> /\ next[Top] <= Len(adj[Top])
Neighbour == adj[Top][next[Top]]

(* The outer loop: the upstreams that have a list, in any order.           *)
Unvisited == {u \in Upstreams : adj[u] # <<>> /\ colour[u] = "white"}

(* dfs(u) is entered.                                                      *)
Enter(u) ==
  /\ colour' = [colour EXCEPT ![u] = "gray"]
  /\ stack'  = Append(stack, u)

Start(u) ==
  /\ pc = "search" /\ stack = <<>> /\ u \in Unvisited
  /\ Enter(u)
  /\ UNCHANGED <<built, pc, next, cycle>>

(* A white neighbour is visited first.                                     *)
Descend ==
  /\ pc = "search" /\ More /\ colour[Neighbour] = "white"
  /\ Enter(Neighbour)
  /\ next' = [next EXCEPT ![Top] = @ + 1]
  /\ UNCHANGED <<built, pc, cycle>>

MutantSkip ==
  /\ pc = "search" /\ More /\ colour[Neighbour] = "black"
  /\ UNCHANGED vars

(* A black neighbour was found to lead to no cycle.                        *)
Skip ==
  /\ pc = "search" /\ More /\ colour[Neighbour] = "black"
  /\ next' = [next EXCEPT ![Top] = @ + 1]
  /\ UNCHANGED <<built, pc, colour, stack, cycle>>

MutantClose ==
  /\ pc = "search" /\ More /\ colour[Neighbour] = "gray"
  /\ cycle' = Append(stack, Neighbour)
  /\ pc'    = "done"
  /\ UNCHANGED <<built, colour, next, stack>>

(* A gray neighbour is on the stack: the cycle is the stack from there on, *)
(* closed.                                                                 *)
Close ==
  /\ pc = "search" /\ More /\ colour[Neighbour] = "gray"
  /\ \E i \in DOMAIN stack :
       /\ stack[i] = Neighbour
       /\ cycle' = Append(SubSeq(stack, i, Len(stack)), Neighbour)
  /\ pc' = "done"
  /\ UNCHANGED <<built, colour, next, stack>>

MutantLeave ==
  /\ pc = "search" /\ stack # <<>> /\ ~More
  /\ colour' = [colour EXCEPT ![Top] = "white"]
  /\ stack'  = SubSeq(stack, 1, Len(stack) - 1)
  /\ UNCHANGED <<built, pc, next, cycle>>

(* dfs returns.                                                            *)
Leave ==
  /\ pc = "search" /\ stack # <<>> /\ ~More
  /\ colour' = [colour EXCEPT ![Top] = "black"]
  /\ stack'  = SubSeq(stack, 1, Len(stack) - 1)
  /\ UNCHANGED <<built, pc, next, cycle>>

(* The outer loop ends.                                                    *)
NoCycle ==
  /\ pc = "search" /\ stack = <<>> /\ Unvisited = {}
  /\ pc' = "done"
  /\ UNCHANGED <<built, search>>

-----------------------------------------------------------------------------
Build  == AddMirror \/ NextRoute \/ CallFindCycle
Search == (\E u \in Upstreams : Start(u)) \/ Descend \/ Skip \/ Close \/ Leave \/ NoCycle

Next == Build \/ Search

Spec     == Init /\ [][Next]_vars
FairSpec == Spec /\ WF_vars(Next)

-----------------------------------------------------------------------------
(* Properties, stated over the routes and not over the lists.              *)

(* Some route to u is mirrored to v. A route that mirrors to its own       *)
(* upstream is refused by validateMirror.                                  *)
Mirrors(u, v) ==
  /\ u # v /\ v # None
  /\ \E i \in DOMAIN routes : routes[i].upstream = u /\ v \in Range(routes[i].mirrors)

(* Every variable of the search keeps its type.                            *)
TypeOK ==
  /\ routes \in Configs
  /\ pc     \in {"build", "search", "done"}
  /\ route  \in Nat \ {0}
  /\ mirror \in Nat \ {0}
  /\ adj    \in [Upstreams -> Seq(Upstreams)]
  /\ colour \in [Upstreams -> {"white", "gray", "black"}]
  /\ next   \in [Upstreams -> Nat \ {0}]
  /\ stack  \in Seq(Upstreams)
  /\ cycle  \in Seq(Upstreams)

(* The cycle in the error message is one (ADR-0007:14): it names two       *)
(* upstreams or more, none but the first twice, ends where it begins, and  *)
(* each is mirrored to the one after it.                                   *)
CycleIsReal ==
  cycle # <<>> =>
    /\ Len(cycle) >= 3 /\ cycle[1] = cycle[Len(cycle)]
    /\ \A i, j \in 1 .. Len(cycle) - 1 : cycle[i] = cycle[j] => i = j
    /\ \A i \in 1 .. Len(cycle) - 1 : Mirrors(cycle[i], cycle[i + 1])

(* A configuration without a reported cycle has none, in whatever order    *)
(* the upstreams were visited: any group of upstreams has one that is      *)
(* mirrored to none of the group, so that mirror traffic ends (ADR-0007:7). *)
AcceptedIsAcyclic ==
  pc = "done" /\ cycle = <<>> =>
    \A S \in (SUBSET Upstreams) \ {{}} : \E u \in S : \A v \in S : ~Mirrors(u, v)

(* The search is linear in the lists: no upstream is visited twice and no  *)
(* edge is looked at twice, however the upstreams are mirrored to each     *)
(* other, and each step before the verdict enters or leaves an upstream or *)
(* moves past an edge.                                                     *)
VisitedOnce ==
  [][pc = "search" =>
       /\ \A u \in Upstreams :
            /\ colour'[u] # colour[u] =>
                 <<colour[u], colour'[u]>> \in {<<"white", "gray">>, <<"gray", "black">>}
            /\ next'[u] # next[u] =>
                 /\ next'[u] = next[u] + 1 /\ next[u] \in DOMAIN adj[u]
                 /\ colour[u] = "gray"
       /\ \/ pc' = "done"
          \/ \E u \in Upstreams : colour'[u] # colour[u] \/ next'[u] # next[u]]_vars

(* The search ends, although it follows cyclic lists.                      *)
Terminates == <>(pc = "done")
=============================================================================
