------------------------- MODULE MirrorCyclesProofs -------------------------
(***************************************************************************)
(* The search for mirror cycles is exact, for every list of routes: what   *)
(* it reports is a cycle, and what it accepts has none.                    *)
(***************************************************************************)
EXTENDS MirrorCycles, TLAPS

(* The lists hold mirrors of the routes, and all of those looked at.       *)
Scanned(i, j) == pc # "build" \/ i < route \/ (i = route /\ j < mirror)

ListsReal == \A u \in Upstreams : \A k \in DOMAIN adj[u] : Mirrors(u, adj[u][k])

ListsFull ==
  \A i \in DOMAIN routes : \A j \in DOMAIN routes[i].mirrors :
    LET u == routes[i].upstream
        v == routes[i].mirrors[j]
    IN  Scanned(i, j) /\ u \in Upstreams /\ v \in Upstreams /\ v # u /\ v # None =>
          v \in Range(adj[u])

Looping == pc # "build" => route > Len(routes)

ListsInv == TypeOK /\ ListsReal /\ ListsFull /\ Looping

(* The stack holds the gray upstreams, each once, along mirrors already    *)
(* looked at.                                                              *)
GrayIsStack == \A u \in Upstreams : colour[u] = "gray" <=> u \in Range(stack)

Apart == \A i, j \in DOMAIN stack : stack[i] = stack[j] => i = j

Path ==
  \A i \in 1 .. Len(stack) - 1 :
    /\ next[stack[i]] > 1 /\ next[stack[i]] - 1 \in DOMAIN adj[stack[i]]
    /\ adj[stack[i]][next[stack[i]] - 1] = stack[i + 1]

LEMMA TypeInit == Init => TypeOK
  BY ConfigAssumption DEF Init, TypeOK

LEMMA NeighbourType == TypeOK /\ More => Top \in Upstreams /\ Neighbour \in Upstreams
<1> SUFFICES ASSUME TypeOK, More PROVE Top \in Upstreams /\ Neighbour \in Upstreams
  OBVIOUS
<1>1. Top \in Upstreams
  BY DEF TypeOK, More, Top
<1>2. next[Top] \in 1 .. Len(adj[Top]) /\ adj[Top] \in Seq(Upstreams)
  BY <1>1 DEF TypeOK, More
<1> QED
  BY <1>1, <1>2 DEF Neighbour

LEMMA TypeNext == TypeOK /\ [Next]_vars => TypeOK'
<1> SUFFICES ASSUME TypeOK, [Next]_vars PROVE TypeOK'
  OBVIOUS
<1> USE ConfigAssumption DEF TypeOK
<1>1. CASE AddMirror
  BY <1>1 DEF AddMirror, search, Counts, Route
<1>2. CASE NextRoute
  BY <1>2 DEF NextRoute, search
<1>3. CASE CallFindCycle
  BY <1>3 DEF CallFindCycle, search
<1>4. ASSUME NEW u \in Upstreams, Start(u) PROVE TypeOK'
  BY <1>4 DEF Start, Enter, built
<1>5. More => Top \in Upstreams /\ Neighbour \in Upstreams
  BY NeighbourType
<1>6. CASE Descend
  BY <1>5, <1>6 DEF Descend, Enter, built
<1>7. CASE Skip
  BY <1>5, <1>7 DEF Skip, built
<1>8. CASE Close
  <2>1. PICK i \in DOMAIN stack : cycle' = Append(SubSeq(stack, i, Len(stack)), Neighbour)
    BY <1>8 DEF Close
  <2>2. SubSeq(stack, i, Len(stack)) \in Seq(Upstreams)
    OBVIOUS
  <2>3. cycle' \in Seq(Upstreams)
    BY <1>5, <1>8, <2>1, <2>2 DEF Close
  <2> QED
    BY <1>8, <2>3 DEF Close, built
<1>9. CASE Leave
  BY <1>9 DEF Leave, built, Top
<1>10. CASE NoCycle
  BY <1>10 DEF NoCycle, built, search
<1>11. CASE UNCHANGED vars
  BY <1>11 DEF vars
<1> QED
  BY <1>1, <1>2, <1>3, <1>4, <1>6, <1>7, <1>8, <1>9, <1>10, <1>11 DEF Next, Build, Search

THEOREM TypeCorrect == Spec => []TypeOK
  BY TypeInit, TypeNext, PTL DEF Spec

-----------------------------------------------------------------------------
(* The lists.                                                              *)

LEMMA RouteType ==
  ASSUME routes \in Configs, NEW i \in DOMAIN routes
  PROVE  /\ i \in Nat \ {0} /\ routes \in Seq(Route)
         /\ routes[i].mirrors \in Seq(Name)
         /\ DOMAIN routes[i].mirrors \subseteq Nat \ {0}
<1>1. routes \in Seq(Route)
  BY ConfigAssumption
<1>2. routes[i] \in Route /\ i \in Nat \ {0}
  BY <1>1
<1> QED
  BY <1>1, <1>2 DEF Route

LEMMA ListsInit == Init => ListsInv
<1> SUFFICES ASSUME Init PROVE ListsInv
  OBVIOUS
<1>1. ListsReal
  BY DEF Init, ListsReal
<1>2. \A i \in DOMAIN routes : \A j \in DOMAIN routes[i].mirrors : ~Scanned(i, j)
  BY RouteType DEF Init, Scanned
<1> QED
  BY <1>1, <1>2, TypeInit DEF ListsInv, ListsFull, Looping, Init

LEMMA ListsNext == ListsInv /\ [Next]_vars => ListsInv'
<1> SUFFICES ASSUME ListsInv, [Next]_vars PROVE ListsInv'
  OBVIOUS
<1> USE DEF ListsInv
<1>0. TypeOK'
  BY TypeNext
<1>r. routes \in Seq(Route)
  BY ConfigAssumption DEF TypeOK
<1>s. CASE UNCHANGED <<routes, pc, route, mirror, adj>>
  BY <1>0, <1>s DEF ListsReal, ListsFull, Scanned, Looping, Mirrors
<1>1. CASE AddMirror
  <2> DEFINE u == routes[route].upstream
             v == routes[route].mirrors[mirror]
  <2> USE DEF AddMirror
  <2>0. /\ route \in DOMAIN routes /\ mirror \in DOMAIN routes[route].mirrors
        /\ pc = "build" /\ UNCHANGED <<routes, pc, route>> /\ mirror' = mirror + 1
        /\ adj' = IF Counts(u, v) THEN [adj EXCEPT ![u] = Append(@, v)] ELSE adj
        /\ mirror \in Nat \ {0} /\ route \in Nat \ {0}
        /\ adj \in [Upstreams -> Seq(Upstreams)]
    BY <1>1, <1>r DEF TypeOK, Route
  <2>m. \A w, x : Mirrors(w, x)' <=> Mirrors(w, x)
    BY <2>0 DEF Mirrors
  <2>a. ASSUME NEW w \in Upstreams
        PROVE  IF Counts(u, v) /\ w = u
               THEN v \in Upstreams /\ adj'[w] = Append(adj[w], v)
               ELSE adj'[w] = adj[w]
    BY <2>0 DEF Counts
  <2>1. ListsReal'
    <3>1. Counts(u, v) => Mirrors(u, v)
      BY <2>0 DEF Counts, Mirrors, Range
    <3>2. ASSUME NEW w \in Upstreams, NEW k \in DOMAIN adj'[w]
          PROVE  \/ k \in DOMAIN adj[w] /\ adj'[w][k] = adj[w][k]
                 \/ Counts(u, v) /\ w = u /\ adj'[w][k] = v
      BY <2>0, <2>a
    <3> SUFFICES ASSUME NEW w \in Upstreams, NEW k \in DOMAIN adj'[w]
                 PROVE  Mirrors(w, adj'[w][k])
      BY <2>m DEF ListsReal
    <3> QED
      BY <3>1, <3>2 DEF ListsReal
  <2>2. ASSUME NEW w \in Upstreams PROVE Range(adj[w]) \subseteq Range(adj'[w])
    <3>1. ASSUME NEW k \in DOMAIN adj[w]
          PROVE  k \in DOMAIN adj'[w] /\ adj'[w][k] = adj[w][k]
      BY <2>0, <2>a
    <3> QED
      BY <3>1 DEF Range
  <2>3. u \in Upstreams /\ v \in Upstreams /\ v # u /\ v # None => v \in Range(adj'[u])
    <3>1. CASE Counts(u, v)
      <4>1. u \in Upstreams /\ adj'[u] = Append(adj[u], v)
        BY <2>a, <3>1 DEF Counts
      <4>2. adj'[u][Len(adj[u]) + 1] = v /\ Len(adj[u]) + 1 \in DOMAIN adj'[u]
        BY <2>0, <4>1
      <4> QED
        BY <4>2 DEF Range
    <3>2. CASE ~Counts(u, v)
      BY <2>0, <3>2 DEF Counts
    <3> QED
      BY <3>1, <3>2
  <2>4. ListsFull'
    <3> SUFFICES ASSUME NEW i \in DOMAIN routes, NEW j \in DOMAIN routes[i].mirrors,
                        Scanned(i, j)',
                        routes[i].upstream \in Upstreams, routes[i].mirrors[j] \in Upstreams,
                        routes[i].mirrors[j] # routes[i].upstream, routes[i].mirrors[j] # None
                 PROVE  routes[i].mirrors[j] \in Range(adj'[routes[i].upstream])
      BY <2>0 DEF ListsFull
    <3>1. i \in Nat /\ j \in Nat
      BY RouteType DEF TypeOK
    <3>2. Scanned(i, j) \/ (i = route /\ j = mirror)
      BY <2>0, <3>1 DEF Scanned
    <3> QED
      BY <2>2, <2>3, <3>2 DEF ListsFull
  <2> QED
    BY <1>0, <2>0, <2>1, <2>4 DEF Looping
<1>2. CASE NextRoute
  <2>0. /\ UNCHANGED <<routes, pc, adj>> /\ pc = "build" /\ route' = route + 1 /\ mirror' = 1
        /\ route \in DOMAIN routes /\ mirror > Len(routes[route].mirrors)
        /\ mirror \in Nat /\ route \in Nat
    BY <1>2, <1>r DEF NextRoute, TypeOK
  <2>m. routes[route].mirrors \in Seq(Name)
    BY <2>0, RouteType DEF TypeOK
  <2>1. ASSUME NEW i \in DOMAIN routes, NEW j \in DOMAIN routes[i].mirrors, Scanned(i, j)'
        PROVE  Scanned(i, j)
    <3>1. i \in Nat /\ j \in Nat \ {0}
      BY RouteType DEF TypeOK
    <3>2. i < route + 1
      BY <2>0, <2>1, <3>1 DEF Scanned
    <3>3. i = route => j < mirror
      BY <2>0, <2>m, <3>1
    <3> QED
      BY <2>0, <3>1, <3>2, <3>3 DEF Scanned
  <2> QED
    BY <1>0, <2>0, <2>1 DEF ListsReal, ListsFull, Looping, Mirrors
<1>3. CASE CallFindCycle
  <2>1. \A i \in DOMAIN routes : \A j : Scanned(i, j)
    BY <1>3, <1>r DEF CallFindCycle, Scanned, TypeOK
  <2> QED
    BY <1>0, <1>3, <2>1 DEF CallFindCycle, ListsReal, ListsFull, Looping, Mirrors
<1>4. CASE Search
  <2>1. UNCHANGED <<routes, route, mirror, adj>> /\ pc = "search" /\ pc' # "build"
    BY <1>4 DEF Search, Start, Descend, Skip, Close, Leave, NoCycle, built
  <2> QED
    BY <1>0, <2>1 DEF ListsReal, ListsFull, Looping, Scanned, Mirrors
<1>5. CASE UNCHANGED vars
  BY <1>s, <1>5 DEF vars
<1> QED
  BY <1>1, <1>2, <1>3, <1>4, <1>5 DEF Next, Build

-----------------------------------------------------------------------------
(* The search. Every list of a black upstream holds black ones only, so    *)
(* that the upstream blackened last of any group of them is mirrored to    *)
(* none of the group.                                                      *)

Seen(u) ==
  \A k \in DOMAIN adj[u] : k < next[u] =>
    \/ colour[adj[u][k]] = "black"
    \/ /\ k = next[u] - 1
       /\ \E i \in 1 .. Len(stack) - 1 : stack[i] = u /\ stack[i + 1] = adj[u][k]

AllSeen == \A u \in Upstreams : Seen(u)

BlackDone == \A u \in Upstreams : colour[u] = "black" => next[u] > Len(adj[u])

Edge(u, v) == v \in Range(adj[u])

Sink(S) == \E u \in S : \A v \in S : ~Edge(u, v)

BlackSinks ==
  \A S \in SUBSET Upstreams :
    S # {} /\ (\A u \in S : colour[u] = "black") => Sink(S)

NoSelf == \A u \in Upstreams : \A k \in DOMAIN adj[u] : adj[u][k] # u

Idle == pc = "build" => stack = <<>> /\ \A u \in Upstreams : colour[u] = "white"

WhiteFresh == \A u \in Upstreams : colour[u] = "white" => next[u] = 1

Verdict ==
  pc = "done" /\ cycle = <<>> =>
    stack = <<>> /\ \A u \in Upstreams : adj[u] # <<>> => colour[u] = "black"

NotYet == cycle # <<>> => pc = "done"

SearchInv ==
  /\ GrayIsStack /\ Apart /\ Path
  /\ AllSeen /\ BlackDone /\ BlackSinks
  /\ Idle /\ WhiteFresh /\ Verdict /\ NotYet /\ CycleIsReal

LEMMA SearchInit == Init => SearchInv
<1> SUFFICES ASSUME Init PROVE SearchInv
  OBVIOUS
<1> QED
  BY DEF Init, SearchInv, GrayIsStack, Apart, Path, AllSeen, Seen, BlackDone, BlackSinks,
         Idle, WhiteFresh, Verdict, NotYet, CycleIsReal, Range

(* While the lists are built the search has not begun.                     *)
LEMMA SearchBuild == TypeOK /\ SearchInv /\ Build /\ TypeOK' => SearchInv'
<1> SUFFICES ASSUME TypeOK, SearchInv, Build, TypeOK' PROVE SearchInv'
  OBVIOUS
<1>1. /\ pc = "build" /\ UNCHANGED search /\ pc' # "done"
  BY DEF Build, AddMirror, NextRoute, CallFindCycle
<1>2. /\ stack' = <<>> /\ cycle' = <<>>
      /\ \A u \in Upstreams : colour'[u] = "white" /\ next'[u] = 1
  BY <1>1 DEF SearchInv, Idle, NotYet, WhiteFresh, search
<1>3. ASSUME NEW u \in Upstreams, NEW k \in DOMAIN adj'[u] PROVE k \in Nat \ {0}
  <2>1. adj' \in [Upstreams -> Seq(Upstreams)]
    BY DEF TypeOK
  <2> QED
    BY <2>1
<1>4. AllSeen'
  BY <1>2, <1>3 DEF AllSeen, Seen
<1>5. BlackSinks'
  BY <1>2 DEF BlackSinks
<1>6. GrayIsStack'
  BY <1>2 DEF GrayIsStack, Range
<1>7. Apart' /\ Path' /\ Idle' /\ WhiteFresh'
  BY <1>2 DEF Apart, Path, Idle, WhiteFresh
<1> QED
  BY <1>1, <1>2, <1>4, <1>5, <1>6, <1>7 DEF SearchInv, BlackDone, Verdict, NotYet, CycleIsReal

(* A white upstream is entered.                                            *)
EnterWhite(u) ==
  /\ pc = "search" /\ cycle = <<>> /\ colour[u] = "white" /\ Enter(u)
  /\ \/ stack = <<>> /\ UNCHANGED next
     \/ More /\ u = Neighbour /\ next' = [next EXCEPT ![Top] = @ + 1]
  /\ UNCHANGED <<built, pc, cycle>>

LEMMA SearchEnter ==
  ASSUME TypeOK, SearchInv, NEW u \in Upstreams, EnterWhite(u)
  PROVE  SearchInv'
<1> DEFINE n == Len(stack)
<1>h. /\ GrayIsStack /\ Apart /\ Path /\ AllSeen /\ BlackDone /\ BlackSinks /\ WhiteFresh
      /\ colour[u] = "white"
  BY DEF SearchInv, EnterWhite
<1>c. ASSUME NEW w \in Upstreams PROVE colour'[w] = IF w = u THEN "gray" ELSE colour[w]
  BY DEF EnterWhite, Enter, TypeOK
<1>n. n \in Nat
  BY DEF TypeOK
<1>0. n \in Nat /\ DOMAIN stack = 1 .. n /\ \A i \in 1 .. n : stack[i] \in Upstreams
  BY DEF TypeOK
<1>d. /\ next \in [Upstreams -> Nat \ {0}]
      /\ \A w \in Upstreams : \A k \in DOMAIN adj[w] : k \in Nat /\ adj[w][k] \in Upstreams
      /\ \A w \in Upstreams : Len(adj[w]) \in Nat /\ DOMAIN adj[w] = 1 .. Len(adj[w])
  BY DEF TypeOK
<1>e. adj' = adj
  BY DEF EnterWhite, built
<1>1. /\ Len(stack') = n + 1 /\ stack'[n + 1] = u
      /\ \A i \in 1 .. n : stack'[i] = stack[i]
      /\ DOMAIN stack' = 1 .. n + 1
  BY DEF EnterWhite, Enter, TypeOK
<1>2. \A i \in 1 .. n : stack[i] # u
  BY <1>h, <1>0 DEF GrayIsStack, Range
<1>3. GrayIsStack'
  <2>1. Range(stack') = Range(stack) \cup {u}
    BY <1>0, <1>1 DEF Range
  <2> QED
    BY <1>h, <1>c, <2>1 DEF GrayIsStack
<1>4. Apart'
  BY <1>h, <1>0, <1>1, <1>2 DEF Apart
<1>a. n > 0 => More /\ u = Neighbour /\ next' = [next EXCEPT ![Top] = @ + 1]
  BY <1>0 DEF EnterWhite
<1>b. n = 0 => UNCHANGED next
  BY <1>0 DEF EnterWhite, More, TypeOK
<1>5. ASSUME NEW w \in Upstreams, n > 0 => w # stack[n] PROVE next'[w] = next[w]
  BY <1>0, <1>a, <1>b, <1>d, <1>5 DEF Top
<1>6. n > 0 => /\ stack[n] \in Upstreams /\ next[stack[n]] \in DOMAIN adj[stack[n]]
               /\ adj[stack[n]][next[stack[n]]] = u
               /\ next'[stack[n]] = next[stack[n]] + 1
  <2> SUFFICES ASSUME n > 0
               PROVE  /\ Top \in Upstreams /\ next[Top] \in DOMAIN adj[Top]
                      /\ adj[Top][next[Top]] = u /\ next'[Top] = next[Top] + 1
    BY DEF Top
  <2>1. Top \in Upstreams
    BY <1>0 DEF Top
  <2>2. next[Top] \in DOMAIN adj[Top] /\ adj[Top][next[Top]] = u
    BY <1>a, <1>d, <2>1 DEF More, Neighbour
  <2> QED
    BY <1>a, <1>d, <2>1, <2>2
<1>7. Path'
  <2> SUFFICES ASSUME NEW i \in 1 .. n
               PROVE  /\ next'[stack'[i]] > 1 /\ next'[stack'[i]] - 1 \in DOMAIN adj[stack'[i]]
                      /\ adj[stack'[i]][next'[stack'[i]] - 1] = stack'[i + 1]
    BY <1>0, <1>1, <1>e DEF Path
  <2>1. CASE i = n
    <3>1. n > 0 /\ next[stack[n]] \in Nat \ {0} /\ stack'[i] = stack[n] /\ stack'[i + 1] = u
      BY <1>0, <1>1, <1>d, <2>1
    <3> QED
      BY <1>6, <3>1
  <2>2. CASE i < n
    <3>1. stack[i] # stack[n] /\ stack[i] \in Upstreams
      BY <1>h, <1>0, <2>2 DEF Apart
    <3>2. i \in 1 .. n - 1 /\ i + 1 \in 1 .. n
      BY <1>0, <2>2
    <3>3. next'[stack[i]] = next[stack[i]]
      BY <1>5, <3>1
    <3>4. stack'[i] = stack[i] /\ stack'[i + 1] = stack[i + 1]
      BY <1>1, <3>2
    <3> QED
      BY <1>h, <3>2, <3>3, <3>4 DEF Path
  <2>3. i = n \/ i < n
    BY <1>n
  <2> QED
    BY <2>1, <2>2, <2>3
<1>8. AllSeen'
  <2>l. Len(stack') - 1 = n
    BY <1>0, <1>1
  <2> SUFFICES ASSUME NEW w \in Upstreams, NEW k \in DOMAIN adj'[w], k < next'[w],
                      colour'[adj'[w][k]] # "black"
               PROVE  /\ k = next'[w] - 1
                      /\ \E i \in 1 .. Len(stack') - 1 : stack'[i] = w /\ stack'[i + 1] = adj'[w][k]
    BY Zenon DEF AllSeen, Seen
  <2>e. k \in DOMAIN adj[w] /\ colour'[adj[w][k]] # "black"
    BY <1>e
  <2>0. k \in Nat /\ adj[w][k] \in Upstreams /\ next[w] \in Nat
    BY <1>d, <2>e
  <2>b. colour[adj[w][k]] # "black"
    BY <1>c, <1>h, <2>0, <2>e
  <2>1. CASE n > 0 /\ w = stack[n] /\ k = next[w]
    <3>1. k = next'[w] - 1 /\ n \in 1 .. n /\ adj[w][k] = u
      BY <1>0, <1>6, <2>0, <2>1
    <3> QED
      BY <1>1, <1>e, <2>l, <2>1, <3>1
  <2>2. CASE ~(n > 0 /\ w = stack[n] /\ k = next[w])
    <3>1. k < next[w]
      BY <1>0, <1>5, <1>6, <2>0, <2>2
    <3>2. /\ k = next[w] - 1
          /\ \E i \in 1 .. n - 1 : stack[i] = w /\ stack[i + 1] = adj[w][k]
      BY <1>h, <2>b, <2>e, <3>1 DEF AllSeen, Seen
    <3>3. PICK i \in 1 .. n - 1 : stack[i] = w /\ stack[i + 1] = adj[w][k]
      BY <3>2
    <3>4. w # stack[n] /\ i \in 1 .. n /\ i + 1 \in 1 .. n
      BY <1>h, <1>0, <3>3 DEF Apart
    <3>5. next'[w] = next[w]
      BY <1>5, <3>4
    <3> QED
      BY <1>1, <1>e, <2>l, <3>2, <3>3, <3>4, <3>5
  <2> QED
    BY <2>1, <2>2
<1>9. \A w \in Upstreams : colour'[w] = "black" <=> colour[w] = "black"
  BY <1>c, <1>h
<1>10. BlackDone'
  <2>1. n > 0 => colour[stack[n]] = "gray"
    BY <1>h, <1>0 DEF GrayIsStack, Range
  <2>2. ASSUME NEW w \in Upstreams, colour[w] = "black" PROVE next'[w] = next[w]
    BY <1>5, <2>1, <2>2
  <2> QED
    BY <1>h, <1>e, <1>9, <2>2 DEF BlackDone
<1>11. BlackSinks'
  BY <1>h, <1>e, <1>9 DEF BlackSinks, Sink, Edge
<1>12. WhiteFresh'
  <2>1. n > 0 => colour[stack[n]] = "gray"
    BY <1>h, <1>0 DEF GrayIsStack, Range
  <2>2. ASSUME NEW w \in Upstreams, colour'[w] = "white" PROVE next'[w] = next[w] /\ colour[w] = "white"
    BY <1>c, <1>5, <2>1, <2>2
  <2> QED
    BY <1>h, <2>2 DEF WhiteFresh
<1> QED
  BY <1>3, <1>4, <1>7, <1>8, <1>10, <1>11, <1>12
  DEF SearchInv, EnterWhite, Idle, Verdict, NotYet, CycleIsReal

(* A gray neighbour closes a cycle.                                        *)
LEMMA SearchClose ==
  ASSUME TypeOK, ListsReal, SearchInv, Close, TypeOK'
  PROVE  SearchInv'
<1> DEFINE n == Len(stack)
<1>h. GrayIsStack /\ Apart /\ Path
  BY DEF SearchInv
<1>n. n \in Nat
  BY DEF TypeOK
<1>0. n \in Nat /\ DOMAIN stack = 1 .. n /\ \A i \in 1 .. n : stack[i] \in Upstreams
  BY DEF TypeOK
<1>1. PICK m \in 1 .. n :
        stack[m] = Neighbour /\ cycle' = Append(SubSeq(stack, m, n), Neighbour)
  BY <1>0 DEF Close
<1>2. /\ UNCHANGED <<routes, route, mirror, adj, colour, next, stack>>
      /\ pc' = "done" /\ More
  BY DEF Close, built
<1>3. /\ Top \in Upstreams /\ next[Top] \in DOMAIN adj[Top]
      /\ adj[Top][next[Top]] = Neighbour /\ Neighbour \in Upstreams
  <2>1. Top \in Upstreams /\ Neighbour \in Upstreams
    BY <1>2, NeighbourType
  <2>2. next[Top] \in DOMAIN adj[Top]
    BY <1>2, <2>1 DEF More, TypeOK
  <2> QED
    BY <2>1, <2>2 DEF Neighbour
<1> DEFINE l == n - m + 1
<1>4. /\ l \in Nat \ {0} /\ Len(cycle') = l + 1
      /\ \A i \in 1 .. l : cycle'[i] = stack[m + i - 1]
      /\ cycle'[l + 1] = Neighbour
  <2>1. SubSeq(stack, m, n) \in Seq(Upstreams) /\ Len(SubSeq(stack, m, n)) = l
    BY <1>0 DEF TypeOK
  <2>2. \A i \in 1 .. l : SubSeq(stack, m, n)[i] = stack[m + i - 1]
    BY <1>0, <2>1 DEF TypeOK
  <2> QED
    BY <1>0, <1>1, <1>3, <2>1, <2>2
<1>5. \A u, v : Mirrors(u, v)' <=> Mirrors(u, v)
  BY <1>2 DEF Mirrors
<1>6. \A i \in 1 .. n - 1 : Mirrors(stack[i], stack[i + 1])
  BY <1>h, <1>0 DEF Path, ListsReal
<1>7. Mirrors(stack[n], Neighbour)
  BY <1>3 DEF ListsReal, Top
<1>8. n > m
  BY <1>0, <1>1, <1>7 DEF Mirrors
<1>9. CycleIsReal'
  <2>1. Len(cycle') >= 3 /\ cycle'[1] = cycle'[Len(cycle')]
    BY <1>0, <1>1, <1>4, <1>8
  <2>2. ASSUME NEW i \in 1 .. l, NEW j \in 1 .. l, cycle'[i] = cycle'[j] PROVE i = j
    <3>1. /\ m + i - 1 \in 1 .. n /\ m + j - 1 \in 1 .. n
          /\ stack[m + i - 1] = stack[m + j - 1]
      BY <1>0, <1>4, <2>2
    <3>2. m + i - 1 = m + j - 1
      BY <1>h, <1>0, <3>1 DEF Apart
    <3> QED
      BY <1>0, <3>2
  <2>3. ASSUME NEW i \in 1 .. l PROVE Mirrors(cycle'[i], cycle'[i + 1])
    <3>1. CASE i = l
      BY <1>0, <1>4, <1>7, <3>1
    <3>2. CASE i < l
      <4>1. /\ i \in 1 .. l /\ i + 1 \in 1 .. l
            /\ m + i - 1 \in 1 .. n - 1 /\ m + (i + 1) - 1 = (m + i - 1) + 1
        BY <1>0, <3>2
      <4>2. cycle'[i] = stack[m + i - 1] /\ cycle'[i + 1] = stack[(m + i - 1) + 1]
        BY <1>4, <4>1
      <4> QED
        BY <1>6, <4>1, <4>2
    <3> QED
      BY <1>0, <1>1, <1>4, <3>1, <3>2
  <2>4. Len(cycle') - 1 = l
    BY <1>4
  <2> QED
    BY <1>5, <2>1, <2>2, <2>3, <2>4 DEF CycleIsReal
<1>10. cycle' # <<>>
  BY <1>4, <1>8
<1> QED
  BY <1>2, <1>9, <1>10
  DEF SearchInv, GrayIsStack, Apart, Path, AllSeen, Seen, BlackDone, BlackSinks, Sink, Edge,
      Idle, WhiteFresh, Verdict, NotYet

(* dfs returns: the upstream it leaves has no neighbour but black ones.    *)
LEMMA SearchLeave ==
  ASSUME TypeOK, ListsReal, SearchInv, Leave
  PROVE  SearchInv'
<1> DEFINE n == Len(stack)
<1>h. GrayIsStack /\ Apart /\ Path /\ AllSeen /\ BlackDone /\ BlackSinks /\ WhiteFresh
  BY DEF SearchInv
<1>n. n \in Nat \ {0}
  BY DEF TypeOK, Leave
<1>0. n \in Nat \ {0} /\ DOMAIN stack = 1 .. n /\ \A i \in 1 .. n : stack[i] \in Upstreams
  BY DEF TypeOK, Leave
<1>1. /\ Len(stack') = n - 1 /\ DOMAIN stack' = 1 .. n - 1
      /\ \A i \in 1 .. n - 1 : stack'[i] = stack[i]
  BY <1>0 DEF Leave, TypeOK
<1>2. UNCHANGED <<routes, route, mirror, adj, next, pc, cycle>> /\ pc = "search"
  BY DEF Leave, built
<1>3. Top \in Upstreams /\ Top = stack[n] /\ colour[Top] = "gray"
  BY <1>h, <1>0 DEF Top, GrayIsStack, Range
<1>c. \A w \in Upstreams : colour'[w] = IF w = Top THEN "black" ELSE colour[w]
  BY <1>3 DEF Leave, TypeOK
<1>d. /\ \A w \in Upstreams : \A k \in DOMAIN adj[w] : k \in Nat /\ adj[w][k] \in Upstreams
      /\ \A w \in Upstreams : Len(adj[w]) \in Nat /\ DOMAIN adj[w] = 1 .. Len(adj[w])
      /\ \A w \in Upstreams : next[w] \in Nat
  BY DEF TypeOK
<1>4. next[Top] > Len(adj[Top])
  BY <1>0, <1>3, <1>d DEF Leave, More
<1>5. \A k \in DOMAIN adj[Top] : colour[adj[Top][k]] = "black"
  <2> SUFFICES ASSUME NEW k \in DOMAIN adj[Top] PROVE colour[adj[Top][k]] = "black"
    OBVIOUS
  <2>1. k < next[Top]
    BY <1>3, <1>4, <1>d
  <2>2. ASSUME NEW i \in 1 .. n - 1 PROVE stack[i] # Top
    BY <1>h, <1>0, <1>3 DEF Apart
  <2> QED
    BY <1>h, <1>3, <2>1, <2>2 DEF AllSeen, Seen
<1>6. GrayIsStack'
  <2>1. ASSUME NEW w \in Upstreams PROVE w \in Range(stack') <=> w \in Range(stack) /\ w # Top
    BY <1>h, <1>0, <1>1, <1>3 DEF Range, Apart
  <2> QED
    BY <1>h, <1>c, <2>1 DEF GrayIsStack
<1>7. Apart'
  BY <1>h, <1>0, <1>1 DEF Apart
<1>8. Path'
  BY <1>h, <1>0, <1>1, <1>2 DEF Path
<1>9. AllSeen'
  <2>l. Len(stack') - 1 = n - 2
    BY <1>0, <1>1
  <2> SUFFICES ASSUME NEW w \in Upstreams, NEW k \in DOMAIN adj'[w], k < next'[w],
                      colour'[adj'[w][k]] # "black"
               PROVE  /\ k = next'[w] - 1
                      /\ \E i \in 1 .. Len(stack') - 1 : stack'[i] = w /\ stack'[i + 1] = adj'[w][k]
    BY Zenon DEF AllSeen, Seen
  <2>e. k \in DOMAIN adj[w] /\ k < next[w] /\ colour'[adj[w][k]] # "black"
    BY <1>2
  <2>1. adj[w][k] \in Upstreams /\ adj[w][k] # Top /\ colour[adj[w][k]] # "black"
    BY <1>c, <1>d, <2>e
  <2>2. /\ k = next[w] - 1
        /\ \E i \in 1 .. n - 1 : stack[i] = w /\ stack[i + 1] = adj[w][k]
    BY <1>h, <2>e, <2>1 DEF AllSeen, Seen
  <2>3. PICK i \in 1 .. n - 1 : stack[i] = w /\ stack[i + 1] = adj[w][k]
    BY <2>2
  <2>4. i + 1 # n
    BY <1>3, <2>1, <2>3
  <2>5. i \in 1 .. n - 2 /\ i \in 1 .. n - 1 /\ i + 1 \in 1 .. n - 1
    BY <1>n, <2>3, <2>4
  <2> QED
    BY <1>1, <1>2, <2>l, <2>2, <2>3, <2>5
<1>10. BlackDone'
  BY <1>h, <1>2, <1>4, <1>c DEF BlackDone
<1>11. BlackSinks'
  <2> SUFFICES ASSUME NEW S \in SUBSET Upstreams, S # {}, \A u \in S : colour'[u] = "black"
               PROVE  Sink(S)
    BY <1>2 DEF BlackSinks, Sink, Edge
  <2> DEFINE B == S \ {Top}
  <2>1. \A u \in B : colour[u] = "black"
    BY <1>c
  <2>2. CASE B = {}
    <3>1. S = {Top}
      BY <2>2
    <3>2. ~Edge(Top, Top)
      BY <1>3, <1>5 DEF Edge, Range
    <3> QED
      BY <3>1, <3>2 DEF Sink
  <2>3. CASE B # {}
    <3>1. PICK u \in B : \A v \in B : ~Edge(u, v)
      BY <1>h, <2>1, <2>3 DEF BlackSinks, Sink
    <3>2. next[u] > Len(adj[u])
      BY <1>h, <2>1 DEF BlackDone
    <3>3. \A k \in DOMAIN adj[u] : k < next[u]
      BY <1>d, <3>2
    <3>4. \A k \in DOMAIN adj[u] : adj[u][k] # Top
      <4> SUFFICES ASSUME NEW k \in DOMAIN adj[u], adj[u][k] = Top PROVE FALSE
        OBVIOUS
      <4>1. \E i \in 1 .. n - 1 : stack[i] = u
        BY <1>h, <1>3, <3>3 DEF AllSeen, Seen
      <4> QED
        BY <1>h, <1>0, <2>1, <4>1 DEF GrayIsStack, Range
    <3> QED
      BY <3>1, <3>4 DEF Sink, Edge, Range
  <2> QED
    BY <2>2, <2>3
<1>12. WhiteFresh'
  BY <1>h, <1>2, <1>c DEF WhiteFresh
<1> QED
  BY <1>2, <1>6, <1>7, <1>8, <1>9, <1>10, <1>11, <1>12
  DEF SearchInv, Idle, Verdict, NotYet, CycleIsReal, Mirrors

(* Every position but the last is one of the others.                       *)
LEMMA Below == \A n \in Nat \ {0} : n \in 1 .. n /\ \A i \in 1 .. n - 1 : i \in 1 .. n /\ i # n
OBVIOUS

LEMMA SearchNext == ListsInv /\ SearchInv /\ [Next]_vars => SearchInv'
<1> SUFFICES ASSUME ListsInv, SearchInv, [Next]_vars PROVE SearchInv'
  OBVIOUS
<1>0. TypeOK /\ ListsReal /\ TypeOK'
  BY TypeNext DEF ListsInv
<1>1. CASE Build
  BY <1>0, <1>1, SearchBuild
<1>2. ASSUME NEW u \in Upstreams, Start(u) PROVE SearchInv'
  <2>1. EnterWhite(u)
    BY <1>2 DEF Start, EnterWhite, Unvisited, SearchInv, NotYet
  <2> QED
    BY <1>0, <2>1, SearchEnter
<1>3. CASE Descend
  <2>1. Neighbour \in Upstreams
    BY <1>0, <1>3, NeighbourType DEF Descend
  <2>2. EnterWhite(Neighbour)
    BY <1>3 DEF Descend, EnterWhite, SearchInv, NotYet
  <2> QED
    BY <1>0, <2>1, <2>2, SearchEnter
<1>4. CASE Skip
  <2>0. /\ Len(stack) \in DOMAIN stack /\ Top = stack[Len(stack)]
        /\ \A i \in 1 .. Len(stack) - 1 : i \in DOMAIN stack /\ i # Len(stack)
        /\ DOMAIN stack = 1 .. Len(stack) /\ Top \in Upstreams
        /\ \A i \in DOMAIN stack : stack[i] \in Upstreams
    <3>1. stack \in Seq(Upstreams) /\ stack # <<>>
      BY <1>0, <1>4 DEF Skip, More, TypeOK
    <3>2. /\ Len(stack) \in Nat \ {0} /\ DOMAIN stack = 1 .. Len(stack)
          /\ \A i \in DOMAIN stack : stack[i] \in Upstreams
      BY <3>1
    <3>3. Len(stack) \in DOMAIN stack
      BY <3>2, Below
    <3>4. \A i \in 1 .. Len(stack) - 1 : i \in DOMAIN stack /\ i # Len(stack)
      BY <3>2, Below
    <3> QED
      BY <3>2, <3>3, <3>4 DEF Top
  <2>a. \A i \in 1 .. Len(stack) - 1 : stack[i] # Top
    BY <2>0 DEF SearchInv, Apart
  <2>1. /\ Top \in Upstreams /\ next[Top] \in DOMAIN adj[Top] /\ next[Top] \in Nat
        /\ colour[adj[Top][next[Top]]] = "black" /\ Top \in Range(stack)
    <3>1. next[Top] \in Nat \ {0} /\ adj[Top] \in Seq(Upstreams) /\ Top \in Range(stack)
      BY <1>0, <2>0 DEF TypeOK, Range
    <3>2. next[Top] <= Len(adj[Top]) /\ colour[adj[Top][next[Top]]] = "black"
      BY <1>4 DEF Skip, More, Neighbour
    <3>3. Top \in Upstreams
      BY <2>0
    <3> QED
      BY <3>1, <3>2, <3>3
  <2>2. /\ UNCHANGED <<routes, route, mirror, adj, pc, colour, stack, cycle>> /\ pc = "search"
        /\ \A w \in Upstreams : next'[w] = IF w = Top THEN next[Top] + 1 ELSE next[w]
    BY <1>0, <1>4, <2>1 DEF Skip, built, TypeOK
  <2>3. colour[Top] = "gray"
    BY <2>1 DEF SearchInv, GrayIsStack
  <2>4. Path'
    <3>1. ASSUME NEW i \in 1 .. Len(stack) - 1 PROVE stack[i] # Top /\ stack[i] \in Upstreams
      BY <2>0, <2>a
    <3> QED
      BY <2>2, <3>1 DEF SearchInv, Path
  <2>5. AllSeen'
    <3> SUFFICES ASSUME NEW w \in Upstreams, NEW k \in DOMAIN adj[w], k < next'[w],
                        colour[adj[w][k]] # "black"
                 PROVE  /\ k = next'[w] - 1
                        /\ \E i \in 1 .. Len(stack) - 1 :
                             stack[i] = w /\ stack[i + 1] = adj[w][k]
      BY <2>2 DEF AllSeen, Seen
    <3>1. k \in Nat
      <4>1. adj[w] \in Seq(Upstreams)
        BY <1>0 DEF TypeOK
      <4> QED
        BY <4>1
    <3>2. k < next[w]
      BY <2>1, <2>2, <3>1
    <3>3. /\ k = next[w] - 1
          /\ \E i \in 1 .. Len(stack) - 1 : stack[i] = w /\ stack[i + 1] = adj[w][k]
      BY <3>2 DEF SearchInv, AllSeen, Seen
    <3> QED
      BY <2>2, <2>a, <3>3
  <2>6. BlackDone' /\ WhiteFresh'
    BY <2>2, <2>3 DEF SearchInv, BlackDone, WhiteFresh
  <2>7. GrayIsStack' /\ Apart' /\ BlackSinks'
    BY <2>2 DEF SearchInv, GrayIsStack, Apart, BlackSinks, Sink, Edge
  <2> QED
    BY <2>2, <2>4, <2>5, <2>6, <2>7
    DEF SearchInv, Idle, Verdict, NotYet, CycleIsReal, Mirrors
<1>5. CASE Close
  BY <1>0, <1>5, SearchClose
<1>6. CASE Leave
  BY <1>0, <1>6, SearchLeave
<1>7. CASE NoCycle
  <2>1. \A u \in Upstreams : adj[u] # <<>> => colour[u] = "black"
    BY <1>0, <1>7 DEF NoCycle, Unvisited, SearchInv, GrayIsStack, Range, TypeOK
  <2> QED
    BY <1>7, <2>1
    DEF NoCycle, built, search, SearchInv, GrayIsStack, Apart, Path, AllSeen, Seen, BlackDone,
        BlackSinks, Sink, Edge, Idle, WhiteFresh, Verdict, NotYet, CycleIsReal, Mirrors
<1>8. CASE UNCHANGED vars
  BY <1>8
  DEF vars, SearchInv, GrayIsStack, Apart, Path, AllSeen, Seen, BlackDone, BlackSinks, Sink,
      Edge, Idle, WhiteFresh, Verdict, NotYet, CycleIsReal, Mirrors
<1> QED
  BY <1>1, <1>2, <1>3, <1>4, <1>5, <1>6, <1>7, <1>8 DEF Next, Search

(* What the invariant says of a configuration that was accepted.           *)
LEMMA Accepted == ListsInv /\ SearchInv => AcceptedIsAcyclic
<1> SUFFICES ASSUME ListsInv, SearchInv, pc = "done", cycle = <<>>,
                    NEW S \in (SUBSET Upstreams) \ {{}}
             PROVE  \E u \in S : \A v \in S : ~Mirrors(u, v)
  BY DEF AcceptedIsAcyclic
<1>1. \A u \in Upstreams : adj[u] # <<>> => colour[u] = "black"
  BY DEF SearchInv, Verdict
<1>2. ASSUME NEW u \in Upstreams, NEW v \in Upstreams, Mirrors(u, v) PROVE Edge(u, v)
  <2>1. PICK i \in DOMAIN routes :
          u # v /\ v # None /\ routes[i].upstream = u /\ v \in Range(routes[i].mirrors)
    BY <1>2 DEF Mirrors
  <2>2. PICK j \in DOMAIN routes[i].mirrors : routes[i].mirrors[j] = v
    BY <2>1 DEF Range
  <2> QED
    BY <2>1, <2>2 DEF ListsInv, ListsFull, Scanned, Edge
<1>3. CASE \E u \in S : adj[u] = <<>>
  <2>1. PICK u \in S : adj[u] = <<>>
    BY <1>3
  <2>2. \A v \in S : ~Edge(u, v)
    BY <2>1 DEF Edge, Range
  <2> QED
    BY <1>2, <2>2
<1>4. CASE \A u \in S : adj[u] # <<>>
  <2>0. \A u \in S : colour[u] = "black"
    BY <1>1, <1>4
  <2>1. Sink(S)
    <3>1. BlackSinks
      BY DEF SearchInv
    <3>2. S \in SUBSET Upstreams
      OBVIOUS
    <3>3. S # {}
      OBVIOUS
    <3> QED
      BY <2>0, <3>1, <3>2, <3>3 DEF BlackSinks
  <2> QED
    BY <1>2, <2>1 DEF Sink
<1> QED
  BY <1>3, <1>4

LEMMA InvHolds == Spec => [](ListsInv /\ SearchInv)
  BY ListsInit, ListsNext, SearchInit, SearchNext, PTL DEF Spec

(* For every list of routes, what is reported is a cycle of mirrors.       *)
THEOREM CycleIsRealHolds == Spec => []CycleIsReal
<1>1. SearchInv => CycleIsReal
  BY DEF SearchInv
<1> QED
  BY <1>1, InvHolds, PTL

(* For every list of routes and in every order of the search, a            *)
(* configuration that is accepted has no cycle of mirrors.                 *)
THEOREM AcceptedIsAcyclicHolds == Spec => []AcceptedIsAcyclic
  BY Accepted, InvHolds, PTL

-----------------------------------------------------------------------------
(* Why the search ends.                                                    *)

LEMMA TopIsGray ==
  ASSUME TypeOK, SearchInv, stack # <<>>
  PROVE  /\ Top \in Upstreams /\ colour[Top] = "gray"
         /\ next[Top] \in Nat \ {0} /\ adj[Top] \in Seq(Upstreams)
<1>1. stack \in Seq(Upstreams) /\ Len(stack) \in DOMAIN stack
  BY DEF TypeOK
<1>2. Top \in Upstreams /\ Top \in Range(stack)
  BY <1>1 DEF Top, Range
<1>3. colour[Top] = "gray"
  BY <1>2 DEF SearchInv, GrayIsStack
<1> QED
  BY <1>2, <1>3 DEF TypeOK

(* Neither colours nor positions ever go back, so that the search takes at *)
(* most two steps for each upstream and one for each edge, whatever the    *)
(* lists are and in whatever order it starts.                              *)
THEOREM VisitedOnceHolds == Spec => VisitedOnce
<1> DEFINE Onward(u) ==
             /\ colour'[u] # colour[u] =>
                  <<colour[u], colour'[u]>> \in {<<"white", "gray">>, <<"gray", "black">>}
             /\ next'[u] # next[u] =>
                  /\ next'[u] = next[u] + 1 /\ next[u] \in DOMAIN adj[u]
                  /\ colour[u] = "gray"
           Advances == \E u \in Upstreams : colour'[u] # colour[u] \/ next'[u] # next[u]
           A == pc = "search" => (\A u \in Upstreams : Onward(u)) /\ (pc' = "done" \/ Advances)
<1>1. ASSUME ListsInv, SearchInv, [Next]_vars PROVE [A]_vars
  <2>0. TypeOK
    BY <1>1 DEF ListsInv
  <2>1. ASSUME NEW v \in Upstreams, colour[v] = "white",
               colour' = [colour EXCEPT ![v] = "gray"], next' = next
        PROVE  A
    BY <2>0, <2>1 DEF TypeOK
  <2>2. ASSUME NEW u \in Upstreams, Start(u) PROVE A
    BY <2>1, <2>2 DEF Start, Enter, Unvisited
  <2>3. More => stack # <<>> /\ next[Top] \in DOMAIN adj[Top] /\ Neighbour \in Upstreams
    BY <1>1, <2>0, TopIsGray DEF More, Neighbour
  <2>4. CASE Descend
    <3>1. Top \in Upstreams /\ colour[Top] = "gray" /\ next[Top] \in DOMAIN adj[Top]
      BY <1>1, <2>0, <2>3, <2>4, TopIsGray DEF Descend
    <3>2. Neighbour \in Upstreams /\ colour[Neighbour] = "white"
      BY <2>3, <2>4 DEF Descend
    <3>3. /\ colour' = [colour EXCEPT ![Neighbour] = "gray"]
          /\ next' = [next EXCEPT ![Top] = @ + 1]
      BY <2>4 DEF Descend, Enter
    <3>4. \A u \in Upstreams : Onward(u)
      BY <2>0, <3>1, <3>2, <3>3 DEF TypeOK
    <3>5. Advances
      BY <2>0, <3>2, <3>3 DEF TypeOK
    <3> QED
      BY <3>4, <3>5
  <2>5. CASE Skip
    <3>1. Top \in Upstreams /\ colour[Top] = "gray" /\ next[Top] \in DOMAIN adj[Top]
      BY <1>1, <2>0, <2>3, <2>5, TopIsGray DEF Skip
    <3>2. /\ next' = [next EXCEPT ![Top] = @ + 1] /\ colour' = colour
          /\ next[Top] + 1 # next[Top]
      BY <1>1, <2>0, <2>3, <2>5, TopIsGray DEF Skip
    <3>3. \A u \in Upstreams : Onward(u)
      BY <2>0, <3>1, <3>2 DEF TypeOK
    <3>4. Advances
      BY <2>0, <3>1, <3>2 DEF TypeOK
    <3> QED
      BY <3>3, <3>4
  <2>6. CASE Close \/ NoCycle
    BY <2>6 DEF Close, NoCycle, search
  <2>7. CASE Leave
    <3>1. Top \in Upstreams /\ colour[Top] = "gray"
      BY <1>1, <2>0, <2>7, TopIsGray DEF Leave
    <3>2. colour' = [colour EXCEPT ![Top] = "black"] /\ next' = next
      BY <2>7 DEF Leave
    <3> QED
      BY <2>0, <3>1, <3>2 DEF TypeOK
  <2>8. CASE Build
    BY <2>8 DEF Build, AddMirror, NextRoute, CallFindCycle
  <2> QED
    BY <1>1, <2>2, <2>4, <2>5, <2>6, <2>7, <2>8 DEF Next, Search
<1> QED
  BY <1>1, InvHolds, PTL DEF Spec, VisitedOnce

(* The guard of a step of the search is open.                              *)
CanSearch ==
  \/ stack = <<>>                                   (* Start or NoCycle    *)
  \/ stack # <<>> /\ ~More                          (* Leave               *)
  \/ More /\ colour[Neighbour] \in {"white", "black"}  (* Descend or Skip  *)
  \/ More /\ colour[Neighbour] = "gray"             (* Close               *)
          /\ \E i \in DOMAIN stack : stack[i] = Neighbour

(* Until its verdict the search has a next step: a gray neighbour is       *)
(* always found on the stack. With VisitedOnceHolds this is why it ends.   *)
THEOREM SearchNeverStuck == Spec => [](pc = "search" => CanSearch)
<1>1. ListsInv /\ SearchInv => (pc = "search" => CanSearch)
  <2> SUFFICES ASSUME ListsInv, SearchInv, stack # <<>>, More PROVE CanSearch
    BY DEF CanSearch
  <2>0. TypeOK
    BY DEF ListsInv
  <2>1. Neighbour \in Upstreams
    BY <2>0, TopIsGray DEF More, Neighbour
  <2>2. CASE colour[Neighbour] = "gray"
    BY <2>1, <2>2 DEF CanSearch, SearchInv, GrayIsStack, Range
  <2>3. CASE colour[Neighbour] # "gray"
    BY <2>0, <2>1, <2>3 DEF CanSearch, TypeOK
  <2> QED
    BY <2>2, <2>3
<1> QED
  BY <1>1, InvHolds, PTL
=============================================================================
