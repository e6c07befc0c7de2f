---------------------------- MODULE RoutingProofs ----------------------------
(***************************************************************************)
(* The compiled index decides as a scan of the list of routes would, for   *)
(* every valid configuration and request. First what newRouteIndex builds: *)
(* each map entry, each node of the trie and the list of regexes holds     *)
(* exactly the routes that belong there, in the order of the               *)
(* configuration. Then what the three matches find in it, and from that    *)
(* the invariants of the router.                                           *)
(***************************************************************************)
EXTENDS Routing, ConditionsProofs

LEMMA MinOfNaturals ==
  ASSUME NEW S \in SUBSET Nat, S # {}
  PROVE  Min(S) \in S /\ \A n \in S : Min(S) <= n
<1> DEFINE T == {n \in Nat : \A m \in 0 .. n : m \notin S}
<1>1. PICK m \in S : \A n \in S : m <= n
  <2> SUFFICES ASSUME \A m \in S : \E n \in S : n < m PROVE FALSE
    OBVIOUS
  <2>1. 0 \in T
    OBVIOUS
  <2>2. ASSUME NEW n \in Nat, n \in T PROVE n + 1 \in T
    <3>1. \A m \in 0 .. n + 1 : m \in 0 .. n \/ m = n + 1
      OBVIOUS
    <3>2. n + 1 \notin S
      BY <2>2
    <3> QED
      BY <2>2, <3>1, <3>2
  <2>3. \A n \in T : n \notin S
    OBVIOUS
  <2> HIDE DEF T
  <2>4. \A n \in Nat : n \in T
    BY <2>1, <2>2, Induction
  <2> QED
    BY <2>3, <2>4
<1> QED
  BY <1>1 DEF Min

LEMMA MinIsUnique ==
  ASSUME NEW S \in SUBSET Nat, NEW m \in S, \A n \in S : m <= n
  PROVE  Min(S) = m
<1>1. Min(S) \in S /\ \A n \in S : Min(S) <= n
  BY MinOfNaturals
<1>2. Min(S) <= m /\ m <= Min(S) /\ m \in Nat /\ Min(S) \in Nat
  BY <1>1
<1> QED
  BY <1>2

-----------------------------------------------------------------------------
(* The list holds the routes at those places, in order.                    *)
Lists(list, routes, places) ==
  /\ list \in Seq(Range(routes))
  /\ \E pos \in [1 .. Len(list) -> places] :
       /\ \A a \in 1 .. Len(list) : list[a] = routes[pos[a]]
       /\ \A a, b \in 1 .. Len(list) : a < b => pos[a] < pos[b]
       /\ \A i \in places : \E a \in 1 .. Len(list) : pos[a] = i

LEMMA NothingListed ==
  ASSUME NEW routes
  PROVE  Lists(<<>>, routes, {})
<1>1. <<>> \in Seq(Range(routes)) /\ Len(<<>>) = 0
  BY EmptySeq
<1>2. [a \in 1 .. 0 |-> 0] \in [1 .. 0 -> {}]
  OBVIOUS
<1> QED
  BY <1>1, <1>2 DEF Lists

(* A route that comes later goes to the end.                               *)
LEMMA OneMoreListed ==
  ASSUME NEW routes, NEW n \in Nat, NEW places \in SUBSET (1 .. n), NEW list,
         Lists(list, routes, places), n + 1 \in DOMAIN routes
  PROVE  Lists(list \o <<routes[n + 1]>>, routes, places \cup {n + 1})
<1> DEFINE new == list \o <<routes[n + 1]>>
           len == Len(list)
<1>1. PICK pos \in [1 .. len -> places] :
        /\ \A a \in 1 .. len : list[a] = routes[pos[a]]
        /\ \A a, b \in 1 .. len : a < b => pos[a] < pos[b]
        /\ \A i \in places : \E a \in 1 .. len : pos[a] = i
  BY DEF Lists
<1>2. list \in Seq(Range(routes)) /\ len \in Nat
  BY DEF Lists
<1>3. /\ new \in Seq(Range(routes)) /\ Len(new) = len + 1
      /\ \A a \in 1 .. len : new[a] = list[a]
      /\ new[len + 1] = routes[n + 1]
  <2>1. routes[n + 1] \in Range(routes)
    BY DEF Range
  <2>2. <<routes[n + 1]>> \in Seq(Range(routes)) /\ Len(<<routes[n + 1]>>) = 1
    BY <2>1
  <2> HIDE DEF len
  <2> QED
    BY <1>2, <2>2, ConcatProperties DEF len
<1> DEFINE more == [a \in 1 .. len + 1 |-> IF a = len + 1 THEN n + 1 ELSE pos[a]]
<1> HIDE DEF new, len
<1>4. more \in [1 .. len + 1 -> places \cup {n + 1}]
  BY <1>1, <1>2
<1>5. \A a \in 1 .. len + 1 : new[a] = routes[more[a]]
  <2> SUFFICES ASSUME NEW a \in 1 .. len + 1 PROVE new[a] = routes[more[a]]
    OBVIOUS
  <2>1. CASE a = len + 1
    BY <1>3, <2>1
  <2>2. CASE a \in 1 .. len
    BY <1>1, <1>2, <1>3, <2>2
  <2> QED
    BY <1>2, <2>1, <2>2
<1>6. \A a, b \in 1 .. len + 1 : a < b => more[a] < more[b]
  <2> SUFFICES ASSUME NEW a \in 1 .. len + 1, NEW b \in 1 .. len + 1, a < b
               PROVE  more[a] < more[b]
    OBVIOUS
  <2>1. a \in 1 .. len /\ a # len + 1
    BY <1>2
  <2>2. more[a] = pos[a] /\ pos[a] \in 1 .. n
    BY <1>1, <2>1
  <2>3. CASE b = len + 1
    BY <2>2, <2>3
  <2>4. CASE b # len + 1
    <3>1. b \in 1 .. len /\ more[b] = pos[b]
      BY <1>2, <2>4
    <3> QED
      BY <1>1, <2>1, <2>2, <3>1
  <2> QED
    BY <2>3, <2>4
<1>7. ASSUME NEW i \in places \cup {n + 1} PROVE \E a \in 1 .. len + 1 : more[a] = i
  <2>1. CASE i = n + 1
    BY <1>2, <2>1
  <2>2. CASE i \in places
    <3>1. PICK a \in 1 .. len : pos[a] = i
      BY <1>1, <2>2
    <3>2. a \in 1 .. len + 1 /\ more[a] = i
      BY <1>2, <3>1
    <3> QED
      BY <3>2
  <2> QED
    BY <2>1, <2>2
<1> HIDE DEF more
<1>8. Lists(new, routes, places \cup {n + 1})
  <2> DEFINE all == places \cup {n + 1}
  <2>1. Len(new) = len + 1 /\ new \in Seq(Range(routes))
    BY <1>3
  <2>2. /\ more \in [1 .. Len(new) -> all]
        /\ \A a \in 1 .. Len(new) : new[a] = routes[more[a]]
        /\ \A a, b \in 1 .. Len(new) : a < b => more[a] < more[b]
        /\ \A i \in all : \E a \in 1 .. Len(new) : more[a] = i
    BY <1>4, <1>5, <1>6, <1>7, <2>1
  <2> HIDE DEF all
  <2>3. \E at \in [1 .. Len(new) -> all] :
          /\ \A a \in 1 .. Len(new) : new[a] = routes[at[a]]
          /\ \A a, b \in 1 .. Len(new) : a < b => at[a] < at[b]
          /\ \A i \in all : \E a \in 1 .. Len(new) : at[a] = i
    BY <2>2, Zenon
  <2>4. Lists(new, routes, all)
    BY <2>1, <2>3 DEF Lists
  <2> QED
    BY <2>4 DEF all
<1> QED
  BY <1>8 DEF new

(* A choice T among the list is the choice J among the places.             *)
Agree(list, routes, places, T, J) ==
  \A a \in 1 .. Len(list), i \in places : list[a] = routes[i] => (a \in T <=> i \in J)

(* The first that is chosen is the same.                                   *)
FirstIs(list, routes, T, J) ==
  IF J = {} THEN T = {} ELSE Min(T) \in 1 .. Len(list) /\ list[Min(T)] = routes[Min(J)] /\ T # {}

(* The first route of the list that is accepted is that of the least place *)
(* whose route is.                                                         *)
LEMMA FirstListed ==
  ASSUME NEW routes, NEW places \in SUBSET Nat, NEW list, Lists(list, routes, places),
         NEW T \in SUBSET (1 .. Len(list)), NEW J \in SUBSET places,
         Agree(list, routes, places, T, J)
  PROVE  FirstIs(list, routes, T, J)
<1>1. PICK pos \in [1 .. Len(list) -> places] :
        /\ \A a \in 1 .. Len(list) : list[a] = routes[pos[a]]
        /\ \A a, b \in 1 .. Len(list) : a < b => pos[a] < pos[b]
        /\ \A i \in places : \E a \in 1 .. Len(list) : pos[a] = i
  BY DEF Lists
<1>2. \A a \in T : pos[a] \in J
  BY <1>1 DEF Agree
<1>3. \A i \in J : \E a \in T : pos[a] = i
  BY <1>1 DEF Agree
<1>4. CASE J # {}
  <2>1. T # {} /\ T \in SUBSET Nat
    <3>1. T \in SUBSET Nat
      OBVIOUS
    <3>2. PICK i \in J : TRUE
      BY <1>4
    <3>3. PICK a \in T : pos[a] = i
      BY <1>3, <3>2
    <3> QED
      BY <3>1, <3>3
  <2> DEFINE m == Min(T)
  <2>2. m \in T /\ \A a \in T : m <= a
    BY <2>1, MinOfNaturals
  <2> HIDE DEF m
  <2>3. pos[m] \in J
    BY <1>2, <2>2
  <2>4. ASSUME NEW i \in J PROVE pos[m] <= i
    <3>1. PICK a \in T : pos[a] = i
      BY <1>3
    <3>2. a = m \/ m < a
      BY <2>2, <3>1
    <3>3. pos[m] \in Nat /\ m \in 1 .. Len(list) /\ a \in 1 .. Len(list)
      BY <1>1, <2>2, <3>1
    <3>4. m < a => pos[m] < pos[a]
      BY <1>1, <3>3
    <3> QED
      BY <3>1, <3>2, <3>3, <3>4
  <2>5. Min(J) = pos[m]
    <3>1. J \in SUBSET Nat
      OBVIOUS
    <3> QED
      BY <2>3, <2>4, <3>1, MinIsUnique
  <2>6. m \in 1 .. Len(list) /\ list[m] = routes[pos[m]]
    BY <1>1, <2>2
  <2> QED
    BY <1>4, <2>1, <2>5, <2>6 DEF m, FirstIs
<1>5. CASE J = {}
  BY <1>2, <1>5 DEF FirstIs
<1> QED
  BY <1>4, <1>5

-----------------------------------------------------------------------------
(* What newRouteIndex has built after n routes.                            *)

IsConfig(cfg) ==
  /\ cfg.routes \in Seq(Range(cfg.routes))
  /\ \A i \in DOMAIN cfg.routes : IsRoute(cfg.routes[i])

Places(cfg, n, kind)       == {i \in 1 .. n : cfg.routes[i].kind = kind}
PlacesAt(cfg, n, kind, key) == {i \in Places(cfg, n, kind) : cfg.routes[i].pattern = key}

Holds(table, cfg, n, kind) ==
  \A key : Lists(Listed(table, key), cfg.routes, PlacesAt(cfg, n, kind, key))

Built(ix, cfg, n) ==
  /\ ix = [cfg |-> cfg, exact |-> ix.exact, prefix |-> ix.prefix, regex |-> ix.regex]
  /\ Holds(ix.exact, cfg, n, "exact") /\ Holds(ix.prefix, cfg, n, "prefix")
  /\ Lists(ix.regex, cfg.routes, Places(cfg, n, "regex"))
  /\ <<>> \in DOMAIN ix.prefix
  /\ \A i \in Places(cfg, n, "prefix") : Prefixes(cfg.routes[i].pattern) \subseteq DOMAIN ix.prefix

LEMMA PlacesStep ==
  ASSUME NEW cfg, NEW n \in Nat, NEW kind, NEW key
  PROVE  /\ Places(cfg, n, kind) \in SUBSET (1 .. n)
         /\ Places(cfg, n + 1, kind) = IF cfg.routes[n + 1].kind = kind
                                       THEN Places(cfg, n, kind) \cup {n + 1} ELSE Places(cfg, n, kind)
         /\ PlacesAt(cfg, n, kind, key) \in SUBSET (1 .. n)
         /\ PlacesAt(cfg, n + 1, kind, key) =
              IF cfg.routes[n + 1].kind = kind /\ cfg.routes[n + 1].pattern = key
              THEN PlacesAt(cfg, n, kind, key) \cup {n + 1} ELSE PlacesAt(cfg, n, kind, key)
<1>1. \A i : i \in 1 .. n + 1 <=> i \in 1 .. n \/ i = n + 1
  OBVIOUS
<1>2. n + 1 \notin 1 .. n
  OBVIOUS
<1>3. Places(cfg, n + 1, kind) = IF cfg.routes[n + 1].kind = kind
                                 THEN Places(cfg, n, kind) \cup {n + 1} ELSE Places(cfg, n, kind)
  BY <1>1, <1>2, Zenon DEF Places
<1>4. Places(cfg, n, kind) \in SUBSET (1 .. n)
  BY DEF Places
<1> QED
  BY <1>1, <1>2, <1>3, <1>4 DEF PlacesAt

LEMMA EnterHolds ==
  ASSUME NEW cfg, NEW n \in Nat, n + 1 \in DOMAIN cfg.routes, NEW kind, NEW table,
         Holds(table, cfg, n, kind), cfg.routes[n + 1].kind = kind,
         NEW keys, cfg.routes[n + 1].pattern \in keys
  PROVE  /\ DOMAIN Enter(table, keys, cfg.routes[n + 1]) = DOMAIN table \cup keys
         /\ Holds(Enter(table, keys, cfg.routes[n + 1]), cfg, n + 1, kind)
<1> DEFINE route == cfg.routes[n + 1]
           new   == Enter(table, keys, route)
<1>1. DOMAIN new = DOMAIN table \cup keys
  BY DEF Enter
<1>2. ASSUME NEW key
      PROVE  Lists(Listed(new, key), cfg.routes, PlacesAt(cfg, n + 1, kind, key))
  <2>1. /\ Lists(Listed(table, key), cfg.routes, PlacesAt(cfg, n, kind, key))
        /\ PlacesAt(cfg, n, kind, key) \in SUBSET (1 .. n)
    BY PlacesStep DEF Holds
  <2>2. CASE key = route.pattern
    <3>1. PlacesAt(cfg, n + 1, kind, key) = PlacesAt(cfg, n, kind, key) \cup {n + 1}
      BY <2>2, PlacesStep
    <3>2. Listed(new, key) = Listed(table, key) \o <<route>>
      BY <2>2, <1>1 DEF Enter, Listed
    <3> QED
      BY <2>1, <3>1, <3>2, OneMoreListed
  <2>3. CASE key # route.pattern
    <3>1. PlacesAt(cfg, n + 1, kind, key) = PlacesAt(cfg, n, kind, key)
      BY <2>3, PlacesStep
    <3>2. Listed(table, key) \o <<>> = Listed(table, key)
      BY <2>1, ConcatEmptySeq DEF Lists
    <3>3. CASE key \in DOMAIN table \cup keys
      <4>1. Listed(new, key) = Listed(table, key) \o <<>>
        BY <1>1, <2>3, <3>3 DEF Enter, Listed
      <4> QED
        BY <2>1, <3>1, <3>2, <4>1
    <3>4. CASE key \notin DOMAIN table \cup keys
      <4>1. Listed(new, key) = <<>> /\ Listed(table, key) = <<>>
        BY <1>1, <3>4 DEF Listed
      <4> QED
        BY <2>1, <3>1, <4>1
    <3> QED
      BY <3>3, <3>4
  <2> QED
    BY <2>2, <2>3
<1> QED
  BY <1>1, <1>2 DEF Holds

LEMMA OthersHold ==
  ASSUME NEW cfg, NEW n \in Nat, NEW kind, NEW table, Holds(table, cfg, n, kind),
         cfg.routes[n + 1].kind # kind
  PROVE  Holds(table, cfg, n + 1, kind)
<1> SUFFICES ASSUME NEW key
             PROVE  Lists(Listed(table, key), cfg.routes, PlacesAt(cfg, n + 1, kind, key))
  BY DEF Holds
<1>1. \A i : i \in 1 .. n + 1 <=> i \in 1 .. n \/ i = n + 1
  OBVIOUS
<1>2. PlacesAt(cfg, n + 1, kind, key) = PlacesAt(cfg, n, kind, key)
  BY <1>1 DEF PlacesAt, Places
<1> QED
  BY <1>2 DEF Holds

LEMMA AddRouteBuilds ==
  ASSUME NEW cfg, IsConfig(cfg), NEW n \in Nat, n + 1 \in DOMAIN cfg.routes, NEW ix,
         Built(ix, cfg, n)
  PROVE  Built(AddRoute(ix, cfg.routes[n + 1]), cfg, n + 1)
<1> DEFINE route == cfg.routes[n + 1]
           new   == AddRoute(ix, route)
<1>1. route.kind \in {"exact", "prefix", "regex"} /\ route.pattern \in Text
  BY DEF IsConfig, IsRoute, IsRule
<1>2. CASE route.kind = "exact"
  <2>1. new = [cfg |-> cfg, exact |-> Enter(ix.exact, {route.pattern}, route),
               prefix |-> ix.prefix, regex |-> ix.regex]
    BY <1>2 DEF AddRoute, Built
  <2>2. /\ Places(cfg, n + 1, "prefix") = Places(cfg, n, "prefix")
        /\ Places(cfg, n + 1, "regex") = Places(cfg, n, "regex")
    BY <1>2, PlacesStep
  <2>3. Holds(Enter(ix.exact, {route.pattern}, route), cfg, n + 1, "exact")
    BY <1>2, EnterHolds DEF Built
  <2>4. Holds(ix.prefix, cfg, n + 1, "prefix")
    BY <1>2, OthersHold DEF Built
  <2> QED
    BY <2>1, <2>2, <2>3, <2>4 DEF Built
<1>3. CASE route.kind = "prefix"
  <2> DEFINE trie == Enter(ix.prefix, Prefixes(route.pattern), route)
  <2>1. new = [cfg |-> cfg, exact |-> ix.exact, prefix |-> trie, regex |-> ix.regex]
    BY <1>3 DEF AddRoute, Built, insert
  <2>2. /\ Places(cfg, n + 1, "prefix") = Places(cfg, n, "prefix") \cup {n + 1}
        /\ Places(cfg, n + 1, "regex") = Places(cfg, n, "regex")
    BY <1>3, PlacesStep
  <2>3. route.pattern \in Prefixes(route.pattern)
    <3>1. route.pattern = SubSeq(route.pattern, 1, Len(route.pattern))
      BY <1>1, SubSeqFull DEF Text
    <3>2. Len(route.pattern) \in 0 .. Len(route.pattern)
      BY <1>1 DEF Text
    <3> QED
      BY <3>1, <3>2 DEF Prefixes
  <2>4. /\ DOMAIN trie = DOMAIN ix.prefix \cup Prefixes(route.pattern)
        /\ Holds(trie, cfg, n + 1, "prefix")
    BY <1>3, <2>3, EnterHolds DEF Built
  <2>5. Holds(ix.exact, cfg, n + 1, "exact")
    BY <1>3, OthersHold DEF Built
  <2> HIDE DEF trie
  <2> QED
    BY <2>1, <2>2, <2>4, <2>5 DEF Built
<1>4. CASE route.kind = "regex"
  <2>1. new = [cfg |-> cfg, exact |-> ix.exact, prefix |-> ix.prefix,
               regex |-> Append(ix.regex, route)]
    <3>1. new = [ix EXCEPT !.regex = Append(ix.regex, route)]
      BY <1>4 DEF AddRoute
    <3> DEFINE list == Append(ix.regex, route)
    <3> HIDE DEF new, list
    <3>2. new = [ix EXCEPT !.regex = list]
      BY <3>1 DEF list
    <3>3. new = [cfg |-> cfg, exact |-> ix.exact, prefix |-> ix.prefix, regex |-> list]
      BY <3>2 DEF Built
    <3> QED
      BY <3>3 DEF list
  <2>2. /\ Places(cfg, n + 1, "prefix") = Places(cfg, n, "prefix")
        /\ Places(cfg, n + 1, "regex") = Places(cfg, n, "regex") \cup {n + 1}
        /\ Places(cfg, n, "regex") \in SUBSET (1 .. n)
    BY <1>4, PlacesStep
  <2>3. Append(ix.regex, route) = ix.regex \o <<route>>
    <3>1. ix.regex \in Seq(Range(cfg.routes)) /\ route \in Range(cfg.routes)
      BY DEF Built, Lists, Range
    <3> HIDE DEF route
    <3> QED
      BY <3>1, AppendIsConcat
  <2>4. Lists(ix.regex \o <<route>>, cfg.routes, Places(cfg, n + 1, "regex"))
    BY <2>2, OneMoreListed DEF Built
  <2>5. Holds(ix.exact, cfg, n + 1, "exact") /\ Holds(ix.prefix, cfg, n + 1, "prefix")
    BY <1>4, OthersHold DEF Built
  <2> QED
    BY <2>1, <2>2, <2>3, <2>4, <2>5 DEF Built
<1> QED
  BY <1>1, <1>2, <1>3, <1>4

(* The index before the first route.                                       *)
Empty(cfg) == [cfg |-> cfg, exact |-> [path \in {} |-> <<>>], prefix |-> newTrie, regex |-> <<>>]

LEMMA EmptyIsBuilt ==
  ASSUME NEW cfg
  PROVE  Built(Empty(cfg), cfg, 0)
<1>1. \A kind, key : Places(cfg, 0, kind) = {} /\ PlacesAt(cfg, 0, kind, key) = {}
  BY DEF Places, PlacesAt
<1>2. \A key : Listed([path \in {} |-> <<>>], key) = <<>> /\ Listed(newTrie, key) = <<>>
  BY DEF Listed, newTrie
<1>3. Lists(<<>>, cfg.routes, {})
  BY NothingListed
<1>4. <<>> \in DOMAIN newTrie
  BY DEF newTrie
<1>5. Holds([path \in {} |-> <<>>], cfg, 0, "exact") /\ Holds(newTrie, cfg, 0, "prefix")
  BY <1>1, <1>2, <1>3 DEF Holds
<1> QED
  BY <1>1, <1>3, <1>4, <1>5 DEF Built, Empty

(* newRouteIndex puts every route where it belongs.                        *)
THEOREM IndexIsBuilt ==
  ASSUME NEW cfg, IsConfig(cfg)
  PROVE  Built(newRouteIndex(cfg), cfg, Len(cfg.routes))
<1> DEFINE N == Len(cfg.routes)
           good(f, n) == \A i \in 0 .. n : f[i] = IF i = 0 THEN Empty(cfg)
                                                  ELSE AddRoute(f[i - 1], cfg.routes[i])
           S == {n \in Nat : n <= N => \E f : good(f, n)}
<1>1. N \in Nat /\ DOMAIN cfg.routes = 1 .. N
  BY LenProperties DEF IsConfig
<1> HIDE DEF N
<1>2. 0 \in S
  <2>1. good([i \in 0 .. 0 |-> Empty(cfg)], 0)
    OBVIOUS
  <2> HIDE DEF good
  <2> QED
    BY <2>1
<1>3. ASSUME NEW n \in Nat, n \in S PROVE n + 1 \in S
  <2> SUFFICES ASSUME n + 1 <= N PROVE \E g : good(g, n + 1)
    OBVIOUS
  <2>1. PICK f : good(f, n)
    <3> HIDE DEF good
    <3> QED
      BY <1>1, <1>3
  <2> DEFINE last == AddRoute(f[n], cfg.routes[n + 1])
             g == [i \in 0 .. n + 1 |-> IF i = n + 1 THEN last ELSE f[i]]
  <2> HIDE DEF last
  <2>2. g[n + 1] = last /\ \A i \in 0 .. n : g[i] = f[i]
    OBVIOUS
  <2> HIDE DEF g
  <2>3. ASSUME NEW i \in 0 .. n + 1
        PROVE  g[i] = IF i = 0 THEN Empty(cfg) ELSE AddRoute(g[i - 1], cfg.routes[i])
    <3>1. CASE i = n + 1
      <4>1. i - 1 = n /\ i # 0 /\ g[n] = f[n]
        BY <2>2, <3>1
      <4> QED
        BY <2>2, <3>1, <4>1 DEF last
    <3>2. CASE i \in 0 .. n
      <4>1. g[i] = f[i] /\ (i # 0 => g[i - 1] = f[i - 1])
        BY <2>2, <3>2
      <4>2. f[i] = IF i = 0 THEN Empty(cfg) ELSE AddRoute(f[i - 1], cfg.routes[i])
        BY <2>1, <3>2
      <4> QED
        BY <4>1, <4>2
    <3> QED
      BY <3>1, <3>2
  <2>4. good(g, n + 1)
    BY <2>3
  <2> HIDE DEF good
  <2> QED
    BY <2>4
<1>4. PICK f : good(f, N)
  <2> HIDE DEF S
  <2>1. N \in S
    BY <1>1, <1>2, <1>3, Induction
  <2> HIDE DEF good
  <2> QED
    BY <1>1, <2>1 DEF S
<1> DEFINE eq(h) == h = [n \in 0 .. N |-> IF n = 0 THEN Empty(cfg) ELSE AddRoute(h[n - 1], cfg.routes[n])]
           h == CHOOSE h : eq(h)
           w == [n \in 0 .. N |-> f[n]]
<1>5. eq(w)
  <2>1. \A n \in 0 .. N : w[n] = f[n] /\ (n # 0 => w[n - 1] = f[n - 1])
    BY <1>1
  <2>2. \A n \in 0 .. N : w[n] = IF n = 0 THEN Empty(cfg) ELSE AddRoute(w[n - 1], cfg.routes[n])
    BY <1>4, <2>1
  <2> HIDE DEF w
  <2>3. w = [n \in 0 .. N |-> w[n]]
    BY DEF w
  <2> QED
    BY <2>2, <2>3
<1>6. eq(h)
  <2> HIDE DEF eq, w
  <2> QED
    BY <1>5
<1>7. newRouteIndex(cfg) = h[N]
  BY DEF newRouteIndex, Empty, N
<1> HIDE DEF h, w
<1>8. \A n \in 0 .. N : h[n] = IF n = 0 THEN Empty(cfg) ELSE AddRoute(h[n - 1], cfg.routes[n])
  BY <1>6
<1> HIDE DEF eq
<1> DEFINE T == {n \in Nat : n <= N => Built(h[n], cfg, n)}
<1>9. 0 \in T
  BY <1>1, <1>8, EmptyIsBuilt
<1>10. ASSUME NEW n \in Nat, n \in T PROVE n + 1 \in T
  <2> SUFFICES ASSUME n + 1 <= N PROVE Built(h[n + 1], cfg, n + 1)
    OBVIOUS
  <2>1. Built(h[n], cfg, n) /\ n + 1 \in DOMAIN cfg.routes
    BY <1>1, <1>10
  <2>2. h[n + 1] = AddRoute(h[n], cfg.routes[n + 1])
    <3>1. n + 1 \in 0 .. N /\ n + 1 # 0 /\ n + 1 - 1 = n
      BY <1>1
    <3> QED
      BY <1>8, <3>1
  <2> QED
    BY <2>1, <2>2, AddRouteBuilds
<1> HIDE DEF T
<1>11. N \in T
  BY <1>1, <1>9, <1>10, Induction
<1> QED
  BY <1>1, <1>7, <1>11 DEF T, N

-----------------------------------------------------------------------------
(* What the three matches find.                                            *)

Candidate(cfg, places, depth) ==
  IF places = {} THEN <<>> ELSE <<[route |-> cfg.routes[Min(places)], depth |-> depth]>>

Accepted(cfg, places, in) == {i \in places : matchConditions(cfg.routes[i], in)}

FirstMet(list, depth, in) == First(list, depth, LAMBDA route : matchConditions(route, in))

FirstMetCaptured(list, depth, in) ==
  First(list, depth, LAMBDA route : matchConditions(route, in) /\ in.path \in DOMAIN route.matched)

LEMMA FirstAccepted ==
  ASSUME NEW cfg, NEW places \in SUBSET Nat, NEW list, Lists(list, cfg.routes, places),
         NEW in, NEW depth
  PROVE  FirstMet(list, depth, in) = Candidate(cfg, Accepted(cfg, places, in), depth)
<1> DEFINE accepted == {route \in Range(cfg.routes) : matchConditions(route, in)}
           T == {a \in 1 .. Len(list) : list[a] \in accepted}
           J == {i \in places : cfg.routes[i] \in accepted}
<1>1. /\ list \in Seq(Range(cfg.routes)) /\ Len(list) \in Nat
      /\ \A a \in 1 .. Len(list) : list[a] \in Range(cfg.routes)
      /\ \A i \in places : cfg.routes[i] \in Range(cfg.routes)
  BY DEF Lists
<1>2. T = {a \in 1 .. Len(list) : matchConditions(list[a], in)}
  BY <1>1
<1>3. J = Accepted(cfg, places, in)
  BY <1>1 DEF Accepted
<1>4. /\ T \in SUBSET (1 .. Len(list)) /\ J \in SUBSET places
      /\ Agree(list, cfg.routes, places, T, J)
  BY DEF Agree
<1> HIDE DEF accepted, T, J
<1>5. FirstIs(list, cfg.routes, T, J)
  BY <1>4, FirstListed
<1>6. SelectInSeq(list, LAMBDA route : matchConditions(route, in)) = IF T # {} THEN Min(T) ELSE 0
  BY <1>2 DEF SelectInSeq
<1>7. CASE J = {}
  BY <1>3, <1>5, <1>6, <1>7 DEF FirstIs, First, FirstMet, Candidate
<1>8. CASE J # {}
  BY <1>3, <1>5, <1>6, <1>8 DEF FirstIs, First, FirstMet, Candidate
<1> QED
  BY <1>7, <1>8

LEMMA FirstCaptured ==
  ASSUME NEW cfg, NEW places \in SUBSET Nat, NEW list, Lists(list, cfg.routes, places),
         NEW in, NEW depth
  PROVE  FirstMetCaptured(list, depth, in) =
           Candidate(cfg, {i \in Accepted(cfg, places, in) : in.path \in DOMAIN cfg.routes[i].matched}, depth)
<1> DEFINE accepted == {route \in Range(cfg.routes) :
                          matchConditions(route, in) /\ in.path \in DOMAIN route.matched}
           T == {a \in 1 .. Len(list) : list[a] \in accepted}
           J == {i \in places : cfg.routes[i] \in accepted}
<1>1. /\ list \in Seq(Range(cfg.routes)) /\ Len(list) \in Nat
      /\ \A a \in 1 .. Len(list) : list[a] \in Range(cfg.routes)
      /\ \A i \in places : cfg.routes[i] \in Range(cfg.routes)
  BY DEF Lists
<1>2. T = {a \in 1 .. Len(list) : matchConditions(list[a], in) /\ in.path \in DOMAIN list[a].matched}
  BY <1>1
<1>3. J = {i \in Accepted(cfg, places, in) : in.path \in DOMAIN cfg.routes[i].matched}
  BY <1>1 DEF Accepted
<1>4. /\ T \in SUBSET (1 .. Len(list)) /\ J \in SUBSET places
      /\ Agree(list, cfg.routes, places, T, J)
  BY DEF Agree
<1> HIDE DEF accepted, T, J
<1>5. FirstIs(list, cfg.routes, T, J)
  BY <1>4, FirstListed
<1>6. SelectInSeq(list, LAMBDA route : matchConditions(route, in) /\ in.path \in DOMAIN route.matched)
        = IF T # {} THEN Min(T) ELSE 0
  BY <1>2 DEF SelectInSeq
<1>7. CASE J = {}
  BY <1>3, <1>5, <1>6, <1>7 DEF FirstIs, First, FirstMetCaptured, Candidate
<1>8. CASE J # {}
  BY <1>3, <1>5, <1>6, <1>8 DEF FirstIs, First, FirstMetCaptured, Candidate
<1> QED
  BY <1>7, <1>8

(* One node on the way: matchPrefix at this depth of the path.             *)
Below(ix, in, M, depth) ==
  IF depth < Len(in.path) /\ SubSeq(in.path, 1, depth + 1) \in DOMAIN ix.prefix
  THEN M[depth + 1] ELSE <<>>

MatchStep(ix, in, M, depth) ==
  IF Below(ix, in, M, depth) # <<>> THEN Below(ix, in, M, depth)
  ELSE FirstMet(ix.prefix[SubSeq(in.path, 1, depth)], depth, in)

LEMMA MatchPrefixSteps ==
  ASSUME NEW ix, NEW in, in.path \in Text
  PROVE  \E M : /\ \A depth \in 0 .. Len(in.path) : M[depth] = MatchStep(ix, in, M, depth)
                /\ matchPrefix(ix, in) = M[0]
<1> DEFINE N == Len(in.path)
           good(f, n) == \A d \in n .. N : f[d] = MatchStep(ix, in, f, d)
           S == {n \in Nat : n <= N => \E f : good(f, N - n)}
<1>1. N \in Nat
  BY DEF Text
<1>2. ASSUME NEW f, NEW g, NEW d \in 0 .. N, d < N => f[d + 1] = g[d + 1]
      PROVE  MatchStep(ix, in, f, d) = MatchStep(ix, in, g, d)
  BY <1>2 DEF MatchStep, Below
<1> HIDE DEF N
<1>3. 0 \in S
  <2> DEFINE f == [d \in N .. N |-> MatchStep(ix, in, <<>>, d)]
  <2>1. ASSUME NEW d \in N .. N PROVE f[d] = MatchStep(ix, in, f, d)
    <3>1. d \in 0 .. N /\ ~(d < N)
      BY <1>1
    <3>2. f[d] = MatchStep(ix, in, <<>>, d)
      OBVIOUS
    <3> HIDE DEF f
    <3> QED
      BY <1>2, <3>1, <3>2
  <2>2. N - 0 = N
    BY <1>1
  <2>3. good(f, N)
    BY <2>1
  <2> HIDE DEF good, f
  <2> QED
    BY <2>2, <2>3
<1>4. ASSUME NEW n \in Nat, n \in S PROVE n + 1 \in S
  <2> SUFFICES ASSUME n + 1 <= N PROVE \E g : good(g, N - (n + 1))
    OBVIOUS
  <2> DEFINE m == N - (n + 1)
  <2>1. PICK f : good(f, m + 1)
    <3>1. N - n = m + 1 /\ n <= N
      BY <1>1
    <3> HIDE DEF good
    <3> QED
      BY <1>4, <3>1
  <2>2. m \in 0 .. N /\ m + 1 \in 1 .. N
    BY <1>1
  <2> HIDE DEF m
  <2> DEFINE first == MatchStep(ix, in, f, m)
             g == [d \in m .. N |-> IF d = m THEN first ELSE f[d]]
  <2> HIDE DEF first
  <2>3. g[m] = first /\ \A d \in m + 1 .. N : g[d] = f[d]
    BY <1>1, <2>2
  <2> HIDE DEF g
  <2>4. ASSUME NEW d \in m .. N PROVE g[d] = MatchStep(ix, in, g, d)
    <3>1. d \in 0 .. N /\ (d < N => d + 1 \in m + 1 .. N)
      BY <1>1, <2>2
    <3>2. MatchStep(ix, in, g, d) = MatchStep(ix, in, f, d)
      BY <1>2, <2>3, <3>1
    <3>3. CASE d = m
      BY <2>3, <3>2, <3>3 DEF first
    <3>4. CASE d \in m + 1 .. N
      BY <2>1, <2>3, <3>2, <3>4
    <3> QED
      BY <1>1, <2>2, <3>3, <3>4
  <2>5. good(g, m)
    BY <2>4
  <2> HIDE DEF good
  <2> QED
    BY <2>5 DEF m
<1>5. PICK f : good(f, 0)
  <2> HIDE DEF S
  <2>1. N \in S /\ N - N = 0
    BY <1>1, <1>3, <1>4, Induction
  <2> HIDE DEF good
  <2> QED
    BY <1>1, <2>1 DEF S
<1> DEFINE eq(M) == M = [depth \in 0 .. N |->
                           LET node  == SubSeq(in.path, 1, depth)
                               below == IF depth < Len(in.path) /\ SubSeq(in.path, 1, depth + 1) \in DOMAIN ix.prefix
                                        THEN M[depth + 1] ELSE <<>>
                           IN  IF below # <<>> THEN below
                               ELSE First(ix.prefix[node], depth, LAMBDA route : matchConditions(route, in))]
           M == CHOOSE M : eq(M)
           w == [d \in 0 .. N |-> f[d]]
<1>6. \A K : eq(K) <=> K = [depth \in 0 .. N |-> MatchStep(ix, in, K, depth)]
  BY DEF MatchStep, Below, FirstMet, First
<1>7. matchPrefix(ix, in) = M[0]
  BY DEF matchPrefix, N
<1> HIDE DEF eq, M
<1>8. eq(w)
  <2>1. ASSUME NEW d \in 0 .. N PROVE w[d] = MatchStep(ix, in, w, d)
    <3>1. w[d] = f[d] /\ (d < N => w[d + 1] = f[d + 1])
      BY <1>1
    <3> HIDE DEF w
    <3>2. MatchStep(ix, in, w, d) = MatchStep(ix, in, f, d)
      BY <1>2, <3>1
    <3> QED
      BY <1>5, <3>1, <3>2
  <2>2. w = [d \in 0 .. N |-> w[d]]
    OBVIOUS
  <2> HIDE DEF w
  <2> QED
    BY <1>6, <2>1, <2>2
<1>9. eq(M)
  <2> HIDE DEF w
  <2> QED
    BY <1>8 DEF M
<1>10. \A d \in 0 .. N : M[d] = MatchStep(ix, in, M, d)
  BY <1>6, <1>9
<1> QED
  BY <1>7, <1>10 DEF N

-----------------------------------------------------------------------------
(* The same in terms of the documentation's Matching.                      *)

Usable(cfg) ==
  /\ IsConfig(cfg)
  /\ \A i \in DOMAIN cfg.routes : validateRule(cfg.routes[i])

LEMMA MatchingIsAccepted ==
  ASSUME NEW cfg, Usable(cfg), NEW in, IsRequest(in)
  PROVE  LET N == Len(cfg.routes)
         IN  /\ Matching(cfg, in, "exact") = Accepted(cfg, PlacesAt(cfg, N, "exact", in.path), in)
             /\ Matching(cfg, in, "regex") =
                  {i \in Accepted(cfg, Places(cfg, N, "regex"), in) : in.path \in DOMAIN cfg.routes[i].matched}
             /\ Matching(cfg, in, "prefix") =
                  {i \in Accepted(cfg, Places(cfg, N, "prefix"), in) : IsPrefix(cfg.routes[i].pattern, in.path)}
<1> DEFINE N == Len(cfg.routes)
<1>1. DOMAIN cfg.routes = 1 .. N
  BY LenProperties DEF Usable, IsConfig
<1>2. ASSUME NEW i \in 1 .. N
      PROVE  matchConditions(cfg.routes[i], in) <=> Met(cfg.routes[i], in)
  BY <1>1, ConditionsAreMet DEF Usable, IsConfig, IsRoute
<1> HIDE DEF N
<1>3. ASSUME NEW i \in 1 .. N
      PROVE  /\ cfg.routes[i].kind = "exact" =>
                  (Matches(cfg.routes[i], in) <=>
                     matchConditions(cfg.routes[i], in) /\ cfg.routes[i].pattern = in.path)
             /\ cfg.routes[i].kind = "regex" =>
                  (Matches(cfg.routes[i], in) <=>
                     matchConditions(cfg.routes[i], in) /\ in.path \in DOMAIN cfg.routes[i].matched)
             /\ cfg.routes[i].kind = "prefix" =>
                  (Matches(cfg.routes[i], in) <=>
                     matchConditions(cfg.routes[i], in) /\ IsPrefix(cfg.routes[i].pattern, in.path))
  <2>1. matchConditions(cfg.routes[i], in) <=> Met(cfg.routes[i], in)
    BY <1>2
  <2> QED
    BY <2>1 DEF Matches
<1>4. Matching(cfg, in, "exact") = Accepted(cfg, PlacesAt(cfg, N, "exact", in.path), in)
  BY <1>1, <1>3 DEF Matching, Accepted, PlacesAt, Places
<1>5. Matching(cfg, in, "regex") =
        {i \in Accepted(cfg, Places(cfg, N, "regex"), in) : in.path \in DOMAIN cfg.routes[i].matched}
  BY <1>1, <1>3 DEF Matching, Accepted, Places
<1>6. Matching(cfg, in, "prefix") =
        {i \in Accepted(cfg, Places(cfg, N, "prefix"), in) : IsPrefix(cfg.routes[i].pattern, in.path)}
  BY <1>1, <1>3 DEF Matching, Accepted, Places
<1> QED
  BY <1>4, <1>5, <1>6 DEF N

LEMMA ExactFound ==
  ASSUME NEW cfg, Usable(cfg), NEW in, IsRequest(in)
  PROVE  matchExact(newRouteIndex(cfg), in) = Candidate(cfg, Matching(cfg, in, "exact"), Len(in.path))
<1> DEFINE places == PlacesAt(cfg, Len(cfg.routes), "exact", in.path)
           list   == Listed(newRouteIndex(cfg).exact, in.path)
<1>1. Lists(list, cfg.routes, places)
  BY IndexIsBuilt DEF Usable, Built, Holds
<1>2. places \in SUBSET Nat
  BY DEF PlacesAt, Places
<1>3. Matching(cfg, in, "exact") = Accepted(cfg, places, in)
  BY MatchingIsAccepted
<1>4. matchExact(newRouteIndex(cfg), in) = FirstMet(list, Len(in.path), in)
  BY DEF matchExact, FirstMet, First
<1> HIDE DEF places, list
<1> QED
  BY <1>1, <1>2, <1>3, FirstAccepted, <1>4

LEMMA RegexFound ==
  ASSUME NEW cfg, Usable(cfg), NEW in, IsRequest(in)
  PROVE  matchRegex(newRouteIndex(cfg), in) = Candidate(cfg, Matching(cfg, in, "regex"), Len(in.path))
<1> DEFINE places == Places(cfg, Len(cfg.routes), "regex")
           list   == newRouteIndex(cfg).regex
<1>1. Lists(list, cfg.routes, places)
  BY IndexIsBuilt DEF Usable, Built
<1>2. places \in SUBSET Nat
  BY DEF Places
<1>3. Matching(cfg, in, "regex") = {i \in Accepted(cfg, places, in) : in.path \in DOMAIN cfg.routes[i].matched}
  BY MatchingIsAccepted
<1>4. matchRegex(newRouteIndex(cfg), in) = FirstMetCaptured(list, Len(in.path), in)
  BY DEF matchRegex, FirstMetCaptured, First
<1> HIDE DEF places, list
<1> QED
  BY <1>1, <1>2, <1>3, FirstCaptured, <1>4

(* The places among these with the longest pattern, and the winner.        *)
Best(cfg, places) ==
  {i \in places : \A j \in places : Len(cfg.routes[j].pattern) <= Len(cfg.routes[i].pattern)}

Winner(cfg, places) ==
  Candidate(cfg, Best(cfg, places), Len(cfg.routes[Min(Best(cfg, places))].pattern))

(* Shorter patterns do not matter where there is a longer one.             *)
LEMMA BestIsDeeper ==
  ASSUME NEW cfg, NEW places, NEW deeper \in SUBSET places, deeper # {},
         \A i \in places : Len(cfg.routes[i].pattern) \in Nat,
         \A i \in places \ deeper, j \in deeper : Len(cfg.routes[i].pattern) < Len(cfg.routes[j].pattern)
  PROVE  Best(cfg, places) = Best(cfg, deeper)
<1>1. ASSUME NEW i \in Best(cfg, places) PROVE i \in Best(cfg, deeper)
  <2>1. i \in deeper
    <3>1. PICK j \in deeper : TRUE
      OBVIOUS
    <3>2. Len(cfg.routes[j].pattern) <= Len(cfg.routes[i].pattern) /\ i \in places /\ j \in places
      BY <3>1 DEF Best
    <3> QED
      BY <3>2
  <2> QED
    BY <2>1 DEF Best
<1>2. ASSUME NEW i \in Best(cfg, deeper) PROVE i \in Best(cfg, places)
  <2>1. i \in deeper /\ i \in places
    BY DEF Best
  <2>2. ASSUME NEW j \in places PROVE Len(cfg.routes[j].pattern) <= Len(cfg.routes[i].pattern)
    <3>1. CASE j \in deeper
      BY <3>1 DEF Best
    <3>2. CASE j \notin deeper
      BY <2>1, <3>2
    <3> QED
      BY <3>1, <3>2
  <2> QED
    BY <2>1, <2>2 DEF Best
<1> QED
  BY <1>1, <1>2

(* The prefix routes that match and are no shorter than this.              *)
From(cfg, in, depth) ==
  {i \in Matching(cfg, in, "prefix") : Len(cfg.routes[i].pattern) >= depth}

Node(in, depth) == SubSeq(in.path, 1, depth)

LEMMA PrefixRoutes ==
  ASSUME NEW cfg, Usable(cfg), NEW in, IsRequest(in), NEW i \in Matching(cfg, in, "prefix")
  PROVE  LET p == cfg.routes[i].pattern
         IN  /\ p \in Text /\ Len(p) \in 0 .. Len(in.path) /\ p = Node(in, Len(p))
             /\ \A d \in 0 .. Len(p) : Node(in, d) \in DOMAIN newRouteIndex(cfg).prefix
<1> DEFINE p == cfg.routes[i].pattern
<1>1. p \in Text /\ in.path \in Text /\ IsPrefix(p, in.path) /\ i \in Places(cfg, Len(cfg.routes), "prefix")
  <2>1. i \in DOMAIN cfg.routes /\ cfg.routes[i].kind = "prefix"
    BY DEF Matching
  <2>2. p \in Text /\ in.path \in Text
    BY <2>1 DEF Usable, IsConfig, IsRoute, IsRule, IsRequest
  <2>3. IsPrefix(p, in.path) /\ i \in Places(cfg, Len(cfg.routes), "prefix")
    BY MatchingIsAccepted DEF Accepted
  <2> QED
    BY <2>2, <2>3
<1> HIDE DEF p
<1>2. Len(p) \in Nat /\ Len(in.path) \in Nat
  BY <1>1 DEF Text
<1>3. Len(p) <= Len(in.path) /\ p = Node(in, Len(p))
  BY <1>1, PrefixIsBeginning DEF Node
<1>4. ASSUME NEW d \in 0 .. Len(p) PROVE Node(in, d) \in DOMAIN newRouteIndex(cfg).prefix
  <2>1. Prefixes(p) \subseteq DOMAIN newRouteIndex(cfg).prefix
    BY <1>1, IndexIsBuilt DEF Usable, Built, p
  <2>2. SubSeq(p, 1, d) = Node(in, d)
    <3> DEFINE a == SubSeq(p, 1, d)
               b == SubSeq(in.path, 1, d)
    <3>1. 1 \in 1 .. Len(p) + 1 /\ 1 \in 1 .. Len(in.path) + 1 /\ d \in 0 .. Len(in.path)
      BY <1>2, <1>3
    <3>2. /\ a \in Text /\ b \in Text /\ Len(a) = IF 1 <= d THEN d - 1 + 1 ELSE 0
          /\ Len(b) = IF 1 <= d THEN d - 1 + 1 ELSE 0
          /\ \A k \in 1 .. d - 1 + 1 : a[k] = p[1 + k - 1] /\ b[k] = in.path[1 + k - 1]
      BY <1>1, <3>1, PieceOfText
    <3>3. \A k \in 1 .. Len(p) : p[k] = in.path[k]
      <4>1. Len(p) \in 0 .. Len(in.path)
        BY <1>2, <1>3
      <4>2. \A k \in 1 .. Len(p) - 1 + 1 : SubSeq(in.path, 1, Len(p))[k] = in.path[1 + k - 1]
        BY <1>1, <3>1, <4>1, PieceOfText
      <4> QED
        BY <1>2, <1>3, <4>2 DEF Node
    <3>4. Len(a) = d /\ Len(b) = d /\ \A k \in 1 .. d : a[k] = b[k]
      BY <1>2, <3>2, <3>3
    <3> HIDE DEF a, b
    <3>5. a = b
      BY <3>2, <3>4, SeqEqual DEF Text
    <3> QED
      BY <3>5 DEF a, b, Node
  <2>3. SubSeq(p, 1, d) \in Prefixes(p)
    BY DEF Prefixes
  <2> QED
    BY <2>1, <2>2, <2>3
<1> QED
  BY <1>1, <1>2, <1>3, <1>4 DEF p

(* What the routes at one node give is what is left if nothing below does. *)
LEMMA AtNode ==
  ASSUME NEW cfg, Usable(cfg), NEW in, IsRequest(in), NEW d \in 0 .. Len(in.path),
         From(cfg, in, d + 1) = {}, Node(in, d) \in DOMAIN newRouteIndex(cfg).prefix
  PROVE  /\ FirstMet(newRouteIndex(cfg).prefix[Node(in, d)], d, in) = Winner(cfg, From(cfg, in, d))
         /\ Best(cfg, From(cfg, in, d)) = From(cfg, in, d)
<1> DEFINE N      == Len(cfg.routes)
           list   == newRouteIndex(cfg).prefix[Node(in, d)]
           places == PlacesAt(cfg, N, "prefix", Node(in, d))
<1>1. Lists(list, cfg.routes, places)
  BY IndexIsBuilt DEF Usable, Built, Holds, Listed
<1>2. places \in SUBSET Nat
  BY DEF PlacesAt, Places
<1>3. FirstMet(list, d, in) = Candidate(cfg, Accepted(cfg, places, in), d)
  <2> HIDE DEF list, places
  <2> QED
    BY <1>1, <1>2, FirstAccepted
<1>4. ASSUME NEW i \in From(cfg, in, d)
      PROVE  Len(cfg.routes[i].pattern) = d /\ i \in Accepted(cfg, places, in) /\ i \in Nat
  <2>1. i \in Matching(cfg, in, "prefix") /\ Len(cfg.routes[i].pattern) >= d
    BY DEF From
  <2>2. Len(cfg.routes[i].pattern) \in Nat /\ cfg.routes[i].pattern = Node(in, Len(cfg.routes[i].pattern))
    BY <2>1, PrefixRoutes
  <2>3. ~(Len(cfg.routes[i].pattern) >= d + 1)
    BY <2>1 DEF From
  <2>4. Len(cfg.routes[i].pattern) = d
    BY <2>1, <2>2, <2>3
  <2>5. i \in Accepted(cfg, Places(cfg, N, "prefix"), in)
    BY <2>1, MatchingIsAccepted
  <2> QED
    BY <2>2, <2>4, <2>5 DEF Accepted, PlacesAt, Places
<1>5. ASSUME NEW i \in Accepted(cfg, places, in) PROVE i \in From(cfg, in, d)
  <2>1. in.path \in Text /\ Len(in.path) \in Nat
    BY DEF IsRequest, Text
  <2>2. Node(in, d) \in Text /\ Len(Node(in, d)) = d
    <3>1. 1 \in 1 .. Len(in.path) + 1 /\ d \in Nat
      BY <2>1
    <3>2. Node(in, d) \in Text /\ Len(Node(in, d)) = IF 1 <= d THEN d - 1 + 1 ELSE 0
      BY <2>1, <3>1, PieceOfText DEF Node
    <3> QED
      BY <3>1, <3>2
  <2>3. IsPrefix(Node(in, d), in.path)
    <3>1. d <= Len(in.path) /\ Node(in, d) = SubSeq(in.path, 1, d)
      BY <2>1 DEF Node
    <3> QED
      BY <2>1, <2>2, <3>1, PrefixIsBeginning
  <2>4. i \in Accepted(cfg, Places(cfg, N, "prefix"), in) /\ cfg.routes[i].pattern = Node(in, d)
    BY DEF Accepted, PlacesAt
  <2>5. i \in Matching(cfg, in, "prefix")
    BY <2>3, <2>4, MatchingIsAccepted
  <2> QED
    BY <2>2, <2>4, <2>5 DEF From
<1>6. From(cfg, in, d) = Accepted(cfg, places, in)
  BY <1>4, <1>5
<1>7. Best(cfg, From(cfg, in, d)) = From(cfg, in, d)
  BY <1>4 DEF Best
<1>8. From(cfg, in, d) # {} => Len(cfg.routes[Min(From(cfg, in, d))].pattern) = d
  <2>1. From(cfg, in, d) \in SUBSET Nat
    BY <1>4
  <2> QED
    BY <1>4, <2>1, MinOfNaturals
<1> HIDE DEF list, places
<1> QED
  BY <1>3, <1>6, <1>7, <1>8 DEF Winner, Candidate, list

LEMMA PrefixFound ==
  ASSUME NEW cfg, Usable(cfg), NEW in, IsRequest(in)
  PROVE  /\ matchPrefix(newRouteIndex(cfg), in) = Winner(cfg, Matching(cfg, in, "prefix"))
         /\ Matching(cfg, in, "prefix") # {} => LongestPrefixes(cfg, in) # {}
         /\ LongestPrefixes(cfg, in) = Best(cfg, Matching(cfg, in, "prefix"))
<1> DEFINE L == Len(in.path)
           ix == newRouteIndex(cfg)
           F(d) == From(cfg, in, d)
           goal(M, d) == /\ Node(in, d) \in DOMAIN ix.prefix => M[d] = Winner(cfg, F(d))
                         /\ F(d) # {} => Best(cfg, F(d)) # {}
<1>1. L \in Nat /\ in.path \in Text
  BY DEF IsRequest, Text
<1>2. PICK M : /\ \A d \in 0 .. L : M[d] = MatchStep(ix, in, M, d)
               /\ matchPrefix(ix, in) = M[0]
  BY <1>1, MatchPrefixSteps
<1>3. /\ \A i \in Matching(cfg, in, "prefix") : Len(cfg.routes[i].pattern) \in 0 .. L
      /\ \A i \in Matching(cfg, in, "prefix"), d \in 0 .. L :
           Len(cfg.routes[i].pattern) >= d => Node(in, d) \in DOMAIN ix.prefix
  BY PrefixRoutes
<1> HIDE DEF L, ix
<1>4. ASSUME NEW d \in 0 .. L, d < L => goal(M, d + 1) PROVE goal(M, d)
  <2>1. CASE F(d + 1) = {}
    <3>1. Below(ix, in, M, d) = <<>>
      BY <1>4, <2>1 DEF Below, Winner, Candidate, Best, L, Node
    <3>2. Node(in, d) \in DOMAIN ix.prefix => M[d] = FirstMet(ix.prefix[Node(in, d)], d, in)
      BY <1>2, <3>1 DEF MatchStep, Node
    <3> QED
      <4>1. F(d) # {} => Node(in, d) \in DOMAIN ix.prefix
        BY <1>3 DEF From
      <4>2. ASSUME Node(in, d) \in DOMAIN ix.prefix
            PROVE  FirstMet(ix.prefix[Node(in, d)], d, in) = Winner(cfg, F(d)) /\ Best(cfg, F(d)) = F(d)
        BY <2>1, <4>2, AtNode DEF ix, L
      <4> HIDE DEF F
      <4> QED
        BY <3>2, <4>1, <4>2
  <2>2. CASE F(d + 1) # {}
    <3>1. d < L /\ Node(in, d + 1) \in DOMAIN ix.prefix
      BY <1>1, <1>3, <2>2 DEF From
    <3>2. M[d + 1] = Winner(cfg, F(d + 1)) /\ Best(cfg, F(d + 1)) # {}
      BY <1>4, <2>2, <3>1
    <3>3. Below(ix, in, M, d) = M[d + 1] /\ M[d + 1] # <<>>
      BY <3>1, <3>2 DEF Below, Winner, Candidate, Node, L
    <3>4. M[d] = M[d + 1]
      BY <1>2, <3>3 DEF MatchStep
    <3>5. Best(cfg, F(d)) = Best(cfg, F(d + 1))
      <4>1. F(d + 1) \in SUBSET F(d) /\ \A i \in F(d) : Len(cfg.routes[i].pattern) \in Nat
        BY <1>3 DEF From
      <4>2. \A i \in F(d) \ F(d + 1), j \in F(d + 1) : Len(cfg.routes[i].pattern) < Len(cfg.routes[j].pattern)
        BY <1>3 DEF From
      <4> HIDE DEF F
      <4> QED
        BY <2>2, <4>1, <4>2, BestIsDeeper
    <3> QED
      BY <3>2, <3>4, <3>5 DEF Winner
  <2> QED
    BY <2>1, <2>2
<1> DEFINE S == {n \in Nat : n <= L => goal(M, L - n)}
<1>5. 0 \in S
  <2>1. L \in 0 .. L /\ ~(L < L) /\ L - 0 = L
    BY <1>1
  <2> HIDE DEF goal
  <2> QED
    BY <1>4, <2>1
<1>6. ASSUME NEW n \in Nat, n \in S PROVE n + 1 \in S
  <2> SUFFICES ASSUME n + 1 <= L PROVE goal(M, L - (n + 1))
    <3> HIDE DEF goal
    <3> QED
      OBVIOUS
  <2>1. n <= L /\ L - (n + 1) \in 0 .. L /\ L - (n + 1) + 1 = L - n
    BY <1>1
  <2> HIDE DEF goal
  <2>2. goal(M, L - n)
    BY <1>6, <2>1
  <2> QED
    BY <1>4, <2>1, <2>2
<1>7. goal(M, 0)
  <2> HIDE DEF S
  <2>1. L \in S /\ L - L = 0 /\ L <= L
    BY <1>1, <1>5, <1>6, Induction
  <2> HIDE DEF goal
  <2> QED
    BY <2>1 DEF S
<1>8. F(0) = Matching(cfg, in, "prefix")
  BY <1>3 DEF From
<1>9. Node(in, 0) \in DOMAIN ix.prefix
  <2>1. Node(in, 0) = <<>>
    BY SubSeqEmpty DEF Node
  <2> QED
    BY <2>1, IndexIsBuilt DEF Usable, Built, ix
<1>10. LongestPrefixes(cfg, in) = Best(cfg, Matching(cfg, in, "prefix"))
  BY DEF LongestPrefixes, Best
<1> QED
  BY <1>2, <1>7, <1>8, <1>9, <1>10 DEF ix

-----------------------------------------------------------------------------
(* The inductive invariant.                                                *)

(* What matchExact, matchPrefix or matchRegex return when they decide.     *)
Found(cfg, in, c) ==
  LET route == cfg.routes[Min(Eligible(cfg, in))]
  IN  /\ Eligible(cfg, in) # {}
      /\ c = <<[route |-> route,
                depth |-> IF route.kind = "prefix" THEN Len(route.pattern) ELSE Len(in.path)]>>

LEMMA RouteFound ==
  ASSUME NEW cfg, NEW in, NEW c, Found(cfg, in, c)
  PROVE  Eligible(cfg, in) # {} /\ c[1].route = cfg.routes[Min(Eligible(cfg, in))]
BY DEF Found

(* An index is what newRouteIndex makes of a valid configuration.          *)
Compiled(ix) ==
  /\ ix.cfg \in Worlds[world].files /\ Valid(ix.cfg)
  /\ ix = newRouteIndex(ix.cfg)

Shape ==
  /\ idx = [r \in Requests |-> idx[r]] /\ found = [r \in Requests |-> found[r]]
  /\ result = [r \in Requests |-> result[r]] /\ current = [r \in Requests |-> current[r]]

Indexes == Compiled(index) /\ \A r \in Requests : Compiled(idx[r])

(* The index loaded was in force at some moment since the call.            *)
Loaded(r) ==
  /\ pc[r] = "load" => index.cfg \in current[r]
  /\ pc[r] \in {"exact", "prefix", "regex", "finalize", "none"} => idx[r].cfg \in current[r]

(* What has been tried has nothing to offer.                               *)
Tried(r) ==
  LET cfg == idx[r].cfg
      in  == input[r]
  IN  /\ pc[r] \notin {"idle", "done"} => in.path # <<>>
      /\ pc[r] \in {"prefix", "regex"} => Matching(cfg, in, "exact") = {}
      /\ pc[r] = "regex" => Matching(cfg, in, "prefix") = {}
      /\ pc[r] = "none" => Eligible(cfg, in) = {}
      /\ pc[r] = "finalize" => Found(cfg, in, found[r])

Decided(r) ==
  /\ result[r].outcome \in {"routed", "misconfigured"}
  /\ Found(idx[r].cfg, input[r], found[r]) /\ idx[r].cfg \in current[r]
  /\ result[r] = finalize(idx[r].cfg, found[r][1], input[r])

Returned(r) ==
  /\ pc[r] # "done" => result[r] = Pending
  /\ pc[r] = "done" => result[r] = NotFound \/ Decided(r)

IInv ==
  /\ TypeOK /\ Shape /\ Indexes
  /\ \A r \in Requests : Loaded(r) /\ Tried(r) /\ Returned(r)

LEMMA ValidIsUsable ==
  ASSUME NEW w \in DOMAIN Worlds, NEW cfg \in Worlds[w].files, Valid(cfg)
  PROVE  /\ Usable(cfg) /\ None \notin DOMAIN cfg.upstreams
         /\ newRouteIndex(cfg).cfg = cfg
<1>1. IsConfig(cfg) /\ DOMAIN cfg.upstreams \subseteq Names /\ None \notin Names
  BY RoutingAssumption DEF IsConfig
<1>2. \A i \in DOMAIN cfg.routes : validateRule(cfg.routes[i])
  BY DEF Valid, ValidRoute
<1>3. newRouteIndex(cfg).cfg = cfg
  BY <1>1, IndexIsBuilt DEF Built
<1> QED
  BY <1>1, <1>2, <1>3 DEF Usable

LEMMA InputIsRequest ==
  ASSUME TypeOK, NEW r \in Requests
  PROVE  IsRequest(input[r])
BY RoutingAssumption DEF TypeOK

LEMMA MatchingNat ==
  ASSUME NEW cfg, IsConfig(cfg), NEW in, NEW kind
  PROVE  /\ Matching(cfg, in, kind) \in SUBSET Nat
         /\ \A i \in Matching(cfg, in, kind) : i \in DOMAIN cfg.routes /\ cfg.routes[i].kind = kind
BY LenProperties DEF Matching, IsConfig

LEMMA ExactDecides ==
  ASSUME NEW cfg, Usable(cfg), NEW in, IsRequest(in), in.path # <<>>,
         NEW c, c = matchExact(newRouteIndex(cfg), in)
  PROVE  /\ c # <<>> => Found(cfg, in, c)
         /\ c = <<>> => Matching(cfg, in, "exact") = {}
<1> DEFINE places == Matching(cfg, in, "exact")
<1>1. c = Candidate(cfg, places, Len(in.path))
  BY ExactFound
<1>2. places # {} => Eligible(cfg, in) = places /\ cfg.routes[Min(places)].kind = "exact"
  BY MatchingNat, MinOfNaturals DEF Eligible, Usable
<1> QED
  BY <1>1, <1>2 DEF Candidate, Found

LEMMA PrefixDecides ==
  ASSUME NEW cfg, Usable(cfg), NEW in, IsRequest(in), in.path # <<>>,
         Matching(cfg, in, "exact") = {}, NEW c, c = matchPrefix(newRouteIndex(cfg), in)
  PROVE  /\ c # <<>> => Found(cfg, in, c)
         /\ c = <<>> => Matching(cfg, in, "prefix") = {}
<1> DEFINE places == Matching(cfg, in, "prefix")
           best   == Best(cfg, places)
<1>1. c = Candidate(cfg, best, Len(cfg.routes[Min(best)].pattern))
  BY PrefixFound DEF Winner
<1>2. best \in SUBSET places
  BY DEF Best
<1>3. places # {} => best # {} /\ Eligible(cfg, in) = best
  BY PrefixFound DEF Eligible
<1>4. best # {} => cfg.routes[Min(best)].kind = "prefix"
  BY <1>2, MatchingNat, MinOfNaturals DEF Usable
<1> HIDE DEF best, places
<1> QED
  BY <1>1, <1>2, <1>3, <1>4 DEF Candidate, Found, places

LEMMA RegexDecides ==
  ASSUME NEW cfg, Usable(cfg), NEW in, IsRequest(in), in.path # <<>>,
         Matching(cfg, in, "exact") = {}, Matching(cfg, in, "prefix") = {},
         NEW c, c = matchRegex(newRouteIndex(cfg), in)
  PROVE  /\ c # <<>> => Found(cfg, in, c)
         /\ c = <<>> => Eligible(cfg, in) = {}
<1> DEFINE places == Matching(cfg, in, "regex")
<1>1. c = Candidate(cfg, places, Len(in.path))
  BY RegexFound
<1>2. Eligible(cfg, in) = places
  BY DEF Eligible
<1>3. places # {} => cfg.routes[Min(places)].kind = "regex"
  BY MatchingNat, MinOfNaturals DEF Usable
<1> QED
  BY <1>1, <1>2, <1>3 DEF Candidate, Found

(* The route found is one of those that match, of its kind.                *)
LEMMA FoundMatches ==
  ASSUME NEW cfg, Usable(cfg), NEW in, IsRequest(in), NEW c, Found(cfg, in, c)
  PROVE  LET i == Min(Eligible(cfg, in))
         IN  /\ i \in DOMAIN cfg.routes /\ c[1].route = cfg.routes[i]
             /\ c[1].route.kind \in {"exact", "prefix", "regex"}
             /\ i \in Matching(cfg, in, c[1].route.kind)
<1> DEFINE i == Min(Eligible(cfg, in))
<1>1. /\ Eligible(cfg, in) # {}
      /\ Eligible(cfg, in) \subseteq Matching(cfg, in, "exact") \cup Matching(cfg, in, "prefix")
                                       \cup Matching(cfg, in, "regex")
  BY DEF Found, Eligible, LongestPrefixes
<1>2. Eligible(cfg, in) \in SUBSET Nat
  BY <1>1, MatchingNat DEF Usable
<1>3. i \in Eligible(cfg, in)
  BY <1>1, <1>2, MinOfNaturals
<1>4. /\ i \in DOMAIN cfg.routes /\ cfg.routes[i].kind \in {"exact", "prefix", "regex"}
      /\ i \in Matching(cfg, in, cfg.routes[i].kind)
  BY <1>1, <1>3, MatchingNat DEF Usable
<1>5. c[1].route = cfg.routes[i]
  BY DEF Found
<1> QED
  BY <1>4, <1>5

-----------------------------------------------------------------------------
(* The invariant holds at the start and every step keeps it.               *)

LEMMA InvInit == Init => IInv
<1> SUFFICES ASSUME Init PROVE IInv
  OBVIOUS
<1>1. PICK cfg \in Worlds[world].start : Valid(cfg) /\ index = newRouteIndex(cfg)
  BY DEF Init
<1>2. world \in DOMAIN Worlds /\ cfg \in Worlds[world].files
  BY RoutingAssumption DEF Init
<1>3. Compiled(index)
  BY <1>1, <1>2, ValidIsUsable DEF Compiled
<1>4. TypeOK
  <2>1. 0 \in 0 .. MaxReloads
    BY RoutingAssumption
  <2>2. index.cfg \in Worlds[world].files /\ Len(<<>>) <= 1
    BY <1>3 DEF Compiled
  <2>3. \A r \in Requests : idx[r] = index /\ found[r] = <<>> /\ result[r] = Pending /\ current[r] = {}
    BY DEF Init
  <2>4. /\ pc \in [Requests -> {"idle", "load", "exact", "prefix", "regex", "finalize", "none", "done"}]
        /\ input \in [Requests -> Worlds[world].inputs] /\ reloads = 0
    BY DEF Init
  <2>5. \A r \in Requests :
          /\ idx[r].cfg \in Worlds[world].files /\ Len(found[r]) <= 1
          /\ result[r].outcome \in {"pending", "not found", "misconfigured", "routed"}
          /\ current[r] \subseteq Worlds[world].files
    <3> SUFFICES ASSUME NEW r \in Requests
                 PROVE  /\ idx[r].cfg \in Worlds[world].files /\ Len(found[r]) <= 1
                        /\ result[r].outcome \in {"pending", "not found", "misconfigured", "routed"}
                        /\ current[r] \subseteq Worlds[world].files
      OBVIOUS
    <3>1. idx[r].cfg \in Worlds[world].files /\ Len(found[r]) <= 1
      BY <2>2, <2>3
    <3>2. result[r].outcome = "pending"
      BY <2>3 DEF Pending
    <3>3. current[r] \subseteq Worlds[world].files
      BY <2>3
    <3> QED
      BY <3>1, <3>2, <3>3
  <2> QED
    BY <1>2, <2>1, <2>2, <2>4, <2>5 DEF TypeOK
<1>5. Shape
  BY DEF Init, Shape
<1>6. Indexes
  BY <1>3 DEF Init, Indexes
<1>7. ASSUME NEW r \in Requests PROVE Loaded(r) /\ Tried(r) /\ Returned(r)
  BY DEF Init, Loaded, Tried, Returned
<1> QED
  BY <1>4, <1>5, <1>6, <1>7 DEF IInv

LEMMA InvReload == IInv /\ Reload => IInv'
<1> SUFFICES ASSUME IInv, Reload PROVE IInv'
  OBVIOUS
<1>1. PICK cfg \in Worlds[world].files :
        /\ Valid(cfg) /\ index' = newRouteIndex(cfg)
        /\ current' = [r \in Requests |->
                         IF pc[r] \in {"idle", "done"} THEN current[r] ELSE current[r] \cup {cfg}]
  BY DEF Reload
<1>2. UNCHANGED <<world, pc, input, idx, found, result>> /\ reloads' = reloads + 1 /\ reloads < MaxReloads
  BY DEF Reload
<1>3. index'.cfg = cfg /\ Compiled(index)'
  BY <1>1, <1>2, ValidIsUsable DEF Compiled, IInv, TypeOK
<1>4. /\ \A r \in Requests : current'[r] = IF pc[r] \in {"idle", "done"} THEN current[r] ELSE current[r] \cup {cfg}
      /\ current' = [r \in Requests |-> current'[r]]
  BY <1>1
<1>5. TypeOK'
  <2>1. reloads + 1 \in 0 .. MaxReloads
    <3>1. MaxReloads \in Nat
      BY RoutingAssumption
    <3>2. reloads \in 0 .. MaxReloads
      BY DEF IInv, TypeOK
    <3> QED
      BY <1>2, <3>1, <3>2
  <2>2. \A r \in Requests : current'[r] \subseteq Worlds[world].files
    <3>1. \A r \in Requests : current[r] \subseteq Worlds[world].files
      BY DEF IInv, TypeOK
    <3> QED
      BY <1>4, <3>1
  <2>3. TypeOK
    BY DEF IInv
  <2> QED
    BY <1>2, <1>3, <2>1, <2>2, <2>3 DEF TypeOK
<1>6. Shape'
  BY <1>2, <1>4 DEF IInv, Shape
<1>7. Indexes'
  BY <1>2, <1>3 DEF IInv, Indexes, Compiled
<1>8. ASSUME NEW r \in Requests PROVE Loaded(r)' /\ Tried(r)' /\ Returned(r)'
  <2>1. Loaded(r) /\ Tried(r) /\ Returned(r)
    BY DEF IInv
  <2>2. current[r] \subseteq current'[r] /\ (pc[r] = "load" => cfg \in current'[r])
    BY <1>4
  <2>3. Loaded(r)'
    BY <1>2, <1>3, <2>1, <2>2 DEF Loaded
  <2>4. Tried(r)'
    BY <1>2, <2>1 DEF Tried
  <2>5. Returned(r)'
    BY <1>2, <2>1, <2>2 DEF Returned, Decided
  <2> QED
    BY <2>3, <2>4, <2>5
<1> QED
  BY <1>5, <1>6, <1>7, <1>8 DEF IInv

(* What concerns another request stays as it is.                           *)
LEMMA OthersKeep ==
  ASSUME IInv, NEW q \in Requests, UNCHANGED <<world, index, input>>,
         idx'[q] = idx[q], found'[q] = found[q], result'[q] = result[q],
         current'[q] = current[q], pc'[q] = pc[q]
  PROVE  Loaded(q)' /\ Tried(q)' /\ Returned(q)'
<1>1. Loaded(q) /\ Tried(q) /\ Returned(q)
  BY DEF IInv
<1> QED
  BY <1>1 DEF Loaded, Tried, Returned, Decided

LEMMA InvDecideRoute == ASSUME IInv, NEW r \in Requests, DecideRoute(r) PROVE IInv'
<1>1. UNCHANGED <<world, index, reloads, input, idx, found>> /\ pc[r] = "idle"
  BY DEF DecideRoute
<1>2. current' = [current EXCEPT ![r] = {index.cfg}]
  BY DEF DecideRoute
<1>3. /\ current' = [q \in Requests |-> current'[q]] /\ current'[r] = {index.cfg}
      /\ \A q \in Requests : q # r => current'[q] = current[q]
  BY <1>2 DEF IInv, Shape
<1>4. \/ /\ input[r].path = <<>> /\ result' = [result EXCEPT ![r] = NotFound]
         /\ pc' = [pc EXCEPT ![r] = "done"]
      \/ /\ input[r].path # <<>> /\ result' = result /\ pc' = [pc EXCEPT ![r] = "load"]
  BY DEF DecideRoute, Return
<1>5. /\ result' = [q \in Requests |-> result'[q]]
      /\ pc' \in [Requests -> {"idle", "load", "exact", "prefix", "regex", "finalize", "none", "done"}]
      /\ \A q \in Requests : q # r => result'[q] = result[q] /\ pc'[q] = pc[q]
      /\ \/ input[r].path = <<>> /\ result'[r] = NotFound /\ pc'[r] = "done"
         \/ input[r].path # <<>> /\ result'[r] = result[r] /\ pc'[r] = "load"
  BY <1>4 DEF IInv, Shape, TypeOK
<1>6. TypeOK'
  <2>1. TypeOK
    BY DEF IInv
  <2>2. ASSUME NEW q \in Requests
        PROVE  /\ result'[q].outcome \in {"pending", "not found", "misconfigured", "routed"}
               /\ current'[q] \subseteq Worlds[world].files
    <3>1. CASE q = r
      <4>1. result[r].outcome \in {"pending", "not found", "misconfigured", "routed"}
        BY <2>1 DEF TypeOK
      <4>2. NotFound.outcome = "not found"
        BY DEF NotFound
      <4>3. result'[r] = NotFound \/ result'[r] = result[r]
        BY <1>5
      <4>4. current'[r] \subseteq Worlds[world].files
        BY <1>3, <2>1 DEF TypeOK, IInv, Indexes, Compiled
      <4> QED
        BY <3>1, <4>1, <4>2, <4>3, <4>4
    <3>2. CASE q # r
      BY <1>3, <1>5, <2>1, <3>2 DEF TypeOK
    <3> QED
      BY <3>1, <3>2
  <2> QED
    BY <1>1, <1>5, <2>1, <2>2 DEF TypeOK
<1>7. Shape' /\ Indexes'
  BY <1>1, <1>3, <1>5 DEF IInv, Shape, Indexes, Compiled
<1>8. Loaded(r)' /\ Tried(r)' /\ Returned(r)'
  BY <1>1, <1>3, <1>5 DEF IInv, Loaded, Tried, Returned
<1>9. \A q \in Requests : q # r => Loaded(q)' /\ Tried(q)' /\ Returned(q)'
  BY <1>1, <1>3, <1>5, OthersKeep
<1> QED
  BY <1>6, <1>7, <1>8, <1>9 DEF IInv

LEMMA InvLoadIndex == ASSUME IInv, NEW r \in Requests, LoadIndex(r) PROVE IInv'
<1>1. UNCHANGED <<world, index, reloads, input, found, result, current>> /\ pc[r] = "load"
  BY DEF LoadIndex
<1>2. /\ idx' = [q \in Requests |-> idx'[q]] /\ idx'[r] = index
      /\ pc' \in [Requests -> {"idle", "load", "exact", "prefix", "regex", "finalize", "none", "done"}]
      /\ pc'[r] = "exact"
      /\ \A q \in Requests : q # r => idx'[q] = idx[q] /\ pc'[q] = pc[q]
  BY DEF LoadIndex, IInv, Shape, TypeOK
<1>3. TypeOK'
  BY <1>1, <1>2 DEF IInv, TypeOK
<1>4. Shape' /\ Indexes'
  BY <1>1, <1>2 DEF IInv, Shape, Indexes, Compiled
<1>5. Loaded(r)' /\ Tried(r)' /\ Returned(r)'
  BY <1>1, <1>2 DEF IInv, Loaded, Tried, Returned
<1>6. \A q \in Requests : q # r => Loaded(q)' /\ Tried(q)' /\ Returned(q)'
  BY <1>1, <1>2, OthersKeep
<1> QED
  BY <1>3, <1>4, <1>5, <1>6 DEF IInv

(* One kind of match, given what its candidate says.                       *)
LEMMA InvMatch ==
  ASSUME IInv, NEW r \in Requests, NEW kind \in {"exact", "prefix", "regex"},
         NEW next \in {"prefix", "regex", "none"}, NEW c, Match(r, kind, c, next),
         c # <<>> => Found(idx[r].cfg, input[r], c),
         c = <<>> => LET cfg == idx[r].cfg
                         in  == input[r]
                     IN  /\ next \in {"prefix", "regex"} => Matching(cfg, in, "exact") = {}
                         /\ next = "regex" => Matching(cfg, in, "prefix") = {}
                         /\ next = "none" => Eligible(cfg, in) = {}
  PROVE  IInv'
<1>1. UNCHANGED <<world, index, reloads, input, idx, result, current>> /\ pc[r] = kind
  BY DEF Match
<1>2. /\ found' = [q \in Requests |-> found'[q]] /\ found'[r] = c
      /\ pc' \in [Requests -> {"idle", "load", "exact", "prefix", "regex", "finalize", "none", "done"}]
      /\ pc'[r] = IF c # <<>> THEN "finalize" ELSE next
      /\ \A q \in Requests : q # r => found'[q] = found[q] /\ pc'[q] = pc[q]
  BY DEF Match, IInv, Shape, TypeOK
<1>3. Len(c) <= 1
  <2>1. CASE c = <<>>
    BY <2>1
  <2>2. CASE c # <<>>
    <3>1. PICK x : c = <<x>>
      BY <2>2 DEF Found
    <3> QED
      BY <3>1
  <2> QED
    BY <2>1, <2>2
<1>4. TypeOK'
  BY <1>1, <1>2, <1>3 DEF IInv, TypeOK
<1>5. Shape' /\ Indexes'
  BY <1>1, <1>2 DEF IInv, Shape, Indexes, Compiled
<1>6. Loaded(r)' /\ Tried(r)' /\ Returned(r)'
  <2>1. Loaded(r) /\ Tried(r) /\ Returned(r)
    BY DEF IInv
  <2>2. Loaded(r)' /\ Returned(r)'
    BY <1>1, <1>2, <2>1 DEF Loaded, Returned
  <2>3. Tried(r)'
    BY <1>1, <1>2, <2>1 DEF Tried
  <2> QED
    BY <2>2, <2>3
<1>7. \A q \in Requests : q # r => Loaded(q)' /\ Tried(q)' /\ Returned(q)'
  BY <1>1, <1>2, OthersKeep
<1> QED
  BY <1>4, <1>5, <1>6, <1>7 DEF IInv

LEMMA InvReturn ==
  ASSUME IInv, NEW r \in Requests, NEW res, Return(r, res),
         UNCHANGED <<world, index, reloads, input, idx, found, current>>,
         res.outcome \in {"not found", "misconfigured", "routed"},
         res = NotFound \/ (/\ Found(idx[r].cfg, input[r], found[r]) /\ idx[r].cfg \in current[r]
                            /\ res = finalize(idx[r].cfg, found[r][1], input[r])
                            /\ res.outcome \in {"routed", "misconfigured"})
  PROVE  IInv'
<1>1. /\ result' = [q \in Requests |-> result'[q]] /\ result'[r] = res
      /\ pc' \in [Requests -> {"idle", "load", "exact", "prefix", "regex", "finalize", "none", "done"}]
      /\ pc'[r] = "done"
      /\ \A q \in Requests : q # r => result'[q] = result[q] /\ pc'[q] = pc[q]
  BY DEF Return, IInv, Shape, TypeOK
<1>2. TypeOK'
  <2>1. \A q \in Requests : result'[q].outcome \in {"pending", "not found", "misconfigured", "routed"}
    <3>1. \A q \in Requests : result[q].outcome \in {"pending", "not found", "misconfigured", "routed"}
      BY DEF IInv, TypeOK
    <3> QED
      BY <1>1, <3>1
  <2> QED
    BY <1>1, <2>1 DEF IInv, TypeOK
<1>3. Shape' /\ Indexes'
  BY <1>1 DEF IInv, Shape, Indexes, Compiled
<1>4. Loaded(r)' /\ Tried(r)' /\ Returned(r)'
  <2>1. Loaded(r)' /\ Tried(r)'
    BY <1>1 DEF Loaded, Tried
  <2>2. Returned(r)'
    BY <1>1 DEF Returned, Decided
  <2> QED
    BY <2>1, <2>2
<1>5. \A q \in Requests : q # r => Loaded(q)' /\ Tried(q)' /\ Returned(q)'
  BY <1>1, OthersKeep
<1> QED
  BY <1>2, <1>3, <1>4, <1>5 DEF IInv

LEMMA FinalizeOutcome ==
  ASSUME NEW cfg, NEW c, NEW in
  PROVE  finalize(cfg, c, in).outcome \in {"routed", "misconfigured"}
BY DEF finalize, Misconfigured

LEMMA InvDecide == ASSUME IInv, NEW r \in Requests, Decide(r) PROVE IInv'
<1> DEFINE cfg == idx[r].cfg
           in  == input[r]
<1>1. Usable(cfg) /\ IsRequest(in) /\ idx[r] = newRouteIndex(cfg)
  <2>1. TypeOK /\ Compiled(idx[r]) /\ world \in DOMAIN Worlds
    BY DEF IInv, Indexes, TypeOK
  <2>2. IsRequest(in)
    BY <2>1, InputIsRequest
  <2>3. Usable(cfg)
    BY <2>1, ValidIsUsable DEF Compiled
  <2> QED
    BY <2>1, <2>2, <2>3 DEF Compiled
<1>2. Tried(r) /\ Loaded(r)
  BY DEF IInv
<1>3. CASE MatchExact(r)
  <2> DEFINE c == matchExact(idx[r], in)
  <2>1. Match(r, "exact", c, "prefix") /\ pc[r] = "exact"
    BY <1>3 DEF MatchExact, Match
  <2>2. in.path # <<>>
    BY <1>2, <2>1 DEF Tried
  <2>3. (c # <<>> => Found(cfg, in, c)) /\ (c = <<>> => Matching(cfg, in, "exact") = {})
    BY <1>1, <2>2, ExactDecides
  <2> HIDE DEF c
  <2> QED
    BY <2>1, <2>3, InvMatch
<1>4. CASE MatchPrefix(r)
  <2> DEFINE c == matchPrefix(idx[r], in)
  <2>1. Match(r, "prefix", c, "regex") /\ pc[r] = "prefix"
    BY <1>4 DEF MatchPrefix, Match
  <2>2. in.path # <<>> /\ Matching(cfg, in, "exact") = {}
    BY <1>2, <2>1 DEF Tried
  <2>3. (c # <<>> => Found(cfg, in, c)) /\ (c = <<>> => Matching(cfg, in, "prefix") = {})
    BY <1>1, <2>2, PrefixDecides
  <2> HIDE DEF c
  <2> QED
    BY <2>1, <2>2, <2>3, InvMatch
<1>5. CASE MatchRegex(r)
  <2> DEFINE c == matchRegex(idx[r], in)
  <2>1. Match(r, "regex", c, "none") /\ pc[r] = "regex"
    BY <1>5 DEF MatchRegex, Match
  <2>2. in.path # <<>> /\ Matching(cfg, in, "exact") = {} /\ Matching(cfg, in, "prefix") = {}
    BY <1>2, <2>1 DEF Tried
  <2>3. (c # <<>> => Found(cfg, in, c)) /\ (c = <<>> => Eligible(cfg, in) = {})
    BY <1>1, <2>2, RegexDecides
  <2> HIDE DEF c
  <2> QED
    BY <2>1, <2>3, InvMatch
<1>6. CASE Finalize(r)
  <2> DEFINE res == finalize(cfg, found[r][1], in)
  <2>1. /\ pc[r] = "finalize" /\ Return(r, finalize(cfg, Head(found[r]), in))
        /\ UNCHANGED <<world, index, reloads, input, idx, found, current>>
    BY <1>6 DEF Finalize
  <2>2. Found(cfg, in, found[r]) /\ cfg \in current[r]
    BY <1>2, <2>1 DEF Tried, Loaded
  <2>3. Head(found[r]) = found[r][1]
    BY <2>2 DEF Found
  <2>4. Return(r, res)
    BY <2>1, <2>3
  <2>5. res.outcome \in {"routed", "misconfigured"}
    BY FinalizeOutcome
  <2> HIDE DEF res
  <2>6. res.outcome \in {"not found", "misconfigured", "routed"}
    BY <2>5
  <2>7. res = finalize(cfg, found[r][1], in)
    BY DEF res
  <2> QED
    BY <2>1, <2>2, <2>4, <2>5, <2>6, <2>7, InvReturn
<1>7. CASE NoRoute(r)
  <2>1. NotFound.outcome = "not found"
    BY DEF NotFound
  <2> QED
    BY <1>7, <2>1, InvReturn DEF NoRoute
<1> QED
  BY <1>3, <1>4, <1>5, <1>6, <1>7, InvDecideRoute, InvLoadIndex DEF Decide

LEMMA InvStutter == IInv /\ UNCHANGED vars => IInv'
<1> SUFFICES ASSUME IInv, UNCHANGED vars PROVE IInv'
  OBVIOUS
<1>1. UNCHANGED <<world, index, reloads, pc, input, idx, found, result, current>>
  BY DEF vars
<1>2. TypeOK' /\ Shape' /\ Indexes'
  BY <1>1 DEF IInv, TypeOK, Shape, Indexes, Compiled
<1>3. \A r \in Requests : Loaded(r)' /\ Tried(r)' /\ Returned(r)'
  BY <1>1, OthersKeep
<1> QED
  BY <1>2, <1>3 DEF IInv

LEMMA Inductive == Spec => []IInv
<1>1. IInv /\ [Next]_vars => IInv'
  BY InvReload, InvDecide, InvStutter DEF Next
<1> QED
  BY InvInit, <1>1, PTL DEF Spec

-----------------------------------------------------------------------------
(* What follows from the invariant.                                        *)

(* Every variable keeps its type.                                          *)
THEOREM TypeCorrect == Spec => []TypeOK
<1>1. IInv => TypeOK
  BY DEF IInv
<1> QED
  BY Inductive, <1>1, PTL

(* The compiled index decides as a scan of the list of routes would, for   *)
(* every configuration that validation accepts and every request: exact,   *)
(* the longest prefix, the first regex.                                    *)
THEOREM MatchesReferenceHolds == Spec => []MatchesReference
<1>1. IInv => MatchesReference
  <2> SUFFICES ASSUME IInv, NEW r \in Requests
               PROVE  LET routes   == idx[r].cfg.routes
                          eligible == Eligible(idx[r].cfg, input[r])
                      IN  /\ pc[r] = "finalize" => eligible # {} /\ found[r][1].route = routes[Min(eligible)]
                          /\ pc[r] = "none" => eligible = {}
    BY DEF MatchesReference
  <2>1. Tried(r)
    BY DEF IInv
  <2>2. pc[r] = "none" => Eligible(idx[r].cfg, input[r]) = {}
    BY <2>1 DEF Tried
  <2>3. ASSUME pc[r] = "finalize"
        PROVE  /\ Eligible(idx[r].cfg, input[r]) # {}
               /\ found[r][1].route = idx[r].cfg.routes[Min(Eligible(idx[r].cfg, input[r]))]
    BY <2>1, <2>3 DEF Tried, Found
  <2> QED
    BY <2>2, <2>3
<1> QED
  BY Inductive, <1>1, PTL

(* What is known of a request that DecideRoute has routed, or refused for  *)
(* want of a host.                                                         *)
LEMMA WhenDecided ==
  ASSUME IInv, NEW r \in Requests, result[r].outcome \in {"routed", "misconfigured"}
  PROVE  /\ world \in DOMAIN Worlds /\ idx[r].cfg \in Worlds[world].files /\ Valid(idx[r].cfg)
         /\ Usable(idx[r].cfg) /\ None \notin DOMAIN idx[r].cfg.upstreams
         /\ IsRequest(input[r])
         /\ Found(idx[r].cfg, input[r], found[r]) /\ idx[r].cfg \in current[r]
         /\ result[r] = finalize(idx[r].cfg, found[r][1], input[r])
<1>1. Returned(r) /\ TypeOK /\ world \in DOMAIN Worlds /\ Compiled(idx[r])
  BY DEF IInv, TypeOK, Indexes
<1>2. Pending.outcome = "pending" /\ NotFound.outcome = "not found"
  BY DEF Pending, NotFound
<1>3. Decided(r)
  BY <1>1, <1>2 DEF Returned
<1>4. Usable(idx[r].cfg) /\ None \notin DOMAIN idx[r].cfg.upstreams
  BY <1>1, ValidIsUsable DEF Compiled
<1>5. IsRequest(input[r])
  BY <1>1, InputIsRequest
<1> QED
  BY <1>1, <1>3, <1>4, <1>5 DEF Decided, Compiled

(* The path that goes to the upstream.                                     *)
LEMMA PathOfRouted ==
  ASSUME NEW cfg, Usable(cfg), NEW in, IsRequest(in), NEW cs, Found(cfg, in, cs),
         finalize(cfg, cs[1], in).outcome = "routed"
  PROVE  LET route == cs[1].route
             path  == finalize(cfg, cs[1], in).path
         IN  /\ route.rewrite = None => path = in.path
             /\ route.kind = "regex" => path = Expansion(route.rewrite, route.matched[in.path])
<1> DEFINE route  == cs[1].route
           suffix == SubSeq(in.path, cs[1].depth + 1, Len(in.path))
           path   == finalize(cfg, cs[1], in).path
           i      == Min(Eligible(cfg, in))
<1>1. /\ i \in DOMAIN cfg.routes /\ route = cfg.routes[i] /\ route.kind \in {"exact", "prefix", "regex"}
      /\ i \in Matching(cfg, in, route.kind)
  BY FoundMatches
<1>2. cs[1].depth = IF route.kind = "prefix" THEN Len(route.pattern) ELSE Len(in.path)
  BY DEF Found
<1>3. path = IF route.kind = "regex" THEN expandRegexRewrite(route.rewrite, route.matched[in.path])
             ELSE effectiveRewrite(route) \o suffix
  BY DEF finalize, Misconfigured
<1>4. IsRule(route) /\ validateRule(route) /\ in.path \in Text
  BY <1>1 DEF Usable, IsConfig, IsRoute, IsRequest
<1>5. Matches(route, in)
  BY <1>1 DEF Matching
<1> HIDE DEF i, path, route, suffix
<1>6. ASSUME route.rewrite = None PROVE path = in.path
  <2>1. route.kind # "regex" /\ effectiveRewrite(route) = route.pattern
    BY <1>4, <1>6 DEF validateRule, effectiveRewrite
  <2>2. CASE route.kind = "exact"
    <3>1. route.pattern = in.path
      BY <1>5, <2>2 DEF Matches
    <3>2. Len(in.path) \in Nat
      BY <1>4 DEF Text
    <3>3. suffix = <<>>
      BY <1>2, <2>2, <3>2, SubSeqEmpty DEF suffix
    <3>4. in.path \o <<>> = in.path
      BY <1>4, ConcatEmptySeq DEF Text
    <3> QED
      BY <1>3, <2>1, <3>1, <3>3, <3>4
  <2>3. CASE route.kind = "prefix"
    <3>1. IsPrefix(route.pattern, in.path)
      BY <1>5, <2>3 DEF Matches
    <3>2. route.pattern \in Text /\ Len(route.pattern) \in Nat /\ Len(in.path) \in Nat
      BY <1>4 DEF IsRule, Text
    <3>3. Len(route.pattern) <= Len(in.path) /\ route.pattern = SubSeq(in.path, 1, Len(route.pattern))
      BY <1>4, <3>1, <3>2, PrefixIsBeginning
    <3>4. Len(route.pattern) \in 0 .. Len(in.path)
      BY <3>2, <3>3
    <3>5. suffix = SubSeq(in.path, Len(route.pattern) + 1, Len(in.path))
      BY <1>2, <2>3 DEF suffix
    <3>6. SubSeq(in.path, 1, Len(route.pattern)) \o SubSeq(in.path, Len(route.pattern) + 1, Len(in.path)) = in.path
      BY <1>4, <3>4, SplitText
    <3> QED
      BY <1>3, <2>1, <3>3, <3>5, <3>6
  <2> QED
    BY <1>1, <2>1, <2>2, <2>3
<1>7. ASSUME route.kind = "regex" PROVE path = Expansion(route.rewrite, route.matched[in.path])
  <2>1. in.path \in DOMAIN route.matched
    BY <1>5, <1>7 DEF Matches
  <2>2. Captures(route.matched[in.path])
    BY <1>4, <2>1 DEF IsRule, Captures
  <2>3. route.rewrite \in Text
    BY <1>4, <1>7 DEF IsRule, validateRule
  <2> QED
    BY <1>3, <1>7, <2>2, <2>3, RewriteIsExpansion
<1> QED
  BY <1>6, <1>7 DEF path, route

(* A rule without a rewrite leaves the path alone (effectiveRewrite).      *)
PathKept ==
  \A r \in Requests :
    result[r].outcome = "routed" /\ found[r][1].route.rewrite = None =>
      result[r].path = input[r].path

(* A rule without a rewrite sends the path on as it came.                  *)
THEOREM PathKeptHolds == Spec => []PathKept
<1>1. IInv => PathKept
  <2> SUFFICES ASSUME IInv, NEW r \in Requests, result[r].outcome = "routed",
                      found[r][1].route.rewrite = None
               PROVE  result[r].path = input[r].path
    BY DEF PathKept
  <2> QED
    BY WhenDecided, PathOfRouted
<1> QED
  BY Inductive, <1>1, PTL

(* A regex rule's rewrite is expanded as its table of tokens says          *)
(* (configuration.md, routes[].rules.regex), whatever dollars and digits   *)
(* come one after the other in it.                                         *)
RewriteExpanded ==
  \A r \in Requests :
    LET route == found[r][1].route
    IN  result[r].outcome = "routed" /\ route.kind = "regex" =>
          result[r].path = Expansion(route.rewrite, route.matched[input[r].path])

(* A regex rule's rewrite is expanded as its table of tokens says.         *)
THEOREM RewriteExpandedHolds == Spec => []RewriteExpanded
<1>1. IInv => RewriteExpanded
  <2> SUFFICES ASSUME IInv, NEW r \in Requests, result[r].outcome = "routed",
                      found[r][1].route.kind = "regex"
               PROVE  result[r].path = Expansion(found[r][1].route.rewrite,
                                                 found[r][1].route.matched[input[r].path])
    BY DEF RewriteExpanded
  <2> QED
    BY WhenDecided, PathOfRouted
<1> QED
  BY Inductive, <1>1, PTL

LEMMA FallbackIsTarget ==
  ASSUME NEW cfg, Valid(cfg), None \notin DOMAIN cfg.upstreams, NEW name \in DOMAIN cfg.upstreams
  PROVE  failoverTarget(cfg, name) = {Resolve(cfg, u) : u \in {cfg.upstreams[name].fallback} \ {None}}
<1> DEFINE back == cfg.upstreams[name].fallback
<1>1. back = None \/ back \in DOMAIN cfg.upstreams
  BY DEF Valid, ValidUpstreams
<1>2. CASE back = None
  BY <1>2 DEF failoverTarget
<1>3. CASE back \in DOMAIN cfg.upstreams
  <2>1. {back} \ {None} = {back}
    BY <1>3
  <2> HIDE DEF back
  <2> QED
    BY <1>3, <2>1 DEF failoverTarget, back
<1> QED
  BY <1>1, <1>2, <1>3

(* What a decision that is not a refusal consists of.                      *)
LEMMA RoutedParts ==
  ASSUME NEW cfg, NEW c, NEW in, NEW res, res = finalize(cfg, c, in), res.outcome = "routed",
         NEW route, c.route = route
  PROVE  /\ route.upstream \in DOMAIN cfg.upstreams
         /\ res.upstream = Resolve(cfg, route.upstream)
         /\ res.mirrors = [i \in DOMAIN route.mirrors |-> cfg.upstreams[route.mirrors[i].upstream].host]
         /\ res.fallback = failoverTarget(cfg, route.upstream)
BY DEF finalize, Misconfigured

(* One configuration, in force at some moment of the call, explains the    *)
(* whole decision.                                                         *)
THEOREM OneSnapshotHolds == Spec => []OneSnapshot
<1>1. IInv => OneSnapshot
  <2> SUFFICES ASSUME IInv, NEW r \in Requests, result[r].outcome = "routed"
               PROVE  \E cfg \in current[r] :
                        LET upstreams == cfg.upstreams
                            eligible  == Eligible(cfg, input[r])
                            route     == cfg.routes[Min(eligible)]
                        IN  /\ eligible # {}
                            /\ route.upstream \in DOMAIN upstreams
                            /\ result[r].upstream = Resolve(cfg, route.upstream)
                            /\ result[r].mirrors =
                                 [i \in DOMAIN route.mirrors |-> upstreams[route.mirrors[i].upstream].host]
                            /\ result[r].fallback =
                                 {Resolve(cfg, u) : u \in {upstreams[route.upstream].fallback} \ {None}}
    BY DEF OneSnapshot
  <2> DEFINE cfg   == idx[r].cfg
             in    == input[r]
             route == cfg.routes[Min(Eligible(cfg, in))]
             back  == cfg.upstreams[route.upstream].fallback
  <2>1. /\ Valid(cfg) /\ None \notin DOMAIN cfg.upstreams /\ Found(cfg, in, found[r]) /\ cfg \in current[r]
        /\ result[r] = finalize(cfg, found[r][1], in)
    BY WhenDecided
  <2>2. Eligible(cfg, in) # {} /\ found[r][1].route = route
    BY <2>1, RouteFound
  <2> HIDE DEF cfg, route, in
  <2>3. /\ route.upstream \in DOMAIN cfg.upstreams
        /\ result[r].upstream = Resolve(cfg, route.upstream)
        /\ result[r].mirrors = [i \in DOMAIN route.mirrors |-> cfg.upstreams[route.mirrors[i].upstream].host]
        /\ result[r].fallback = failoverTarget(cfg, route.upstream)
    BY <2>1, <2>2, RoutedParts
  <2>4. failoverTarget(cfg, route.upstream) = {Resolve(cfg, u) : u \in {back} \ {None}}
    BY <2>1, <2>3, FallbackIsTarget
  <2> QED
    BY <2>1, <2>2, <2>3, <2>4 DEF cfg, route, in
<1> QED
  BY Inductive, <1>1, PTL

(* A request that a route matches fails only for a mirror entry that names *)
(* no upstream: of all that finalize looks up, validation leaves nothing   *)
(* else to be missing.                                                     *)
OnlyUnnamedMirrorsFail ==
  \A r \in Requests :
    LET mirrors == found[r][1].route.mirrors
    IN  result[r].outcome = "misconfigured" => \E j \in DOMAIN mirrors : mirrors[j].upstream = None

LEMMA UnnamedMirror ==
  ASSUME IInv, NEW r \in Requests, result[r].outcome = "misconfigured"
  PROVE  \E i \in DOMAIN idx[r].cfg.routes :
           /\ found[r][1].route = idx[r].cfg.routes[i]
           /\ \E j \in DOMAIN idx[r].cfg.routes[i].mirrors : idx[r].cfg.routes[i].mirrors[j].upstream = None
<1> DEFINE cfg   == idx[r].cfg
           in    == input[r]
           i     == Min(Eligible(cfg, in))
           route == cfg.routes[i]
<1>1. /\ Valid(cfg) /\ Usable(cfg) /\ IsRequest(in) /\ Found(cfg, in, found[r])
      /\ result[r] = finalize(cfg, found[r][1], in)
  BY WhenDecided
<1>2. i \in DOMAIN cfg.routes /\ found[r][1].route = route
  BY <1>1, FoundMatches
<1>3. ValidRoute(cfg, route)
  BY <1>1, <1>2 DEF Valid
<1> HIDE DEF cfg, in, route, i
<1>4. ~ /\ route.upstream \in DOMAIN cfg.upstreams
        /\ \A j \in DOMAIN route.mirrors : route.mirrors[j].upstream \in DOMAIN cfg.upstreams
  BY <1>1, <1>2 DEF finalize
<1>5. \E j \in DOMAIN route.mirrors : route.mirrors[j].upstream = None
  BY <1>3, <1>4 DEF ValidRoute, ValidMirror
<1> QED
  BY <1>2, <1>5 DEF cfg, route

(* The router refuses a request it has a route for only where a mirror     *)
(* entry is without a name.                                                *)
THEOREM OnlyUnnamedMirrorsFailHolds == Spec => []OnlyUnnamedMirrorsFail
<1>1. IInv => OnlyUnnamedMirrorsFail
  BY UnnamedMirror DEF OnlyUnnamedMirrorsFail
<1> QED
  BY Inductive, <1>1, PTL

(* Every mirror entry names an upstream, as the documentation requires     *)
(* (configuration.md, routes[].mirrors[]).                                 *)
NamedMirrors ==
  \A w \in DOMAIN Worlds : \A cfg \in Worlds[w].files : \A i \in DOMAIN cfg.routes :
    \A j \in DOMAIN cfg.routes[i].mirrors : cfg.routes[i].mirrors[j].upstream # None

(* Of such configurations, one that validation accepts serves every        *)
(* request that one of its routes matches.                                 *)
THEOREM EveryMatchServedHolds ==
  ASSUME NamedMirrors
  PROVE  Spec => []EveryMatchServed
<1>1. IInv => EveryMatchServed
  <2> SUFFICES ASSUME IInv, NEW r \in Requests, result[r].outcome = "misconfigured" PROVE FALSE
    BY DEF EveryMatchServed
  <2>1. world \in DOMAIN Worlds /\ idx[r].cfg \in Worlds[world].files
    BY WhenDecided
  <2> QED
    BY <2>1, UnnamedMirror DEF NamedMirrors
<1> QED
  BY Inductive, <1>1, PTL

(* Two rules without a bar, each valid by itself, that validation takes    *)
(* for duplicates match the same requests: the duplicate check refuses no  *)
(* route that would have been of use.                                      *)
THEOREM DuplicatesAreEqualHolds == Spec => []DuplicatesAreEqual
<1>1. IInv => DuplicatesAreEqual
  <2> SUFFICES ASSUME IInv, NEW r \in Requests, NEW cfg \in Worlds[world].files,
                      NEW i \in DOMAIN cfg.routes, NEW j \in DOMAIN cfg.routes,
                      dedupKey(cfg.routes[i]) = dedupKey(cfg.routes[j]),
                      Comparable(cfg.routes[i]), Comparable(cfg.routes[j])
               PROVE  Matches(cfg.routes[i], input[r]) <=> Matches(cfg.routes[j], input[r])
    BY DEF DuplicatesAreEqual
  <2> DEFINE a == cfg.routes[i]
             b == cfg.routes[j]
             in == input[r]
  <2>1. world \in DOMAIN Worlds
    BY DEF IInv, TypeOK
  <2>2. /\ IsRule(a) /\ IsRule(b)
        /\ a.kind = "regex" /\ b.kind = "regex" /\ a.pattern = b.pattern => a.matched = b.matched
    BY <2>1, RoutingAssumption DEF IsRoute
  <2>3. /\ validateRule(a) /\ NoBar(a) /\ validateRule(b) /\ NoBar(b)
        /\ dedupKey(a) = dedupKey(b)
    BY DEF Comparable
  <2> HIDE DEF a, b, in
  <2>4. a.kind = b.kind /\ a.pattern = b.pattern /\ (Met(a, in) <=> Met(b, in))
    BY <2>2, <2>3, EqualKeysDemandTheSame
  <2>5. Matches(a, in) <=> Matches(b, in)
    <3>1. a.kind \in {"exact", "prefix", "regex"}
      BY <2>2 DEF IsRule
    <3>2. CASE a.kind = "exact"
      BY <2>4, <3>2 DEF Matches
    <3>3. CASE a.kind = "prefix"
      BY <2>4, <3>3 DEF Matches
    <3>4. CASE a.kind = "regex"
      BY <2>2, <2>4, <3>4 DEF Matches
    <3> QED
      BY <3>1, <3>2, <3>3, <3>4
  <2> QED
    BY <2>5 DEF a, b, in
<1> QED
  BY Inductive, <1>1, PTL

-----------------------------------------------------------------------------
(* Every step of the router is one of RoutingPromise or a stutter.         *)

(* finalize makes of the route found the decision that is documented.      *)
LEMMA FinalizeIsReference ==
  ASSUME NEW w \in DOMAIN Worlds, NEW cfg \in Worlds[w].files, Valid(cfg),
         NEW in, IsRequest(in), NEW cs, Found(cfg, in, cs)
  PROVE  finalize(cfg, cs[1], in) = Reference(cfg, in)
<1> DEFINE route  == cs[1].route
           depth  == cs[1].depth
           i      == Min(Eligible(cfg, in))
           suffix == SubSeq(in.path, depth + 1, Len(in.path))
           rest   == SubSeq(in.path, Len(route.pattern) + 1, Len(in.path))
           res    == finalize(cfg, cs[1], in)
           named  == \A k \in DOMAIN route.mirrors : route.mirrors[k].upstream # None
<1>1. Usable(cfg) /\ None \notin DOMAIN cfg.upstreams
  BY ValidIsUsable
<1>2. /\ i \in DOMAIN cfg.routes /\ route = cfg.routes[i] /\ route.kind \in {"exact", "prefix", "regex"}
      /\ i \in Matching(cfg, in, route.kind)
  BY <1>1, FoundMatches
<1>3. /\ route.upstream \in DOMAIN cfg.upstreams
      /\ \A k \in DOMAIN route.mirrors : ValidMirror(cfg, route, route.mirrors[k])
  BY <1>2 DEF Valid, ValidRoute
<1>4. named <=> \A k \in DOMAIN route.mirrors : route.mirrors[k].upstream \in DOMAIN cfg.upstreams
  BY <1>1, <1>3 DEF ValidMirror
<1>5. Eligible(cfg, in) # {} /\ depth = IF route.kind = "prefix" THEN Len(route.pattern) ELSE Len(in.path)
  BY DEF Found
<1>6. CASE ~named
  <2>1. Reference(cfg, in) = Misconfigured
    BY <1>2, <1>5, <1>6 DEF Reference
  <2>2. res = Misconfigured
    BY <1>4, <1>6 DEF finalize
  <2> QED
    BY <2>1, <2>2
<1>7. CASE named
  <2>1. /\ res = [outcome  |-> "routed",
                  upstream |-> Resolve(cfg, route.upstream),
                  path     |-> res.path,
                  mirrors  |-> [k \in DOMAIN route.mirrors |-> cfg.upstreams[route.mirrors[k].upstream].host],
                  fallback |-> failoverTarget(cfg, route.upstream)]
        /\ res.outcome = "routed"
        /\ res.path = IF route.kind = "regex" THEN expandRegexRewrite(route.rewrite, route.matched[in.path])
                      ELSE effectiveRewrite(route) \o suffix
    BY <1>3, <1>4, <1>7 DEF finalize
  <2>2. failoverTarget(cfg, route.upstream) =
          {Resolve(cfg, u) : u \in {cfg.upstreams[route.upstream].fallback} \ {None}}
    BY <1>1, <1>3, FallbackIsTarget
  <2>3. /\ route.rewrite = None => res.path = in.path
        /\ route.kind = "regex" => res.path = Expansion(route.rewrite, route.matched[in.path])
    <3>1. finalize(cfg, cs[1], in).outcome = "routed"
      BY <2>1
    <3> HIDE DEF res
    <3>2. LET path == finalize(cfg, cs[1], in).path
          IN  /\ cs[1].route.rewrite = None => path = in.path
              /\ cs[1].route.kind = "regex" =>
                   path = Expansion(cs[1].route.rewrite, cs[1].route.matched[in.path])
      BY <1>1, <3>1, PathOfRouted
    <3> QED
      BY <3>2 DEF res
  <2>4. ASSUME route.kind # "regex" PROVE suffix = rest
    <3>1. CASE route.kind = "prefix"
      BY <1>5, <3>1
    <3>2. CASE route.kind = "exact"
      <4>1. Matches(route, in)
        BY <1>2 DEF Matching
      <4>2. route.pattern = in.path
        BY <3>2, <4>1 DEF Matches
      <4> QED
        BY <1>5, <3>2, <4>2
    <3> QED
      BY <1>2, <2>4, <3>1, <3>2
  <2>5. ASSUME route.rewrite # None, route.kind # "regex" PROVE res.path = route.rewrite \o rest
    BY <2>1, <2>4, <2>5 DEF effectiveRewrite
  <2>6. res.path = IF route.rewrite = None THEN in.path
                   ELSE IF route.kind = "regex" THEN Expansion(route.rewrite, route.matched[in.path])
                   ELSE route.rewrite \o rest
    BY <2>3, <2>5
  <2> HIDE DEF res
  <2>7. Reference(cfg, in) =
          [outcome  |-> "routed",
           upstream |-> Resolve(cfg, route.upstream),
           path     |-> IF route.rewrite = None THEN in.path
                        ELSE IF route.kind = "regex" THEN Expansion(route.rewrite, route.matched[in.path])
                        ELSE route.rewrite \o rest,
           mirrors  |-> [k \in DOMAIN route.mirrors |-> cfg.upstreams[route.mirrors[k].upstream].host],
           fallback |-> {Resolve(cfg, u) : u \in {cfg.upstreams[route.upstream].fallback} \ {None}}]
    BY <1>2, <1>5, <1>7 DEF Reference
  <2>8. res = Reference(cfg, in)
    BY <2>1, <2>2, <2>6, <2>7
  <2> QED
    BY <2>8 DEF res
<1> QED
  BY <1>6, <1>7

LEMMA NothingEligible ==
  ASSUME NEW cfg, NEW in, Eligible(cfg, in) = {}
  PROVE  Reference(cfg, in) = NotFound
BY DEF Reference

LEMMA PromisedFromTheStart == Init => Promise!Init
<1> SUFFICES ASSUME Init PROVE Promise!Init
  OBVIOUS
<1>1. PICK cfg \in Worlds[world].start : Valid(cfg) /\ index = newRouteIndex(cfg)
  BY DEF Init
<1>2. world \in DOMAIN Worlds /\ cfg \in Worlds[world].files
  BY RoutingAssumption DEF Init
<1>3. index.cfg = cfg /\ cfg \in ValidConfigs
  BY <1>1, <1>2, ValidIsUsable DEF ValidConfigs
<1>4. Stages = [r \in Requests |-> "idle"] /\ Decisions = [r \in Requests |-> Pending]
  BY DEF Init, Stages, Decisions
<1>5. result = [r \in Requests |-> Pending]
  BY DEF Init
<1> QED
  BY <1>3, <1>4, <1>5 DEF Promise!Init

(* A step of one request changes nothing of what is promised to others.    *)
LEMMA PromiseOfOthers ==
  ASSUME NEW r \in Requests, pc = [q \in Requests |-> pc[q]], NEW s,
         pc' = [pc EXCEPT ![r] = s], input' = input, \A q \in Requests \ {r} : idx'[q] = idx[q]
  PROVE  /\ Stages' = [Stages EXCEPT ![r] = Stages'[r]]
         /\ Decisions' = [Decisions EXCEPT ![r] = Decisions'[r]]
BY DEF Stages, Decisions

LEMMA ReloadPublishes ==
  ASSUME IInv, Reload
  PROVE  Promise!Publish
<1>1. PICK cfg \in Worlds[world].files : Valid(cfg) /\ index' = newRouteIndex(cfg)
  BY DEF Reload
<1>2. UNCHANGED <<pc, input, idx, result>>
  BY DEF Reload
<1>3. index'.cfg = cfg /\ cfg \in ValidConfigs
  BY <1>1, ValidIsUsable DEF IInv, TypeOK, ValidConfigs
<1>4. Stages' = Stages /\ Decisions' = Decisions
  BY <1>2 DEF Stages, Decisions
<1> QED
  BY <1>2, <1>3, <1>4 DEF Promise!Publish

LEMMA DecideRouteCalls ==
  ASSUME IInv, NEW r \in Requests, DecideRoute(r)
  PROVE  Promise!Call(r) \/ Promise!AnswerAtOnce(r)
<1>1. /\ pc[r] = "idle" /\ UNCHANGED <<index, input, idx>>
      /\ pc = [q \in Requests |-> pc[q]] /\ result = [q \in Requests |-> result[q]]
  BY DEF DecideRoute, IInv, TypeOK, Shape
<1>2. Stages[r] = "idle"
  BY <1>1 DEF Stages
<1>3. CASE input[r].path # <<>>
  <2>1. pc' = [pc EXCEPT ![r] = "load"] /\ UNCHANGED result
    BY <1>3 DEF DecideRoute
  <2>2. Stages'[r] = "called" /\ Decisions'[r] = Decisions[r]
    BY <1>1, <2>1 DEF Stages, Decisions
  <2>3. Stages' = [Stages EXCEPT ![r] = "called"] /\ Decisions' = Decisions
    <3>1. /\ Stages' = [Stages EXCEPT ![r] = Stages'[r]]
          /\ Decisions' = [Decisions EXCEPT ![r] = Decisions'[r]]
      BY <1>1, <2>1, PromiseOfOthers
    <3>2. Decisions = [q \in Requests |-> Decisions[q]]
      BY DEF Decisions
    <3> QED
      BY <2>2, <3>1, <3>2
  <2> QED
    BY <1>1, <1>2, <2>1, <2>3 DEF Promise!Call, Promise!Move
<1>4. CASE input[r].path = <<>>
  <2>1. pc' = [pc EXCEPT ![r] = "done"] /\ result' = [result EXCEPT ![r] = NotFound]
    BY <1>4 DEF DecideRoute, Return
  <2>2. \A cfg : Reference(cfg, input[r]) = NotFound
    BY <1>4, NothingEligible DEF Eligible
  <2>3. Stages'[r] = "answered" /\ Decisions'[r] = NotFound
    <3>1. pc'[r] = "done"
      BY <1>1, <2>1
    <3> QED
      BY <1>1, <2>2, <3>1 DEF Stages, Decisions
  <2>4. Stages' = [Stages EXCEPT ![r] = "answered"] /\ Decisions' = [Decisions EXCEPT ![r] = NotFound]
    BY <1>1, <2>1, <2>3, PromiseOfOthers
  <2>5. result' = [result EXCEPT ![r] = Decisions'[r]]
    BY <2>1, <2>3
  <2> QED
    BY <1>1, <1>2, <2>2, <2>4, <2>5 DEF Promise!AnswerAtOnce, Promise!Move
<1> QED
  BY <1>3, <1>4

LEMMA LoadIndexDecides ==
  ASSUME IInv, NEW r \in Requests, LoadIndex(r)
  PROVE  Promise!Decide(r)
<1>1. /\ pc[r] = "load" /\ pc' = [pc EXCEPT ![r] = "exact"] /\ idx' = [idx EXCEPT ![r] = index]
      /\ UNCHANGED <<index, input, result>>
      /\ pc = [q \in Requests |-> pc[q]] /\ idx = [q \in Requests |-> idx[q]]
  BY DEF LoadIndex, IInv, TypeOK, Shape
<1>2. Stages[r] = "called" /\ Stages'[r] = "decided" /\ Decisions'[r] = Reference(index.cfg, input[r])
  <2>1. pc'[r] = "exact" /\ idx'[r] = index
    BY <1>1
  <2> QED
    BY <1>1, <2>1 DEF Stages, Decisions
<1>3. \A q \in Requests \ {r} : idx'[q] = idx[q]
  BY <1>1
<1>4. /\ Stages' = [Stages EXCEPT ![r] = "decided"]
      /\ Decisions' = [Decisions EXCEPT ![r] = Reference(index.cfg, input[r])]
  BY <1>1, <1>2, <1>3, PromiseOfOthers
<1> QED
  BY <1>1, <1>2, <1>4 DEF Promise!Decide, Promise!Move

LEMMA MatchesKeepPromise ==
  ASSUME IInv, NEW r \in Requests, MatchExact(r) \/ MatchPrefix(r) \/ MatchRegex(r)
  PROVE  UNCHANGED <<index, input, Stages, Decisions, result>>
<1>1. PICK s \in {"prefix", "regex", "none", "finalize"} :
        /\ pc[r] \in {"exact", "prefix", "regex"} /\ pc' = [pc EXCEPT ![r] = s]
        /\ UNCHANGED <<index, input, idx, result>>
  BY DEF MatchExact, MatchPrefix, MatchRegex, Match
<1>2. pc = [q \in Requests |-> pc[q]]
  BY DEF IInv, TypeOK
<1>3. ASSUME NEW q \in Requests
      PROVE  /\ pc'[q] \in {"idle", "load", "done"} \/ pc[q] \in {"idle", "load", "done"} => pc'[q] = pc[q]
             /\ pc'[q] = pc[q] \/ {pc'[q], pc[q]} \cap {"idle", "load", "done"} = {}
  BY <1>1, <1>2
<1>4. Stages' = Stages /\ Decisions' = Decisions
  BY <1>1, <1>3 DEF Stages, Decisions
<1> QED
  BY <1>1, <1>4

LEMMA ReturnAnswers ==
  ASSUME IInv, NEW r \in Requests, Finalize(r) \/ NoRoute(r)
  PROVE  Promise!Answer(r)
<1>1. PICK res : Return(r, res) /\ res = Reference(idx[r].cfg, input[r])
  <2>1. CASE NoRoute(r)
    <3>1. Return(r, NotFound) /\ pc[r] = "none"
      BY <2>1 DEF NoRoute
    <3>2. Eligible(idx[r].cfg, input[r]) = {}
      BY <3>1 DEF IInv, Tried
    <3> QED
      BY <3>1, <3>2, NothingEligible
  <2>2. CASE Finalize(r)
    <3>1. pc[r] = "finalize" /\ Return(r, finalize(idx[r].cfg, Head(found[r]), input[r]))
      BY <2>2 DEF Finalize
    <3>2. Found(idx[r].cfg, input[r], found[r])
      BY <3>1 DEF IInv, Tried
    <3>3. Head(found[r]) = found[r][1]
      BY <3>2 DEF Found
    <3>4. world \in DOMAIN Worlds /\ idx[r].cfg \in Worlds[world].files /\ Valid(idx[r].cfg)
      BY DEF IInv, TypeOK, Indexes, Compiled
    <3>5. IsRequest(input[r])
      BY InputIsRequest DEF IInv
    <3>6. finalize(idx[r].cfg, found[r][1], input[r]) = Reference(idx[r].cfg, input[r])
      BY <3>2, <3>4, <3>5, FinalizeIsReference
    <3> QED
      BY <3>1, <3>3, <3>6
  <2> QED
    BY <2>1, <2>2
<1>2. /\ pc[r] \in {"finalize", "none"} /\ pc' = [pc EXCEPT ![r] = "done"]
      /\ result' = [result EXCEPT ![r] = res] /\ UNCHANGED <<index, input, idx>>
      /\ pc = [q \in Requests |-> pc[q]]
  BY <1>1 DEF Finalize, NoRoute, Return, IInv, TypeOK
<1>3. Stages[r] = "decided" /\ Stages'[r] = "answered" /\ Decisions[r] = res /\ Decisions'[r] = Decisions[r]
  <2>1. pc'[r] = "done"
    BY <1>2
  <2> QED
    BY <1>1, <1>2, <2>1 DEF Stages, Decisions
<1>4. Stages' = [Stages EXCEPT ![r] = "answered"] /\ Decisions' = Decisions
  <2>1. /\ Stages' = [Stages EXCEPT ![r] = Stages'[r]]
        /\ Decisions' = [Decisions EXCEPT ![r] = Decisions'[r]]
    BY <1>2, PromiseOfOthers
  <2>2. Decisions = [q \in Requests |-> Decisions[q]]
    BY DEF Decisions
  <2> QED
    BY <1>3, <2>1, <2>2
<1> QED
  BY <1>2, <1>3, <1>4 DEF Promise!Answer, Promise!Move

(* The router implements RoutingPromise: whatever reloads come between the *)
(* steps of a request, its answer is the whole documented decision of one  *)
(* configuration, the one published when the call loaded the index.        *)
THEOREM KeepsRoutingPromiseHolds == Spec => KeepsRoutingPromise
<1>1. IInv /\ [Next]_vars => [Promise!Next]_(Promise!vars)
  <2> SUFFICES ASSUME IInv, [Next]_vars PROVE [Promise!Next]_(Promise!vars)
    OBVIOUS
  <2>1. CASE Reload
    BY <2>1, ReloadPublishes DEF Promise!Next
  <2>2. ASSUME NEW r \in Requests, Decide(r) PROVE [Promise!Next]_(Promise!vars)
    <3>1. CASE DecideRoute(r)
      BY <3>1, DecideRouteCalls DEF Promise!Next
    <3>2. CASE LoadIndex(r)
      BY <3>2, LoadIndexDecides DEF Promise!Next
    <3>3. CASE MatchExact(r) \/ MatchPrefix(r) \/ MatchRegex(r)
      BY <3>3, MatchesKeepPromise DEF Promise!vars
    <3>4. CASE Finalize(r) \/ NoRoute(r)
      BY <3>4, ReturnAnswers DEF Promise!Next
    <3> QED
      BY <2>2, <3>1, <3>2, <3>3, <3>4 DEF Decide
  <2>3. CASE UNCHANGED vars
    BY <2>3 DEF vars, Promise!vars, Stages, Decisions
  <2> QED
    BY <2>1, <2>2, <2>3 DEF Next
<1> QED
  BY Inductive, PromisedFromTheStart, <1>1, PTL DEF Spec, KeepsRoutingPromise, Promise!Spec
=============================================================================
