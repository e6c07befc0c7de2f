------------------------------ MODULE Routing -------------------------------
(***************************************************************************)
(* The routing decision (internal/routing/routing.go and trie.go).         *)
(* newRouteIndex compiles a configuration into an immutable index, a       *)
(* reload publishes a new one with one atomic store, and DecideRoute loads *)
(* the index once and matches the request against it: an exact path, else  *)
(* the longest prefix, else the first regex.                               *)
(*                                                                         *)
(* A path is a sequence of characters. A regex is its text and a function  *)
(* from the paths it matches to what it captures in them. What a rule      *)
(* demands apart from the path is in Conditions.                           *)
(*                                                                         *)
(* An operator whose name starts with Mutant is no part of the             *)
(* specification: it is a plausible bug in the definition that follows it, *)
(* kept to show that a property notices it.                                *)
(***************************************************************************)
EXTENDS Conditions

CONSTANTS
  Requests,    (* the requests being routed, concurrently                  *)
  Names,       (* names of upstreams                                       *)
  Worlds,      (* bound: what there is to be routed, and with what         *)
  MaxReloads   (* bound: configurations published                          *)

(* A rule sets exactly one of path, path-prefix and regex (validateRule).  *)
IsRoute(route) ==
  /\ IsRule(route)
  /\ route.upstream \in Names
  /\ \A i \in DOMAIN route.mirrors :
       route.mirrors[i].upstream \in Names \cup {None} /\ route.mirrors[i].ratio \in Nat

(* A world is the configurations that the proxy may start with, those the  *)
(* file may hold later, and the requests there may be. What a regex        *)
(* matches depends on its text alone.                                      *)
ASSUME RoutingAssumption ==
  /\ None \notin Names
  /\ MaxReloads \in Nat
  /\ \A w \in DOMAIN Worlds :
       /\ \A in \in Worlds[w].inputs : IsRequest(in)
       /\ Worlds[w].start \subseteq Worlds[w].files
       /\ \A cfg \in Worlds[w].files :
            /\ DOMAIN cfg.upstreams \subseteq Names
            /\ cfg.routes \in Seq(Range(cfg.routes))
            /\ \A i \in DOMAIN cfg.routes : IsRoute(cfg.routes[i])
            /\ \A i, j \in DOMAIN cfg.routes :
                 LET a == cfg.routes[i]
                     b == cfg.routes[j]
                 IN  a.kind = "regex" /\ b.kind = "regex" /\ a.pattern = b.pattern =>
                       a.matched = b.matched

-----------------------------------------------------------------------------
(* Validate. The search for cycles is in MirrorCycles; the checks of the   *)
(* syntax of paths, names, hosts and addresses refuse what the model's     *)
(* values cannot express.                                                  *)

ValidUpstreams(cfg) ==
  /\ DOMAIN cfg.upstreams # {}
  /\ \A u \in DOMAIN cfg.upstreams :
       LET fallback == cfg.upstreams[u].fallback
       IN  fallback # None => fallback \in DOMAIN cfg.upstreams /\ fallback # u

(* validateMirror: a mirror without a name is let through if its ratio is  *)
(* not set either.                                                         *)
ValidMirror(cfg, route, mirror) ==
  IF mirror.upstream = None
  THEN mirror.ratio = 0
  ELSE /\ mirror.upstream \in DOMAIN cfg.upstreams
       /\ mirror.upstream # route.upstream
       /\ mirror.ratio <= 1

MutantValidRoute(cfg, route) ==
  /\ validateRule(route)
  /\ \A i \in DOMAIN route.mirrors : ValidMirror(cfg, route, route.mirrors[i])

ValidRoute(cfg, route) ==
  /\ route.upstream \in DOMAIN cfg.upstreams
  /\ validateRule(route)
  /\ \A i \in DOMAIN route.mirrors : ValidMirror(cfg, route, route.mirrors[i])

Valid(cfg) ==
  /\ ValidUpstreams(cfg)
  /\ cfg.routes # <<>>
  /\ \A i \in DOMAIN cfg.routes : ValidRoute(cfg, cfg.routes[i])
  /\ \A i, j \in DOMAIN cfg.routes :
       dedupKey(cfg.routes[i]) = dedupKey(cfg.routes[j]) => i = j

-----------------------------------------------------------------------------
(* newRouteIndex: one pass over the routes.                                *)

(* The routes at a key of a map or at a node of the trie, if there are any.*)
Listed(table, key) == IF key \in DOMAIN table THEN table[key] ELSE <<>>

(* The keys are there afterwards, and the route is behind those that are   *)
(* at its own.                                                             *)
Enter(table, keys, route) ==
  [key \in DOMAIN table \cup keys |->
     Listed(table, key) \o (IF key = route.pattern THEN <<route>> ELSE <<>>)]

(* trie.insert: the nodes on the way to the prefix are created if missing. *)
(* A node is named by the prefix that ends at it.                          *)
insert(trie, route) == Enter(trie, Prefixes(route.pattern), route)

newTrie == [node \in {<<>>} |-> <<>>]

AddRoute(idx, route) ==
  CASE route.kind = "exact"  -> [idx EXCEPT !.exact  = Enter(@, {route.pattern}, route)]
    [] route.kind = "prefix" -> [idx EXCEPT !.prefix = insert(@, route)]
    [] route.kind = "regex"  -> [idx EXCEPT !.regex  = Append(@, route)]

newRouteIndex(cfg) ==
  LET empty == [cfg |-> cfg, exact |-> [path \in {} |-> <<>>], prefix |-> newTrie, regex |-> <<>>]
      index[n \in 0 .. Len(cfg.routes)] ==
        IF n = 0 THEN empty ELSE AddRoute(index[n - 1], cfg.routes[n])
  IN  index[Len(cfg.routes)]

-----------------------------------------------------------------------------
(* DecideRoute. A candidate is the winning route and the length of the     *)
(* path it accounts for; no candidate is the empty sequence.               *)

(* The first of the routes that Test accepts, as a candidate.              *)
First(routes, depth, Test(_)) ==
  LET i == SelectInSeq(routes, Test)
  IN  IF i = 0 THEN <<>> ELSE <<[route |-> routes[i], depth |-> depth]>>

matchExact(idx, in) ==
  First(Listed(idx.exact, in.path), Len(in.path), LAMBDA route : matchConditions(route, in))

MutantMatchPrefix(idx, in) ==
  LET nodes  == {node \in DOMAIN idx.prefix : IsPrefix(node, in.path) /\ idx.prefix[node] # <<>>}
      longest == CHOOSE node \in nodes : \A other \in nodes : Len(other) <= Len(node)
  IN  IF nodes = {} THEN <<>>
      ELSE First(idx.prefix[longest], Len(longest), LAMBDA route : matchConditions(route, in))

(* trieNode.match: the child on the path is asked first, then the routes   *)
(* of the node itself.                                                     *)
matchPrefix(idx, in) ==
  LET match[depth \in 0 .. Len(in.path)] ==
        LET node  == SubSeq(in.path, 1, depth)
            below == IF depth < Len(in.path) /\ SubSeq(in.path, 1, depth + 1) \in DOMAIN idx.prefix
                     THEN match[depth + 1] ELSE <<>>
        IN  IF below # <<>> THEN below
            ELSE First(idx.prefix[node], depth, LAMBDA route : matchConditions(route, in))
  IN  match[0]

matchRegex(idx, in) ==
  First(idx.regex, Len(in.path),
        LAMBDA route : matchConditions(route, in) /\ in.path \in DOMAIN route.matched)

MutantEffectiveRewrite(route) == IF route.rewrite # None THEN route.rewrite ELSE <<>>

effectiveRewrite(route) == IF route.rewrite # None THEN route.rewrite ELSE route.pattern

(* upstreamTimeout and the host of a named upstream.                       *)
Resolve(cfg, name) ==
  [name |-> name, host |-> cfg.upstreams[name].host, timeout |-> cfg.upstreams[name].timeout]

failoverTarget(cfg, name) ==
  LET fallback == cfg.upstreams[name].fallback
  IN  IF fallback \in DOMAIN cfg.upstreams THEN {Resolve(cfg, fallback)} ELSE {}

NotFound      == [outcome |-> "not found"]
Misconfigured == [outcome |-> "misconfigured"]

(* finalize: fails if the upstream or a mirror has no host.                *)
finalize(cfg, c, in) ==
  LET route  == c.route
      suffix == SubSeq(in.path, c.depth + 1, Len(in.path))
  IN  IF /\ route.upstream \in DOMAIN cfg.upstreams
         /\ \A i \in DOMAIN route.mirrors : route.mirrors[i].upstream \in DOMAIN cfg.upstreams
      THEN [outcome  |-> "routed",
            upstream |-> Resolve(cfg, route.upstream),
            path     |-> IF route.kind = "regex"
                         THEN expandRegexRewrite(route.rewrite, route.matched[in.path])
                         ELSE effectiveRewrite(route) \o suffix,
            mirrors  |-> [i \in DOMAIN route.mirrors |->
                            cfg.upstreams[route.mirrors[i].upstream].host],
            fallback |-> failoverTarget(cfg, route.upstream)]
      ELSE Misconfigured

-----------------------------------------------------------------------------
VARIABLES
  world,      (* which of the worlds this is                               *)
  index,      (* atomicIndex                                               *)
  reloads,    (* number of configurations published since the start        *)
  pc,         (* where DecideRoute is for each request                     *)
  input,      (* the request                                               *)
  idx,        (* the index DecideRoute has loaded                          *)
  found,      (* the candidate, if one was found                           *)
  result,     (* what DecideRoute returned                                 *)
  current     (* history: the configurations published at some time since  *)
              (* DecideRoute was called                                    *)

vars == <<world, index, reloads, pc, input, idx, found, result, current>>

Pending == [outcome |-> "pending"]

Init ==
  /\ world   \in DOMAIN Worlds
  /\ index   \in {newRouteIndex(cfg) : cfg \in {c \in Worlds[world].start : Valid(c)}}
  /\ reloads = 0
  /\ pc      = [r \in Requests |-> "idle"]
  /\ input   \in [Requests -> Worlds[world].inputs]
  /\ idx     = [r \in Requests |-> index]
  /\ found   = [r \in Requests |-> <<>>]
  /\ result  = [r \in Requests |-> Pending]
  /\ current = [r \in Requests |-> {}]

(* A reload reads a configuration and publishes it if it is valid.         *)
Reload ==
  /\ reloads < MaxReloads
  /\ \E cfg \in Worlds[world].files :
       /\ Valid(cfg)
       /\ index'   = newRouteIndex(cfg)
       /\ current' = [r \in Requests |->
                        IF pc[r] \in {"idle", "done"} THEN current[r] ELSE current[r] \cup {cfg}]
  /\ reloads' = reloads + 1
  /\ UNCHANGED <<world, pc, input, idx, found, result>>

Return(r, res) ==
  /\ result' = [result EXCEPT ![r] = res]
  /\ pc'     = [pc EXCEPT ![r] = "done"]

(* ServeHTTP calls DecideRoute, which refuses an empty path.               *)
DecideRoute(r) ==
  /\ pc[r] = "idle"
  /\ current' = [current EXCEPT ![r] = {index.cfg}]
  /\ IF input[r].path = <<>>
     THEN Return(r, NotFound)
     ELSE pc' = [pc EXCEPT ![r] = "load"] /\ UNCHANGED result
  /\ UNCHANGED <<world, index, reloads, input, idx, found>>

MutantLoadIndex(r) ==
  /\ pc[r] = "load"
  /\ pc' = [pc EXCEPT ![r] = "exact"]
  /\ UNCHANGED <<world, index, reloads, input, idx, found, result, current>>

LoadIndex(r) ==
  /\ pc[r] = "load"
  /\ idx' = [idx EXCEPT ![r] = index]
  /\ pc'  = [pc EXCEPT ![r] = "exact"]
  /\ UNCHANGED <<world, index, reloads, input, found, result, current>>

MutantMatch(r, kind, c, next) ==
  /\ pc[r] = kind
  /\ found' = [found EXCEPT ![r] = @ \o c]
  /\ pc'    = [pc EXCEPT ![r] = IF next = "none" /\ found'[r] # <<>> THEN "finalize" ELSE next]
  /\ UNCHANGED <<world, index, reloads, input, idx, result, current>>

(* One kind of match: the candidate c, or on to the next kind.             *)
Match(r, kind, c, next) ==
  /\ pc[r] = kind
  /\ found' = [found EXCEPT ![r] = c]
  /\ pc'    = [pc EXCEPT ![r] = IF c # <<>> THEN "finalize" ELSE next]
  /\ UNCHANGED <<world, index, reloads, input, idx, result, current>>

MatchExact(r)  == Match(r, "exact", matchExact(idx[r], input[r]), "prefix")
MatchPrefix(r) == Match(r, "prefix", matchPrefix(idx[r], input[r]), "regex")
MatchRegex(r)  == Match(r, "regex", matchRegex(idx[r], input[r]), "none")

MutantFinalize(r) ==
  /\ pc[r] = "finalize"
  /\ Return(r, finalize(index.cfg, Head(found[r]), input[r]))
  /\ UNCHANGED <<world, index, reloads, input, idx, found, current>>

Finalize(r) ==
  /\ pc[r] = "finalize"
  /\ Return(r, finalize(idx[r].cfg, Head(found[r]), input[r]))
  /\ UNCHANGED <<world, index, reloads, input, idx, found, current>>

NoRoute(r) ==
  /\ pc[r] = "none"
  /\ Return(r, NotFound)
  /\ UNCHANGED <<world, index, reloads, input, idx, found, current>>

Decide(r) ==
  \/ DecideRoute(r) \/ LoadIndex(r)
  \/ MatchExact(r) \/ MatchPrefix(r) \/ MatchRegex(r)
  \/ Finalize(r) \/ NoRoute(r)

Next == Reload \/ \E r \in Requests : Decide(r)

Spec == Init /\ [][Next]_vars

-----------------------------------------------------------------------------
(* The documented precedence, stated over the list of routes (docs/        *)
(* configuration.md, Match precedence; routing_diff_test.go, the oracle    *)
(* referenceDecide).                                                       *)

Matches(route, in) ==
  /\ Met(route, in)
  /\ CASE route.kind = "exact"  -> route.pattern = in.path
       [] route.kind = "prefix" -> IsPrefix(route.pattern, in.path)
       [] route.kind = "regex"  -> in.path \in DOMAIN route.matched

Matching(cfg, in, kind) ==
  {i \in DOMAIN cfg.routes : cfg.routes[i].kind = kind /\ Matches(cfg.routes[i], in)}

LongestPrefixes(cfg, in) ==
  LET prefixes == Matching(cfg, in, "prefix")
  IN  {i \in prefixes : \A j \in prefixes : Len(cfg.routes[j].pattern) <= Len(cfg.routes[i].pattern)}

(* The routes of the first group that is not empty, in config order.       *)
Eligible(cfg, in) ==
  IF in.path = <<>> THEN {}
  ELSE IF Matching(cfg, in, "exact") # {}  THEN Matching(cfg, in, "exact")
  ELSE IF Matching(cfg, in, "prefix") # {} THEN LongestPrefixes(cfg, in)
  ELSE Matching(cfg, in, "regex")

(* The whole decision: the first eligible route's upstream, mirrors and    *)
(* fallback, and what its rewrite makes of the path; without a rewrite the *)
(* path stays. A mirror entry that names no upstream, which the            *)
(* documentation does not allow, makes its route useless.                  *)
Reference(cfg, in) ==
  LET eligible  == Eligible(cfg, in)
      route     == cfg.routes[Min(eligible)]
      upstreams == cfg.upstreams
  IN  IF eligible = {} THEN NotFound
      ELSE IF \E i \in DOMAIN route.mirrors : route.mirrors[i].upstream = None THEN Misconfigured
      ELSE [outcome  |-> "routed",
            upstream |-> Resolve(cfg, route.upstream),
            path     |-> IF route.rewrite = None THEN in.path
                         ELSE IF route.kind = "regex"
                         THEN Expansion(route.rewrite, route.matched[in.path])
                         ELSE route.rewrite \o
                                SubSeq(in.path, Len(route.pattern) + 1, Len(in.path)),
            mirrors  |-> [i \in DOMAIN route.mirrors |-> upstreams[route.mirrors[i].upstream].host],
            fallback |-> {Resolve(cfg, u) : u \in {upstreams[route.upstream].fallback} \ {None}}]

(* Properties.                                                             *)

(* Every variable of the router keeps its type.                            *)
TypeOK ==
  /\ world \in DOMAIN Worlds /\ index.cfg \in Worlds[world].files
  /\ reloads \in 0 .. MaxReloads
  /\ pc \in [Requests -> {"idle", "load", "exact", "prefix", "regex", "finalize", "none", "done"}]
  /\ input \in [Requests -> Worlds[world].inputs]
  /\ \A r \in Requests :
       /\ idx[r].cfg \in Worlds[world].files
       /\ Len(found[r]) <= 1
       /\ result[r].outcome \in {"pending", "not found", "misconfigured", "routed"}
       /\ current[r] \subseteq Worlds[world].files

(* The compiled index decides as the documentation says, for every         *)
(* configuration and request: the route found is the one a scan of the     *)
(* list of routes would pick, and none is found only if none matches.      *)
MatchesReference ==
  \A r \in Requests :
    LET routes   == idx[r].cfg.routes
        eligible == Eligible(idx[r].cfg, input[r])
    IN  /\ pc[r] = "finalize" => eligible # {} /\ found[r][1].route = routes[Min(eligible)]
        /\ pc[r] = "none" => eligible = {}

(* Rules that are refused for nothing but being duplicates of each other   *)
(* match the same requests, so that no route is refused that would have    *)
(* been of use. The key joins its parts with bars: a bar in a pattern, in  *)
(* a header or in a host can make two different rules look the same. (What *)
(* there is to compare is the same in all states of a behaviour.)          *)
Comparable(rule) == validateRule(rule) /\ NoBar(rule)

DuplicatesAreEqual ==
  \A r \in {q \in Requests : pc[q] = "idle"}, cfg \in Worlds[world].files :
    \A i, j \in DOMAIN cfg.routes :
      LET a == cfg.routes[i]
          b == cfg.routes[j]
      IN  dedupKey(a) = dedupKey(b) /\ Comparable(a) /\ Comparable(b) =>
            (Matches(a, input[r]) <=> Matches(b, input[r]))

(* A request never sees a half-applied configuration (README.md:94): one   *)
(* configuration, in force at some moment during the call, explains the    *)
(* whole decision: route, host, timeout, mirrors and fallback.             *)
OneSnapshot ==
  \A r \in Requests :
    result[r].outcome = "routed" =>
      \E cfg \in current[r] :
        LET upstreams == cfg.upstreams
            eligible  == Eligible(cfg, input[r])
            route     == cfg.routes[Min(eligible)]
        IN  /\ eligible # {}
            /\ route.upstream \in DOMAIN upstreams
            /\ result[r].upstream = Resolve(cfg, route.upstream)
            /\ result[r].mirrors =
                 [i \in DOMAIN route.mirrors |-> upstreams[route.mirrors[i].upstream].host]
            /\ result[r].fallback =
                 {Resolve(cfg, u) : u \in {upstreams[route.upstream].fallback} \ {None}}

(* A valid configuration serves every request one of its routes matches:   *)
(* validation leaves nothing for finalize to fail on.                      *)
EveryMatchServed == \A r \in Requests : result[r].outcome # "misconfigured"

(* The same of configurations with a mirror entry that names no upstream,  *)
(* which is required (configuration.md, routes[].mirrors[]). With a ratio  *)
(* of 0 such an entry is accepted, and its route fails every request.      *)
AcceptedIsServed == EveryMatchServed

-----------------------------------------------------------------------------
(* The router implements RoutingPromise: a request is decided when its     *)
(* call loads the index.                                                   *)
ValidConfigs == {cfg \in UNION {Worlds[w].files : w \in DOMAIN Worlds} : Valid(cfg)}

Stages ==
  [r \in Requests |->
     CASE pc[r] = "idle" -> "idle"     [] pc[r] = "load" -> "called"
       [] pc[r] = "done" -> "answered" [] OTHER          -> "decided"]

Decisions ==
  [r \in Requests |->
     IF pc[r] \in {"idle", "load"} THEN Pending ELSE Reference(idx[r].cfg, input[r])]

Promise ==
  INSTANCE RoutingPromise WITH
    Configs <- ValidConfigs, Decision <- Reference,
    config  <- index.cfg, stage <- Stages, decision <- Decisions, answer <- result

(* Every decision of the router, however a reload falls between its steps, *)
(* is the whole decision that the documentation has one configuration      *)
(* make, at one moment between the call of DecideRoute and its return      *)
(* (Router.DecideRoute, atomicIndex): nothing of an older configuration,   *)
(* nothing of two, and no answer changes afterwards.                       *)
KeepsRoutingPromise == Promise!Spec
=============================================================================
