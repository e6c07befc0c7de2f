----------------------------- MODULE MCRouting ------------------------------
(***************************************************************************)
(* Instances of Routing for TLC: routes that compete for a request, in     *)
(* every pair; and for each kind of condition, and for the rewrites, every *)
(* pair of rules that differ in it.                                        *)
(***************************************************************************)
EXTENDS Routing

CONSTANTS u1, u2

S == "s"
T == "t"
G == "g"
O == "o"

AllPaths == {<<>>, <<S>>, <<T>>, <<S, T>>, <<S, T, S>>}

AllStrings == STRING

TwoBits == [family \in {"v4", "v6"} |-> 2]

Capitals == [name \in {"Tier", "Example"} |-> IF name = "Tier" THEN "tier" ELSE "example"]

Rule(kind, pattern, matched, rewrite) ==
  [kind |-> kind, pattern |-> pattern, matched |-> matched, rewrite |-> rewrite,
   method |-> None, headers |-> <<>>, hosts |-> <<>>, cidrs |-> <<>>]

Route(rule, upstream, mirrors) == rule @@ [upstream |-> upstream, mirrors |-> mirrors]

Exact(path)                 == Rule("exact", path, <<>>, None)
Prefix(prefix, rewrite)     == Rule("prefix", prefix, <<>>, rewrite)
Regex(text, paths, rewrite) ==
  Rule("regex", <<text>>, [p \in paths |-> [d \in {"0"} |-> p]], rewrite)

WithHeader(name, op, value) == [name |-> name, op |-> op, value |-> value]

ForMembers(rule) == [rule EXCEPT !.headers = <<WithHeader("Tier", "", <<G>>)>>]

MirrorTo(u) == <<[upstream |-> u, ratio |-> 1]>>

Upstream(host, timeout, fallback) == [host |-> host, timeout |-> timeout, fallback |-> fallback]

Before == [u \in {u1, u2} |-> Upstream(<<u, "before">>, 1, IF u = u1 THEN u2 ELSE None)]
After  == [u \in {u1} |-> Upstream(<<u, "after">>, 2, None)]

Config(routes) == [upstreams |-> Before, routes |-> routes]

NoHeaders == [n \in {} |-> {}]

Request(path) ==
  [path |-> path, method |-> "GET", headers |-> NoHeaders,
   host |-> [labels |-> <<"example">>, form |-> "plain"],
   peer |-> [family |-> "v4", bits |-> <<"0", "0">>, zone |-> FALSE]]

MemberRequest(path) == [Request(path) EXCEPT !.headers = [n \in {"tier"} |-> {<<G>>}]]

-----------------------------------------------------------------------------
(* Every pair of routes, and with the second table of upstreams one route: *)
(* those to u2 are refused then.                                           *)
Pool ==
  { Route(ForMembers(Exact(<<S, T>>)), u1, <<>>),
    Route(Prefix(<<S>>, None), u2, <<>>),
    Route(ForMembers(Prefix(<<S>>, None)), u1, MirrorTo(u2)),
    Route(ForMembers(Prefix(<<S, T>>, <<T>>)), u1, <<>>),
    Route(Regex("s?t", {<<T>>, <<S, T>>}, <<S>>), u1, <<>>),
    Route(ForMembers(Regex("t", {<<T>>}, None)), u2, <<>>),
    Route(ForMembers(Regex("t|s", {<<T>>, <<S>>}, <<T>>)), u2, <<>>) }

Competing ==
  {Config(<<a>>) : a \in Pool} \cup {Config(<<a, b>>) : a, b \in Pool}
    \cup {[upstreams |-> After, routes |-> <<a>>] : a \in Pool}

Competition ==
  [start  |-> Competing,
   files  |-> Competing,
   inputs |-> {Request(p) : p \in AllPaths} \cup {MemberRequest(p) : p \in AllPaths}]

-----------------------------------------------------------------------------
(* Rules that differ in one condition. The second table of headers is the  *)
(* one that a bar makes the same as a header value.                        *)

HeaderLists ==
  { <<>>,
    <<WithHeader("tier", "", <<>>)>>, <<WithHeader("Tier", "present", <<>>)>>,
    <<WithHeader("tier", "present", <<G>>)>>, <<WithHeader("tier", "", <<G>>)>>,
    <<WithHeader("Tier", "equals", <<G>>)>>, <<WithHeader("tier", "prefix", <<G>>)>>,
    <<WithHeader("tier", "contains", <<G>>)>>, <<WithHeader("tier", "contains", <<G, O>>)>>,
    <<WithHeader("tier", "prefix", <<>>)>>, <<WithHeader("tier", "suffix", <<G>>)>>,
    <<WithHeader("tier", "equals", <<G>>), WithHeader("team", "present", <<>>)>>,
    <<WithHeader("tier", "equals", <<G, Bar, "team", "=", "present", ":">>)>>,
    <<WithHeader("tier", "equals", <<G>>), WithHeader("Tier", "prefix", <<O>>)>> }

HeaderInputs ==
  { NoHeaders, [n \in {"team"} |-> {<<O>>}], [n \in {"tier", "team"} |-> {<<G>>}] }
    \cup {[n \in {"tier"} |-> values] :
            values \in {{<<>>}, {<<G>>}, {<<G, O>>}, {<<O, G>>}, {<<O, G, O>>},
                        {<<O>>, <<G>>}, {<<G, Bar, "team", "=", "present", ":">>}}}

WithHost(wild, labels) == [wild |-> wild, labels |-> labels]

HostLists ==
  { <<>>, <<WithHost(FALSE, <<"">>)>>, <<WithHost(TRUE, <<"*", "com">>)>>, <<WithHost(TRUE, <<"">>)>>,
    <<WithHost(FALSE, <<"example", "com">>)>>, <<WithHost(FALSE, <<"Example", "com">>)>>,
    <<WithHost(TRUE, <<"example", "com">>)>>, <<WithHost(TRUE, <<"com">>)>>,
    <<WithHost(FALSE, <<"com">>), WithHost(TRUE, <<"Example", "com">>)>> }

HostInputs ==
  {[labels |-> labels, form |-> form] :
     labels \in {<<"com">>, <<"example", "com">>, <<"Example", "com">>, <<"a", "example", "com">>,
                 <<"a", "b", "Example", "com">>, <<"", "example", "com">>,
                 <<"", "", "example", "com">>, <<"example", "com", "">>},
     form   \in {"plain", "port"}}

Network(family, bits, length) == [family |-> family, bits |-> bits, length |-> length]

CIDRLists ==
  {<<>>, <<Network("v4", <<"0", "0">>, 2), Network("v6", <<"1", "0">>, 1)>>}
    \cup {<<Network(f, <<"0", bit>>, n)>> : f \in {"v4", "v6"}, bit \in {"0", "1"}, n \in 0 .. 2}

PeerInputs ==
  {[family |-> f, bits |-> <<b1, b2>>, zone |-> z] :
     f \in {"v4", "v6"}, b1 \in {"0", "1"}, b2 \in {"0", "1"}, z \in BOOLEAN}

Base == Prefix(<<S>>, None)

ByHeaders == {[Base EXCEPT !.headers = l] : l \in HeaderLists}
ByHosts   == {[Base EXCEPT !.hosts   = l] : l \in HostLists}
ByCIDRs   == {[Base EXCEPT !.cidrs   = l] : l \in CIDRLists}
ByMethod  == {[Base EXCEPT !.method  = m] : m \in {None, "GET", "POST", "get"}}

(* Templates of a regex whose first group is the second character and      *)
(* whose second group takes no part.                                       *)
Templates ==
  { <<S>>, <<"$", "0", "$", "1">>, <<"$", "$", "1">>, <<"$", "$", "$", "1", "$">>,
    <<"$", "1", "0">>, <<"$", "2", T>>, <<"$", S, "$", "1">>, <<T, "$", "$", "$", "$">>, None }

ByTemplate ==
  {Rule("regex", <<"s(t)|(x)">>, (<<S, T>> :> ("0" :> <<S, T>> @@ "1" :> <<T>>)), t) :
     t \in Templates}

(* One world per rule: the rule alone, then with each of the others.       *)
Kind(rules, inputs) == [rules |-> rules, inputs |-> inputs]

RuleKinds ==
  [headers  |-> Kind(ByHeaders, {[Request(<<S>>) EXCEPT !.headers = x] : x \in HeaderInputs}),
   hosts    |-> Kind(ByHosts,   {[Request(<<S>>) EXCEPT !.host = x]    : x \in HostInputs}),
   cidrs    |-> Kind(ByCIDRs,   {[Request(<<S>>) EXCEPT !.peer = x]    : x \in PeerInputs}),
   method   |-> Kind(ByMethod,  {[Request(<<S>>) EXCEPT !.method = x]  : x \in Methods}),
   template |-> Kind(ByTemplate, {Request(<<S, T>>), Request(<<S>>)})]

World(kind, rule) ==
  LET alone == Config(<<Route(rule, u1, <<>>)>>)
  IN  [start  |-> {alone},
       files  |-> {alone} \cup
                    {Config(<<Route(rule, u1, <<>>), Route(other, u2, <<>>)>>) : other \in kind.rules},
       inputs |-> kind.inputs]

Rules == UNION {{<<k, rule>> : rule \in RuleKinds[k].rules} : k \in DOMAIN RuleKinds}

WorldTable ==
  (<<"competition", Base>> :> Competition) @@ [w \in Rules |-> World(RuleKinds[w[1]], w[2])]

(* A name of its own: TLC evaluates it once.                               *)
AllWorlds == WorldTable

-----------------------------------------------------------------------------
(* A mirror entry without a name.                                          *)
EmptyMirrors ==
  {Config(<<Route(Prefix(prefix, None), u1, <<[upstream |-> m, ratio |-> ratio]>>)>>) :
     prefix \in {<<S>>, <<S, T>>}, m \in {u2, None}, ratio \in {0, 1}}

EmptyMirrorWorlds ==
  ("mirrors" :> [start  |-> EmptyMirrors, files |-> EmptyMirrors,
                 inputs |-> {Request(p) : p \in AllPaths}])
=============================================================================
