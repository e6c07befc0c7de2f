---------------------------- MODULE Conditions -----------------------------
(***************************************************************************)
(* What a rule demands of a request apart from its path, and what it makes *)
(* of the path: matchConditions and expandRegexRewrite                     *)
(* (internal/routing/routing.go), the checks of validateRule and the key   *)
(* by which duplicates are found (internal/config/config.go). Routing uses *)
(* these operators; the reference definitions at the end are what the      *)
(* documentation says.                                                     *)
(*                                                                         *)
(* A text (a path, a header value, a template) is a sequence of            *)
(* characters. A host is the sequence of the labels between its dots, an   *)
(* address a family and a sequence of bits.                                *)
(*                                                                         *)
(* An operator whose name starts with Mutant is no part of the             *)
(* specification: it is a plausible bug in the definition that follows it, *)
(* kept to show that a property notices it.                                *)
(***************************************************************************)
EXTENDS Naturals, Sequences, SequencesExt

CONSTANTS
  None,      (* no name, no path, no method                                *)
  Symbols,   (* characters, labels of hosts, names                         *)
  Folded,    (* names with capitals, and what they are in lower case       *)
  Width      (* the number of bits of an address, by family                *)

(* What stands between the parts of a duplicate key, or begins a wildcard. *)
Bar        == "|"
Delimiters == {Bar, "=", ":", "/", "*"}

(* A name with capitals has letters in it, and so has none of the          *)
(* delimiters for its lower case; a family of addresses is no delimiter.   *)
ASSUME TextAssumption ==
  /\ {"", "$", "0", "1"} \subseteq Symbols
  /\ \A name \in DOMAIN Folded : Folded[name] \in Symbols \ Delimiters
  /\ DOMAIN Width \cap Delimiters = {}
  /\ \A family \in DOMAIN Width : Width[family] \in Nat

Text   == Seq(Symbols)
Header == [name : Symbols, op : Symbols, value : Text]
Host   == [wild : BOOLEAN, labels : Text]

IsBits(family, bits) == family \in DOMAIN Width /\ bits \in [1 .. Width[family] -> {"0", "1"}]

(* A rule as the file has it: YAML gives each field its type, the field    *)
(* that is not empty is its kind, and ParseCIDR, with which validateRule   *)
(* tries the networks, gives a mask no longer than the address. What a     *)
(* regex captures is text.                                                 *)
IsRule(rule) ==
  /\ rule.kind \in {"exact", "prefix", "regex"}
  /\ rule.pattern \in Text \ {<<>>} /\ rule.rewrite \in {None} \cup Text
  /\ rule.headers \in Seq(Header) /\ rule.hosts \in Seq(Host)
  /\ rule.cidrs \in Seq(Range(rule.cidrs))
  /\ \A i \in DOMAIN rule.cidrs :
       /\ IsBits(rule.cidrs[i].family, rule.cidrs[i].bits)
       /\ rule.cidrs[i].length \in 0 .. Width[rule.cidrs[i].family]
  /\ \A path \in DOMAIN rule.matched : \A group \in DOMAIN rule.matched[path] :
       rule.matched[path][group] \in Text

IsRequest(in) ==
  /\ in.path \in Text /\ in.host.labels \in Text
  /\ \A name \in DOMAIN in.headers : in.headers[name] \subseteq Text
  /\ IsBits(in.peer.family, in.peer.bits)

Methods == {"GET", "POST"}   (* stands for httpMethods                     *)
Digits  == {"0", "1", "2", "3", "4", "5", "6", "7", "8", "9"}

Lower(name) == IF name \in DOMAIN Folded THEN Folded[name] ELSE name

LowerAll(labels) == [i \in DOMAIN labels |-> Lower(labels[i])]

-----------------------------------------------------------------------------
(* Headers. A rule's header has a name, an op, empty if omitted, and a     *)
(* value; a request's headers are a function from the names, in lower      *)
(* case, to the sets of their values.                                      *)

EffectiveOp(h) ==
  IF h.op # "" THEN h.op ELSE IF h.value = <<>> THEN "present" ELSE "equals"

Values(name, headers) ==
  IF Lower(name) \in DOMAIN headers THEN headers[Lower(name)] ELSE {}

headerMatches(h, headers) ==
  \E value \in Values(h.name, headers) :
    CASE EffectiveOp(h) = "present"  -> TRUE
      [] EffectiveOp(h) = "equals"   -> value = h.value
      [] EffectiveOp(h) = "prefix"   -> IsPrefix(h.value, value)
      [] EffectiveOp(h) = "contains" -> h.value \in SubSeqs(value)
      [] OTHER                       -> FALSE

validateHeaders(headers) ==
  /\ \A i \in DOMAIN headers :
       LET h == headers[i]
       IN  \/ EffectiveOp(h) = "present" /\ h.value = <<>>
           \/ EffectiveOp(h) \in {"equals", "prefix", "contains"} /\ h.value # <<>>
  /\ \A i, j \in DOMAIN headers : Lower(headers[i].name) = Lower(headers[j].name) => i = j

-----------------------------------------------------------------------------
(* Hosts. A pattern is wild if it begins with "*."; its labels are what    *)
(* comes after that. A request's host may be in brackets or have a port.   *)

(* hostOnly drops the port and the brackets.                               *)
hostOnly(host) == LowerAll(host.labels)

MutantHostMatches(hosts, host) ==
  LET h == hostOnly(host)
  IN  \E i \in DOMAIN hosts :
        IF hosts[i].wild
        THEN IsSuffix(LowerAll(hosts[i].labels), h)
        ELSE h = LowerAll(hosts[i].labels)

(* A wildcard wants the host to end with the pattern from its dot on and   *)
(* to be longer, be it by an empty label and a dot: <<"">> is no text.     *)
hostMatches(hosts, host) ==
  LET h == hostOnly(host)
  IN  \E i \in DOMAIN hosts :
        LET p    == LowerAll(hosts[i].labels)
            lead == SubSeq(h, 1, Len(h) - Len(p))
        IN  IF hosts[i].wild
            THEN IsStrictSuffix(p, h) /\ lead # <<"">>
            ELSE h = p

(* A host is not empty and has no character that is none of a host's; a    *)
(* star only leads a wildcard.                                             *)
validateHosts(hosts) ==
  \A i \in DOMAIN hosts :
    /\ hosts[i].wild \/ hosts[i].labels # <<"">>
    /\ \A k \in DOMAIN hosts[i].labels :
         hosts[i].labels[k] \notin {"*", ":", "/", "?", "#", " "}

-----------------------------------------------------------------------------
(* Client addresses. A network is an address, of which ParseCIDR ignores   *)
(* the bits behind the mask, and the length of the mask.                   *)

(* ParseIP knows no zones: a link-local peer has no address to compare.    *)
clientIPMatches(cidrs, peer) ==
  /\ ~peer.zone
  /\ \E i \in DOMAIN cidrs :
       LET n == cidrs[i].length
       IN  /\ cidrs[i].family = peer.family
           /\ SubSeq(peer.bits, 1, n) = SubSeq(cidrs[i].bits, 1, n)

-----------------------------------------------------------------------------
matchConditions(rule, in) ==
  /\ rule.method \in {None, in.method}
  /\ \A i \in DOMAIN rule.headers : headerMatches(rule.headers[i], in.headers)
  /\ rule.hosts = <<>> \/ hostMatches(rule.hosts, in.host)
  /\ rule.cidrs = <<>> \/ clientIPMatches(rule.cidrs, in.peer)

(* validateRule. That a rule sets exactly one of path, path-prefix and     *)
(* regex is its kind.                                                      *)
validateRule(rule) ==
  /\ rule.rewrite = None => rule.kind # "regex"
  /\ rule.method \in {None} \cup Methods
  /\ validateHeaders(rule.headers)
  /\ validateHosts(rule.hosts)

-----------------------------------------------------------------------------
(* dedupKey: one text, with a bar between the parts. What counts of a      *)
(* number in it is that it can be read back: n is n strokes.               *)

HeaderPart(h) == <<Lower(h.name), "=", EffectiveOp(h), ":">> \o h.value

HostPart(host) == (IF host.wild THEN <<"*">> ELSE <<>>) \o LowerAll(host.labels)

CIDRPart(cidr) == <<cidr.family>> \o cidr.bits \o <<"/">> \o [k \in 1 .. cidr.length |-> "1"]

KeyParts(rule) ==
  LET text(kind) == IF rule.kind = kind THEN rule.pattern ELSE <<>>
  IN  <<IF rule.method = None THEN <<>> ELSE <<rule.method>>,
        text("exact"), text("prefix"), text("regex")>>
        \o [i \in DOMAIN rule.headers |-> HeaderPart(rule.headers[i])]
        \o [i \in DOMAIN rule.hosts   |-> HostPart(rule.hosts[i])]
        \o [i \in DOMAIN rule.cidrs   |-> CIDRPart(rule.cidrs[i])]

Joined(parts) == FlattenSeq([i \in DOMAIN parts |-> <<Bar>> \o parts[i]])

MutantDedupKey(rule) ==
  LET plain(h) == [h EXCEPT !.op = ""]
  IN  Tail(Joined(KeyParts([rule EXCEPT !.headers =
                              [i \in DOMAIN rule.headers |-> plain(rule.headers[i])]])))

(* The first part has no bar before it.                                    *)
dedupKey(rule) == Tail(Joined(KeyParts(rule)))

(* A bar in a part makes the key ambiguous (config.go:507).                *)
NoBar(rule) ==
  /\ Bar \notin Range(rule.pattern)
  /\ \A i \in DOMAIN rule.headers :
       rule.headers[i].name # Bar /\ Bar \notin Range(rule.headers[i].value)
  /\ \A i \in DOMAIN rule.hosts : Bar \notin Range(rule.hosts[i].labels)

-----------------------------------------------------------------------------
(* expandRegexRewrite, from left to right. captures is what the regex has  *)
(* captured: "0" the whole match, "1" the first group ... ; a group that   *)
(* took no part in the match, or that does not exist, is not in it.        *)

Captured(captures, digit) == IF digit \in DOMAIN captures THEN captures[digit] ELSE <<>>

(* "$$" or a reference.                                                    *)
IsToken(template, i) ==
  /\ i < Len(template)
  /\ template[i] = "$" /\ template[i + 1] \in Digits \cup {"$"}

TokenText(captures, next) == IF next = "$" THEN <<"$">> ELSE Captured(captures, next)

MutantExpandRegexRewrite(template, captures) ==
  LET expand[i \in 1 .. Len(template) + 1] ==
        IF i > Len(template) THEN <<>>
        ELSE IF IsToken(template, i)
             THEN TokenText(captures, template[i + 1])
                    \o expand[i + (IF template[i + 1] = "$" THEN 1 ELSE 2)]
             ELSE <<template[i]>> \o expand[i + 1]
  IN  expand[1]

expandRegexRewrite(template, captures) ==
  LET expand[i \in 1 .. Len(template) + 1] ==
        IF i > Len(template) THEN <<>>
        ELSE IF IsToken(template, i)
             THEN TokenText(captures, template[i + 1]) \o expand[i + 2]
             ELSE <<template[i]>> \o expand[i + 1]
  IN  expand[1]

-----------------------------------------------------------------------------
(* The same as docs/configuration.md has it, without the order in which    *)
(* the code looks.                                                         *)

(* routes[].rules.headers[]: an omitted op is present without a value and  *)
(* equals with one; any value that satisfies the op will do.               *)
HeaderMet(h, headers) ==
  LET op == IF h.op # "" THEN h.op ELSE IF h.value = <<>> THEN "present" ELSE "equals"
  IN  \E value \in Values(h.name, headers) :
        \/ op = "present"
        \/ \E before \in Prefixes(value), after \in Suffixes(value) :
             /\ value = before \o h.value \o after
             /\ op \in {"equals", "prefix"} => before = <<>>
             /\ op = "equals" => after = <<>>

(* hosts: "*." stands for one or more leading labels. A single empty one   *)
(* is no text before the dot.                                              *)
HostMet(pattern, host) ==
  LET labels == LowerAll(host.labels)
      rest   == LowerAll(pattern.labels)
  IN  IF pattern.wild
      THEN \E k \in 1 .. Len(labels) :
             /\ SubSeq(labels, k + 1, Len(labels)) = rest
             /\ k > 1 \/ labels[1] # ""
      ELSE labels = rest

(* client-cidrs: the peer has no bit in the mask that differs.             *)
PeerMet(cidr, peer) ==
  /\ ~peer.zone /\ cidr.family = peer.family
  /\ \A k \in 1 .. cidr.length : peer.bits[k] = cidr.bits[k]

(* All fields are and-ed, several values of one field or-ed.               *)
Met(rule, in) ==
  /\ rule.method # None => rule.method = in.method
  /\ \A i \in DOMAIN rule.headers : HeaderMet(rule.headers[i], in.headers)
  /\ rule.hosts # <<>> => \E i \in DOMAIN rule.hosts : HostMet(rule.hosts[i], in.host)
  /\ rule.cidrs # <<>> => \E i \in DOMAIN rule.cidrs : PeerMet(rule.cidrs[i], in.peer)

(* A "$" begins a reference, or "$$", if an even number of them comes      *)
(* right before it, as they pair up from the left.                         *)
DollarsBefore(template, i, k) ==
  /\ \A j \in i - k .. i - 1 : template[j] = "$"
  /\ i - k > 1 => template[i - k - 1] # "$"

Begins(template, i) ==
  template[i] = "$" /\ \E k \in 0 .. i - 1 : k % 2 = 0 /\ DollarsBefore(template, i, k)

Piece(template, captures, i) ==
  LET pair(j) == IsToken(template, j) /\ Begins(template, j)
  IN  IF i > 1 /\ pair(i - 1)
      THEN IF template[i] = "$" THEN <<"$">> ELSE Captured(captures, template[i])
      ELSE IF pair(i) THEN <<>> ELSE <<template[i]>>

Expansion(template, captures) ==
  FlattenSeq([i \in 1 .. Len(template) |-> Piece(template, captures, i)])
=============================================================================
