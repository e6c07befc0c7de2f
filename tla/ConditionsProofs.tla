-------------------------- MODULE ConditionsProofs --------------------------
(***************************************************************************)
(* matchConditions and expandRegexRewrite compute what the documentation   *)
(* says, for every rule that validation accepts and every request. The     *)
(* recursion in expandRegexRewrite and in FlattenSeq is dealt with by      *)
(* induction: lemma Induction states it for a set, so that it can be cited *)
(* with {n \in Nat : ...} for the set.                                     *)
(***************************************************************************)
EXTENDS Conditions, SequenceTheorems, WellFoundedInduction, TLAPS

(* A set of naturals with 0 and with the successors of its members is Nat. *)
LEMMA Induction ==
  ASSUME NEW S, 0 \in S, \A n \in Nat : n \in S => n + 1 \in S
  PROVE  \A n \in Nat : n \in S
<1> DEFINE T == Nat \ S
           R == OpToRel(<, Nat)
<1> SUFFICES ASSUME T # {} PROVE FALSE
  OBVIOUS
<1>1. PICK m \in T : \A k \in T : <<k, m>> \notin R
  <2>1. IsWellFoundedOn(R, Nat) /\ T \subseteq Nat
    BY NatLessThanWellFounded
  <2> HIDE DEF R, T
  <2> QED
    BY <2>1, WFMin
<1>2. \A k \in T : ~(k < m)
  BY <1>1 DEF OpToRel
<1>3. m - 1 \in Nat /\ m - 1 < m
  OBVIOUS
<1>4. m - 1 \in S
  BY <1>2, <1>3
<1> QED
  BY <1>3, <1>4

-----------------------------------------------------------------------------
(* Prefixes, suffixes and what is in between, by position.                 *)

LEMMA Single ==
  ASSUME NEW c \in Symbols
  PROVE  <<c>> \in Text /\ Len(<<c>>) = 1 /\ <<c>>[1] = c
BY DEF Text

LEMMA OneSymbol ==
  ASSUME NEW s \in Text, NEW c \in Symbols
  PROVE  s = <<c>> <=> Len(s) = 1 /\ s[1] = c
<1>1. Len(s) = 1 /\ s[1] = c => s = <<c>>
  BY Single, SeqEqual DEF Text
<1> QED
  BY <1>1, Single

LEMMA PieceOfText ==
  ASSUME NEW s \in Text, NEW m \in 1 .. Len(s) + 1, NEW n \in 0 .. Len(s)
  PROVE  /\ SubSeq(s, m, n) \in Text
         /\ Len(SubSeq(s, m, n)) = IF m <= n THEN n - m + 1 ELSE 0
         /\ \A i \in 1 .. n - m + 1 : SubSeq(s, m, n)[i] = s[m + i - 1]
<1>1. Len(s) \in Nat /\ m \in Int /\ n \in Int /\ \A i \in m .. n : s[i] \in Symbols
  BY DEF Text
<1> QED
  BY <1>1, SubSeqProperties DEF Text

LEMMA SplitText ==
  ASSUME NEW s \in Text, NEW k \in 0 .. Len(s)
  PROVE  SubSeq(s, 1, k) \o SubSeq(s, k + 1, Len(s)) = s
<1>1. Len(s) \in Nat /\ 1 \in 1 .. Len(s) + 1 /\ k \in 1 - 1 .. Len(s) /\ Len(s) \in k .. Len(s)
  BY DEF Text
<1>2. SubSeq(s, 1, k) \o SubSeq(s, k + 1, Len(s)) = SubSeq(s, 1, Len(s))
  BY <1>1, ConcatAdjacentSubSeq DEF Text
<1> QED
  BY <1>2, SubSeqFull DEF Text

LEMMA SuffixOfText ==
  ASSUME NEW s \in Text
  PROVE  /\ \A after \in Suffixes(s) : after \in Text
         /\ \A k \in 0 .. Len(s) : SubSeq(s, k + 1, Len(s)) \in Suffixes(s)
<1>1. Len(s) \in Nat /\ <<>> \in Text
  BY DEF Text
<1>2. ASSUME NEW l \in 1 .. Len(s) PROVE SubSeq(s, l, Len(s)) \in Text
  BY <1>1, PieceOfText
<1>3. ASSUME NEW k \in 0 .. Len(s) PROVE SubSeq(s, k + 1, Len(s)) \in Suffixes(s)
  <2>1. CASE k = Len(s)
    BY <1>1, <2>1, SubSeqEmpty DEF Suffixes
  <2>2. CASE k + 1 \in 1 .. Len(s)
    BY <2>2 DEF Suffixes
  <2> QED
    BY <1>1, <2>1, <2>2
<1> QED
  BY <1>1, <1>2, <1>3 DEF Suffixes

LEMMA PrefixIsBeginning ==
  ASSUME NEW p \in Text, NEW s \in Text
  PROVE  IsPrefix(p, s) <=> Len(p) <= Len(s) /\ p = SubSeq(s, 1, Len(p))
BY SubSeqFull DEF IsPrefix, Text

LEMMA SuffixIsEnd ==
  ASSUME NEW p \in Text, NEW s \in Text
  PROVE  IsSuffix(p, s) <=>
           Len(p) <= Len(s) /\ p = SubSeq(s, Len(s) - Len(p) + 1, Len(s))
<1> DEFINE rp == Reverse(p)
           rs == Reverse(s)
           end == SubSeq(s, Len(s) - Len(p) + 1, Len(s))
<1>1. /\ rp \in Text /\ rs \in Text /\ Len(rp) = Len(p) /\ Len(rs) = Len(s)
      /\ \A i \in 1 .. Len(p) : rp[i] = p[Len(p) - i + 1]
      /\ \A i \in 1 .. Len(s) : rs[i] = s[Len(s) - i + 1]
  BY DEF Reverse, Text
<1> HIDE DEF rp, rs
<1>2. ASSUME Len(p) <= Len(s)
      PROVE  /\ end \in Text /\ Len(end) = Len(p)
             /\ \A i \in 1 .. Len(p) : end[i] = s[Len(s) - Len(p) + i]
  BY <1>2 DEF Text
<1>3. ASSUME Len(p) <= Len(s)
      PROVE  /\ SubSeq(rs, 1, Len(p)) \in Text /\ Len(SubSeq(rs, 1, Len(p))) = Len(p)
             /\ \A i \in 1 .. Len(p) : SubSeq(rs, 1, Len(p))[i] = s[Len(s) - i + 1]
  BY <1>1, <1>3 DEF Text
<1>4. ASSUME Len(p) <= Len(s), rp = SubSeq(rs, 1, Len(p)) PROVE p = end
  <2>1. ASSUME NEW i \in 1 .. Len(p) PROVE p[i] = end[i]
    <3>1. Len(p) - i + 1 \in 1 .. Len(p) /\ Len(p) - (Len(p) - i + 1) + 1 = i
      BY DEF Text
    <3>2. p[i] = rp[Len(p) - i + 1]
      BY <1>1, <3>1 DEF Text
    <3>3. SubSeq(rs, 1, Len(p))[Len(p) - i + 1] = s[Len(s) - Len(p) + i]
      BY <1>3, <1>4, <3>1 DEF Text
    <3> QED
      BY <1>2, <1>4, <3>2, <3>3
  <2> HIDE DEF end
  <2> QED
    BY <1>2, <1>4, <2>1, SeqEqual DEF Text
<1>5. ASSUME Len(p) <= Len(s), p = end PROVE rp = SubSeq(rs, 1, Len(p))
  <2>1. ASSUME NEW i \in 1 .. Len(p) PROVE rp[i] = SubSeq(rs, 1, Len(p))[i]
    <3>1. Len(p) - i + 1 \in 1 .. Len(p)
      BY DEF Text
    <3>2. end[Len(p) - i + 1] = s[Len(s) - i + 1]
      BY <1>2, <1>5, <3>1 DEF Text
    <3> QED
      BY <1>1, <1>3, <1>5, <3>2
  <2> QED
    BY <1>1, <1>3, <1>5, <2>1, SeqEqual DEF Text
<1>6. IsSuffix(p, s) <=> Len(p) <= Len(s) /\ rp = SubSeq(rs, 1, Len(p))
  BY <1>1, PrefixIsBeginning DEF IsSuffix, rp, rs
<1> QED
  BY <1>4, <1>5, <1>6

-----------------------------------------------------------------------------
(* The conditions one by one, and all together.                            *)

LEMMA SubSeqIsOne ==
  ASSUME NEW s, NEW i \in 0 .. Len(s), NEW j \in 0 .. Len(s), NEW v, v = SubSeq(s, i + 1, j)
  PROVE  v \in SubSeqs(s)
BY DEF SubSeqs

(* A value contains another if and only if something comes before it and   *)
(* something after it, be it nothing.                                      *)
LEMMA ContainedIsBetween ==
  ASSUME NEW v \in Text, NEW value \in Text
  PROVE  v \in SubSeqs(value) <=>
           \E before \in Prefixes(value), after \in Suffixes(value) : value = before \o v \o after
<1>1. ASSUME v \in SubSeqs(value)
      PROVE  \E before \in Prefixes(value), after \in Suffixes(value) : value = before \o v \o after
  <2>1. PICK i \in 0 .. Len(value), j \in 0 .. Len(value) : v = SubSeq(value, i + 1, j)
    BY <1>1 DEF SubSeqs
  <2>2. Len(value) \in Nat
    BY DEF Text
  <2>3. CASE i <= j
    <3> DEFINE before == SubSeq(value, 1, i)
               after  == SubSeq(value, j + 1, Len(value))
    <3>1. before \o v = SubSeq(value, 1, j)
      BY <2>1, <2>2, <2>3, ConcatAdjacentSubSeq DEF Text
    <3>2. (before \o v) \o after = value
      <4>1. SubSeq(value, 1, j) \o after = value
        BY SplitText
      <4> HIDE DEF before, after
      <4> QED
        BY <3>1, <4>1
    <3>3. before \in Prefixes(value)
      BY DEF Prefixes
    <3>4. after \in Suffixes(value)
      BY SuffixOfText
    <3> QED
      BY <3>2, <3>3, <3>4
  <2>4. CASE j < i
    <3>1. v = <<>>
      BY <2>1, <2>2, <2>4, SubSeqEmpty
    <3>2. <<>> \in Prefixes(value)
      BY <2>2, SubSeqEmpty DEF Prefixes
    <3>3. value \in Suffixes(value)
      <4>1. CASE value = <<>>
        BY <4>1 DEF Suffixes
      <4>2. CASE value # <<>>
        BY <2>2, <4>2, SubSeqFull, EmptySeq DEF Suffixes, Text
      <4> QED
        BY <4>1, <4>2
    <3>4. value = <<>> \o <<>> \o value
      BY ConcatEmptySeq DEF Text
    <3> QED
      BY <3>1, <3>2, <3>3, <3>4
  <2> QED
    BY <2>2, <2>3, <2>4
<1>2. ASSUME NEW before \in Prefixes(value), NEW after \in Suffixes(value),
             value = before \o v \o after
      PROVE  v \in SubSeqs(value)
  <2>1. before \in Text /\ after \in Text
    <3>1. PICK l \in 0 .. Len(value) : before = SubSeq(value, 1, l)
      BY DEF Prefixes
    <3> QED
      BY <3>1, PieceOfText, SuffixOfText DEF Text
  <2>2. Len(value) = Len(before) + Len(v) + Len(after)
    BY <1>2, <2>1 DEF Text
  <2>3. \A k \in 1 .. Len(v) : value[Len(before) + k] = v[k]
    BY <1>2, <2>1 DEF Text
  <2> DEFINE i == Len(before)
             j == Len(before) + Len(v)
  <2>4. i \in 0 .. Len(value) /\ j \in 0 .. Len(value)
    BY <2>1, <2>2 DEF Text
  <2>5. SubSeq(value, i + 1, j) = v
    <3>1. /\ SubSeq(value, i + 1, j) \in Text /\ Len(SubSeq(value, i + 1, j)) = Len(v)
          /\ \A k \in 1 .. Len(v) : SubSeq(value, i + 1, j)[k] = value[i + k]
      BY <2>1, <2>4 DEF Text
    <3> QED
      BY <2>3, <3>1, SeqEqual DEF Text
  <2> HIDE DEF i, j
  <2> QED
    BY <2>4, <2>5, SubSeqIsOne
<1> QED
  BY <1>1, <1>2

LEMMA HeaderMatchesIsMet ==
  ASSUME NEW h \in Header, NEW headers,
         \A name \in DOMAIN headers : headers[name] \subseteq Text,
         EffectiveOp(h) \in {"present", "equals", "prefix", "contains"}
  PROVE  headerMatches(h, headers) <=> HeaderMet(h, headers)
<1> DEFINE op == EffectiveOp(h)
           found(value) == \E before \in Prefixes(value), after \in Suffixes(value) :
                             /\ value = before \o h.value \o after
                             /\ op \in {"equals", "prefix"} => before = <<>>
                             /\ op = "equals" => after = <<>>
<1>1. HeaderMet(h, headers) <=> \E value \in Values(h.name, headers) : op = "present" \/ found(value)
  <2>1. op = IF h.op # "" THEN h.op ELSE IF h.value = <<>> THEN "present" ELSE "equals"
    BY DEF EffectiveOp
  <2> QED
    BY <2>1 DEF HeaderMet
<1>2. h.value \in Text /\ \A value \in Values(h.name, headers) : value \in Text
  BY DEF Values, Header
<1>3. ASSUME NEW value \in Text
      PROVE  <<>> \in Prefixes(value) /\ <<>> \in Suffixes(value)
  BY SubSeqEmpty DEF Prefixes, Suffixes, Text
<1>4. ASSUME op = "equals", NEW value \in Text PROVE found(value) <=> value = h.value
  BY <1>2, <1>3, <1>4, ConcatEmptySeq DEF Text
<1>5. ASSUME op = "prefix", NEW value \in Text PROVE found(value) <=> IsPrefix(h.value, value)
  <2>1. found(value) <=> \E after \in Suffixes(value) : value = h.value \o after
    BY <1>2, <1>3, <1>5, ConcatEmptySeq DEF Text
  <2>2. ASSUME NEW after \in Suffixes(value), value = h.value \o after PROVE IsPrefix(h.value, value)
    <3>1. after \in Text
      BY SuffixOfText
    <3>2. Len(h.value) <= Len(value) /\ \A k \in 1 .. Len(h.value) : h.value[k] = value[k]
      BY <1>2, <2>2, <3>1 DEF Text
    <3>3. h.value = SubSeq(value, 1, Len(h.value))
      BY <1>2, <3>2, SeqEqual DEF Text
    <3> QED
      BY <1>2, <3>2, <3>3, PrefixIsBeginning
  <2>3. ASSUME IsPrefix(h.value, value)
        PROVE  \E after \in Suffixes(value) : value = h.value \o after
    <3> DEFINE n == Len(h.value)
               after == SubSeq(value, n + 1, Len(value))
    <3>1. n \in 0 .. Len(value) /\ h.value = SubSeq(value, 1, n)
      BY <1>2, <2>3, PrefixIsBeginning DEF Text
    <3>2. after \in Suffixes(value)
      BY <3>1, SuffixOfText
    <3>3. value = h.value \o after
      BY <3>1, SplitText
    <3> QED
      BY <3>2, <3>3
  <2> QED
    BY <2>1, <2>2, <2>3
<1>6. ASSUME op = "contains", NEW value \in Text PROVE found(value) <=> h.value \in SubSeqs(value)
  BY <1>2, <1>6, ContainedIsBetween
<1> HIDE DEF found
<1> QED
  BY <1>1, <1>2, <1>4, <1>5, <1>6 DEF headerMatches

LEMMA FoldedIsText == \A labels \in Text : LowerAll(labels) \in Text /\ Len(LowerAll(labels)) = Len(labels)
<1> SUFFICES ASSUME NEW labels \in Text
             PROVE  LowerAll(labels) \in Text /\ Len(LowerAll(labels)) = Len(labels)
  OBVIOUS
<1>1. \A name \in Symbols : Lower(name) \in Symbols
  BY TextAssumption DEF Lower
<1>2. Len(labels) \in Nat /\ labels \in [1 .. Len(labels) -> Symbols]
  BY DEF Text
<1>3. LowerAll(labels) \in [1 .. Len(labels) -> Symbols]
  BY <1>1, <1>2 DEF LowerAll
<1> QED
  BY <1>2, <1>3 DEF Text

LEMMA HostMatchesIsMet ==
  ASSUME NEW hosts \in Seq(Host), NEW host, host.labels \in Text
  PROVE  hostMatches(hosts, host) <=> \E i \in DOMAIN hosts : HostMet(hosts[i], host)
<1> DEFINE h == LowerAll(host.labels)
           fits(pattern) ==
             LET p    == LowerAll(pattern.labels)
                 lead == SubSeq(h, 1, Len(h) - Len(p))
             IN  IF pattern.wild THEN IsStrictSuffix(p, h) /\ lead # <<"">> ELSE h = p
<1> SUFFICES ASSUME NEW pattern \in Host PROVE HostMet(pattern, host) <=> fits(pattern)
  <2>1. hostMatches(hosts, host) <=> \E i \in DOMAIN hosts : fits(hosts[i])
    BY DEF hostMatches, hostOnly
  <2>2. \A i \in DOMAIN hosts : hosts[i] \in Host
    BY LenProperties
  <2> HIDE DEF fits
  <2> QED
    BY <2>1, <2>2
<1> DEFINE p    == LowerAll(pattern.labels)
           n    == Len(h) - Len(p)
           lead == SubSeq(h, 1, n)
           rest(k) == SubSeq(h, k + 1, Len(h)) = p
<1>1. h \in Text /\ p \in Text /\ Len(h) \in Nat /\ Len(p) \in Nat
  BY FoldedIsText DEF Host, Text
<1>2. HostMet(pattern, host) <=>
        IF pattern.wild THEN \E k \in 1 .. Len(h) : rest(k) /\ (k > 1 \/ h[1] # "") ELSE h = p
  BY DEF HostMet
<1> HIDE DEF h, p
<1>3. ASSUME NEW k \in 0 .. Len(h), rest(k) PROVE k = n
  <2>1. Len(SubSeq(h, k + 1, Len(h))) = Len(h) - k
    BY <1>1, PieceOfText
  <2> QED
    BY <1>1, <1>3, <2>1
<1>4. IsStrictSuffix(p, h) <=> n > 0 /\ rest(n)
  <2>1. IsSuffix(p, h) <=> n >= 0 /\ rest(n)
    BY <1>1, SuffixIsEnd
  <2>2. p = h => n = 0
    BY <1>1
  <2>3. n = 0 /\ rest(n) => p = h
    <3>1. SubSeq(h, 1, Len(h)) = h
      BY <1>1, SubSeqFull DEF Text
    <3>2. n = 0 => n + 1 = 1
      OBVIOUS
    <3> HIDE DEF n
    <3> QED
      BY <3>1, <3>2
  <2> QED
    BY <1>1, <2>1, <2>2, <2>3 DEF IsStrictSuffix
<1>5. ASSUME n > 0 PROVE lead # <<"">> <=> n > 1 \/ h[1] # ""
  <2>1. lead \in Text /\ Len(lead) = n /\ \A i \in 1 .. n : lead[i] = h[i]
    BY <1>1, <1>5, PieceOfText
  <2> HIDE DEF lead
  <2>2. lead = <<"">> <=> Len(lead) = 1 /\ lead[1] = ""
    BY <2>1, TextAssumption, OneSymbol
  <2>3. lead[1] = h[1]
    BY <1>1, <1>5, <2>1
  <2>4. n > 1 <=> Len(lead) # 1
    BY <1>1, <1>5, <2>1
  <2> QED
    BY <2>2, <2>3, <2>4
<1>6. (\E k \in 1 .. Len(h) : rest(k) /\ (k > 1 \/ h[1] # "")) <=>
        n > 0 /\ rest(n) /\ (n > 1 \/ h[1] # "")
  <2>1. n > 0 => n \in 1 .. Len(h)
    BY <1>1
  <2>2. 1 .. Len(h) \subseteq 0 .. Len(h) /\ \A k \in 1 .. Len(h) : k > 0
    BY <1>1
  <2> HIDE DEF n, rest
  <2> QED
    BY <1>3, <2>1, <2>2
<1> QED
  BY <1>2, <1>4, <1>5, <1>6 DEF h, p

LEMMA ClientIPMatchesIsMet ==
  ASSUME NEW rule, IsRule(rule), NEW in, IsRequest(in)
  PROVE  clientIPMatches(rule.cidrs, in.peer) <=>
           \E i \in DOMAIN rule.cidrs : PeerMet(rule.cidrs[i], in.peer)
<1> SUFFICES ASSUME NEW i \in DOMAIN rule.cidrs, rule.cidrs[i].family = in.peer.family
             PROVE  LET cidr == rule.cidrs[i]
                    IN  SubSeq(in.peer.bits, 1, cidr.length) = SubSeq(cidr.bits, 1, cidr.length) <=>
                          \A k \in 1 .. cidr.length : in.peer.bits[k] = cidr.bits[k]
  BY DEF clientIPMatches, PeerMet
<1> DEFINE a == in.peer.bits
           b == rule.cidrs[i].bits
           n == rule.cidrs[i].length
<1>1. /\ a \in Text /\ b \in Text /\ Len(a) = Len(b) /\ n \in 0 .. Len(a)
  <2>1. PICK w \in Nat : a \in [1 .. w -> {"0", "1"}] /\ b \in [1 .. w -> {"0", "1"}] /\ n \in 0 .. w
    BY TextAssumption DEF IsRule, IsRequest, IsBits
  <2> HIDE DEF a, b, n
  <2>2. {"0", "1"} \subseteq Symbols
    BY TextAssumption
  <2>3. a \in [1 .. w -> Symbols] /\ b \in [1 .. w -> Symbols]
    BY <2>1, <2>2
  <2> QED
    BY <2>1, <2>3 DEF Text
<1> HIDE DEF a, b, n
<1>2. /\ SubSeq(a, 1, n) \in Text /\ Len(SubSeq(a, 1, n)) = n /\ \A k \in 1 .. n : SubSeq(a, 1, n)[k] = a[k]
      /\ SubSeq(b, 1, n) \in Text /\ Len(SubSeq(b, 1, n)) = n /\ \A k \in 1 .. n : SubSeq(b, 1, n)[k] = b[k]
      /\ n \in Nat
  BY <1>1, PieceOfText DEF Text
<1>3. SubSeq(a, 1, n) = SubSeq(b, 1, n) <=> \A k \in 1 .. n : a[k] = b[k]
  BY <1>2, SeqEqual DEF Text
<1> QED
  BY <1>3 DEF a, b, n

(* What the code asks of a request is what the documentation says it asks, *)
(* for every rule that validation lets through: headers, hosts, client     *)
(* addresses and the method.                                               *)
THEOREM ConditionsAreMet ==
  ASSUME NEW rule, IsRule(rule), validateRule(rule), NEW in, IsRequest(in)
  PROVE  matchConditions(rule, in) <=> Met(rule, in)
<1>1. (rule.method \in {None, in.method}) <=> (rule.method # None => rule.method = in.method)
  OBVIOUS
<1>2. ASSUME NEW i \in DOMAIN rule.headers
      PROVE  headerMatches(rule.headers[i], in.headers) <=> HeaderMet(rule.headers[i], in.headers)
  <2>1. EffectiveOp(rule.headers[i]) \in {"present", "equals", "prefix", "contains"}
    BY DEF validateRule, validateHeaders
  <2>2. rule.headers[i] \in Header
    BY DEF IsRule
  <2> QED
    BY <2>1, <2>2, HeaderMatchesIsMet DEF IsRequest
<1>3. hostMatches(rule.hosts, in.host) <=> \E i \in DOMAIN rule.hosts : HostMet(rule.hosts[i], in.host)
  BY HostMatchesIsMet DEF IsRule, IsRequest
<1> QED
  BY <1>1, <1>2, <1>3, ClientIPMatchesIsMet DEF matchConditions, Met

-----------------------------------------------------------------------------
(* The two recursive functions that a rewrite needs are well defined: the  *)
(* approximations that go one position further exist, hence the function.  *)

LEMMA FlattenSteps ==
  ASSUME NEW V, NEW p \in Seq(Seq(V))
  PROVE  \E F \in [0 .. Len(p) -> Seq(V)] :
           /\ F[0] = <<>>
           /\ \A i \in 1 .. Len(p) : F[i] = F[i - 1] \o p[i]
           /\ FlattenSeq(p) = F[Len(p)]
<1> DEFINE good(f, n) == \A i \in 1 .. n : f[i] = IF i = 1 THEN p[i] ELSE f[i - 1] \o p[i]
           S == {n \in Nat : n <= Len(p) => \E f \in [1 .. n -> Seq(V)] : good(f, n)}
<1>1. Len(p) \in Nat /\ \A i \in 1 .. Len(p) : p[i] \in Seq(V)
  OBVIOUS
<1>2. 0 \in S
  <2>1. [i \in 1 .. 0 |-> <<>>] \in [1 .. 0 -> Seq(V)] /\ <<>> \in Seq(V)
    OBVIOUS
  <2>2. good([i \in 1 .. 0 |-> <<>>], 0)
    OBVIOUS
  <2> HIDE DEF good
  <2> QED
    BY <2>1, <2>2
<1>3. ASSUME NEW n \in Nat, n \in S PROVE n + 1 \in S
  <2> SUFFICES ASSUME n + 1 <= Len(p) PROVE \E f \in [1 .. n + 1 -> Seq(V)] : good(f, n + 1)
    <3> HIDE DEF good
    <3> QED
      OBVIOUS
  <2>1. PICK f \in [1 .. n -> Seq(V)] : good(f, n)
    <3> HIDE DEF good
    <3> QED
      BY <1>1, <1>3
  <2> DEFINE last == IF n = 0 THEN p[n + 1] ELSE f[n] \o p[n + 1]
             g == [i \in 1 .. n + 1 |-> IF i = n + 1 THEN last ELSE f[i]]
  <2>2. last \in Seq(V)
    <3>1. p[n + 1] \in Seq(V)
      BY <1>1
    <3>2. n # 0 => f[n] \in Seq(V)
      OBVIOUS
    <3> QED
      BY <3>1, <3>2, ConcatProperties
  <2> HIDE DEF last
  <2>3. g \in [1 .. n + 1 -> Seq(V)]
    BY <2>2
  <2>4. ASSUME NEW i \in 1 .. n + 1 PROVE g[i] = IF i = 1 THEN p[i] ELSE g[i - 1] \o p[i]
    <3>1. CASE i = n + 1
      BY <3>1 DEF last
    <3>2. CASE i \in 1 .. n
      <4>1. g[i] = f[i] /\ (i # 1 => g[i - 1] = f[i - 1])
        BY <3>2
      <4>2. f[i] = IF i = 1 THEN p[i] ELSE f[i - 1] \o p[i]
        BY <2>1, <3>2
      <4> HIDE DEF g
      <4> QED
        BY <4>1, <4>2
    <3> QED
      BY <3>1, <3>2
  <2>5. good(g, n + 1)
    BY <2>4
  <2> HIDE DEF g, good
  <2> QED
    BY <2>3, <2>5
<1>4. PICK f \in [1 .. Len(p) -> Seq(V)] : good(f, Len(p))
  <2> HIDE DEF S
  <2>1. Len(p) \in S
    BY <1>1, <1>2, <1>3, Induction
  <2> HIDE DEF good
  <2> QED
    BY <1>1, <2>1 DEF S
<1> DEFINE eq(h) == h = [i \in 1 .. Len(p) |-> IF i = 1 THEN p[i] ELSE h[i - 1] \o p[i]]
           h == CHOOSE h : eq(h)
<1>5. eq(f)
  BY <1>4
<1>6. eq(h)
  <2> HIDE DEF eq
  <2> QED
    BY <1>5
<1> HIDE DEF h
<1>7. \A n \in 1 .. Len(p) : h[n] = IF n = 1 THEN p[n] ELSE h[n - 1] \o p[n]
  BY <1>6
<1> DEFINE T == {n \in Nat : n \in 1 .. Len(p) => h[n] \in Seq(V)}
<1>8. \A n \in Nat : n \in T
  <2>1. 0 \in T
    OBVIOUS
  <2>2. ASSUME NEW n \in Nat, n \in T PROVE n + 1 \in T
    <3> SUFFICES ASSUME n + 1 \in 1 .. Len(p) PROVE h[n + 1] \in Seq(V)
      OBVIOUS
    <3>1. p[n + 1] \in Seq(V) /\ h[n + 1] = IF n = 0 THEN p[n + 1] ELSE h[n] \o p[n + 1]
      BY <1>1, <1>7
    <3>2. n # 0 => h[n] \in Seq(V)
      BY <1>1, <2>2
    <3> QED
      BY <3>1, <3>2, ConcatProperties
  <2> HIDE DEF T
  <2> QED
    BY <2>1, <2>2, Induction
<1> DEFINE F == [i \in 0 .. Len(p) |-> IF i = 0 THEN <<>> ELSE h[i]]
<1>9. F \in [0 .. Len(p) -> Seq(V)]
  <2>1. <<>> \in Seq(V)
    OBVIOUS
  <2>2. \A i \in 0 .. Len(p) : i # 0 => h[i] \in Seq(V)
    BY <1>1, <1>8
  <2> QED
    BY <2>1, <2>2
<1>10. F[0] = <<>>
  BY <1>1
<1>11. ASSUME NEW i \in 1 .. Len(p) PROVE F[i] = F[i - 1] \o p[i]
  <2>1. CASE i = 1
    BY <1>1, <1>7, <2>1, ConcatEmptySeq
  <2>2. CASE i # 1
    <3>1. /\ i \in 0 .. Len(p) /\ i - 1 \in 0 .. Len(p)
          /\ i # 0 /\ i - 1 # 0
      BY <1>1, <2>2
    <3>2. F[i] = h[i] /\ F[i - 1] = h[i - 1]
      BY <3>1
    <3> QED
      BY <1>7, <2>2, <3>2
  <2> QED
    BY <2>1, <2>2
<1>12. FlattenSeq(p) = F[Len(p)]
  <2>1. CASE p = <<>>
    BY <2>1 DEF FlattenSeq
  <2>2. CASE p # <<>>
    <3>1. Len(p) # 0 /\ Len(p) \in 0 .. Len(p)
      BY <1>1, <2>2, EmptySeq
    <3> QED
      BY <3>1 DEF FlattenSeq, h
  <2> QED
    BY <2>1, <2>2
<1> HIDE DEF F
<1> QED
  BY <1>9, <1>10, <1>11, <1>12

Captures(captures) == \A group \in DOMAIN captures : captures[group] \in Text

LEMMA TokenTextIsText ==
  ASSUME NEW captures, Captures(captures), NEW next
  PROVE  TokenText(captures, next) \in Text
<1>1. <<"$">> \in Text
  BY TextAssumption, Single
<1>2. Captured(captures, next) \in Text
  <2>1. <<>> \in Text
    BY DEF Text
  <2> QED
    BY <2>1 DEF Captured, Captures
<1> QED
  BY <1>1, <1>2 DEF TokenText

(* One step of the loop of expandRegexRewrite.                             *)
Step(template, captures, E, i) ==
  IF IsToken(template, i)
  THEN TokenText(captures, template[i + 1]) \o E[i + 2]
  ELSE <<template[i]>> \o E[i + 1]

LEMMA ExpandSteps ==
  ASSUME NEW t \in Text, NEW captures, Captures(captures)
  PROVE  \E E \in [1 .. Len(t) + 1 -> Text] :
           /\ E[Len(t) + 1] = <<>>
           /\ \A i \in 1 .. Len(t) : E[i] = Step(t, captures, E, i)
           /\ expandRegexRewrite(t, captures) = E[1]
<1> DEFINE N == Len(t)
           good(f, n) == \A i \in n .. N + 1 : f[i] = IF i > N THEN <<>> ELSE Step(t, captures, f, i)
           S == {n \in Nat : n <= N => \E f \in [N + 1 - n .. N + 1 -> Text] : good(f, N + 1 - n)}
<1>1. N \in Nat /\ <<>> \in Text /\ \A i \in 1 .. N : <<t[i]>> \in Text
  BY Single DEF Text
<1>2. 0 \in S
  <2> DEFINE f == [i \in N + 1 .. N + 1 |-> <<>>]
  <2>1. f \in [N + 1 - 0 .. N + 1 -> Text] /\ good(f, N + 1 - 0)
    BY <1>1
  <2> HIDE DEF good, f
  <2> QED
    BY <2>1
<1>3. ASSUME NEW n \in Nat, n \in S PROVE n + 1 \in S
  <2> SUFFICES ASSUME n + 1 <= N
               PROVE  \E f \in [N + 1 - (n + 1) .. N + 1 -> Text] : good(f, N + 1 - (n + 1))
    OBVIOUS
  <2> DEFINE m == N - n
  <2>1. PICK f \in [m + 1 .. N + 1 -> Text] : good(f, m + 1)
    <3>1. N + 1 - n = m + 1 /\ n <= N
      BY <1>1
    <3> HIDE DEF good
    <3> QED
      BY <1>1, <1>3, <3>1
  <2> DEFINE g == [i \in m .. N + 1 |-> IF i = m THEN Step(t, captures, f, m) ELSE f[i]]
  <2>2. m \in 1 .. N /\ N + 1 - (n + 1) = m
    BY <1>1
  <2>3. Step(t, captures, f, m) \in Text
    <3>1. f[m + 1] \in Text /\ (IsToken(t, m) => f[m + 2] \in Text)
      BY <1>1, <2>2 DEF IsToken
    <3> QED
      BY <1>1, <2>2, <3>1, TokenTextIsText, ConcatProperties DEF Step, Text
  <2>4. g \in [m .. N + 1 -> Text]
    <3> HIDE DEF m
    <3> QED
      BY <1>1, <2>2, <2>3
  <2>5. ASSUME NEW i \in m .. N + 1 PROVE g[i] = IF i > N THEN <<>> ELSE Step(t, captures, g, i)
    <3> HIDE DEF m
    <3>1. \A k \in m + 1 .. N + 1 : g[k] = f[k]
      BY <1>1, <2>2
    <3>2. g[m] = Step(t, captures, f, m)
      BY <1>1, <2>2
    <3> HIDE DEF g
    <3>3. \A k \in m .. N : Step(t, captures, g, k) = Step(t, captures, f, k)
      <4> SUFFICES ASSUME NEW k \in m .. N PROVE Step(t, captures, g, k) = Step(t, captures, f, k)
        OBVIOUS
      <4>1. g[k + 1] = f[k + 1]
        BY <1>1, <2>2, <3>1
      <4>2. IsToken(t, k) => g[k + 2] = f[k + 2]
        <5>1. IsToken(t, k) => k + 2 \in m + 1 .. N + 1
          <6>1. k \in Nat /\ m \in Nat /\ m <= k
            BY <2>2
          <6> HIDE DEF N
          <6>2. IsToken(t, k) => k < N
            BY DEF IsToken, N
          <6> QED
            BY <1>1, <6>1, <6>2
        <5> QED
          BY <3>1, <5>1
      <4> QED
        BY <4>1, <4>2 DEF Step
    <3> QED
      BY <1>1, <2>1, <2>2, <3>1, <3>2, <3>3
  <2>6. good(g, m)
    BY <2>5
  <2> HIDE DEF g, good, m
  <2> QED
    BY <2>2, <2>4, <2>6
<1>4. PICK f \in [1 .. N + 1 -> Text] : good(f, 1)
  <2> HIDE DEF S
  <2>1. N \in S
    BY <1>1, <1>2, <1>3, Induction
  <2>2. N + 1 - N = 1
    BY <1>1
  <2> HIDE DEF good, N
  <2> QED
    BY <1>1, <2>1, <2>2 DEF S
<1> DEFINE eq(E) == E = [i \in 1 .. N + 1 |->
                           IF i > N THEN <<>>
                           ELSE IF IsToken(t, i)
                                THEN TokenText(captures, t[i + 1]) \o E[i + 2]
                                ELSE <<t[i]>> \o E[i + 1]]
           E == CHOOSE E : eq(E)
<1>5. eq(f)
  BY <1>4 DEF Step
<1>6. eq(E)
  <2> HIDE DEF eq
  <2> QED
    BY <1>5
<1>7. expandRegexRewrite(t, captures) = E[1]
  BY DEF expandRegexRewrite
<1> HIDE DEF E
<1>8. /\ E = [i \in 1 .. N + 1 |-> E[i]]
      /\ E[N + 1] = <<>>
      /\ \A i \in 1 .. N : E[i] = Step(t, captures, E, i)
  <2>1. E = [i \in 1 .. N + 1 |-> E[i]]
    BY <1>6
  <2>2. \A i \in 1 .. N + 1 : E[i] = IF i > N THEN <<>> ELSE Step(t, captures, E, i)
    BY <1>6 DEF Step
  <2>3. N + 1 \in 1 .. N + 1 /\ N + 1 > N
    BY <1>1
  <2>4. \A i \in 1 .. N : i \in 1 .. N + 1 /\ ~(i > N)
    BY <1>1
  <2> HIDE DEF N, eq
  <2>5. E[N + 1] = <<>>
    BY <2>2, <2>3
  <2>6. \A i \in 1 .. N : E[i] = Step(t, captures, E, i)
    BY <2>2, <2>4
  <2> QED
    BY <2>1, <2>5, <2>6
<1> DEFINE T == {n \in Nat : \A k \in 0 .. n : k <= N => E[N + 1 - k] \in Text}
<1>9. \A n \in Nat : n \in T
  <2>1. 0 \in T
    BY <1>1, <1>8
  <2>2. ASSUME NEW n \in Nat, n \in T PROVE n + 1 \in T
    <3> SUFFICES ASSUME n + 1 <= N PROVE E[N - n] \in Text
      BY <1>1, <2>2
    <3> DEFINE i == N - n
    <3>1. i \in 1 .. N /\ E[i] = Step(t, captures, E, i)
      BY <1>1, <1>8
    <3>2. E[i + 1] \in Text
      <4>1. n \in 0 .. n /\ N + 1 - n = i + 1 /\ n <= N
        BY <1>1
      <4> QED
        BY <2>2, <4>1
    <3>3. ASSUME IsToken(t, i) PROVE E[i + 2] \in Text
      <4>1. n # 0
        BY <1>1, <3>3 DEF IsToken
      <4>2. n - 1 \in 0 .. n /\ N + 1 - (n - 1) = i + 2 /\ n - 1 <= N
        BY <1>1, <4>1
      <4> QED
        BY <2>2, <4>2
    <3> HIDE DEF i
    <3> QED
      BY <1>1, <3>1, <3>2, <3>3, TokenTextIsText, ConcatProperties DEF Step, Text, i
  <2> HIDE DEF T
  <2> QED
    BY <2>1, <2>2, Induction
<1>10. \A i \in 1 .. N + 1 : E[i] \in Text
  <2> SUFFICES ASSUME NEW i \in 1 .. N + 1 PROVE E[i] \in Text
    OBVIOUS
  <2>1. N + 1 - i \in Nat /\ N + 1 - (N + 1 - i) = i /\ N + 1 - i <= N
    BY <1>1
  <2> QED
    BY <1>9, <2>1
<1>11. E \in [1 .. N + 1 -> Text]
  BY <1>8, <1>10
<1> QED
  BY <1>7, <1>8, <1>11

-----------------------------------------------------------------------------
(* Dollars pair up from the left: of two that are next to each other,      *)
(* exactly one begins a token.                                             *)

LEMMA RunOfDollars ==
  ASSUME NEW t \in Text, NEW i \in 1 .. Len(t)
  PROVE  \E k \in 0 .. i - 1 : DollarsBefore(t, i, k)
<1> DEFINE S == {n \in Nat : \E k \in 0 .. n : DollarsBefore(t, n + 1, k)}
<1>1. 0 \in S
  BY DEF DollarsBefore
<1>2. ASSUME NEW n \in Nat, n \in S PROVE n + 1 \in S
  <2>1. CASE t[n + 1] # "$"
    <3>1. DollarsBefore(t, n + 2, 0)
      BY <2>1 DEF DollarsBefore
    <3> QED
      BY <3>1
  <2>2. CASE t[n + 1] = "$"
    <3>1. PICK k \in 0 .. n : DollarsBefore(t, n + 1, k)
      BY <1>2
    <3>2. DollarsBefore(t, n + 2, k + 1)
      BY <2>2, <3>1 DEF DollarsBefore
    <3>3. k + 1 \in 0 .. n + 1 /\ n + 1 + 1 = n + 2
      OBVIOUS
    <3> QED
      BY <3>2, <3>3
  <2> QED
    BY <2>1, <2>2
<1> HIDE DEF S
<1>3. i - 1 \in S
  BY <1>1, <1>2, Induction DEF Text
<1> QED
  BY <1>3 DEF S

LEMMA OneRun ==
  ASSUME NEW t, NEW i \in Nat, NEW k \in 0 .. i - 1, NEW l \in 0 .. i - 1,
         DollarsBefore(t, i, k), DollarsBefore(t, i, l)
  PROVE  k = l
<1>1. ASSUME NEW a \in 0 .. i - 1, NEW b \in 0 .. i - 1, a < b,
             DollarsBefore(t, i, a), DollarsBefore(t, i, b)
      PROVE  FALSE
  <2>1. i - a - 1 \in i - b .. i - 1 /\ i - a > 1
    BY <1>1
  <2> QED
    BY <1>1, <2>1 DEF DollarsBefore
<1> QED
  BY <1>1

LEMMA BeginsIsEven ==
  ASSUME NEW t, NEW i \in Nat, NEW k \in 0 .. i - 1, DollarsBefore(t, i, k), t[i] = "$"
  PROVE  Begins(t, i) <=> k % 2 = 0
BY OneRun DEF Begins

LEMMA BeginsAlternate ==
  ASSUME NEW t \in Text, NEW i \in 1 .. Len(t), t[i] = "$"
  PROVE  IF i > 1 /\ t[i - 1] = "$" THEN Begins(t, i) <=> ~Begins(t, i - 1) ELSE Begins(t, i)
<1>1. CASE ~(i > 1 /\ t[i - 1] = "$")
  <2>1. DollarsBefore(t, i, 0) /\ 0 \in 0 .. i - 1 /\ i \in Nat /\ 0 % 2 = 0
    BY <1>1 DEF DollarsBefore
  <2> QED
    BY <1>1, <2>1, BeginsIsEven
<1>2. CASE i > 1 /\ t[i - 1] = "$"
  <2>1. i - 1 \in 1 .. Len(t)
    BY <1>2 DEF Text
  <2>2. PICK k \in 0 .. i - 1 - 1 : DollarsBefore(t, i - 1, k)
    BY <2>1, RunOfDollars
  <2>3. DollarsBefore(t, i, k + 1)
    BY <1>2, <2>2 DEF DollarsBefore
  <2>4. k + 1 \in 0 .. i - 1 /\ i \in Nat /\ i - 1 \in Nat /\ k \in Nat
    BY <2>1
  <2>5. (k + 1) % 2 = 0 <=> ~(k % 2 = 0)
    BY <2>4
  <2> QED
    BY <1>2, <2>2, <2>3, <2>4, <2>5, BeginsIsEven
<1> QED
  BY <1>1, <1>2

(* A token starts at i as the expansion sees it; one started right before. *)
Paired(t, i) == IsToken(t, i) /\ Begins(t, i)
Inside(t, i) == i > 1 /\ Paired(t, i - 1)

LEMMA TokensDoNotOverlap ==
  ASSUME NEW t \in Text, NEW i \in 1 .. Len(t)
  PROVE  /\ ~Inside(t, i) /\ IsToken(t, i) => Paired(t, i)
         /\ Inside(t, i) => ~Paired(t, i)
<1>1. ASSUME IsToken(t, i), i > 1, t[i - 1] = "$" PROVE IsToken(t, i - 1)
  BY <1>1 DEF IsToken, Text
<1>2. IsToken(t, i) => t[i] = "$"
  BY DEF IsToken
<1>3. Inside(t, i) => i > 1 /\ t[i - 1] = "$" /\ Begins(t, i - 1)
  BY DEF Inside, Paired, Begins
<1> QED
  BY <1>1, <1>2, <1>3, BeginsAlternate DEF Inside, Paired

LEMMA TextsAssociate ==
  ASSUME NEW s \in Text, NEW t \in Text, NEW u \in Text
  PROVE  s \o (t \o u) = (s \o t) \o u
BY ConcatAssociative DEF Text

LEMMA PieceIsText ==
  ASSUME NEW t \in Text, NEW captures, Captures(captures), NEW i \in 1 .. Len(t)
  PROVE  /\ Piece(t, captures, i) \in Text
         /\ Piece(t, captures, i) =
              IF Inside(t, i) THEN TokenText(captures, t[i])
              ELSE IF Paired(t, i) THEN <<>> ELSE <<t[i]>>
<1>1. <<>> \in Text /\ <<t[i]>> \in Text
  BY Single DEF Text
<1>2. Piece(t, captures, i) =
        IF Inside(t, i) THEN TokenText(captures, t[i])
        ELSE IF Paired(t, i) THEN <<>> ELSE <<t[i]>>
  BY DEF Piece, Inside, Paired, TokenText
<1> QED
  BY <1>1, <1>2, TokenTextIsText

(* expandRegexRewrite, which goes from left to right, makes of every       *)
(* template what the table of tokens says, character by character, for     *)
(* whatever the regex has captured. As long as no token is open, the text  *)
(* of the characters passed and the text still to come are the whole.      *)
THEOREM RewriteIsExpansion ==
  ASSUME NEW t \in Text, NEW captures, Captures(captures)
  PROVE  expandRegexRewrite(t, captures) = Expansion(t, captures)
<1> DEFINE N == Len(t)
           p == [i \in 1 .. N |-> Piece(t, captures, i)]
<1>1. N \in Nat /\ p \in Seq(Text) /\ Len(p) = N
  <2>1. \A i \in 1 .. N : Piece(t, captures, i) \in Text
    BY PieceIsText
  <2> HIDE DEF N
  <2>2. N \in Nat
    BY DEF N, Text
  <2> QED
    BY <2>1, <2>2
<1>2. PICK E \in [1 .. N + 1 -> Text] :
        /\ E[N + 1] = <<>>
        /\ \A i \in 1 .. N : E[i] = Step(t, captures, E, i)
        /\ expandRegexRewrite(t, captures) = E[1]
  BY ExpandSteps
<1> HIDE DEF p
<1>3. PICK F \in [0 .. N -> Text] :
        /\ F[0] = <<>>
        /\ \A i \in 1 .. N : F[i] = F[i - 1] \o p[i]
        /\ FlattenSeq(p) = F[N]
  <2>1. p \in Seq(Seq(Symbols)) /\ Len(p) = N
    BY <1>1 DEF Text
  <2>2. PICK F \in [0 .. Len(p) -> Seq(Symbols)] :
          /\ F[0] = <<>>
          /\ \A i \in 1 .. Len(p) : F[i] = F[i - 1] \o p[i]
          /\ FlattenSeq(p) = F[Len(p)]
    BY <2>1, FlattenSteps
  <2> HIDE DEF N
  <2> QED
    BY <2>1, <2>2 DEF Text
<1>4. ASSUME NEW i \in 1 .. N
      PROVE  p[i] = IF Inside(t, i) THEN TokenText(captures, t[i])
                    ELSE IF Paired(t, i) THEN <<>> ELSE <<t[i]>>
  <2>1. p[i] = Piece(t, captures, i)
    BY DEF p
  <2> QED
    BY <2>1, PieceIsText
<1>5. \A i \in 1 .. N : p[i] \in Text /\ <<t[i]>> \in Text /\ TokenText(captures, t[i]) \in Text
  BY PieceIsText, TokenTextIsText, Single DEF p, Text
<1>6. \A i \in 1 .. N : IsToken(t, i) => i + 1 \in 1 .. N
  BY DEF IsToken, Text
<1> HIDE DEF N
<1>6a. N \in Nat
  BY <1>1
<1>6b. ASSUME NEW i \in 1 .. N PROVE F[i] = F[i - 1] \o p[i]
  BY <1>3
<1>6c. /\ \A i \in 0 .. N : F[i] \in Text
       /\ \A i \in 1 .. N + 1 : E[i] \in Text
       /\ \A i \in 1 .. N : <<t[i]>> \in Text /\ TokenText(captures, t[i]) \in Text
  BY <1>2, <1>3, <1>5
<1> DEFINE Q(i) == ~Inside(t, i) => F[i - 1] \o E[i] = E[1]
           S == {n \in Nat : \A i \in 1 .. n + 1 : i <= N + 1 => Q(i)}
<1>7. 0 \in S
  <2>1. F[1 - 1] \o E[1] = E[1]
    <3>1. 1 - 1 = 0 /\ 1 \in 1 .. N + 1
      BY <1>6a
    <3> QED
      BY <1>3, <1>6c, <3>1, ConcatEmptySeq DEF Text
  <2>2. \A i \in 1 .. 0 + 1 : i = 1
    OBVIOUS
  <2> HIDE DEF Inside
  <2> QED
    BY <2>1, <2>2
<1>8. ASSUME NEW n \in Nat, n \in S PROVE n + 1 \in S
  <2> SUFFICES ASSUME n + 2 <= N + 1 PROVE Q(n + 2)
    <3>1. ASSUME NEW i \in 1 .. n + 1 + 1 PROVE i \in 1 .. n + 1 \/ i = n + 2
      OBVIOUS
    <3> HIDE DEF Q
    <3> QED
      BY <1>8, <3>1
  <2>1. /\ n + 1 \in 1 .. N /\ n + 1 \in 1 .. n + 1 /\ n + 1 <= N + 1
        /\ n + 1 - 1 = n /\ n + 2 - 1 = n + 1 /\ n + 1 + 1 = n + 2
        /\ n \in 0 .. N /\ n + 1 \in 0 .. N /\ n + 2 \in 1 .. N + 1
    BY <1>6a
  <2> SUFFICES ASSUME ~Inside(t, n + 2) PROVE F[n + 1] \o E[n + 2] = E[1]
    <3> HIDE DEF S
    <3> QED
      BY <2>1
  <2>2. ~Paired(t, n + 1)
    BY <2>1 DEF Inside
  <2>2a. \A i \in 1 .. n + 1 : i <= N + 1 => Q(i)
    BY <1>8
  <2> HIDE DEF S
  <2>3. CASE ~Inside(t, n + 1)
    <3>1. F[n] \o E[n + 1] = E[1]
      BY <2>2a, <2>1, <2>3
    <3>2. ~IsToken(t, n + 1)
      BY <2>1, <2>2, <2>3, TokensDoNotOverlap DEF N
    <3>3. E[n + 1] = <<t[n + 1]>> \o E[n + 2]
      <4> HIDE DEF Q
      <4> QED
        BY <1>2, <2>1, <3>2 DEF Step
    <3>4. F[n + 1] = F[n] \o <<t[n + 1]>>
      <4>1. p[n + 1] = <<t[n + 1]>>
        BY <1>4, <2>1, <2>2, <2>3
      <4>2. F[n + 1] = F[n] \o p[n + 1]
        <5>1. PICK m \in 1 .. N : m = n + 1
          BY <2>1
        <5>2. F[m] = F[m - 1] \o p[m]
          BY <1>6b
        <5>3. m - 1 = n
          BY <5>1
        <5> QED
          BY <5>1, <5>2, <5>3
      <4> QED
        BY <4>1, <4>2
    <3>5. F[n] \in Text /\ <<t[n + 1]>> \in Text /\ E[n + 2] \in Text
      BY <1>6c, <2>1
    <3>6. F[n] \o (<<t[n + 1]>> \o E[n + 2]) = (F[n] \o <<t[n + 1]>>) \o E[n + 2]
      BY <3>5, TextsAssociate
    <3> QED
      BY <3>1, <3>3, <3>4, <3>6
  <2>4. CASE Inside(t, n + 1)
    <3>1. n >= 1 /\ Paired(t, n)
      BY <2>1, <2>4 DEF Inside
    <3>2. n \in 1 .. N /\ n \in 1 .. n + 1 /\ n <= N + 1 /\ n - 1 \in 0 .. N
      <4> HIDE DEF Q
      <4> QED
        BY <1>6a, <2>1, <3>1
    <3>3. ~Inside(t, n) /\ IsToken(t, n)
      BY <3>1, <3>2, TokensDoNotOverlap DEF N, Paired
    <3>4. F[n - 1] \o E[n] = E[1]
      BY <2>2a, <3>2, <3>3
    <3>5. E[n] = TokenText(captures, t[n + 1]) \o E[n + 2]
      BY <1>2, <3>2, <3>3 DEF Step
    <3>6. F[n] = F[n - 1]
      <4>1. F[n] = F[n - 1] \o <<>> /\ F[n - 1] \in Text
        BY <1>3, <1>4, <3>1, <3>2, <3>3
      <4> QED
        BY <4>1, ConcatEmptySeq DEF Text
    <3>7. F[n + 1] = F[n] \o TokenText(captures, t[n + 1])
      <4>1. p[n + 1] = TokenText(captures, t[n + 1])
        BY <1>4, <2>1, <2>4
      <4>2. F[n + 1] = F[n] \o p[n + 1]
        <5>1. PICK m \in 1 .. N : m = n + 1
          BY <2>1
        <5>2. F[m] = F[m - 1] \o p[m]
          BY <1>6b
        <5>3. m - 1 = n
          BY <5>1
        <5> QED
          BY <5>1, <5>2, <5>3
      <4> QED
        BY <4>1, <4>2
    <3>8. /\ F[n - 1] \in Text /\ TokenText(captures, t[n + 1]) \in Text
          /\ E[n + 2] \in Text
      BY <1>6c, <2>1, <3>2
    <3>9. F[n - 1] \o (TokenText(captures, t[n + 1]) \o E[n + 2])
            = (F[n - 1] \o TokenText(captures, t[n + 1])) \o E[n + 2]
      BY <3>8, TextsAssociate
    <3> QED
      BY <3>4, <3>5, <3>6, <3>7, <3>9
  <2> QED
    BY <2>3, <2>4
<1>9. Q(N + 1)
  <2> HIDE DEF S
  <2>1. N \in S
    BY <1>1, <1>7, <1>8, Induction
  <2>2. N + 1 \in 1 .. N + 1 /\ N + 1 <= N + 1
    BY <1>1
  <2> HIDE DEF Q
  <2> QED
    BY <2>1, <2>2 DEF S
<1>10. ~Inside(t, N + 1)
  <2>1. N + 1 - 1 = N /\ ~(N < N)
    BY <1>1
  <2> QED
    BY <2>1 DEF Inside, Paired, IsToken, N
<1>11. F[N] = E[1]
  <2>1. N + 1 - 1 = N /\ N \in 0 .. N
    BY <1>6a
  <2>2. F[N] \o <<>> = E[1]
    BY <1>2, <1>9, <1>10, <2>1
  <2>3. F[N] \in Text
    BY <1>6c, <2>1
  <2> HIDE DEF Q
  <2> QED
    BY <2>2, <2>3, ConcatEmptySeq DEF Text
<1> QED
  BY <1>2, <1>3, <1>11 DEF Expansion, p, N

-----------------------------------------------------------------------------
(* A duplicate key can be read back. Parts without a bar, joined with      *)
(* bars, are what lies between the bars.                                   *)

Barless(V, part) == part \in Seq(V) /\ \A i \in 1 .. Len(part) : part[i] # Bar

Marked(s, part) == s \o (<<Bar>> \o part)

Ends(w, s, part) ==
  /\ Len(w) = Len(s) + 1 + Len(part)
  /\ \A i \in 1 .. Len(s) : w[i] = s[i]
  /\ w[Len(s) + 1] = Bar
  /\ \A i \in 1 .. Len(part) : w[Len(s) + 1 + i] = part[i]

Follows(u, s, t) ==
  /\ Len(u) = Len(s) + Len(t)
  /\ \A i \in 1 .. Len(s) : u[i] = s[i]
  /\ \A i \in 1 .. Len(t) : u[Len(s) + i] = t[i]

LEMMA ConcatFollows ==
  ASSUME NEW S, NEW s \in Seq(S), NEW t \in Seq(S)
  PROVE  s \o t \in Seq(S) /\ Follows(s \o t, s, t)
BY ConcatProperties DEF Follows

LEMMA MarkedEnds ==
  ASSUME NEW V, Bar \in V, NEW s \in Seq(V), NEW part \in Seq(V)
  PROVE  Marked(s, part) \in Seq(V) /\ Ends(Marked(s, part), s, part)
<1> DEFINE e == <<Bar>> \o part
<1>1. /\ e \in Seq(V) /\ Len(e) = 1 + Len(part) /\ e[1] = Bar
      /\ \A i \in 1 .. Len(part) : e[1 + i] = part[i]
  OBVIOUS
<1> HIDE DEF e
<1>2. /\ Len(s \o e) = Len(s) + Len(e)
      /\ \A i \in 1 .. Len(s) : (s \o e)[i] = s[i]
      /\ \A i \in 1 .. Len(e) : (s \o e)[Len(s) + i] = e[i]
  <2>1. Follows(s \o e, s, e)
    BY <1>1, ConcatFollows
  <2> QED
    BY <2>1 DEF Follows
<1>3. s \o e \in Seq(V) /\ Len(s) \in Nat /\ Len(part) \in Nat
  BY <1>1
<1>4. (s \o e)[Len(s) + 1] = Bar
  BY <1>1, <1>2, <1>3
<1>5. ASSUME NEW i \in 1 .. Len(part) PROVE (s \o e)[Len(s) + 1 + i] = part[i]
  <2>1. 1 + i \in 1 .. Len(e) /\ Len(s) + (1 + i) = Len(s) + 1 + i
    BY <1>1, <1>3
  <2> QED
    BY <1>1, <1>2, <2>1
<1>6. Len(s \o e) = Len(s) + 1 + Len(part)
  BY <1>1, <1>2, <1>3
<1>7. Marked(s, part) = s \o e
  BY DEF Marked, e
<1> QED
  BY <1>2, <1>3, <1>4, <1>5, <1>6, <1>7 DEF Ends

(* There is no bar after the one that ends the text before the last part.  *)
LEMMA NoBarAfter ==
  ASSUME NEW V, NEW w, NEW s, NEW part, Ends(w, s, part), Barless(V, part),
         NEW n, n = Len(s) + 1, NEW k \in 1 .. Len(part), NEW j, j = n + k
  PROVE  w[j] # Bar
<1>1. w[n + k] = part[k]
  BY DEF Ends
<1>2. part[k] # Bar
  BY DEF Barless
<1> QED
  BY <1>1, <1>2

(* What comes after the last bar of a text, and before it.                 *)
LEMMA LastPart ==
  ASSUME NEW V, Bar \in V, NEW s \in Seq(V), NEW t \in Seq(V),
         NEW p, Barless(V, p), NEW q, Barless(V, q), Marked(s, p) = Marked(t, q)
  PROVE  s = t /\ p = q
<1> DEFINE w == Marked(s, p)
<1>1. /\ Len(s) \in Nat /\ Len(t) \in Nat /\ Len(p) \in Nat /\ Len(q) \in Nat
      /\ p \in Seq(V) /\ q \in Seq(V)
  BY DEF Barless
<1>2. Ends(w, s, p) /\ Ends(w, t, q)
  BY <1>1, MarkedEnds
<1> HIDE DEF w
<1>3. ~(Len(s) < Len(t))
  <2> SUFFICES ASSUME Len(s) < Len(t) PROVE FALSE
    OBVIOUS
  <2>1. Len(t) - Len(s) \in 1 .. Len(p) /\ Len(s) + 1 + (Len(t) - Len(s)) = Len(t) + 1
    BY <1>1, <1>2 DEF Ends
  <2>2. w[Len(t) + 1] = Bar
    BY <1>2 DEF Ends
  <2> QED
    BY <1>2, <2>1, <2>2, NoBarAfter
<1>4. ~(Len(t) < Len(s))
  <2> SUFFICES ASSUME Len(t) < Len(s) PROVE FALSE
    OBVIOUS
  <2>1. Len(s) - Len(t) \in 1 .. Len(q) /\ Len(t) + 1 + (Len(s) - Len(t)) = Len(s) + 1
    BY <1>1, <1>2 DEF Ends
  <2>2. w[Len(s) + 1] = Bar
    BY <1>2 DEF Ends
  <2> QED
    BY <1>2, <2>1, <2>2, NoBarAfter
<1>5. Len(s) = Len(t) /\ Len(p) = Len(q)
  BY <1>1, <1>2, <1>3, <1>4 DEF Ends
<1>6. s = t
  BY <1>2, <1>5, SeqEqual DEF Ends
<1>7. p = q
  BY <1>1, <1>2, <1>5, SeqEqual DEF Ends
<1> QED
  BY <1>6, <1>7

LEMMA JoinedSteps ==
  ASSUME NEW V, Bar \in V, NEW parts \in Seq(Seq(V))
  PROVE  \E F \in [0 .. Len(parts) -> Seq(V)] :
           /\ F[0] = <<>>
           /\ \A i \in 1 .. Len(parts) : F[i] = Marked(F[i - 1], parts[i])
           /\ Joined(parts) = F[Len(parts)]
<1> DEFINE barred == [i \in DOMAIN parts |-> <<Bar>> \o parts[i]]
<1>1. DOMAIN parts = 1 .. Len(parts) /\ Len(parts) \in Nat
  OBVIOUS
<1>2. ASSUME NEW i \in DOMAIN parts PROVE <<Bar>> \o parts[i] \in Seq(V)
  <2>1. <<Bar>> \in Seq(V) /\ parts[i] \in Seq(V)
    BY <1>1
  <2> QED
    BY <2>1, ConcatProperties
<1>3. barred \in Seq(Seq(V)) /\ Len(barred) = Len(parts)
  BY <1>1, <1>2
<1>4. \A i \in 1 .. Len(parts) : barred[i] = <<Bar>> \o parts[i]
  BY <1>1
<1>5. Joined(parts) = FlattenSeq(barred)
  BY DEF Joined
<1> HIDE DEF barred
<1>6. PICK F \in [0 .. Len(barred) -> Seq(V)] :
        /\ F[0] = <<>>
        /\ \A i \in 1 .. Len(barred) : F[i] = F[i - 1] \o barred[i]
        /\ FlattenSeq(barred) = F[Len(barred)]
  BY <1>3, FlattenSteps
<1> QED
  BY <1>3, <1>4, <1>5, <1>6 DEF Marked

(* Joining is injective, with or without the bar it begins with.           *)
LEMMA JoinedIsInjective ==
  ASSUME NEW V, Bar \in V, NEW s \in Seq(Seq(V)), NEW t \in Seq(Seq(V)),
         \A i \in 1 .. Len(s) : Barless(V, s[i]), \A i \in 1 .. Len(t) : Barless(V, t[i]),
         Joined(s) = Joined(t)
  PROVE  s = t
<1>1. /\ Len(s) \in Nat /\ Len(t) \in Nat
      /\ \A i \in 1 .. Len(s) : s[i] \in Seq(V)
      /\ \A i \in 1 .. Len(t) : t[i] \in Seq(V)
  OBVIOUS
<1>2. PICK F \in [0 .. Len(s) -> Seq(V)] :
        /\ F[0] = <<>>
        /\ \A i \in 1 .. Len(s) : F[i] = Marked(F[i - 1], s[i])
        /\ Joined(s) = F[Len(s)]
  BY JoinedSteps
<1>3. PICK G \in [0 .. Len(t) -> Seq(V)] :
        /\ G[0] = <<>>
        /\ \A i \in 1 .. Len(t) : G[i] = Marked(G[i - 1], t[i])
        /\ Joined(t) = G[Len(t)]
  BY JoinedSteps
<1>4. ASSUME NEW a \in Seq(V), NEW b \in Seq(V) PROVE Marked(a, b) # <<>>
  <2>1. Ends(Marked(a, b), a, b)
    BY MarkedEnds
  <2>2. Len(Marked(a, b)) # 0
    BY <2>1 DEF Ends
  <2> QED
    BY <2>2
<1> DEFINE same(i, j) == i = j /\ \A l \in 1 .. i : s[l] = t[l]
           S == {n \in Nat : n <= Len(s) => \A j \in 0 .. Len(t) : F[n] = G[j] => same(n, j)}
<1>5. 0 \in S
  <2> SUFFICES ASSUME NEW j \in 0 .. Len(t), F[0] = G[j] PROVE j = 0
    OBVIOUS
  <2> SUFFICES ASSUME j # 0 PROVE FALSE
    OBVIOUS
  <2>1. j \in 1 .. Len(t) /\ j - 1 \in 0 .. Len(t)
    BY <1>1
  <2>2. G[j] = Marked(G[j - 1], t[j]) /\ G[j - 1] \in Seq(V) /\ t[j] \in Seq(V)
    BY <1>1, <1>3, <2>1
  <2> QED
    BY <1>2, <1>4, <2>2
<1>6. ASSUME NEW n \in Nat, n \in S PROVE n + 1 \in S
  <2> SUFFICES ASSUME n + 1 <= Len(s), NEW j \in 0 .. Len(t), F[n + 1] = G[j]
               PROVE  same(n + 1, j)
    <3> HIDE DEF same
    <3> QED
      OBVIOUS
  <2>1. n + 1 \in 1 .. Len(s) /\ n \in 0 .. Len(s) /\ n + 1 - 1 = n /\ n <= Len(s)
    BY <1>1
  <2>2. F[n + 1] = Marked(F[n], s[n + 1]) /\ F[n] \in Seq(V) /\ s[n + 1] \in Seq(V)
    <3> DEFINE m == n + 1
    <3>1. m \in 1 .. Len(s) /\ m - 1 = n
      BY <2>1
    <3> HIDE DEF m
    <3>2. F[m] = Marked(F[m - 1], s[m]) /\ s[m] \in Seq(V)
      BY <1>1, <1>2, <3>1
    <3>3. F[n] \in Seq(V)
      BY <2>1
    <3> QED
      BY <3>1, <3>2, <3>3 DEF m
  <2>3. j # 0
    BY <1>3, <1>4, <2>2
  <2>4. j \in 1 .. Len(t) /\ j - 1 \in 0 .. Len(t)
    BY <1>1, <2>3
  <2>5. G[j] = Marked(G[j - 1], t[j]) /\ G[j - 1] \in Seq(V)
    BY <1>3, <2>4
  <2>6. F[n] = G[j - 1] /\ s[n + 1] = t[j]
    <3>1. Barless(V, s[n + 1]) /\ Barless(V, t[j])
      BY <2>1, <2>4
    <3>2. Marked(F[n], s[n + 1]) = Marked(G[j - 1], t[j])
      BY <2>2, <2>5
    <3> QED
      <4>1. /\ F[n] \in Seq(V) /\ G[j - 1] \in Seq(V)
            /\ Barless(V, s[n + 1]) /\ Barless(V, t[j])
            /\ Marked(F[n], s[n + 1]) = Marked(G[j - 1], t[j])
        BY <2>2, <2>5, <3>1, <3>2
      <4> QED
        BY <4>1, LastPart
  <2>7. same(n, j - 1)
    <3> HIDE DEF same
    <3> QED
      BY <1>6, <2>1, <2>4, <2>6
  <2>8. j = n + 1
    BY <2>4, <2>7
  <2>9. ASSUME NEW l \in 1 .. n + 1 PROVE s[l] = t[l]
    <3>1. l \in 1 .. n \/ l = n + 1
      OBVIOUS
    <3> QED
      BY <2>6, <2>7, <2>8, <3>1
  <2> QED
    BY <2>8, <2>9
<1>7. same(Len(s), Len(t))
  <2> HIDE DEF S
  <2>1. Len(s) \in S
    BY <1>1, <1>5, <1>6, Induction
  <2>2. Len(t) \in 0 .. Len(t)
    BY <1>1
  <2>3. F[Len(s)] = G[Len(t)]
    BY <1>2, <1>3
  <2>4. Len(s) <= Len(s)
    BY <1>1
  <2> HIDE DEF same
  <2> QED
    BY <2>1, <2>2, <2>3, <2>4 DEF S
<1> QED
  BY <1>1, <1>7, SeqEqual

LEMMA JoinedBegins ==
  ASSUME NEW V, Bar \in V, NEW parts \in Seq(Seq(V)), parts # <<>>
  PROVE  /\ Joined(parts) \in Seq(V)
         /\ Joined(parts) = <<Bar>> \o Tail(Joined(parts))
<1>1. PICK F \in [0 .. Len(parts) -> Seq(V)] :
        /\ F[0] = <<>>
        /\ \A i \in 1 .. Len(parts) : F[i] = Marked(F[i - 1], parts[i])
        /\ Joined(parts) = F[Len(parts)]
  BY JoinedSteps
<1>2. Len(parts) \in Nat /\ Len(parts) # 0 /\ \A i \in 1 .. Len(parts) : parts[i] \in Seq(V)
  BY EmptySeq
<1> DEFINE begins(n) == Len(F[n]) > 0 /\ F[n][1] = Bar
           S == {n \in Nat : n + 1 <= Len(parts) => begins(n + 1)}
<1>3. ASSUME NEW n \in Nat, n + 1 <= Len(parts)
      PROVE  /\ Ends(F[n + 1], F[n], parts[n + 1])
             /\ Len(F[n]) \in Nat /\ Len(parts[n + 1]) \in Nat
  <2>1. n + 1 \in 1 .. Len(parts) /\ n + 1 - 1 = n /\ n \in 0 .. Len(parts)
    BY <1>2, <1>3
  <2>2. F[n] \in Seq(V) /\ parts[n + 1] \in Seq(V) /\ F[n + 1] = Marked(F[n], parts[n + 1])
    <3> DEFINE m == n + 1
    <3>1. m \in 1 .. Len(parts) /\ m - 1 = n
      BY <2>1
    <3> HIDE DEF m
    <3>2. F[m] = Marked(F[m - 1], parts[m]) /\ parts[m] \in Seq(V)
      BY <1>1, <1>2, <3>1
    <3> QED
      BY <2>1, <3>1, <3>2 DEF m
  <2> QED
    BY <2>2, MarkedEnds
<1>4. 0 \in S
  <2>1. 0 + 1 <= Len(parts) /\ 0 + 1 = 1
    BY <1>2
  <2>2. Len(F[0]) = 0
    BY <1>1
  <2>3. Ends(F[0 + 1], F[0], parts[0 + 1]) /\ Len(parts[0 + 1]) \in Nat
    BY <1>3, <2>1
  <2>4. begins(1)
    BY <2>1, <2>2, <2>3 DEF Ends
  <2> HIDE DEF begins
  <2> QED
    BY <2>1, <2>4
<1>5. ASSUME NEW n \in Nat, n \in S PROVE n + 1 \in S
  <2> SUFFICES ASSUME n + 1 + 1 <= Len(parts) PROVE begins(n + 1 + 1)
    <3> HIDE DEF begins
    <3> QED
      OBVIOUS
  <2>1. begins(n + 1)
    <3>1. n + 1 <= Len(parts)
      BY <1>2
    <3> HIDE DEF begins
    <3> QED
      BY <1>5, <3>1
  <2> DEFINE m == n + 1
  <2>2. m \in Nat /\ m + 1 <= Len(parts) /\ begins(m)
    BY <2>1
  <2> HIDE DEF m
  <2>3. begins(m + 1)
    <3>1. /\ Ends(F[m + 1], F[m], parts[m + 1])
          /\ Len(F[m]) \in Nat /\ Len(parts[m + 1]) \in Nat
      BY <1>3, <2>2
    <3>2. 1 \in 1 .. Len(F[m])
      BY <2>2, <3>1
    <3>3. F[m + 1][1] = F[m][1]
      BY <3>1, <3>2 DEF Ends
    <3>4. Len(F[m + 1]) = Len(F[m]) + 1 + Len(parts[m + 1])
      BY <3>1 DEF Ends
    <3>5. Len(F[m + 1]) > 0
      <4>1. \A x, y \in Nat : x + 1 + y > 0
        OBVIOUS
      <4> QED
        BY <3>1, <3>4, <4>1
    <3> QED
      BY <2>2, <3>3, <3>5
  <2> QED
    BY <2>3 DEF m
<1>6. begins(Len(parts))
  <2> HIDE DEF S
  <2>1. \A n \in Nat : n \in S
    BY <1>4, <1>5, Induction
  <2>2. Len(parts) - 1 \in Nat /\ Len(parts) - 1 + 1 = Len(parts)
    BY <1>2
  <2>3. Len(parts) - 1 \in S
    BY <2>1, <2>2
  <2> HIDE DEF begins
  <2> QED
    BY <1>2, <2>2, <2>3 DEF S
<1>7. Joined(parts) \in Seq(V) /\ Len(Joined(parts)) > 0 /\ Joined(parts)[1] = Bar
  <2>1. Len(parts) \in 0 .. Len(parts)
    BY <1>2
  <2> QED
    BY <1>1, <1>6, <2>1
<1> DEFINE w == Joined(parts)
<1> HIDE DEF w
<1>8. ASSUME w \in Seq(V), Len(w) > 0, w[1] = Bar PROVE w = <<Bar>> \o Tail(w)
  <2>1. Tail(w) \in Seq(V) /\ Len(Tail(w)) = Len(w) - 1 /\ \A i \in 1 .. Len(w) - 1 : Tail(w)[i] = w[i + 1]
    BY <1>8
  <2>2. /\ <<Bar>> \o Tail(w) \in Seq(V) /\ Len(<<Bar>> \o Tail(w)) = Len(w)
        /\ (<<Bar>> \o Tail(w))[1] = Bar
        /\ \A i \in 2 .. Len(w) : (<<Bar>> \o Tail(w))[i] = Tail(w)[i - 1]
    BY <1>8, <2>1
  <2>3. ASSUME NEW i \in 1 .. Len(w) PROVE (<<Bar>> \o Tail(w))[i] = w[i]
    <3>1. CASE i = 1
      BY <1>8, <2>2, <3>1
    <3>2. CASE i # 1
      <4>1. i \in 2 .. Len(w) /\ i - 1 \in 1 .. Len(w) - 1 /\ i - 1 + 1 = i
        BY <1>8, <3>2
      <4> QED
        BY <2>1, <2>2, <4>1
    <3> QED
      BY <3>1, <3>2
  <2> QED
    BY <1>8, <2>2, <2>3, SeqEqual
<1> QED
  BY <1>7, <1>8 DEF w

(* What the parts of a key are made of, by position.                       *)
KeySymbols ==
  Symbols \cup Delimiters \cup Methods \cup DOMAIN Width
    \cup {"present", "equals", "prefix", "contains"}

Has(part, c) == \E k \in 1 .. Len(part) : part[k] = c

LEMMA LowerIsNoDelimiter ==
  ASSUME NEW name \in Symbols
  PROVE  Lower(name) \in Symbols /\ \A d \in Delimiters : Lower(name) = d => name = d
BY TextAssumption DEF Lower

LEMMA HeaderPartShape ==
  ASSUME NEW h \in Header, h.name # Bar, Bar \notin Range(h.value),
         EffectiveOp(h) \in {"present", "equals", "prefix", "contains"}
  PROVE  /\ Barless(KeySymbols, HeaderPart(h))
         /\ Len(HeaderPart(h)) = 4 + Len(h.value)
         /\ HeaderPart(h)[1] = Lower(h.name) /\ HeaderPart(h)[2] = "="
         /\ HeaderPart(h)[3] = EffectiveOp(h) /\ HeaderPart(h)[4] = ":"
         /\ \A k \in 1 .. Len(h.value) : HeaderPart(h)[4 + k] = h.value[k]
<1> DEFINE lead == <<Lower(h.name), "=", EffectiveOp(h), ":">>
           x == HeaderPart(h)
<1>1. /\ h.value \in Seq(KeySymbols) /\ h.value \in Text /\ h.name \in Symbols
      /\ \A k \in 1 .. Len(h.value) : h.value[k] # Bar
  BY DEF Header, Text, KeySymbols, Range
<1>2. /\ Lower(h.name) \in KeySymbols \ {Bar} /\ EffectiveOp(h) \in KeySymbols \ {Bar}
      /\ "=" \in KeySymbols \ {Bar} /\ ":" \in KeySymbols \ {Bar}
  BY <1>1, LowerIsNoDelimiter DEF KeySymbols, Delimiters, Bar
<1>3. /\ lead \in Seq(KeySymbols) /\ Len(lead) = 4
      /\ lead[1] = Lower(h.name) /\ lead[2] = "=" /\ lead[3] = EffectiveOp(h) /\ lead[4] = ":"
  BY <1>2
<1> HIDE DEF lead
<1>4. /\ x \in Seq(KeySymbols) /\ Len(x) = 4 + Len(h.value)
      /\ \A k \in 1 .. 4 : x[k] = lead[k]
      /\ \A k \in 1 .. Len(h.value) : x[4 + k] = h.value[k]
  BY <1>1, <1>3, ConcatProperties DEF HeaderPart, lead
<1> HIDE DEF x
<1>5. ASSUME NEW k \in 1 .. Len(x) PROVE x[k] # Bar
  <2>1. CASE k \in 1 .. 4
    <3>1. k = 1 \/ k = 2 \/ k = 3 \/ k = 4
      BY <2>1
    <3> QED
      BY <1>2, <1>3, <1>4, <2>1, <3>1
  <2>2. CASE k \notin 1 .. 4
    <3>1. k - 4 \in 1 .. Len(h.value) /\ 4 + (k - 4) = k
      BY <1>1, <1>4, <2>2 DEF Text
    <3> QED
      BY <1>1, <1>4, <3>1
  <2> QED
    BY <2>1, <2>2
<1> QED
  BY <1>3, <1>4, <1>5 DEF Barless, x

LEMMA HostPartShape ==
  ASSUME NEW host \in Host, Bar \notin Range(host.labels),
         \A k \in DOMAIN host.labels : host.labels[k] \notin {"*", ":", "/"}
  PROVE  LET rest == LowerAll(host.labels)
         IN  /\ Barless(KeySymbols, HostPart(host))
             /\ ~Has(HostPart(host), ":") /\ ~Has(HostPart(host), "/")
             /\ rest \in Text /\ \A k \in 1 .. Len(rest) : rest[k] # "*"
             /\ HostPart(host) = IF host.wild THEN <<"*">> \o rest ELSE rest
<1> DEFINE rest == LowerAll(host.labels)
<1>1. host.labels \in Text /\ rest \in Text /\ Len(rest) = Len(host.labels)
  BY FoldedIsText DEF Host
<1>2. \A k \in 1 .. Len(rest) : rest[k] = Lower(host.labels[k]) /\ host.labels[k] \in Symbols
  BY <1>1 DEF LowerAll, Text
<1>3. ASSUME NEW k \in 1 .. Len(rest) PROVE rest[k] \in Symbols \ {"*", ":", "/", Bar}
  <2>1. host.labels[k] \notin {"*", ":", "/", Bar}
    BY <1>1, <1>3 DEF Range, Text
  <2> QED
    BY <1>2, <2>1, LowerIsNoDelimiter DEF Delimiters
<1> HIDE DEF rest
<1>4. rest \in Seq(KeySymbols)
  BY <1>1 DEF Text, KeySymbols
<1>5. HostPart(host) = IF host.wild THEN <<"*">> \o rest ELSE rest
  <2>1. <<>> \o rest = rest
    BY <1>4, ConcatEmptySeq
  <2> QED
    BY <2>1 DEF HostPart, rest
<1> DEFINE x == HostPart(host)
<1>6. /\ x \in Seq(KeySymbols)
      /\ \A k \in 1 .. Len(x) : x[k] \in (Symbols \ {"*", ":", "/", Bar}) \cup {"*"}
  <2>1. CASE ~host.wild
    BY <1>3, <1>4, <1>5, <2>1
  <2>2. CASE host.wild
    <3>1. <<"*">> \in Seq(KeySymbols)
      BY DEF KeySymbols, Delimiters
    <3>2. /\ <<"*">> \o rest \in Seq(KeySymbols) /\ Len(<<"*">> \o rest) = 1 + Len(rest)
          /\ (<<"*">> \o rest)[1] = "*"
          /\ \A k \in 1 .. Len(rest) : (<<"*">> \o rest)[1 + k] = rest[k]
      BY <1>4, <3>1, ConcatProperties
    <3>3. ASSUME NEW k \in 1 .. Len(x) PROVE x[k] \in (Symbols \ {"*", ":", "/", Bar}) \cup {"*"}
      <4>1. k = 1 \/ (k - 1 \in 1 .. Len(rest) /\ 1 + (k - 1) = k)
        BY <1>4, <1>5, <2>2, <3>2
      <4> QED
        BY <1>3, <1>5, <2>2, <3>2, <4>1
    <3> QED
      BY <1>5, <2>2, <3>2, <3>3
  <2> QED
    BY <2>1, <2>2
<1> HIDE DEF x
<1>7. "*" \notin {":", "/", Bar}
  BY DEF Bar
<1>8. Barless(KeySymbols, x) /\ ~Has(x, ":") /\ ~Has(x, "/")
  BY <1>6, <1>7 DEF Barless, Has
<1> QED
  BY <1>1, <1>3, <1>5, <1>8 DEF x, rest

LEMMA CIDRPartShape ==
  ASSUME NEW cidr, IsBits(cidr.family, cidr.bits), cidr.length \in 0 .. Width[cidr.family]
  PROVE  LET W == Width[cidr.family]
             x == CIDRPart(cidr)
         IN  /\ Barless(KeySymbols, x) /\ ~Has(x, ":") /\ Has(x, "/")
             /\ W \in Nat /\ Len(x) = 1 + W + 1 + cidr.length
             /\ x[1] = cidr.family /\ \A k \in 1 .. W : x[1 + k] = cidr.bits[k]
<1> DEFINE W == Width[cidr.family]
           x == CIDRPart(cidr)
           n == cidr.length
           strokes == [k \in 1 .. n |-> "1"]
           family == cidr.family
           bits == cidr.bits
           s1 == <<family>> \o bits
           s2 == s1 \o <<"/">>
<1>1. W \in Nat /\ n \in 0 .. W /\ bits \in [1 .. W -> {"0", "1"}] /\ family \in DOMAIN Width
  BY TextAssumption DEF IsBits
<1>2. {"0", "1", "/", family} \subseteq KeySymbols /\ family \notin {":", "/", Bar}
  BY <1>1, TextAssumption DEF KeySymbols, Delimiters
<1>3. {"0", "1", "/"} \cap {":", Bar} = {} 
  BY DEF Bar
<1>4. x = s2 \o strokes
  BY DEF CIDRPart
<1> HIDE DEF W, x, n, family, bits
<1>5. /\ bits \in Seq(KeySymbols) /\ Len(bits) = W /\ \A k \in 1 .. W : bits[k] \in {"0", "1"}
      /\ strokes \in Seq(KeySymbols) /\ Len(strokes) = n /\ \A k \in 1 .. n : strokes[k] = "1"
      /\ n \in Nat
  <2>1. bits \in [1 .. W -> KeySymbols]
    BY <1>1, <1>2
  <2>2. n \in Nat /\ strokes \in [1 .. n -> KeySymbols]
    BY <1>1, <1>2
  <2> QED
    BY <1>1, <2>1, <2>2
<1> HIDE DEF strokes
<1>6. /\ s1 \in Seq(KeySymbols) /\ Len(s1) = 1 + W /\ s1[1] = family
      /\ \A k \in 1 .. W : s1[1 + k] = bits[k]
  BY <1>1, <1>2, <1>5
<1> HIDE DEF s1
<1>7. /\ s2 \in Seq(KeySymbols) /\ Len(s2) = 1 + W + 1 /\ s2[1 + W + 1] = "/"
      /\ \A k \in 1 .. 1 + W : s2[k] = s1[k]
  BY <1>1, <1>2, <1>6
<1> HIDE DEF s2
<1>8. /\ x \in Seq(KeySymbols) /\ Len(x) = 1 + W + 1 + n
      /\ \A k \in 1 .. 1 + W + 1 : x[k] = s2[k]
      /\ \A k \in 1 .. n : x[1 + W + 1 + k] = strokes[k]
  <2>1. s2 \o strokes \in Seq(KeySymbols) /\ Follows(s2 \o strokes, s2, strokes)
    BY <1>5, <1>7, ConcatFollows
  <2> QED
    BY <1>4, <1>5, <1>7, <2>1 DEF Follows
<1>9. x[1] = family /\ x[1 + W + 1] = "/"
  BY <1>1, <1>6, <1>7, <1>8
<1>10. \A k \in 1 .. W : x[1 + k] = bits[k]
  <2> SUFFICES ASSUME NEW k \in 1 .. W PROVE x[1 + k] = bits[k]
    OBVIOUS
  <2>1. 1 + k \in 1 .. 1 + W /\ 1 + k \in 1 .. 1 + W + 1
    BY <1>1
  <2> QED
    BY <1>6, <1>7, <1>8, <2>1
<1>11. ASSUME NEW k \in 1 .. Len(x) PROVE x[k] \in {"0", "1", "/", family}
  <2>1. \/ k = 1 \/ k = 1 + W + 1
        \/ k - 1 \in 1 .. W /\ 1 + (k - 1) = k
        \/ k - (1 + W + 1) \in 1 .. n /\ 1 + W + 1 + (k - (1 + W + 1)) = k
    BY <1>1, <1>5, <1>8
  <2> QED
    BY <1>5, <1>8, <1>9, <1>10, <2>1
<1>12. Barless(KeySymbols, x) /\ ~Has(x, ":")
  BY <1>2, <1>3, <1>8, <1>11 DEF Barless, Has
<1>13. Has(x, "/")
  <2>1. 1 + W + 1 \in 1 .. Len(x)
    BY <1>1, <1>5, <1>8
  <2> QED
    BY <1>9, <2>1 DEF Has
<1> QED
  BY <1>1, <1>8, <1>9, <1>10, <1>12, <1>13 DEF W, x, n, family, bits

(* The four fixed parts, then the headers, the hosts and the networks.     *)
TextOf(rule, kind) == IF rule.kind = kind THEN rule.pattern ELSE <<>>

FixedParts(rule) ==
  <<IF rule.method = None THEN <<>> ELSE <<rule.method>>,
    TextOf(rule, "exact"), TextOf(rule, "prefix"), TextOf(rule, "regex")>>

HasParts(rule, parts) ==
  LET h == Len(rule.headers)
      o == Len(rule.hosts)
      c == Len(rule.cidrs)
  IN  /\ h \in Nat /\ o \in Nat /\ c \in Nat /\ Len(parts) = 4 + h + o + c
      /\ \A i \in 1 .. 4 : parts[i] = FixedParts(rule)[i]
      /\ \A i \in 1 .. h : parts[4 + i] = HeaderPart(rule.headers[i])
      /\ \A i \in 1 .. o : parts[4 + h + i] = HostPart(rule.hosts[i])
      /\ \A i \in 1 .. c : parts[4 + h + o + i] = CIDRPart(rule.cidrs[i])

Readable(rule) == IsRule(rule) /\ validateRule(rule) /\ NoBar(rule)

LEMMA RuleShapes ==
  ASSUME NEW rule, Readable(rule)
  PROVE  /\ \A i \in 1 .. Len(rule.headers) :
              LET h == rule.headers[i]
              IN  /\ h \in Header /\ h.name # Bar /\ Bar \notin Range(h.value)
                  /\ EffectiveOp(h) \in {"present", "equals", "prefix", "contains"}
         /\ \A i \in 1 .. Len(rule.hosts) :
              LET host == rule.hosts[i]
              IN  /\ host \in Host /\ Bar \notin Range(host.labels)
                  /\ \A k \in DOMAIN host.labels : host.labels[k] \notin {"*", ":", "/"}
         /\ \A i \in 1 .. Len(rule.cidrs) :
              LET cidr == rule.cidrs[i]
              IN  IsBits(cidr.family, cidr.bits) /\ cidr.length \in 0 .. Width[cidr.family]
<1>1. /\ DOMAIN rule.headers = 1 .. Len(rule.headers)
      /\ DOMAIN rule.hosts = 1 .. Len(rule.hosts)
      /\ DOMAIN rule.cidrs = 1 .. Len(rule.cidrs)
  BY DEF Readable, IsRule
<1>2. ASSUME NEW i \in 1 .. Len(rule.headers)
      PROVE  /\ rule.headers[i] \in Header
             /\ rule.headers[i].name # Bar /\ Bar \notin Range(rule.headers[i].value)
             /\ EffectiveOp(rule.headers[i]) \in {"present", "equals", "prefix", "contains"}
  BY <1>1 DEF Readable, IsRule, validateRule, validateHeaders, NoBar
<1>3. ASSUME NEW i \in 1 .. Len(rule.hosts)
      PROVE  /\ rule.hosts[i] \in Host /\ Bar \notin Range(rule.hosts[i].labels)
             /\ \A k \in DOMAIN rule.hosts[i].labels : rule.hosts[i].labels[k] \notin {"*", ":", "/"}
  <2>1. rule.hosts[i] \in Host
    BY <1>1 DEF Readable, IsRule
  <2>2. Bar \notin Range(rule.hosts[i].labels)
    BY <1>1 DEF Readable, NoBar
  <2>3. \A k \in DOMAIN rule.hosts[i].labels : rule.hosts[i].labels[k] \notin {"*", ":", "/"}
    BY <1>1 DEF Readable, validateRule, validateHosts
  <2> QED
    BY <2>1, <2>2, <2>3
<1>4. ASSUME NEW i \in 1 .. Len(rule.cidrs)
      PROVE  /\ IsBits(rule.cidrs[i].family, rule.cidrs[i].bits)
             /\ rule.cidrs[i].length \in 0 .. Width[rule.cidrs[i].family]
  BY <1>1 DEF Readable, IsRule
<1> QED
  BY <1>2, <1>3, <1>4

LEMMA FixedPartsShape ==
  ASSUME NEW rule, Readable(rule)
  PROVE  /\ FixedParts(rule) \in Seq(Seq(KeySymbols)) /\ Len(FixedParts(rule)) = 4
         /\ \A i \in 1 .. 4 : Barless(KeySymbols, FixedParts(rule)[i])
<1> DEFINE method == IF rule.method = None THEN <<>> ELSE <<rule.method>>
<1>1. Barless(KeySymbols, <<>>)
  BY DEF Barless
<1>2. Barless(KeySymbols, rule.pattern)
  BY DEF Readable, IsRule, NoBar, Barless, Text, KeySymbols, Range
<1>3. ASSUME NEW kind PROVE Barless(KeySymbols, TextOf(rule, kind))
  BY <1>1, <1>2 DEF TextOf
<1>4. Barless(KeySymbols, method)
  <2>1. CASE rule.method = None
    BY <1>1, <2>1
  <2>2. CASE rule.method \in Methods
    <3>1. rule.method \in KeySymbols /\ rule.method # Bar
      BY <2>2 DEF KeySymbols, Methods, Bar
    <3>2. Barless(KeySymbols, <<rule.method>>)
      BY <3>1 DEF Barless
    <3> QED
      BY <1>1, <3>2
  <2> QED
    BY <2>1, <2>2 DEF Readable, validateRule
<1> HIDE DEF method
<1>5. /\ FixedParts(rule) = <<method, TextOf(rule, "exact"), TextOf(rule, "prefix"), TextOf(rule, "regex")>>
  BY DEF FixedParts, method
<1>6. \A s : Barless(KeySymbols, s) => s \in Seq(KeySymbols)
  BY DEF Barless
<1>7. ASSUME NEW i \in 1 .. 4 PROVE Barless(KeySymbols, FixedParts(rule)[i])
  <2>1. i = 1 \/ i = 2 \/ i = 3 \/ i = 4
    OBVIOUS
  <2> QED
    BY <1>3, <1>4, <1>5, <2>1
<1> QED
  BY <1>3, <1>4, <1>5, <1>6, <1>7

LEMMA KeyPartsShape ==
  ASSUME NEW rule, Readable(rule)
  PROVE  /\ KeyParts(rule) \in Seq(Seq(KeySymbols)) /\ HasParts(rule, KeyParts(rule))
         /\ \A i \in 1 .. Len(KeyParts(rule)) : Barless(KeySymbols, KeyParts(rule)[i])
<1> DEFINE h == Len(rule.headers)
           o == Len(rule.hosts)
           c == Len(rule.cidrs)
           f  == FixedParts(rule)
           hs == [i \in DOMAIN rule.headers |-> HeaderPart(rule.headers[i])]
           os == [i \in DOMAIN rule.hosts |-> HostPart(rule.hosts[i])]
           cs == [i \in DOMAIN rule.cidrs |-> CIDRPart(rule.cidrs[i])]
           good(part) == Barless(KeySymbols, part)
           T == {part \in Seq(KeySymbols) : good(part)}
<1>1. /\ h \in Nat /\ DOMAIN rule.headers = 1 .. h
      /\ o \in Nat /\ DOMAIN rule.hosts = 1 .. o
      /\ c \in Nat /\ DOMAIN rule.cidrs = 1 .. c
  BY DEF Readable, IsRule
<1>2. /\ \A i \in 1 .. h : HeaderPart(rule.headers[i]) \in T
      /\ \A i \in 1 .. o : HostPart(rule.hosts[i]) \in T
      /\ \A i \in 1 .. c : CIDRPart(rule.cidrs[i]) \in T
  <2>1. ASSUME NEW i \in 1 .. h PROVE HeaderPart(rule.headers[i]) \in T
    BY RuleShapes, HeaderPartShape DEF Barless
  <2>2. ASSUME NEW i \in 1 .. o PROVE HostPart(rule.hosts[i]) \in T
    BY RuleShapes, HostPartShape DEF Barless
  <2>3. ASSUME NEW i \in 1 .. c PROVE CIDRPart(rule.cidrs[i]) \in T
    BY RuleShapes, CIDRPartShape DEF Barless
  <2> QED
    BY <2>1, <2>2, <2>3
<1>3. f \in Seq(T) /\ Len(f) = 4
  <2>1. /\ f \in Seq(Seq(KeySymbols)) /\ Len(f) = 4
        /\ \A i \in 1 .. 4 : Barless(KeySymbols, f[i])
    BY FixedPartsShape
  <2> HIDE DEF f
  <2>2. f \in [1 .. 4 -> T]
    BY <2>1
  <2> HIDE DEF T
  <2>3. f \in Seq(T)
    BY <2>2, SeqDef
  <2> QED
    BY <2>1, <2>3
<1> HIDE DEF T, f
<1>4. /\ hs \in Seq(T) /\ Len(hs) = h /\ \A i \in 1 .. h : hs[i] = HeaderPart(rule.headers[i])
      /\ os \in Seq(T) /\ Len(os) = o /\ \A i \in 1 .. o : os[i] = HostPart(rule.hosts[i])
      /\ cs \in Seq(T) /\ Len(cs) = c /\ \A i \in 1 .. c : cs[i] = CIDRPart(rule.cidrs[i])
  <2> HIDE DEF h, o, c
  <2>1. hs \in Seq(T) /\ Len(hs) = h /\ \A i \in 1 .. h : hs[i] = HeaderPart(rule.headers[i])
    BY <1>1, <1>2
  <2>2. os \in Seq(T) /\ Len(os) = o /\ \A i \in 1 .. o : os[i] = HostPart(rule.hosts[i])
    BY <1>1, <1>2
  <2>3. cs \in Seq(T) /\ Len(cs) = c /\ \A i \in 1 .. c : cs[i] = CIDRPart(rule.cidrs[i])
    BY <1>1, <1>2
  <2> QED
    BY <2>1, <2>2, <2>3
<1>5. KeyParts(rule) = ((f \o hs) \o os) \o cs
  BY DEF KeyParts, FixedParts, TextOf, f
<1> HIDE DEF hs, os, cs, h, o, c
<1> DEFINE u == f \o hs
           v == u \o os
           w == v \o cs
<1>6. /\ u \in Seq(T) /\ Len(u) = 4 + h /\ \A i \in 1 .. 4 : u[i] = f[i]
      /\ \A i \in 1 .. h : u[4 + i] = hs[i]
  <2>1. f \o hs \in Seq(T) /\ Follows(f \o hs, f, hs)
    BY <1>3, <1>4, ConcatFollows
  <2> QED
    BY <1>3, <1>4, <2>1 DEF Follows
<1> HIDE DEF u
<1>7. /\ v \in Seq(T) /\ Len(v) = 4 + h + o /\ \A i \in 1 .. 4 + h : v[i] = u[i]
      /\ \A i \in 1 .. o : v[4 + h + i] = os[i]
  <2>1. u \o os \in Seq(T) /\ Follows(u \o os, u, os)
    BY <1>4, <1>6, ConcatFollows
  <2> QED
    BY <1>4, <1>6, <2>1 DEF Follows
<1> HIDE DEF v
<1>8. /\ w \in Seq(T) /\ Len(w) = 4 + h + o + c /\ \A i \in 1 .. 4 + h + o : w[i] = v[i]
      /\ \A i \in 1 .. c : w[4 + h + o + i] = cs[i]
  <2>1. v \o cs \in Seq(T) /\ Follows(v \o cs, v, cs)
    BY <1>4, <1>7, ConcatFollows
  <2> QED
    BY <1>4, <1>7, <2>1 DEF Follows
<1>9. KeyParts(rule) = w
  BY <1>5 DEF u, v
<1> HIDE DEF w
<1>10. \A i \in 1 .. 4 : w[i] = f[i]
  <2> SUFFICES ASSUME NEW i \in 1 .. 4 PROVE w[i] = f[i]
    OBVIOUS
  <2>1. i \in 1 .. 4 + h /\ i \in 1 .. 4 + h + o
    BY <1>1
  <2>2. w[i] = v[i]
    BY <1>8, <2>1
  <2>3. v[i] = u[i]
    BY <1>7, <2>1
  <2> QED
    BY <1>6, <2>2, <2>3
<1>11. ASSUME NEW i \in 1 .. h PROVE w[4 + i] = hs[i]
  <2>1. 4 + i \in 1 .. 4 + h /\ 4 + i \in 1 .. 4 + h + o
    BY <1>1
  <2> QED
    BY <1>6, <1>7, <1>8, <2>1
<1>12. ASSUME NEW i \in 1 .. o PROVE w[4 + h + i] = os[i]
  <2>1. 4 + h + i \in 1 .. 4 + h + o
    BY <1>1
  <2> QED
    BY <1>7, <1>8, <2>1
<1>13. HasParts(rule, w)
  BY <1>1, <1>4, <1>8, <1>10, <1>11, <1>12 DEF HasParts, h, o, c, f
<1>14. w \in Seq(Seq(KeySymbols)) /\ \A i \in 1 .. Len(w) : Barless(KeySymbols, w[i])
  BY <1>8 DEF T
<1> QED
  BY <1>9, <1>13, <1>14

(* A header's part has a colon, a network's has none but a slash, a host's *)
(* has neither: where each kind begins can be told.                        *)
Told(parts, h, o, c) ==
  /\ h \in Nat /\ o \in Nat /\ c \in Nat /\ Len(parts) = 4 + h + o + c
  /\ \A i \in 1 .. h : Has(parts[4 + i], ":")
  /\ \A i \in 1 .. o : ~Has(parts[4 + h + i], ":") /\ ~Has(parts[4 + h + i], "/")
  /\ \A i \in 1 .. c : ~Has(parts[4 + h + o + i], ":") /\ Has(parts[4 + h + o + i], "/")

LEMMA PartsAreTold ==
  ASSUME NEW rule, Readable(rule), NEW parts, HasParts(rule, parts)
  PROVE  Told(parts, Len(rule.headers), Len(rule.hosts), Len(rule.cidrs))
<1>1. ASSUME NEW i \in 1 .. Len(rule.headers) PROVE Has(HeaderPart(rule.headers[i]), ":")
  <2> DEFINE h == rule.headers[i]
  <2>1. /\ h \in Header /\ h.name # Bar /\ Bar \notin Range(h.value)
        /\ EffectiveOp(h) \in {"present", "equals", "prefix", "contains"}
    BY RuleShapes
  <2> HIDE DEF h
  <2>2. Len(HeaderPart(h)) = 4 + Len(h.value) /\ HeaderPart(h)[4] = ":"
    BY <2>1, HeaderPartShape
  <2>3. Len(h.value) \in Nat
    BY <2>1 DEF Header, Text
  <2>4. 4 \in 1 .. Len(HeaderPart(h))
    BY <2>2, <2>3
  <2> QED
    BY <2>2, <2>4 DEF Has, h
<1>2. ASSUME NEW i \in 1 .. Len(rule.hosts)
      PROVE  ~Has(HostPart(rule.hosts[i]), ":") /\ ~Has(HostPart(rule.hosts[i]), "/")
  BY RuleShapes, HostPartShape
<1>3. ASSUME NEW i \in 1 .. Len(rule.cidrs)
      PROVE  ~Has(CIDRPart(rule.cidrs[i]), ":") /\ Has(CIDRPart(rule.cidrs[i]), "/")
  BY RuleShapes, CIDRPartShape
<1> QED
  BY <1>1, <1>2, <1>3 DEF HasParts, Told

LEMMA ToldApart ==
  ASSUME NEW parts, NEW h1, NEW o1, NEW c1, NEW h2, NEW o2, NEW c2,
         Told(parts, h1, o1, c1), Told(parts, h2, o2, c2)
  PROVE  h1 = h2 /\ o1 = o2 /\ c1 = c2
<1>1. ASSUME NEW h, NEW o, NEW c, NEW hh, NEW oo, NEW cc,
             Told(parts, h, o, c), Told(parts, hh, oo, cc)
      PROVE  ~(h < hh)
  <2> SUFFICES ASSUME h < hh PROVE FALSE
    OBVIOUS
  <2>1. h \in Nat /\ o \in Nat /\ c \in Nat /\ hh \in Nat /\ oo \in Nat /\ cc \in Nat
        /\ h + o + c = hh + oo + cc
    BY <1>1 DEF Told
  <2>2. Has(parts[4 + h + 1], ":")
    <3>1. h + 1 \in 1 .. hh /\ 4 + (h + 1) = 4 + h + 1
      BY <2>1
    <3> QED
      BY <1>1, <3>1 DEF Told
  <2>3. CASE o > 0
    <3>1. 1 \in 1 .. o
      BY <2>1, <2>3
    <3> QED
      BY <1>1, <2>2, <3>1 DEF Told
  <2>4. CASE o = 0
    <3>1. 1 \in 1 .. c /\ 4 + h + o + 1 = 4 + h + 1
      BY <2>1, <2>4
    <3> QED
      BY <1>1, <2>2, <3>1 DEF Told
  <2> QED
    BY <2>1, <2>3, <2>4
<1>2. ASSUME NEW h, NEW o, NEW c, NEW oo, NEW cc, Told(parts, h, o, c), Told(parts, h, oo, cc)
      PROVE  ~(o < oo)
  <2> SUFFICES ASSUME o < oo PROVE FALSE
    OBVIOUS
  <2>1. h \in Nat /\ o \in Nat /\ c \in Nat /\ oo \in Nat /\ cc \in Nat /\ o + c = oo + cc
    BY <1>2 DEF Told
  <2>2. ~Has(parts[4 + h + o + 1], "/")
    <3>1. o + 1 \in 1 .. oo /\ 4 + h + (o + 1) = 4 + h + o + 1
      BY <2>1
    <3> QED
      BY <1>2, <3>1 DEF Told
  <2>3. 1 \in 1 .. c
    BY <2>1
  <2> QED
    BY <1>2, <2>2, <2>3 DEF Told
<1>3. /\ h1 \in Nat /\ o1 \in Nat /\ c1 \in Nat /\ h2 \in Nat /\ o2 \in Nat /\ c2 \in Nat
      /\ h1 + o1 + c1 = h2 + o2 + c2
  BY DEF Told
<1>4. h1 = h2
  <2>1. ~(h1 < h2) /\ ~(h2 < h1)
    BY <1>1
  <2> QED
    BY <1>3, <2>1
<1>5. o1 = o2
  <2>1. ~(o1 < o2) /\ ~(o2 < o1)
    BY <1>2, <1>4
  <2> QED
    BY <1>3, <2>1
<1> QED
  BY <1>3, <1>4, <1>5

(* What a part says of the header, the host or the network.                *)
LEMMA HeaderPartTells ==
  ASSUME NEW a \in Header, a.name # Bar, Bar \notin Range(a.value),
         EffectiveOp(a) \in {"present", "equals", "prefix", "contains"},
         NEW b \in Header, b.name # Bar, Bar \notin Range(b.value),
         EffectiveOp(b) \in {"present", "equals", "prefix", "contains"},
         HeaderPart(a) = HeaderPart(b)
  PROVE  Lower(a.name) = Lower(b.name) /\ EffectiveOp(a) = EffectiveOp(b) /\ a.value = b.value
<1>1. /\ Len(HeaderPart(a)) = 4 + Len(a.value)
      /\ HeaderPart(a)[1] = Lower(a.name) /\ HeaderPart(a)[3] = EffectiveOp(a)
      /\ \A k \in 1 .. Len(a.value) : HeaderPart(a)[4 + k] = a.value[k]
  BY HeaderPartShape
<1>2. /\ Len(HeaderPart(b)) = 4 + Len(b.value)
      /\ HeaderPart(b)[1] = Lower(b.name) /\ HeaderPart(b)[3] = EffectiveOp(b)
      /\ \A k \in 1 .. Len(b.value) : HeaderPart(b)[4 + k] = b.value[k]
  BY HeaderPartShape
<1>3. a.value \in Seq(Symbols) /\ b.value \in Seq(Symbols)
  BY DEF Header, Text
<1>4. Len(a.value) = Len(b.value)
  <2>1. Len(a.value) \in Nat /\ Len(b.value) \in Nat
    BY <1>3
  <2> QED
    BY <1>1, <1>2, <2>1
<1>5. \A k \in 1 .. Len(a.value) : a.value[k] = b.value[k]
  BY <1>1, <1>2, <1>4
<1>6. a.value = b.value
  BY <1>3, <1>4, <1>5, SeqEqual
<1> QED
  BY <1>1, <1>2, <1>6

LEMMA HostPartTells ==
  ASSUME NEW a \in Host, Bar \notin Range(a.labels),
         \A k \in DOMAIN a.labels : a.labels[k] \notin {"*", ":", "/"},
         NEW b \in Host, Bar \notin Range(b.labels),
         \A k \in DOMAIN b.labels : b.labels[k] \notin {"*", ":", "/"},
         HostPart(a) = HostPart(b)
  PROVE  a.wild = b.wild /\ LowerAll(a.labels) = LowerAll(b.labels)
<1> DEFINE ra == LowerAll(a.labels)
           rb == LowerAll(b.labels)
<1>1. /\ ra \in Text /\ \A k \in 1 .. Len(ra) : ra[k] # "*"
      /\ HostPart(a) = IF a.wild THEN <<"*">> \o ra ELSE ra
  BY HostPartShape
<1>2. /\ rb \in Text /\ \A k \in 1 .. Len(rb) : rb[k] # "*"
      /\ HostPart(b) = IF b.wild THEN <<"*">> \o rb ELSE rb
  BY HostPartShape
<1> HIDE DEF ra, rb
<1> DEFINE V == Symbols \cup {"*"}
<1>3. ra \in Seq(V) /\ rb \in Seq(V) /\ <<"*">> \in Seq(V)
  BY <1>1, <1>2 DEF Text
<1> HIDE DEF V
<1>4. ASSUME NEW r \in Seq(V)
      PROVE  /\ <<"*">> \o r \in Seq(V) /\ Len(<<"*">> \o r) = 1 + Len(r)
             /\ (<<"*">> \o r)[1] = "*"
             /\ \A k \in 1 .. Len(r) : (<<"*">> \o r)[1 + k] = r[k]
  BY <1>3, ConcatProperties
<1>5. ASSUME NEW r \in Seq(V), NEW t \in Seq(V), \A k \in 1 .. Len(t) : t[k] # "*"
      PROVE  <<"*">> \o r # t
  <2> SUFFICES ASSUME <<"*">> \o r = t PROVE FALSE
    OBVIOUS
  <2>1. Len(t) = 1 + Len(r) /\ t[1] = "*" /\ Len(r) \in Nat
    BY <1>4
  <2>2. 1 \in 1 .. Len(t)
    BY <2>1
  <2> QED
    BY <1>5, <2>1, <2>2
<1>6. a.wild \in BOOLEAN /\ b.wild \in BOOLEAN
  BY DEF Host
<1>7. a.wild <=> b.wild
  BY <1>1, <1>2, <1>3, <1>5
<1>8. ASSUME <<"*">> \o ra = <<"*">> \o rb PROVE ra = rb
  <2>1. Len(ra) = Len(rb)
    BY <1>3, <1>4, <1>8
  <2>2. \A k \in 1 .. Len(ra) : ra[k] = rb[k]
    BY <1>3, <1>4, <1>8, <2>1
  <2> QED
    BY <1>3, <2>1, <2>2, SeqEqual
<1>9. ra = rb
  BY <1>1, <1>2, <1>7, <1>8
<1> QED
  BY <1>6, <1>7, <1>9 DEF ra, rb

LEMMA CIDRPartTells ==
  ASSUME NEW a, IsBits(a.family, a.bits), a.length \in 0 .. Width[a.family],
         NEW b, IsBits(b.family, b.bits), b.length \in 0 .. Width[b.family],
         CIDRPart(a) = CIDRPart(b)
  PROVE  a.family = b.family /\ a.bits = b.bits /\ a.length = b.length
<1> DEFINE Wa == Width[a.family]
           Wb == Width[b.family]
<1>1. /\ Wa \in Nat /\ Len(CIDRPart(a)) = 1 + Wa + 1 + a.length
      /\ CIDRPart(a)[1] = a.family /\ \A k \in 1 .. Wa : CIDRPart(a)[1 + k] = a.bits[k]
  BY CIDRPartShape
<1>2. /\ Wb \in Nat /\ Len(CIDRPart(b)) = 1 + Wb + 1 + b.length
      /\ CIDRPart(b)[1] = b.family /\ \A k \in 1 .. Wb : CIDRPart(b)[1 + k] = b.bits[k]
  BY CIDRPartShape
<1>3. a.family = b.family /\ Wa = Wb
  BY <1>1, <1>2
<1>4. a.length = b.length
  BY <1>1, <1>2, <1>3
<1>5. a.bits \in [1 .. Wa -> {"0", "1"}] /\ b.bits \in [1 .. Wa -> {"0", "1"}]
  BY <1>3 DEF IsBits
<1>6. \A k \in 1 .. Wa : a.bits[k] = b.bits[k]
  BY <1>1, <1>2, <1>3
<1> HIDE DEF Wa, Wb
<1>7. a.bits = b.bits
  <2>1. a.bits = [k \in 1 .. Wa |-> a.bits[k]] /\ b.bits = [k \in 1 .. Wa |-> b.bits[k]]
    BY <1>5
  <2>2. [k \in 1 .. Wa |-> a.bits[k]] = [k \in 1 .. Wa |-> b.bits[k]]
    BY <1>6
  <2> QED
    BY <2>1, <2>2, Zenon
<1> QED
  BY <1>3, <1>4, <1>7

(* Two rules that validation accepts one by one, without a bar in them,    *)
(* that have the same duplicate key demand the same of every request: they *)
(* are of one kind with one pattern, and their conditions are alike. The   *)
(* key is taken apart at its bars, and every part says all that counts of  *)
(* what it was made from.                                                  *)
THEOREM EqualKeysDemandTheSame ==
  ASSUME NEW a, IsRule(a), validateRule(a), NoBar(a),
         NEW b, IsRule(b), validateRule(b), NoBar(b), dedupKey(a) = dedupKey(b)
  PROVE  a.kind = b.kind /\ a.pattern = b.pattern /\ \A in : Met(a, in) <=> Met(b, in)
<1> DEFINE parts == KeyParts(a)
<1>1. Readable(a) /\ Readable(b)
  BY DEF Readable
<1>2. KeyParts(a) = KeyParts(b)
  <2> DEFINE p == KeyParts(a)
             q == KeyParts(b)
  <2>1. /\ p \in Seq(Seq(KeySymbols)) /\ p # <<>> /\ \A i \in 1 .. Len(p) : Barless(KeySymbols, p[i])
        /\ q \in Seq(Seq(KeySymbols)) /\ q # <<>> /\ \A i \in 1 .. Len(q) : Barless(KeySymbols, q[i])
    <3>1. ASSUME NEW rule, Readable(rule)
          PROVE  /\ KeyParts(rule) \in Seq(Seq(KeySymbols)) /\ KeyParts(rule) # <<>>
                 /\ \A i \in 1 .. Len(KeyParts(rule)) : Barless(KeySymbols, KeyParts(rule)[i])
      <4>1. HasParts(rule, KeyParts(rule))
        BY <3>1, KeyPartsShape
      <4>2. Len(KeyParts(rule)) # 0
        <5>1. \A h, o, c \in Nat : 4 + h + o + c # 0
          OBVIOUS
        <5> QED
          BY <4>1, <5>1 DEF HasParts
      <4>3. KeyParts(rule) # <<>>
        BY <4>2
      <4> QED
        BY <3>1, <4>3, KeyPartsShape
    <3> QED
      BY <1>1, <3>1
  <2>2. Bar \in KeySymbols
    BY DEF KeySymbols, Delimiters
  <2>3. Tail(Joined(p)) = Tail(Joined(q))
    BY DEF dedupKey
  <2> HIDE DEF p, q
  <2>4. Joined(p) = <<Bar>> \o Tail(Joined(p)) /\ Joined(q) = <<Bar>> \o Tail(Joined(q))
    BY <2>1, <2>2, JoinedBegins
  <2>5. Joined(p) = Joined(q)
    BY <2>3, <2>4
  <2>6. p = q
    BY <2>1, <2>2, <2>5, JoinedIsInjective
  <2> QED
    BY <2>6 DEF p, q
<1>3. HasParts(a, parts) /\ HasParts(b, parts)
  BY <1>1, <1>2, KeyPartsShape
<1>4. Len(a.headers) = Len(b.headers) /\ Len(a.hosts) = Len(b.hosts) /\ Len(a.cidrs) = Len(b.cidrs)
  BY <1>1, <1>3, PartsAreTold, ToldApart
<1> HIDE DEF parts
<1>5. \A i \in 1 .. 4 : FixedParts(a)[i] = FixedParts(b)[i]
  BY <1>3 DEF HasParts
<1>6. a.method = b.method
  <2>1. FixedParts(a)[1] = FixedParts(b)[1]
    BY <1>5
  <2>2. ASSUME NEW m PROVE <<>> # <<m>>
    OBVIOUS
  <2>3. ASSUME NEW m, NEW n, <<m>> = <<n>> PROVE m = n
    BY <2>3
  <2> QED
    BY <2>1, <2>2, <2>3 DEF FixedParts
<1>7. a.kind = b.kind /\ a.pattern = b.pattern
  <2>1. \A kind \in {"exact", "prefix", "regex"} : TextOf(a, kind) = TextOf(b, kind)
    <3>1. 2 \in 1 .. 4 /\ 3 \in 1 .. 4 /\ 4 \in 1 .. 4
      OBVIOUS
    <3>2. /\ FixedParts(a)[2] = FixedParts(b)[2] /\ FixedParts(a)[3] = FixedParts(b)[3]
          /\ FixedParts(a)[4] = FixedParts(b)[4]
      BY <1>5, <3>1
    <3> QED
      BY <3>2 DEF FixedParts
  <2>2. /\ a.kind \in {"exact", "prefix", "regex"} /\ a.pattern # <<>>
        /\ b.kind \in {"exact", "prefix", "regex"} /\ b.pattern # <<>>
    BY DEF IsRule
  <2>3. TextOf(a, a.kind) = a.pattern
    BY DEF TextOf
  <2>4. TextOf(b, a.kind) = a.pattern
    BY <2>1, <2>2, <2>3
  <2> QED
    BY <2>2, <2>4 DEF TextOf
<1>8. /\ DOMAIN a.headers = 1 .. Len(a.headers) /\ DOMAIN b.headers = 1 .. Len(b.headers)
      /\ DOMAIN a.hosts = 1 .. Len(a.hosts) /\ DOMAIN b.hosts = 1 .. Len(b.hosts)
      /\ DOMAIN a.cidrs = 1 .. Len(a.cidrs) /\ DOMAIN b.cidrs = 1 .. Len(b.cidrs)
  BY DEF IsRule
<1>9. ASSUME NEW i \in 1 .. Len(a.headers), NEW headers
      PROVE  HeaderMet(a.headers[i], headers) <=> HeaderMet(b.headers[i], headers)
  <2> DEFINE x == a.headers[i]
             y == b.headers[i]
  <2>1. HeaderPart(x) = HeaderPart(y)
    BY <1>3, <1>4 DEF HasParts
  <2>2. /\ x \in Header /\ x.name # Bar /\ Bar \notin Range(x.value)
        /\ EffectiveOp(x) \in {"present", "equals", "prefix", "contains"}
    BY <1>1, RuleShapes
  <2>3. /\ y \in Header /\ y.name # Bar /\ Bar \notin Range(y.value)
        /\ EffectiveOp(y) \in {"present", "equals", "prefix", "contains"}
    BY <1>1, <1>4, RuleShapes
  <2> HIDE DEF x, y
  <2>4. Lower(x.name) = Lower(y.name) /\ EffectiveOp(x) = EffectiveOp(y) /\ x.value = y.value
    BY <2>1, <2>2, <2>3, HeaderPartTells
  <2>5. Values(x.name, headers) = Values(y.name, headers)
    BY <2>4 DEF Values
  <2>6. HeaderMet(x, headers) <=> HeaderMet(y, headers)
    <3> DEFINE fits(value, v, op) ==
                 \/ op = "present"
                 \/ \E before \in Prefixes(value), after \in Suffixes(value) :
                      /\ value = before \o v \o after
                      /\ op \in {"equals", "prefix"} => before = <<>>
                      /\ op = "equals" => after = <<>>
    <3>1. ASSUME NEW h
          PROVE  HeaderMet(h, headers) <=>
                   \E value \in Values(h.name, headers) : fits(value, h.value, EffectiveOp(h))
      BY DEF HeaderMet, EffectiveOp
    <3> HIDE DEF fits
    <3> QED
      BY <2>4, <2>5, <3>1
  <2> QED
    BY <2>6 DEF x, y
<1>10. ASSUME NEW i \in 1 .. Len(a.hosts), NEW host
       PROVE  HostMet(a.hosts[i], host) <=> HostMet(b.hosts[i], host)
  <2> DEFINE x == a.hosts[i]
             y == b.hosts[i]
  <2>1. HostPart(x) = HostPart(y)
    BY <1>3, <1>4 DEF HasParts
  <2>2. /\ x \in Host /\ Bar \notin Range(x.labels)
        /\ \A k \in DOMAIN x.labels : x.labels[k] \notin {"*", ":", "/"}
    BY <1>1, RuleShapes
  <2>3. /\ y \in Host /\ Bar \notin Range(y.labels)
        /\ \A k \in DOMAIN y.labels : y.labels[k] \notin {"*", ":", "/"}
    BY <1>1, <1>4, RuleShapes
  <2> HIDE DEF x, y
  <2>4. x.wild = y.wild /\ LowerAll(x.labels) = LowerAll(y.labels)
    BY <2>1, <2>2, <2>3, HostPartTells
  <2>5. HostMet(x, host) <=> HostMet(y, host)
    BY <2>4 DEF HostMet
  <2> QED
    BY <2>5 DEF x, y
<1>11. ASSUME NEW i \in 1 .. Len(a.cidrs), NEW peer
       PROVE  PeerMet(a.cidrs[i], peer) <=> PeerMet(b.cidrs[i], peer)
  <2> DEFINE x == a.cidrs[i]
             y == b.cidrs[i]
  <2>1. CIDRPart(x) = CIDRPart(y)
    BY <1>3, <1>4 DEF HasParts
  <2>2. IsBits(x.family, x.bits) /\ x.length \in 0 .. Width[x.family]
    BY <1>1, RuleShapes
  <2>3. IsBits(y.family, y.bits) /\ y.length \in 0 .. Width[y.family]
    BY <1>1, <1>4, RuleShapes
  <2> HIDE DEF x, y
  <2>4. x.family = y.family /\ x.bits = y.bits /\ x.length = y.length
    BY <2>1, <2>2, <2>3, CIDRPartTells
  <2>5. PeerMet(x, peer) <=> PeerMet(y, peer)
    BY <2>4 DEF PeerMet
  <2> QED
    BY <2>5 DEF x, y
<1>12. (a.hosts = <<>> <=> b.hosts = <<>>) /\ (a.cidrs = <<>> <=> b.cidrs = <<>>)
  <2>1. ASSUME NEW S, NEW T, NEW s \in Seq(S), NEW t \in Seq(T), Len(s) = Len(t)
        PROVE  s = <<>> <=> t = <<>>
    BY <2>1, EmptySeq
  <2> QED
    BY <1>4, <2>1 DEF IsRule
<1>13. ASSUME NEW in PROVE Met(a, in) <=> Met(b, in)
  BY <1>4, <1>6, <1>8, <1>9, <1>10, <1>11, <1>12 DEF Met
<1> QED
  BY <1>7, <1>13
=============================================================================
