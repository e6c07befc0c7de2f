-------------------------- MODULE MCMirrorCycles ---------------------------
(***************************************************************************)
(* Instances of MirrorCycles for TLC: every mirror graph over three        *)
(* upstreams, given by a route per upstream, and small configurations in   *)
(* which names are unknown, empty or repeated.                             *)
(***************************************************************************)
EXTENDS MirrorCycles

CONSTANTS a, b, c, x

Lists(names) == {<<>>} \cup {<<m>> : m \in names} \cup {<<m, n>> : m, n \in names}

Graphs ==
  {<<[upstream |-> a, mirrors |-> p], [upstream |-> b, mirrors |-> q],
     [upstream |-> c, mirrors |-> r]>> :
     p \in Lists({b, c}), q \in Lists({a, c}), r \in Lists({a, b})}

Odd ==
  {<<[upstream |-> u, mirrors |-> p], [upstream |-> v, mirrors |-> q]>> :
     u \in {a, x, None}, v \in {a, b}, p \in Lists({a, b, x, None}), q \in Lists({a, b})}

AllConfigs == Graphs \cup Odd
=============================================================================
