--------------------------- MODULE MCRequestPath ---------------------------
(***************************************************************************)
(* Instances of RequestPath for TLC.                                       *)
(***************************************************************************)
EXTENDS RequestPath, TLC

CONSTANTS a, b, c

(* Upstreams a and b fail over to each other, which validation accepts; c  *)
(* has no fallback.                                                        *)
PairFallback == (a :> b) @@ (b :> a) @@ (c :> None)

(* Within the ceiling, beyond it, and unset.                               *)
PairTimeout == (a :> 2) @@ (b :> 5) @@ (c :> 0)

(* One upstream alone: only the ceiling bounds its attempts.               *)
LoneFallback == a :> None
LoneTimeout  == a :> 0
=============================================================================
