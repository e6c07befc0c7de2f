---------------------------- MODULE MCMirrorPool ---------------------------
(***************************************************************************)
(* An instance of MirrorPool for TLC: three jobs that race, one with two   *)
(* targets, with every kind of sampling ratio.                             *)
(***************************************************************************)
EXTENDS MirrorPool, TLC

CONSTANTS j1, j2, j3

MixedRatios ==
  (j1 :> <<"always", "sometimes">>) @@ (j2 :> <<"never">>) @@ (j3 :> <<"never">>)
=============================================================================
