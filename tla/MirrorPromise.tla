--------------------------- MODULE MirrorPromise ---------------------------
(***************************************************************************)
(* What the mirroring pool promises its callers, whatever it is built      *)
(* from: a job offered to it is accepted or dropped at once, it is dropped *)
(* only if enough jobs are pending or the pool is closing, an accepted job *)
(* is mirrored once and without fail, and the pool stops only when no job  *)
(* is pending.                                                             *)
(***************************************************************************)
EXTENDS Naturals, FiniteSets

CONSTANTS
  Jobs,      (* the jobs offered                                           *)
  Capacity   (* with this many jobs pending the pool may drop one          *)

VARIABLES
  state,     (* what became of each job                                    *)
  phase      (* open, closing or stopped                                   *)

vars == <<state, phase>>

Pending == {j \in Jobs : state[j] = "pending"}

Init ==
  /\ state = [j \in Jobs |-> "unseen"]
  /\ phase = "open"

Become(j, from, to) ==
  /\ state[j] = from
  /\ state' = [state EXCEPT ![j] = to]
  /\ UNCHANGED phase

Accept(j) == phase = "open" /\ Become(j, "unseen", "pending")

Drop(j) ==
  /\ phase # "open" \/ Cardinality(Pending) >= Capacity
  /\ Become(j, "unseen", "dropped")

Mirror(j) == Become(j, "pending", "mirrored")

Close ==
  /\ phase = "open" /\ phase' = "closing"
  /\ UNCHANGED state

Finish ==
  /\ phase = "closing" /\ Pending = {} /\ phase' = "stopped"
  /\ UNCHANGED state

Next ==
  \/ \E j \in Jobs : Accept(j) \/ Drop(j) \/ Mirror(j)
  \/ Close \/ Finish

Spec     == Init /\ [][Next]_vars
FairSpec == Spec /\ \A j \in Jobs : WF_vars(Mirror(j))
=============================================================================
