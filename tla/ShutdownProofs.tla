--------------------------- MODULE ShutdownProofs ---------------------------
(***************************************************************************)
(* The shutdown loses nothing when no limit passes, for any number of      *)
(* requests and any size of the pool's channel.                            *)
(***************************************************************************)
EXTENDS Shutdown, TLAPS

(* Run comes to the join only after the server's Shutdown has returned,    *)
(* and returns without a failure only after the join.                      *)
RunOrder ==
  /\ joiner # "off" => run \notin {"starting", "serving", "shutdown"}
  /\ run = "joining" => joiner # "off"
  /\ run \in {"returned", "exited"} /\ failures = {} => joiner = "done"

(* What the join goroutine has done shows in the monitor and in the pool.  *)
JoinOrder ==
  /\ joiner \in {"stopping", "draining", "done"} => monitor = "gone"
  /\ joiner \in {"off", "waiting", "stopping"} => phase = "open"
  /\ joiner = "draining" => phase = "closing"
  /\ joiner = "done" => phase = "stopped"

(* From the join on, the server knows of no request that is not answered.  *)
Drained == joiner # "off" => \A r \in Requests \ late : ~Busy(r)

(* A pool that has stopped has no job left.                                *)
PoolEmpty == phase = "stopped" => \A r \in Requests : job[r] # "pending"

IInv == TypeOK /\ RunOrder /\ JoinOrder /\ Drained /\ PoolEmpty

USE DEF Promise!Pending, Promise!Become, Promise!Accept, Promise!Drop, Promise!Mirror,
        Promise!Close, Promise!Finish

-----------------------------------------------------------------------------
LEMMA InvInit == Init => IInv
BY DEF Init, IInv, TypeOK, RunOrder, JoinOrder, Drained, PoolEmpty, Promise!Init

LEMMA TypeNext == TypeOK /\ [Next]_vars => TypeOK'
<1> SUFFICES ASSUME TypeOK, [Next]_vars PROVE TypeOK'
  OBVIOUS
<1>1. CASE Environment
  <2>1. CASE Sigterm
    BY <2>1 DEF Sigterm, TypeOK, pool, requests
  <2>2. CASE Sighup
    BY <2>2 DEF Sighup, TypeOK, pool, requests
  <2>3. CASE ListenFails
    BY <2>3 DEF ListenFails, TypeOK, pool, requests
  <2> QED
    BY <1>1, <2>1, <2>2, <2>3 DEF Environment
<1>2. CASE Main
  <2>1. CASE Start \/ StartFails \/ RunFails
    BY <2>1 DEF Start, StartFails, RunFails, TypeOK, pool, requests
  <2>2. CASE BeginShutdown \/ ShutdownDone \/ ShutdownFails
    BY <2>2 DEF BeginShutdown, ShutdownDone, ShutdownFails, TypeOK, pool, requests
  <2>3. CASE JoinDone \/ JoinTimesOut \/ Exit
    BY <2>3 DEF JoinDone, JoinTimesOut, Exit, TypeOK, pool, requests
  <2> QED
    BY <1>2, <2>1, <2>2, <2>3 DEF Main
<1>3. CASE Joiner
  BY <1>3 DEF Joiner, MonitorJoined, StopPool, PoolStopped, TypeOK, pool, requests
<1>4. CASE Monitor
  BY <1>4 DEF Monitor, Subscribe, MonitorExits, TypeOK, pool, requests
<1>5. ASSUME NEW r \in Requests, Request(r) PROVE TypeOK'
  <2>1. CASE Forward(r)
    BY <2>1 DEF Forward, TypeOK, pool
  <2>2. CASE Mirror(r)
    BY <2>2 DEF Mirror, TypeOK, requests
  <2>3. CASE Arrive(r) \/ ArriveLate(r)
    <3>1. CASE Arrive(r)
      BY <3>1 DEF Arrive, TypeOK, pool
    <3>2. CASE ArriveLate(r)
      BY <3>2 DEF ArriveLate, TypeOK, pool
    <3> QED
      BY <2>3, <3>1, <3>2
  <2>4. CASE Answer(r)
    BY <2>4 DEF Answer, TypeOK, pool
  <2>5. CASE Upgrade(r)
    BY <2>5 DEF Upgrade, TypeOK, pool
  <2>6. CASE CloseTunnel(r)
    BY <2>6 DEF CloseTunnel, TypeOK, pool
  <2> QED
    BY <1>5, <2>1, <2>2, <2>3, <2>4, <2>5, <2>6 DEF Request
<1>6. CASE UNCHANGED vars
  BY <1>6 DEF vars, TypeOK
<1> QED
  BY <1>1, <1>2, <1>3, <1>4, <1>5, <1>6 DEF Next

LEMMA InvNext == IInv /\ [Next]_vars => IInv'
<1> SUFFICES ASSUME IInv, [Next]_vars PROVE IInv'
  OBVIOUS
<1>0. TypeOK'
  BY TypeNext DEF IInv
<1> USE DEF IInv, RunOrder, JoinOrder, Drained, PoolEmpty, Busy
<1>1. CASE Environment
  BY <1>0, <1>1 DEF Environment, Sigterm, Sighup, ListenFails, TypeOK, pool, requests, Alive
<1>2. CASE Main
  <2>1. CASE ShutdownDone
    BY <1>0, <2>1 DEF ShutdownDone, TypeOK, pool, requests
  <2>2. CASE Start \/ StartFails \/ RunFails \/ BeginShutdown
    BY <1>0, <2>2 DEF Start, StartFails, RunFails, BeginShutdown, TypeOK, pool, requests
  <2>3. CASE ShutdownFails \/ JoinDone \/ JoinTimesOut \/ Exit
    BY <1>0, <2>3 DEF ShutdownFails, JoinDone, JoinTimesOut, Exit, TypeOK, pool, requests
  <2> QED
    BY <1>2, <2>1, <2>2, <2>3 DEF Main
<1>3. CASE Joiner
  BY <1>0, <1>3 DEF Joiner, MonitorJoined, StopPool, PoolStopped, TypeOK, pool, requests
<1>4. CASE Monitor
  BY <1>0, <1>4 DEF Monitor, Subscribe, MonitorExits, TypeOK, pool, requests
<1>5. ASSUME NEW r \in Requests, Request(r) PROVE IInv'
  <2>1. CASE Forward(r)
    <3>1. PoolEmpty'
      BY <2>1 DEF Forward, TypeOK, pool
    <3> QED
      BY <1>0, <2>1, <3>1 DEF Forward, TypeOK, pool
  <2>2. CASE Mirror(r)
    BY <1>0, <2>2 DEF Mirror, TypeOK, requests
  <2>3. CASE Arrive(r) \/ ArriveLate(r)
    BY <1>0, <2>3 DEF Arrive, ArriveLate, TypeOK, pool
  <2>4. CASE Answer(r) \/ Upgrade(r) \/ CloseTunnel(r)
    BY <1>0, <2>4 DEF Answer, Upgrade, CloseTunnel, TypeOK, pool
  <2> QED
    BY <1>5, <2>1, <2>2, <2>3, <2>4 DEF Request
<1>6. CASE UNCHANGED vars
  BY <1>0, <1>6 DEF vars, TypeOK
<1> QED
  BY <1>1, <1>2, <1>3, <1>4, <1>5, <1>6 DEF Next

LEMMA InvHolds == Spec => []IInv
BY InvInit, InvNext, PTL DEF Spec

-----------------------------------------------------------------------------
(* The variables of the process keep their types.                          *)
THEOREM TypeCorrect == Spec => []TypeOK
<1>1. IInv => TypeOK
  BY DEF IInv
<1> QED
  BY <1>1, InvHolds, PTL

(* However many requests are under way, the process that exits without a   *)
(* failure and within its limits has answered them and mirrored their      *)
(* jobs (proxy.go:405-445).                                                *)
THEOREM NothingLostHolds == Spec => []NothingLost
<1>1. IInv => NothingLost
  BY DEF IInv, RunOrder, JoinOrder, Drained, PoolEmpty, NothingLost
<1> QED
  BY <1>1, InvHolds, PTL

(* The pool refuses no job of a request the server knows of because of the *)
(* shutdown: server, monitor and pool are stopped in that order            *)
(* (proxy.go:422, 430).                                                    *)
THEOREM RefusedOnlyLateHolds == Spec => RefusedOnlyLate
<1> DEFINE Refused ==
      \A r \in Requests \ late' :
        job[r] # "dropped" /\ job'[r] = "dropped" => Cardinality(Promise!Pending) >= QueueSize
<1>1. ASSUME IInv, [Next]_vars PROVE [Refused]_vars
  <2> SUFFICES ASSUME NEW q \in Requests, q \notin late',
                      job[q] # "dropped", job'[q] = "dropped"
               PROVE  Cardinality(Promise!Pending) >= QueueSize
    OBVIOUS
  <2>1. PICK r \in Requests : Forward(r)
    <3>1. CASE Environment
      BY <3>1 DEF Environment, Sigterm, Sighup, ListenFails, pool
    <3>2. CASE Main
      BY <3>2 DEF Main, Start, StartFails, RunFails, BeginShutdown, ShutdownDone,
                  ShutdownFails, JoinDone, JoinTimesOut, Exit, pool
    <3>3. CASE Joiner
      BY <3>3 DEF Joiner, MonitorJoined, StopPool, PoolStopped, pool
    <3>4. CASE Monitor
      BY <3>4 DEF Monitor, Subscribe, MonitorExits, pool
    <3>5. ASSUME NEW r \in Requests, Request(r) PROVE Forward(r)
      <4>1. ~Mirror(r)
        BY <1>1 DEF Mirror, IInv, TypeOK
      <4>2. ~(Arrive(r) \/ ArriveLate(r) \/ Answer(r) \/ Upgrade(r) \/ CloseTunnel(r))
        BY DEF Arrive, ArriveLate, Answer, Upgrade, CloseTunnel, pool
      <4> QED
        BY <3>5, <4>1, <4>2 DEF Request
    <3>6. CASE UNCHANGED vars
      BY <3>6 DEF vars
    <3> QED
      BY <1>1, <3>1, <3>2, <3>3, <3>4, <3>5, <3>6 DEF Next
  <2>2. Promise!Drop(r) /\ q = r
    BY <1>1, <2>1 DEF Forward, IInv, TypeOK, pool
  <2>3. handler[r] = "deciding" /\ late' = late
    BY <2>1 DEF Forward
  <2>4. phase = "open"
    BY <1>1, <2>2, <2>3 DEF IInv, TypeOK, JoinOrder, Drained, Busy
  <2> QED
    BY <2>2, <2>4 DEF Cardinality, Promise!Cardinality
<1>2. IInv /\ [Next]_vars => [Refused]_vars
  BY <1>1
<1> QED
  BY <1>2, InvHolds, PTL DEF Spec, RefusedOnlyLate
=============================================================================
