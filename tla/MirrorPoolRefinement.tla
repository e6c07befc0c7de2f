----------------------- MODULE MirrorPoolRefinement ------------------------
(***************************************************************************)
(* MirrorPool implements MirrorPromise, for any number of jobs, callers of *)
(* Stop and workers and any queue size: every step of the pool is a step   *)
(* of the promise or changes nothing the promise speaks of.                *)
(***************************************************************************)
EXTENDS MirrorPoolProofs

RInv == IInv /\ Places /\ Leaving

LEMMA RInvariance == Spec => []RInv
BY Invariance, PlacesInvariance, LeavingInvariance, PTL DEF RInv

(* An open pool has no flag set and no Stop that drained it.               *)
LEMMA PhaseOf ==
  ASSUME RInv
  PROVE  /\ PoolPhase = "open" <=> ~stopped
         /\ PoolPhase = "closing" <=> stopped /\ ~Drained
<1>1. Drained => stopped
  BY PoolAssumption DEF RInv, IInv, Leaving, FlagGuards, Drained
<1> QED
  BY <1>1 DEF PoolPhase

(* The states of a job.                                                    *)
LEMMA StateOf ==
  ASSUME RInv, NEW j \in Jobs
  PROVE  /\ JobState[j] = "unseen"   <=> fate[j] = "none"
         /\ JobState[j] = "dropped"  <=> fate[j] = "dropped"
         /\ JobState[j] = "pending"  <=> fate[j] = "accepted" /\ processed[j] = 0
         /\ JobState[j] = "mirrored" <=> fate[j] = "accepted" /\ processed[j] # 0
<1>1. fate[j] \in {"none", "accepted", "dropped"} /\ processed[j] \in Nat
  BY DEF RInv, IInv, TypeOK
<1> QED
  BY <1>1 DEF JobState

(* What does not touch fate, processed, the flag or a Stop that returns is *)
(* a stutter.                                                              *)
LEMMA Stutter ==
  ASSUME UNCHANGED <<fate, processed, stopped>>, Drained' = Drained
  PROVE  UNCHANGED Promise!vars
<1>1. UNCHANGED JobState
  BY DEF JobState
<1>2. UNCHANGED PoolPhase
  BY DEF PoolPhase
<1> QED
  BY <1>1, <1>2 DEF Promise!vars

(* A step that decides one job.                                            *)
LEMMA OneJob ==
  ASSUME RInv, NEW j \in Jobs, UNCHANGED <<stopped, stopPc>>,
         \A k \in Jobs \ {j} : fate'[k] = fate[k] /\ processed'[k] = processed[k]
  PROVE  /\ UNCHANGED PoolPhase
         /\ JobState' = [JobState EXCEPT ![j] = JobState'[j]]
<1>1. UNCHANGED PoolPhase
  BY DEF PoolPhase, Drained
<1>2. \A k \in Jobs \ {j} : JobState'[k] = JobState[k]
  BY DEF JobState
<1>3. JobState \in [Jobs -> {"unseen", "dropped", "pending", "mirrored"}]
      /\ JobState' = [k \in Jobs |-> JobState'[k]]
  BY DEF JobState
<1> QED
  BY <1>1, <1>2, <1>3

(* A full channel holds as many pending jobs.                              *)
LEMMA FullChannel ==
  ASSUME RInv, Len(queue) = QueueSize
  PROVE  Cardinality(Promise!Pending) >= QueueSize
<1> DEFINE f == [i \in 1 .. Len(queue) |-> queue[i]]
<1>1. queue \in Seq(Jobs) /\ QueueSize \in Nat
  BY PoolAssumption DEF RInv, IInv, TypeOK
<1>2. ASSUME NEW i \in 1 .. Len(queue) PROVE queue[i] \in Promise!Pending
  <2>1. queue[i] \in Jobs /\ Queued(queue[i])
    BY <1>1 DEF Queued
  <2>2. fate[queue[i]] = "accepted" /\ processed[queue[i]] = 0
    BY <2>1 DEF RInv, Places, OnePlace
  <2> QED
    BY <2>1, <2>2, StateOf DEF Promise!Pending
<1>3. f \in Injection(1 .. Len(queue), Promise!Pending)
  BY <1>2 DEF Injection, IsInjective, RInv, Places, Apart
<1>4. IsFiniteSet(Promise!Pending)
  BY PoolAssumption, FS_Subset DEF Promise!Pending
<1>5. /\ IsFiniteSet(1 .. Len(queue)) /\ Cardinality(1 .. Len(queue)) = Len(queue)
  BY <1>1, FS_Interval
<1>6. Cardinality(1 .. Len(queue)) <= Cardinality(Promise!Pending)
  BY <1>3, <1>4, FS_Injection
<1>7. Cardinality(Promise!Pending) \in Nat
  BY <1>4, FS_CardinalityType
<1> QED
  BY <1>1, <1>5, <1>6, <1>7

-----------------------------------------------------------------------------
LEMMA SubmitImplements ==
  ASSUME RInv, NEW j \in Jobs, Submit(j) \/ TrySubmit(j)
  PROVE  [Promise!Next]_Promise!vars
<1> USE DEF mu, channel, work
<1>1. UNCHANGED <<stopped, stopPc, processed>>
  BY DEF Submit, TrySubmit, RLock, CheckStopped, Enqueue, DropFull, RUnlock
<1>2. fate \in [Jobs -> {"none", "accepted", "dropped"}]
  BY DEF RInv, IInv, TypeOK
<1>3. ASSUME NEW new \in {"accepted", "dropped"}, fate' = [fate EXCEPT ![j] = new],
             fate[j] = "none"
      PROVE  Promise!Become(j, "unseen", IF new = "accepted" THEN "pending" ELSE "dropped")
  <2>1. JobState[j] = "unseen"
    BY <1>3, StateOf
  <2>2. fate'[j] = new /\ (new = "accepted" => processed[j] = 0)
    <3>1. processed[j] = 0
      BY <1>3 DEF RInv, Places, OnePlace
    <3> QED
      BY <1>2, <1>3, <3>1
  <2>3. JobState'[j] = IF new = "accepted" THEN "pending" ELSE "dropped"
    BY <1>1, <1>3, <2>2 DEF JobState
  <2>4. /\ UNCHANGED PoolPhase
        /\ JobState' = [JobState EXCEPT ![j] = JobState'[j]]
    <3>1. \A k \in Jobs \ {j} : fate'[k] = fate[k] /\ processed'[k] = processed[k]
      BY <1>1, <1>2, <1>3
    <3> QED
      BY <1>1, <3>1, OneJob
  <2> QED
    BY <2>1, <2>3, <2>4 DEF Promise!Become
<1>4. CASE UNCHANGED fate
  <2>1. Drained' = Drained
    BY <1>1 DEF Drained
  <2> QED
    BY <1>1, <1>4, <2>1, Stutter
<1>5. CASE CheckStopped(j) /\ stopped
  <2>1. fate[j] = "none" /\ fate' = [fate EXCEPT ![j] = "dropped"]
    BY <1>5 DEF CheckStopped, RInv, Places, Undecided
  <2>2. PoolPhase # "open"
    BY <1>5, PhaseOf
  <2> QED
    BY <1>3, <2>1, <2>2 DEF Promise!Next, Promise!Drop
<1>6. CASE Enqueue(j)
  <2>1. fate[j] = "none" /\ fate' = [fate EXCEPT ![j] = "accepted"]
    BY <1>6 DEF Enqueue, RInv, Places, Undecided
  <2>2. PoolPhase = "open"
    BY <1>6, PhaseOf DEF Enqueue, RInv, IInv, FlagGuards
  <2> QED
    BY <1>3, <2>1, <2>2 DEF Promise!Next, Promise!Accept
<1>7. CASE DropFull(j)
  <2>1. fate[j] = "none" /\ fate' = [fate EXCEPT ![j] = "dropped"]
    BY <1>7 DEF DropFull, RInv, Places, Undecided
  <2>2. Cardinality(Promise!Pending) >= QueueSize
    BY <1>7, FullChannel DEF DropFull
  <2>3. Promise!Cardinality(Promise!Pending) >= QueueSize
    BY <2>2 DEF Cardinality, Promise!Cardinality
  <2> QED
    BY <1>3, <2>1, <2>3 DEF Promise!Next, Promise!Drop
<1>8. CASE Submit(j) \/ RLock(j) \/ RUnlock(j)
  BY <1>4, <1>8 DEF Submit, RLock, RUnlock
<1>9. CASE CheckStopped(j) /\ ~stopped
  BY <1>2, <1>4, <1>9 DEF CheckStopped
<1> QED
  BY <1>5, <1>6, <1>7, <1>8, <1>9 DEF TrySubmit

LEMMA StopImplements ==
  ASSUME RInv, TypeOK', NEW s \in Stoppers, CallStop(s) \/ Stop(s)
  PROVE  [Promise!Next]_Promise!vars
<1> USE DEF mu, channel, work
<1>1. UNCHANGED <<fate, processed>> /\ UNCHANGED JobState
  BY DEF CallStop, Stop, AnnounceLock, AcquireLock, StopAgain, MarkStopped, CloseQueue,
     Unlock, WorkersGone, JobState
<1>2. stopPc \in [Stoppers -> {"new", "lock", "announced", "locked", "close", "unlock",
                               "wait", "returned", "drained"}]
  BY DEF RInv, IInv, TypeOK
<1>3. CASE MarkStopped(s)
  <2>1. ~stopped /\ stopped'
    BY <1>3 DEF MarkStopped
  <2>2. ~Drained /\ PoolPhase = "open"
    BY <2>1, PhaseOf DEF PoolPhase
  <2>3. ~Drained'
    BY <1>2, <1>3, <2>2 DEF MarkStopped, Drained
  <2>4. PoolPhase' = "closing"
    BY <2>1, <2>3 DEF PoolPhase
  <2> QED
    BY <1>1, <2>2, <2>4 DEF Promise!Next, Promise!Close
<1>4. CASE WorkersGone(s)
  <2>1. /\ \A w \in Workers : workPc[w] = "exited"
        /\ UNCHANGED stopped /\ stopPc'[s] = "drained"
    BY <1>2, <1>4 DEF WorkersGone
  <2>2. stopped
    BY <2>1, PoolAssumption DEF RInv, IInv, Leaving, FlagGuards
  <2>3. Drained' /\ PoolPhase' = "stopped"
    BY <2>1 DEF Drained, PoolPhase
  <2>4. Promise!Pending = {}
    <3>1. ASSUME NEW j \in Jobs, JobState[j] = "pending" PROVE FALSE
      BY <2>1, <3>1, StateOf, NothingLeft DEF RInv, IInv
    <3> QED
      BY <3>1 DEF Promise!Pending
  <2>5. CASE Drained
    BY <1>1, <2>1, <2>3, <2>5, Stutter
  <2>6. CASE ~Drained
    BY <1>1, <2>2, <2>3, <2>4, <2>6, PhaseOf DEF Promise!Next, Promise!Finish
  <2> QED
    BY <2>5, <2>6
<1>5. CASE \/ CallStop(s) \/ AnnounceLock(s) \/ AcquireLock(s)
           \/ StopAgain(s) \/ CloseQueue(s) \/ Unlock(s)
  <2>1. /\ UNCHANGED stopped /\ stopPc[s] # "drained" /\ stopPc'[s] # "drained"
        /\ \A q \in Stoppers \ {s} : stopPc'[q] = stopPc[q]
    BY <1>2, <1>5 DEF CallStop, AnnounceLock, AcquireLock, StopAgain, CloseQueue, Unlock
  <2>2. Drained' = Drained
    BY <2>1 DEF Drained
  <2> QED
    BY <1>1, <2>1, <2>2, Stutter
<1> QED
  BY <1>3, <1>4, <1>5 DEF Stop

LEMMA WorkerImplements ==
  ASSUME RInv, NEW w \in Workers, Worker(w)
  PROVE  [Promise!Next]_Promise!vars
<1> USE DEF mu, channel, work
<1>1. UNCHANGED <<fate, stopped, stopPc>> /\ Drained' = Drained
  BY DEF Worker, Receive, Skip, Send, Sent, Failed, Finish, Exit, Conclude, Drained
<1>2. CASE Finish(w)
  <2> DEFINE j == job[w]
  <2>1. j \in Jobs /\ processed \in [Jobs -> Nat]
    BY <1>2 DEF Finish, RInv, IInv, Places, Undecided, TypeOK
  <2>2. fate[j] = "accepted" /\ processed[j] = 0
    BY <2>1 DEF RInv, Places, OnePlace, Held
  <2>3. /\ processed'[j] = 1
        /\ \A k \in Jobs \ {j} : processed'[k] = processed[k]
    BY <1>2, <2>1, <2>2 DEF Finish
  <2> HIDE DEF j
  <2>4. JobState[j] = "pending"
    BY <2>1, <2>2, StateOf
  <2>5. JobState'[j] = "mirrored"
    BY <1>1, <2>1, <2>2, <2>3 DEF JobState
  <2>6. UNCHANGED PoolPhase /\ JobState' = [JobState EXCEPT ![j] = JobState'[j]]
    BY <1>1, <2>1, <2>3, OneJob
  <2> QED
    BY <2>1, <2>4, <2>5, <2>6 DEF Promise!Next, Promise!Mirror, Promise!Become
<1>3. CASE Receive(w) \/ Skip(w) \/ Send(w) \/ Sent(w) \/ Failed(w) \/ Exit(w)
  <2>1. UNCHANGED processed
    BY <1>3 DEF Receive, Skip, Send, Sent, Failed, Exit, Conclude
  <2> QED
    BY <1>1, <2>1, Stutter
<1> QED
  BY <1>2, <1>3 DEF Worker

(* The pool keeps the safety part of its promise: a job is accepted only   *)
(* while the pool is open, dropped only when QueueSize jobs are pending or *)
(* Stop was called, mirrored once, and the pool is stopped with none left. *)
THEOREM ImplementsPromise == Spec => Promise!Spec
<1>1. Init => Promise!Init
  <2>1. Init => ~Drained
    BY DEF Init, Drained
  <2>2. Init => JobState = [j \in Jobs |-> "unseen"]
    BY DEF Init, JobState
  <2> QED
    BY <2>1, <2>2 DEF Init, Promise!Init, PoolPhase
<1>2. RInv /\ RInv' /\ [Next]_vars => [Promise!Next]_Promise!vars
  <2> SUFFICES ASSUME RInv, RInv', [Next]_vars PROVE [Promise!Next]_Promise!vars
    OBVIOUS
  <2>1. CASE UNCHANGED vars
    <3>1. UNCHANGED <<fate, processed, stopped>> /\ Drained' = Drained
      BY <2>1 DEF vars, Drained
    <3> QED
      BY <3>1, Stutter
  <2>2. TypeOK'
    BY DEF RInv, IInv
  <2> QED
    BY <2>1, <2>2, SubmitImplements, StopImplements, WorkerImplements DEF Next
<1> QED
  BY <1>1, <1>2, RInvariance, PTL DEF Spec, Promise!Spec
=============================================================================
