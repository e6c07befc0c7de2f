------------------------- MODULE MirrorPoolProofs --------------------------
(***************************************************************************)
(* Proofs about MirrorPool, for any number of jobs, callers of Stop and    *)
(* workers and any queue size: its types, and that no call ever panics on  *)
(* the closed channel; then where a job can be, that each accepted one is  *)
(* processed once and at all its targets, that Stop waits for all of them, *)
(* and that no call waits for a worker.                                    *)
(***************************************************************************)
EXTENDS MirrorPool, FiniteSetTheorems, TLAPS

Reading == {"check", "send", "unlock"}
Writing == {"locked", "close", "unlock"}

(* The lock does its work: a call inside its read-locked region is a       *)
(* reader, a Stop inside its own region is the writer, and the two never   *)
(* meet.                                                                   *)
Exclusion ==
  /\ \A j \in Jobs : subPc[j] \in Reading => j \in readers
  /\ \A s \in Stoppers : stopPc[s] \in Writing \cup {"announced"} => writer = s
  /\ \A s \in Stoppers : stopPc[s] \in Writing => readers = {}

(* What the flag says of the channel to whoever holds the lock.            *)
FlagGuards ==
  /\ closed => stopped
  /\ \A j \in Jobs : subPc[j] = "send" => ~stopped
  /\ \A s \in Stoppers : stopPc[s] = "close" => stopped /\ ~closed

IInv == TypeOK /\ Exclusion /\ FlagGuards

-----------------------------------------------------------------------------
LEMMA InitInv == Init => IInv
<1> SUFFICES ASSUME Init PROVE IInv
  OBVIOUS
<1>1. TypeOK
  <2>1. queue \in Seq(Jobs) /\ outcomes \in [Jobs -> Seq({"skipped", "sent", "failed"})]
    BY DEF Init
  <2>2. /\ subPc \in [Jobs -> {"new", "rlock", "check", "send", "unlock", "done"}]
        /\ stopPc \in [Stoppers -> {"new", "lock", "announced", "locked", "close", "unlock",
                                    "wait", "returned", "drained"}]
        /\ workPc \in [Workers -> {"idle", "busy", "sending", "exited"}]
        /\ fate \in [Jobs -> {"none", "accepted", "dropped"}]
    BY DEF Init
  <2> QED
    BY <2>1, <2>2 DEF Init, TypeOK
<1>2. Exclusion
  BY DEF Init, Exclusion, Reading, Writing
<1>3. FlagGuards
  BY DEF Init, FlagGuards
<1> QED
  BY <1>1, <1>2, <1>3 DEF IInv

(* Queue and workers.                                                      *)
LEMMA QueueType ==
  ASSUME NEW S, NEW q \in Seq(S), q # <<>>
  PROVE  Head(q) \in S /\ Tail(q) \in Seq(S)
OBVIOUS

LEMMA TypeStep == IInv /\ [Next]_vars => TypeOK'
<1> SUFFICES ASSUME IInv, [Next]_vars PROVE TypeOK'
  OBVIOUS
<1> USE DEF IInv, mu, channel, work
<1>1. CASE UNCHANGED vars
  BY <1>1 DEF vars, TypeOK
<1>2. ASSUME NEW j \in Jobs, Submit(j) \/ TrySubmit(j) PROVE TypeOK'
  <2>1. CASE Submit(j)
    BY <2>1 DEF TypeOK, Submit
  <2>2. CASE RLock(j)
    BY <2>2 DEF TypeOK, RLock
  <2>3. CASE CheckStopped(j)
    BY <2>3 DEF TypeOK, CheckStopped
  <2>4. CASE Enqueue(j)
    BY <2>4 DEF TypeOK, Enqueue
  <2>5. CASE DropFull(j)
    BY <2>5 DEF TypeOK, DropFull
  <2>6. CASE RUnlock(j)
    BY <2>6 DEF TypeOK, RUnlock
  <2> QED
    BY <1>2, <2>1, <2>2, <2>3, <2>4, <2>5, <2>6 DEF TrySubmit
<1>3. ASSUME NEW s \in Stoppers, CallStop(s) \/ Stop(s) PROVE TypeOK'
  <2>1. CASE CallStop(s)
    BY <2>1 DEF TypeOK, CallStop
  <2>2. CASE AnnounceLock(s)
    BY <2>2 DEF TypeOK, AnnounceLock
  <2>3. CASE AcquireLock(s)
    BY <2>3 DEF TypeOK, AcquireLock
  <2>4. CASE StopAgain(s)
    BY <2>4 DEF TypeOK, StopAgain
  <2>5. CASE MarkStopped(s)
    BY <2>5 DEF TypeOK, MarkStopped
  <2>6. CASE CloseQueue(s)
    BY <2>6 DEF TypeOK, CloseQueue
  <2>7. CASE Unlock(s)
    BY <2>7 DEF TypeOK, Unlock
  <2>8. CASE WorkersGone(s)
    BY <2>8 DEF TypeOK, WorkersGone
  <2> QED
    BY <1>3, <2>1, <2>2, <2>3, <2>4, <2>5, <2>6, <2>7, <2>8 DEF Stop
<1>4. ASSUME NEW w \in Workers, Worker(w) PROVE TypeOK'
  <2>1. CASE Receive(w)
    BY <2>1, QueueType DEF TypeOK, Receive
  <2>2. ASSUME NEW o \in {"skipped", "sent", "failed"}, Conclude(w, o) PROVE TypeOK'
    <3>1. \A q \in Seq({"skipped", "sent", "failed"}) :
             Append(q, o) \in Seq({"skipped", "sent", "failed"})
      OBVIOUS
    <3> QED
      BY <2>2, <3>1 DEF TypeOK, Conclude
  <2>3. CASE Skip(w)
    BY <2>2, <2>3 DEF Skip
  <2>4. CASE Send(w)
    BY <2>4 DEF TypeOK, Send
  <2>5. CASE Sent(w)
    BY <2>2, <2>5 DEF Sent
  <2>6. CASE Failed(w)
    BY <2>2, <2>6 DEF Failed
  <2>7. CASE Finish(w)
    <3>1. ASSUME NEW f \in [Jobs -> Nat], NEW k
          PROVE  [f EXCEPT ![k] = @ + 1] \in [Jobs -> Nat]
      <4>1. CASE k \in Jobs
        <5>1. f[k] + 1 \in Nat
          BY <4>1
        <5> QED
          BY <5>1
      <4>2. CASE k \notin Jobs
        BY <4>2
      <4> QED
        BY <4>1, <4>2
    <3>2. processed' \in [Jobs -> Nat]
      BY <2>7, <3>1 DEF TypeOK, Finish
    <3> QED
      BY <2>7, <3>2 DEF TypeOK, Finish
  <2>8. CASE Exit(w)
    BY <2>8 DEF TypeOK, Exit
  <2> QED
    BY <1>4, <2>1, <2>3, <2>4, <2>5, <2>6, <2>7, <2>8 DEF Worker
<1> QED
  BY <1>1, <1>2, <1>3, <1>4 DEF Next

(* The workers touch neither lock nor flag, and only Stop closes.          *)
LEMMA LockStep == IInv /\ TypeOK' /\ [Next]_vars => Exclusion' /\ FlagGuards'
<1> DEFINE P == Exclusion /\ FlagGuards
<1> SUFFICES ASSUME IInv, TypeOK', [Next]_vars PROVE P'
  OBVIOUS
<1> USE PoolAssumption DEF IInv, mu, channel, work, Reading, Writing
<1>1. ASSUME UNCHANGED <<subPc, stopPc, mu, closed>> PROVE P'
  BY <1>1 DEF Exclusion, FlagGuards
<1>2. ASSUME NEW j \in Jobs, Submit(j) \/ TrySubmit(j) PROVE P'
  <2>1. CASE Submit(j)
    BY <2>1 DEF TypeOK, Submit, Exclusion, FlagGuards
  <2>2. CASE RLock(j)
    BY <2>2 DEF TypeOK, RLock, Exclusion, FlagGuards
  <2>3. CASE CheckStopped(j)
    BY <2>3 DEF TypeOK, CheckStopped, Exclusion, FlagGuards
  <2>4. CASE Enqueue(j) \/ DropFull(j)
    BY <2>4 DEF TypeOK, Enqueue, DropFull, Exclusion, FlagGuards
  <2>5. CASE RUnlock(j)
    BY <2>5 DEF TypeOK, RUnlock, Exclusion, FlagGuards
  <2> QED
    BY <1>2, <2>1, <2>2, <2>3, <2>4, <2>5 DEF TrySubmit
<1>3. ASSUME NEW s \in Stoppers, CallStop(s) \/ Stop(s) PROVE P'
  <2>1. CASE CallStop(s)
    BY <2>1 DEF TypeOK, CallStop, Exclusion, FlagGuards
  <2>2. CASE AnnounceLock(s)
    BY <2>2 DEF TypeOK, AnnounceLock, Exclusion, FlagGuards
  <2>3. CASE AcquireLock(s)
    BY <2>3 DEF TypeOK, AcquireLock, Exclusion, FlagGuards
  <2>4. CASE StopAgain(s)
    BY <2>4 DEF TypeOK, StopAgain, Exclusion, FlagGuards
  <2>5. CASE MarkStopped(s)
    BY <2>5 DEF TypeOK, MarkStopped, Exclusion, FlagGuards
  <2>6. CASE CloseQueue(s)
    BY <2>6 DEF TypeOK, CloseQueue, Exclusion, FlagGuards
  <2>7. CASE Unlock(s)
    BY <2>7 DEF TypeOK, Unlock, Exclusion, FlagGuards
  <2>8. CASE WorkersGone(s)
    BY <2>8 DEF TypeOK, WorkersGone, Exclusion, FlagGuards
  <2> QED
    BY <1>3, <2>1, <2>2, <2>3, <2>4, <2>5, <2>6, <2>7, <2>8 DEF Stop
<1>4. ASSUME NEW w \in Workers, Worker(w) PROVE P'
  BY <1>1, <1>4 DEF Worker, Receive, Skip, Send, Sent, Failed, Finish, Exit, Conclude
<1> QED
  BY <1>1, <1>2, <1>3, <1>4 DEF Next, vars

LEMMA Invariance == Spec => []IInv
<1>1. IInv /\ [Next]_vars => IInv'
  BY TypeStep, LockStep DEF IInv
<1> QED
  BY InitInv, <1>1, PTL DEF Spec

-----------------------------------------------------------------------------
(* The theorems.                                                           *)

(* Every variable of the pool keeps its type.                              *)
THEOREM TypeCorrect == Spec => []TypeOK
BY Invariance, PTL DEF IInv

(* TrySubmit never sends on the closed channel and Stop never closes it a  *)
(* second time.                                                            *)
THEOREM NoPanicHolds == Spec => []NoPanic
<1>1. IInv => NoPanic
  BY DEF IInv, FlagGuards, NoPanic
<1> QED
  BY <1>1, Invariance, PTL

-----------------------------------------------------------------------------
(* The jobs.                                                               *)

Queued(j) == \E i \in 1 .. Len(queue) : queue[i] = j
Held(j)   == \E w \in Workers : job[w] = j

(* No job is twice in the channel or in two hands.                         *)
Apart ==
  /\ \A i, k \in 1 .. Len(queue) : queue[i] = queue[k] => i = k
  /\ \A v, w \in Workers : job[v] = job[w] /\ job[v] # None => v = w

(* A job is in the channel, in a worker's hands or processed, and only if  *)
(* it was accepted.                                                        *)
OnePlace ==
  \A j \in Jobs :
    /\ Queued(j) => ~Held(j) /\ processed[j] = 0 /\ fate[j] = "accepted"
    /\ Held(j) => processed[j] = 0 /\ fate[j] = "accepted"
    /\ processed[j] # 0 => processed[j] = 1 /\ fate[j] = "accepted"
    /\ fate[j] = "accepted" => Queued(j) \/ Held(j) \/ processed[j] # 0

(* A call decides at its select or its check of the flag.                  *)
Undecided ==
  /\ \A j \in Jobs : subPc[j] \in {"new", "rlock", "check", "send"} => fate[j] = "none"
  /\ \A w \in Workers : workPc[w] \in {"busy", "sending"} <=> job[w] # None

Places == Apart /\ OnePlace /\ Undecided

-----------------------------------------------------------------------------
LEMMA AppendTo ==
  ASSUME NEW S, NEW q \in Seq(S), NEW e \in S
  PROVE  /\ Len(q) \in Nat
         /\ Len(Append(q, e)) = Len(q) + 1
         /\ \A i \in 1 .. Len(q) : Append(q, e)[i] = q[i]
         /\ Append(q, e)[Len(q) + 1] = e
OBVIOUS

LEMMA TailOf ==
  ASSUME NEW S, NEW q \in Seq(S), q # <<>>
  PROVE  /\ Len(q) \in Nat \ {0}
         /\ Head(q) = q[1] /\ q[1] \in S
         /\ Len(Tail(q)) = Len(q) - 1
         /\ \A i \in 1 .. Len(q) - 1 : Tail(q)[i] = q[i + 1]
OBVIOUS

LEMMA PlacesInit == Init => Places
BY PoolAssumption DEF Init, Places, Apart, OnePlace, Undecided, Queued, Held

(* Sending on the channel.                                                 *)
LEMMA EnqueuePlaces ==
  ASSUME TypeOK, TypeOK', Places, NEW j \in Jobs, Enqueue(j)
  PROVE  Places'
<1> USE DEF Places
<1> DEFINE n == Len(queue)
<1>1. /\ queue \in Seq(Jobs) /\ queue' = Append(queue, j)
      /\ UNCHANGED <<job, processed, workPc>>
      /\ fate'[j] = "accepted" /\ subPc'[j] = "unlock"
      /\ \A k \in Jobs \ {j} : fate'[k] = fate[k] /\ subPc'[k] = subPc[k]
  BY DEF Enqueue, TypeOK, work
<1>2. /\ n \in Nat /\ Len(queue') = n + 1 /\ queue'[n + 1] = j
      /\ \A i \in 1 .. n : queue'[i] = queue[i]
  BY <1>1, AppendTo
<1>3. fate[j] = "none"
  BY DEF Enqueue, Undecided
<1>4. ~Queued(j) /\ ~Held(j) /\ processed[j] = 0
  BY <1>3 DEF OnePlace
<1> HIDE DEF n
<1>5. \A i \in 1 .. n + 1 : i = n + 1 \/ i \in 1 .. n
  BY <1>2
<1>6. n + 1 \in 1 .. n + 1 /\ \A i \in 1 .. n : i \in 1 .. n + 1
  BY <1>2
<1>7. Apart'
  BY <1>1, <1>2, <1>4, <1>5 DEF Apart, Queued, n
<1>8. \A k \in Jobs : Queued(k)' <=> Queued(k) \/ k = j
  BY <1>2, <1>5, <1>6 DEF Queued, n
<1>9. \A k \in Jobs : Held(k)' <=> Held(k)
  BY <1>1 DEF Held
<1>10. OnePlace'
  BY <1>1, <1>4, <1>8, <1>9 DEF OnePlace
<1>11. Undecided'
  BY <1>1 DEF Undecided
<1> QED
  BY <1>7, <1>10, <1>11

(* Receiving from the channel.                                             *)
LEMMA ReceivePlaces ==
  ASSUME TypeOK, TypeOK', Places, NEW w \in Workers, Receive(w)
  PROVE  Places'
<1> USE DEF Places
<1> DEFINE n == Len(queue)
           h == queue[1]
<1>1. /\ queue \in Seq(Jobs) /\ queue # <<>> /\ queue' = Tail(queue)
      /\ UNCHANGED <<fate, processed, subPc>>
      /\ job'[w] = Head(queue) /\ workPc'[w] = "busy" /\ workPc[w] = "idle"
      /\ \A v \in Workers \ {w} : job'[v] = job[v] /\ workPc'[v] = workPc[v]
  BY DEF Receive, TypeOK
<1>2. /\ n \in Nat \ {0} /\ Head(queue) = h /\ h \in Jobs
      /\ Len(queue') = n - 1
      /\ \A i \in 1 .. n - 1 : queue'[i] = queue[i + 1]
  BY <1>1, TailOf
<1>3. job[w] = None /\ h # None
  BY <1>1, <1>2, PoolAssumption DEF Undecided
<1> HIDE DEF n
<1>4. /\ \A i \in 1 .. n - 1 : i + 1 \in 1 .. n /\ i + 1 # 1
      /\ \A i \in 1 .. n : i = 1 \/ \E k \in 1 .. n - 1 : i = k + 1
      /\ 1 \in 1 .. n
      /\ \A i, k \in 1 .. n - 1 : i + 1 = k + 1 => i = k
  <2>1. \A i \in 1 .. n : i = 1 \/ (i - 1 \in 1 .. n - 1 /\ i = (i - 1) + 1)
    BY <1>2
  <2> QED
    BY <1>2, <2>1
<1>5. Queued(h) /\ ~Held(h) /\ processed[h] = 0 /\ fate[h] = "accepted"
  BY <1>2, <1>4 DEF OnePlace, Queued, n
<1>6. \A k \in Jobs : Queued(k)' <=> Queued(k) /\ k # h
  <2>1. ASSUME NEW k \in Jobs, Queued(k), k # h PROVE Queued(k)'
    <3>1. PICK i \in 1 .. n : queue[i] = k
      BY <2>1 DEF Queued, n
    <3>2. PICK m \in 1 .. n - 1 : i = m + 1
      BY <2>1, <1>4, <3>1
    <3> QED
      BY <1>2, <3>1, <3>2 DEF Queued
  <2>2. ASSUME NEW k \in Jobs, Queued(k)' PROVE Queued(k) /\ k # h
    BY <2>2, <1>2, <1>4 DEF Queued, Apart, n
  <2> QED
    BY <2>1, <2>2
<1>7. \A k \in Jobs : Held(k)' <=> Held(k) \/ k = h
  BY <1>1, <1>2, <1>3, PoolAssumption DEF Held
<1>8. Apart'
  <2>1. ASSUME NEW i \in 1 .. n - 1, NEW k \in 1 .. n - 1, queue'[i] = queue'[k] PROVE i = k
    <3>1. queue[i + 1] = queue[k + 1]
      BY <1>2, <2>1
    <3>2. i + 1 = k + 1
      BY <1>4, <3>1 DEF Apart, n
    <3> QED
      BY <3>2
  <2>2. \A v \in Workers \ {w} : job'[v] # h
    BY <1>1, <1>5 DEF Held
  <2>3. \A u, v \in Workers : job'[u] = job'[v] /\ job'[u] # None => u = v
    BY <1>1, <1>2, <2>2 DEF Apart
  <2> QED
    BY <1>2, <2>1, <2>3 DEF Apart
<1>9. OnePlace'
  BY <1>1, <1>5, <1>6, <1>7 DEF OnePlace
<1>10. Undecided'
  BY <1>1, <1>2, <1>3 DEF Undecided
<1> QED
  BY <1>8, <1>9, <1>10

(* Being done with a job.                                                  *)
LEMMA FinishPlaces ==
  ASSUME TypeOK, TypeOK', Places, NEW w \in Workers, Finish(w)
  PROVE  Places'
<1> USE DEF Places
<1>1. PICK h \in Jobs : h = job[w]
  BY DEF Finish, Undecided, TypeOK
<1>2. /\ UNCHANGED <<queue, fate, subPc>>
      /\ job'[w] = None /\ workPc'[w] = "idle"
      /\ \A v \in Workers \ {w} : job'[v] = job[v] /\ workPc'[v] = workPc[v]
      /\ \A k \in Jobs \ {h} : processed'[k] = processed[k]
      /\ processed'[h] = processed[h] + 1
  BY <1>1 DEF Finish, TypeOK, channel
<1>3. Held(h) /\ ~Queued(h) /\ processed[h] = 0 /\ fate[h] = "accepted"
  BY <1>1 DEF Held, OnePlace
<1>4. \A k \in Jobs : Queued(k)' <=> Queued(k)
  BY <1>2 DEF Queued
<1>5. \A k \in Jobs : Held(k)' <=> Held(k) /\ k # h
  <2> SUFFICES ASSUME NEW k \in Jobs PROVE Held(k)' <=> Held(k) /\ k # h
    OBVIOUS
  <2>1. k # None
    BY PoolAssumption
  <2>2. CASE k = h
    <3>1. \A v \in Workers \ {w} : job[v] # h
      BY <1>1, <2>1, <2>2 DEF Apart
    <3> QED
      BY <1>2, <2>1, <2>2, <3>1 DEF Held
  <2>3. CASE k # h
    BY <1>1, <1>2, <2>1, <2>3 DEF Held
  <2> QED
    BY <2>2, <2>3
<1>6. Apart'
  BY <1>2 DEF Apart
<1>7. OnePlace'
  BY <1>2, <1>3, <1>4, <1>5 DEF OnePlace
<1>8. Undecided'
  BY <1>2 DEF Undecided
<1> QED
  BY <1>6, <1>7, <1>8

LEMMA PlacesStep == TypeOK /\ TypeOK' /\ Places /\ [Next]_vars => Places'
<1> SUFFICES ASSUME TypeOK, TypeOK', Places, [Next]_vars PROVE Places'
  OBVIOUS
<1> USE DEF mu, channel, work
<1>1. ASSUME UNCHANGED <<queue, job, processed>>,
             \A k \in Jobs : fate'[k] # fate[k] => fate[k] = "none" /\ fate'[k] = "dropped",
             Undecided'
      PROVE  Places'
  <2>1. \A k \in Jobs : /\ Queued(k)' <=> Queued(k)
                        /\ Held(k)' <=> Held(k)
                        /\ fate'[k] = "accepted" <=> fate[k] = "accepted"
    BY <1>1 DEF Queued, Held
  <2> QED
    BY <1>1, <2>1 DEF Places, Apart, OnePlace
<1>2. CASE UNCHANGED vars
  BY <1>1, <1>2 DEF vars, Undecided, Places
<1>3. ASSUME NEW j \in Jobs, Submit(j) \/ TrySubmit(j) PROVE Places'
  <2>1. CASE Submit(j) \/ RLock(j) \/ RUnlock(j)
    BY <1>1, <2>1 DEF Submit, RLock, RUnlock, TypeOK, Places, Undecided
  <2>2. CASE CheckStopped(j) \/ DropFull(j)
    <3>1. fate[j] = "none"
      BY <2>2 DEF CheckStopped, DropFull, Places, Undecided
    <3>2. /\ UNCHANGED <<queue, job, processed, workPc>>
          /\ fate'[j] = "dropped" \/ fate'[j] = "none"
          /\ fate'[j] = "dropped" => subPc'[j] = "unlock"
          /\ \A k \in Jobs \ {j} : fate'[k] = fate[k] /\ subPc'[k] = subPc[k]
      BY <2>2, <3>1 DEF CheckStopped, DropFull, TypeOK
    <3>3. Undecided'
      BY <3>2 DEF Places, Undecided
    <3> QED
      BY <1>1, <3>1, <3>2, <3>3
  <2> QED
    BY <1>3, <2>1, <2>2, EnqueuePlaces DEF TrySubmit
<1>4. ASSUME NEW s \in Stoppers, CallStop(s) \/ Stop(s) PROVE Places'
  BY <1>1, <1>4 DEF CallStop, Stop, AnnounceLock, AcquireLock, StopAgain, MarkStopped,
     CloseQueue, Unlock, WorkersGone, Places, Undecided
<1>5. ASSUME NEW w \in Workers, Worker(w) PROVE Places'
  <2>1. CASE Skip(w) \/ Send(w) \/ Sent(w) \/ Failed(w) \/ Exit(w)
    <3>1. /\ UNCHANGED <<queue, job, processed, fate, subPc>>
          /\ workPc'[w] \in {"busy", "sending"} <=> workPc[w] \in {"busy", "sending"}
          /\ \A v \in Workers \ {w} : workPc'[v] = workPc[v]
      BY <2>1 DEF Skip, Send, Sent, Failed, Exit, Conclude, TypeOK
    <3>2. Undecided'
      BY <3>1 DEF Places, Undecided
    <3> QED
      BY <1>1, <3>1, <3>2
  <2> QED
    BY <1>5, <2>1, ReceivePlaces, FinishPlaces DEF Worker
<1> QED
  BY <1>2, <1>3, <1>4, <1>5 DEF Next

LEMMA PlacesInvariance == Spec => [](TypeOK /\ Places)
<1>1. TypeOK /\ TypeOK' /\ Places /\ [Next]_vars => Places'
  BY PlacesStep
<1> QED
  BY <1>1, PlacesInit, TypeCorrect, PTL DEF Spec

-----------------------------------------------------------------------------
(* An accepted job is in exactly one place, whoever races for it, and any  *)
(* other is nowhere.                                                       *)
THEOREM ExactlyOnceHolds == Spec => []ExactlyOnce
<1>1. TypeOK /\ Places => ExactlyOnce
  <2> SUFFICES ASSUME TypeOK, Places, NEW j \in Jobs
               PROVE  Cardinality({i \in DOMAIN queue : queue[i] = j})
                        + Cardinality({w \in Workers : job[w] = j}) + processed[j]
                      = IF fate[j] = "accepted" THEN 1 ELSE 0
    BY DEF ExactlyOnce
  <2> USE DEF Places
  <2> DEFINE Slots == {i \in DOMAIN queue : queue[i] = j}
             Hands == {w \in Workers : job[w] = j}
  <2>1. DOMAIN queue = 1 .. Len(queue)
    BY DEF TypeOK
  <2>2. Cardinality(Slots) = IF Queued(j) THEN 1 ELSE 0
    <3>1. CASE Queued(j)
      <4>1. PICK i \in 1 .. Len(queue) : queue[i] = j
        BY <3>1 DEF Queued
      <4>2. Slots = {i}
        BY <2>1, <4>1 DEF Apart
      <4> QED
        BY <3>1, <4>2, FS_Singleton
    <3>2. CASE ~Queued(j)
      <4>1. Slots = {}
        BY <2>1, <3>2 DEF Queued
      <4> QED
        BY <3>2, <4>1, FS_EmptySet
    <3> QED
      BY <3>1, <3>2
  <2>3. Cardinality(Hands) = IF Held(j) THEN 1 ELSE 0
    <3>1. CASE Held(j)
      <4>1. PICK w \in Workers : job[w] = j
        BY <3>1 DEF Held
      <4>2. Hands = {w}
        BY <4>1, PoolAssumption DEF Apart
      <4> QED
        BY <3>1, <4>2, FS_Singleton
    <3>2. CASE ~Held(j)
      <4>1. Hands = {}
        BY <3>2 DEF Held
      <4> QED
        BY <3>2, <4>1, FS_EmptySet
    <3> QED
      BY <3>1, <3>2
  <2> HIDE DEF Slots, Hands
  <2> QED
    BY <2>2, <2>3 DEF OnePlace, Slots, Hands, TypeOK
<1> QED
  BY <1>1, PlacesInvariance, PTL

-----------------------------------------------------------------------------
(* A worker leaves only a closed and empty channel, Stop returns from its  *)
(* wait only when all have left.                                           *)
Leaving ==
  /\ \A w \in Workers : workPc[w] = "exited" => closed /\ queue = <<>>
  /\ \A s \in Stoppers : stopPc[s] = "drained" => \A w \in Workers : workPc[w] = "exited"

LEMMA LeavingStep == IInv /\ TypeOK' /\ Leaving /\ [Next]_vars => Leaving'
<1> SUFFICES ASSUME IInv, TypeOK', Leaving, [Next]_vars PROVE Leaving'
  OBVIOUS
<1> USE DEF IInv, mu, channel, work
<1>1. CASE UNCHANGED vars
  BY <1>1 DEF vars, Leaving
<1>2. ASSUME NEW j \in Jobs, Submit(j) \/ TrySubmit(j) PROVE Leaving'
  <2>1. CASE Enqueue(j)
    <3>1. ~closed
      BY <2>1 DEF Enqueue, FlagGuards
    <3>2. \A w \in Workers : workPc[w] # "exited"
      BY <3>1 DEF Leaving
    <3>3. \A s \in Stoppers : stopPc[s] # "drained"
      BY <3>2, PoolAssumption DEF Leaving
    <3> QED
      BY <2>1, <3>2, <3>3 DEF Enqueue, Leaving
  <2>2. CASE Submit(j) \/ RLock(j) \/ CheckStopped(j) \/ DropFull(j) \/ RUnlock(j)
    <3>1. UNCHANGED <<queue, closed, workPc, stopPc>>
      BY <2>2 DEF Submit, RLock, CheckStopped, DropFull, RUnlock
    <3> QED
      BY <3>1 DEF Leaving
  <2> QED
    BY <1>2, <2>1, <2>2 DEF TrySubmit
<1>3. ASSUME NEW s \in Stoppers, CallStop(s) \/ Stop(s) PROVE Leaving'
  <2>1. /\ UNCHANGED <<queue, workPc>>
        /\ closed => closed'
        /\ \A q \in Stoppers \ {s} : stopPc'[q] = stopPc[q]
        /\ stopPc'[s] = "drained" => \A w \in Workers : workPc[w] = "exited"
    BY <1>3 DEF CallStop, Stop, AnnounceLock, AcquireLock, StopAgain, MarkStopped,
       CloseQueue, Unlock, WorkersGone, TypeOK
  <2>2. \A w \in Workers : workPc'[w] = "exited" => closed' /\ queue' = <<>>
    BY <2>1 DEF Leaving
  <2>3. ASSUME NEW q \in Stoppers, stopPc'[q] = "drained"
        PROVE  \A w \in Workers : workPc'[w] = "exited"
    <3>1. CASE q = s
      BY <2>1, <2>3, <3>1
    <3>2. CASE q # s
      BY <2>1, <2>3, <3>2 DEF Leaving
    <3> QED
      BY <3>1, <3>2
  <2> QED
    BY <2>2, <2>3 DEF Leaving
<1>4. ASSUME NEW w \in Workers, Worker(w) PROVE Leaving'
  <2>1. CASE Exit(w)
    BY <2>1 DEF Exit, TypeOK, Leaving
  <2>2. CASE Receive(w)
    BY <2>2 DEF Receive, TypeOK, Leaving
  <2>3. CASE Skip(w) \/ Send(w) \/ Sent(w) \/ Failed(w) \/ Finish(w)
    <3>1. /\ UNCHANGED <<queue, closed, stopPc>>
          /\ workPc[w] # "exited" /\ workPc'[w] # "exited"
          /\ \A v \in Workers \ {w} : workPc'[v] = workPc[v]
      BY <2>3 DEF Skip, Send, Sent, Failed, Finish, Conclude, TypeOK
    <3> QED
      BY <3>1 DEF Leaving
  <2> QED
    BY <1>4, <2>1, <2>2, <2>3 DEF Worker
<1> QED
  BY <1>1, <1>2, <1>3, <1>4 DEF Next

LEMMA LeavingInvariance == Spec => []Leaving
<1>1. Init => Leaving
  BY DEF Init, Leaving
<1>2. IInv /\ IInv' /\ Leaving /\ [Next]_vars => Leaving'
  BY LeavingStep DEF IInv
<1> QED
  BY <1>1, <1>2, Invariance, PTL DEF Spec

(* Nothing accepted is left behind once a Stop has drained the pool.       *)
LEMMA NothingLeft ==
  ASSUME TypeOK, Places, Leaving, \A w \in Workers : workPc[w] = "exited",
         NEW j \in Jobs, fate[j] = "accepted"
  PROVE  processed[j] = 1
<1>1. queue = <<>>
  BY PoolAssumption DEF Leaving
<1>2. ~Queued(j)
  BY <1>1 DEF Queued
<1>3. ~Held(j)
  BY PoolAssumption DEF Held, Places, Undecided
<1> QED
  BY <1>2, <1>3 DEF Places, OnePlace

(* When the Stop that closed the pool returns, every accepted job has been *)
(* processed.                                                              *)
THEOREM StopDrainsHolds == Spec => []StopDrains
<1>1. TypeOK /\ Places /\ Leaving => StopDrains
  BY NothingLeft DEF StopDrains, Drained, Leaving
<1> QED
  BY <1>1, PlacesInvariance, LeavingInvariance, PTL

-----------------------------------------------------------------------------
(* What a target may get, by its ratio.                                    *)
Right(ratio, outcome) ==
  /\ ratio = "never"  => outcome = "skipped"
  /\ ratio = "always" => outcome \in {"sent", "failed"}

(* A worker goes through the targets of its job in order and past none.    *)
Trace ==
  /\ \A j \in Jobs :
       /\ Len(outcomes[j]) <= Len(Ratios[j])
       /\ \A i \in 1 .. Len(outcomes[j]) : Right(Ratios[j][i], outcomes[j][i])
       /\ processed[j] > 0 => Len(outcomes[j]) = Len(Ratios[j])
  /\ \A w \in Workers : workPc[w] = "sending" => TargetsLeft(w) /\ Target(w) # "never"

(* A worker notes an outcome its target may get.                           *)
LEMMA ConcludeTrace ==
  ASSUME TypeOK, Places, Trace, NEW w \in Workers, workPc[w] \in {"busy", "sending"},
         TargetsLeft(w), NEW o \in {"skipped", "sent", "failed"}, Right(Target(w), o),
         Conclude(w, o)
  PROVE  Trace'
<1> DEFINE j == job[w]
           n == Len(outcomes[j])
<1>1. j \in Jobs /\ outcomes[j] \in Seq({"skipped", "sent", "failed"})
  BY DEF Places, Undecided, TypeOK
<1>2. /\ outcomes'[j] = Append(outcomes[j], o)
      /\ \A k \in Jobs \ {j} : outcomes'[k] = outcomes[k]
      /\ UNCHANGED <<job, processed>>
      /\ workPc'[w] = "busy" /\ \A v \in Workers \ {w} : workPc'[v] = workPc[v]
  BY <1>1 DEF Conclude, TypeOK
<1>3. /\ n \in Nat /\ Len(outcomes'[j]) = n + 1 /\ outcomes'[j][n + 1] = o
      /\ \A i \in 1 .. n : outcomes'[j][i] = outcomes[j][i]
  BY <1>1, <1>2, AppendTo
<1>4. Len(Ratios[j]) \in Nat /\ n + 1 <= Len(Ratios[j]) /\ Target(w) = Ratios[j][n + 1]
  BY <1>1, <1>3, PoolAssumption DEF TargetsLeft, Target
<1>5. processed[j] = 0
  BY <1>1 DEF Places, OnePlace, Held
<1>6. ASSUME NEW v \in Workers \ {w}, workPc[v] = "sending"
      PROVE  job[v] \in Jobs \ {j}
  BY <1>6, <1>1, PoolAssumption DEF Places, Apart, Undecided, TypeOK
<1> HIDE DEF n, j
<1>7. \A i \in 1 .. n + 1 : Right(Ratios[j][i], outcomes'[j][i])
  <2>1. \A i \in 1 .. n + 1 : i = n + 1 \/ i \in 1 .. n
    BY <1>3
  <2>2. \A i \in 1 .. n : Right(Ratios[j][i], outcomes[j][i])
    BY <1>1 DEF Trace, n
  <2> QED
    BY <1>3, <1>4, <2>1, <2>2
<1>8. \A v \in Workers : workPc'[v] = "sending" => TargetsLeft(v)' /\ (Target(v) # "never")'
  BY <1>2, <1>6 DEF Trace, TargetsLeft, Target
<1>9. \A k \in Jobs :
         /\ Len(outcomes'[k]) <= Len(Ratios[k])
         /\ \A i \in 1 .. Len(outcomes'[k]) : Right(Ratios[k][i], outcomes'[k][i])
         /\ processed'[k] > 0 => Len(outcomes'[k]) = Len(Ratios[k])
  <2>1. ASSUME NEW k \in Jobs \ {j}
        PROVE  outcomes'[k] = outcomes[k] /\ processed'[k] = processed[k]
    BY <1>2
  <2>2. processed'[j] = 0
    BY <1>2, <1>5
  <2> QED
    BY <1>3, <1>4, <1>7, <2>1, <2>2 DEF Trace
<1> QED
  BY <1>8, <1>9 DEF Trace

LEMMA TraceStep == TypeOK /\ Places /\ Trace /\ [Next]_vars => Trace'
<1> SUFFICES ASSUME TypeOK, Places, Trace, [Next]_vars PROVE Trace'
  OBVIOUS
<1> USE DEF mu, channel, work
<1>1. ASSUME UNCHANGED work PROVE Trace'
  BY <1>1 DEF Trace, TargetsLeft, Target
<1>2. CASE UNCHANGED vars
  BY <1>1, <1>2 DEF vars
<1>3. ASSUME NEW j \in Jobs, Submit(j) \/ TrySubmit(j) PROVE Trace'
  <2>1. UNCHANGED work
    BY <1>3 DEF Submit, TrySubmit, RLock, CheckStopped, Enqueue, DropFull, RUnlock
  <2> QED
    BY <1>1, <2>1
<1>4. ASSUME NEW s \in Stoppers, CallStop(s) \/ Stop(s) PROVE Trace'
  <2>1. UNCHANGED work
    BY <1>4 DEF CallStop, Stop, AnnounceLock, AcquireLock, StopAgain, MarkStopped,
       CloseQueue, Unlock, WorkersGone
  <2> QED
    BY <1>1, <2>1
<1>5. ASSUME NEW w \in Workers, Worker(w) PROVE Trace'
  <2>1. CASE Receive(w) \/ Exit(w)
    <3>1. /\ UNCHANGED <<outcomes, processed>> /\ workPc'[w] # "sending"
          /\ \A v \in Workers \ {w} : workPc'[v] = workPc[v] /\ job'[v] = job[v]
      BY <2>1 DEF Receive, Exit, TypeOK
    <3> QED
      BY <3>1 DEF Trace, TargetsLeft, Target
  <2>2. CASE Send(w)
    <3>1. /\ UNCHANGED <<outcomes, processed, job>> /\ TargetsLeft(w) /\ Target(w) # "never"
          /\ \A v \in Workers \ {w} : workPc'[v] = workPc[v]
      BY <2>2 DEF Send, TypeOK
    <3> QED
      BY <3>1 DEF Trace, TargetsLeft, Target
  <2>3. CASE Skip(w)
    <3>1. Right(Target(w), "skipped")
      BY <2>3 DEF Skip, Right
    <3> QED
      BY <2>3, <3>1, ConcludeTrace DEF Skip
  <2>4. CASE Sent(w) \/ Failed(w)
    <3>1. TargetsLeft(w) /\ Target(w) # "never"
      BY <2>4 DEF Sent, Failed, Trace
    <3>2. Right(Target(w), "sent") /\ Right(Target(w), "failed")
      BY <3>1 DEF Right
    <3> QED
      BY <2>4, <3>1, <3>2, ConcludeTrace DEF Sent, Failed
  <2>5. CASE Finish(w)
    <3>1. /\ job[w] \in Jobs /\ workPc'[w] # "sending" /\ UNCHANGED outcomes
          /\ ~TargetsLeft(w)
          /\ \A k \in Jobs \ {job[w]} : processed'[k] = processed[k]
          /\ \A v \in Workers \ {w} : workPc'[v] = workPc[v] /\ job'[v] = job[v]
      BY <2>5 DEF Finish, Places, Undecided, TypeOK
    <3>2. Len(outcomes[job[w]]) = Len(Ratios[job[w]])
      <4>1. /\ outcomes[job[w]] \in Seq({"skipped", "sent", "failed"})
            /\ Ratios[job[w]] \in Seq(Ratio)
        BY <3>1, PoolAssumption DEF TypeOK
      <4>2. Len(outcomes[job[w]]) \in Nat /\ Len(Ratios[job[w]]) \in Nat
        BY <4>1
      <4> QED
        BY <3>1, <4>2 DEF Trace, TargetsLeft
    <3> QED
      BY <3>1, <3>2 DEF Trace, TargetsLeft, Target
  <2> QED
    BY <1>5, <2>1, <2>2, <2>3, <2>4, <2>5 DEF Worker
<1> QED
  BY <1>2, <1>3, <1>4, <1>5 DEF Next

(* A job a worker is done with was tried at every target its sampling      *)
(* selected, whatever became of the targets before.                        *)
THEOREM FanOutHolds == Spec => []FanOut
<1>1. Init => Trace
  BY PoolAssumption DEF Init, Trace
<1>2. TypeOK /\ Trace => FanOut
  <2> SUFFICES ASSUME TypeOK, Trace, NEW j \in Jobs, processed[j] > 0,
                      NEW i \in DOMAIN outcomes[j]
               PROVE  Right(Ratios[j][i], outcomes[j][i])
    BY DEF FanOut, Trace, Right
  <2>1. i \in 1 .. Len(outcomes[j])
    BY DEF TypeOK
  <2> QED
    BY <2>1 DEF Trace
<1> QED
  BY <1>1, <1>2, TraceStep, PlacesInvariance, PTL DEF Spec

-----------------------------------------------------------------------------
(* No call is stuck. NeverBlocks says it with ENABLED, of which the        *)
(* provers know nothing; here it is said with the guards of the steps: at  *)
(* the send, there is room or the channel is full.                         *)

CanTrySubmit(j) ==
  \/ subPc[j] = "rlock" /\ writer = None
  \/ subPc[j] \in {"check", "unlock"}
  \/ subPc[j] = "send" /\ (Len(queue) < QueueSize \/ Len(queue) = QueueSize)

CanStop(s) ==
  \/ stopPc[s] = "lock" /\ writer = None
  \/ stopPc[s] = "announced" /\ readers = {}
  \/ stopPc[s] \in {"locked", "close", "unlock"}
  \/ stopPc[s] = "wait" /\ \A w \in Workers : workPc[w] = "exited"

NeverStuck ==
  (\E j \in Jobs : subPc[j] \in {"rlock", "check", "send", "unlock"}) =>
    \/ \E j \in Jobs : CanTrySubmit(j)
    \/ \E s \in Stoppers : writer = s /\ CanStop(s)

(* These are the guards: no step is taken without them.                    *)
LEMMA GuardsAreNeeded ==
  /\ \A j \in Jobs : TypeOK /\ TrySubmit(j) => CanTrySubmit(j)
  /\ \A s \in Stoppers : Stop(s) => CanStop(s)
<1>1. ASSUME NEW j \in Jobs, TypeOK, TrySubmit(j) PROVE CanTrySubmit(j)
  BY <1>1 DEF TypeOK, TrySubmit, RLock, CheckStopped, Enqueue, DropFull, RUnlock, CanTrySubmit
<1>2. ASSUME NEW s \in Stoppers, Stop(s) PROVE CanStop(s)
  BY <1>2 DEF Stop, AnnounceLock, AcquireLock, StopAgain, MarkStopped, CloseQueue, Unlock,
              WorkersGone, CanStop
<1> QED
  BY <1>1, <1>2

(* Nobody is left in the lock's books who is not inside, and the channel   *)
(* never holds more than it has room for.                                  *)
Locked ==
  /\ \A j \in readers : subPc[j] \in Reading
  /\ \A s \in Stoppers : writer = s => stopPc[s] \in Writing \cup {"announced"}
  /\ Len(queue) <= QueueSize

LEMMA LockedStep == IInv /\ TypeOK' /\ Locked /\ [Next]_vars => Locked'
<1> SUFFICES ASSUME IInv, TypeOK', Locked, [Next]_vars PROVE Locked'
  OBVIOUS
<1> USE PoolAssumption DEF IInv, mu, channel, work, Reading, Writing
<1>1. ASSUME UNCHANGED <<subPc, stopPc, readers, writer, queue>> PROVE Locked'
  BY <1>1 DEF Locked
<1>2. ASSUME NEW j \in Jobs, Submit(j) \/ TrySubmit(j) PROVE Locked'
  <2>1. CASE Submit(j)
    BY <2>1 DEF TypeOK, Submit, Locked, Exclusion
  <2>2. CASE RLock(j)
    BY <2>2 DEF TypeOK, RLock, Locked
  <2>3. CASE CheckStopped(j)
    BY <2>3 DEF TypeOK, CheckStopped, Locked
  <2>4. CASE Enqueue(j)
    <3>1. Len(queue') = Len(queue) + 1 /\ Len(queue) \in Nat
      BY <2>4 DEF Enqueue, TypeOK
    <3>2. Len(queue') <= QueueSize
      BY <2>4, <3>1 DEF Enqueue
    <3> QED
      BY <2>4, <3>2 DEF TypeOK, Enqueue, Locked
  <2>5. CASE DropFull(j)
    BY <2>5 DEF TypeOK, DropFull, Locked
  <2>6. CASE RUnlock(j)
    BY <2>6 DEF TypeOK, RUnlock, Locked
  <2> QED
    BY <1>2, <2>1, <2>2, <2>3, <2>4, <2>5, <2>6 DEF TrySubmit
<1>3. ASSUME NEW s \in Stoppers, CallStop(s) \/ Stop(s) PROVE Locked'
  BY <1>3 DEF TypeOK, Locked, Exclusion, CallStop, Stop, AnnounceLock, AcquireLock, StopAgain,
              MarkStopped, CloseQueue, Unlock, WorkersGone
<1>4. ASSUME NEW w \in Workers, Worker(w) PROVE Locked'
  <2>1. CASE Receive(w)
    <3>1. Len(queue') = Len(queue) - 1
      BY <2>1 DEF Receive, TypeOK
    <3> QED
      BY <2>1, <3>1 DEF TypeOK, Receive, Locked
  <2>2. CASE ~Receive(w)
    BY <1>1, <1>4, <2>2 DEF Worker, Skip, Send, Sent, Failed, Finish, Exit, Conclude
  <2> QED
    BY <2>1, <2>2
<1> QED
  BY <1>1, <1>2, <1>3, <1>4 DEF Next, vars

(* TrySubmit never waits for a mirror: while a call is under way there is  *)
(* a step left for a call or for the Stop that holds the lock, whatever    *)
(* the workers do, for any number of calls and any queue size.             *)
THEOREM NeverStuckHolds == Spec => []NeverStuck
<1>1. Init => Locked
  BY PoolAssumption DEF Init, Locked
<1>2. IInv /\ Locked => NeverStuck
  <2> SUFFICES ASSUME IInv, Locked, NEW j \in Jobs, subPc[j] \in {"rlock", "check", "send", "unlock"}
               PROVE  \/ \E k \in Jobs : CanTrySubmit(k)
                      \/ \E s \in Stoppers : writer = s /\ CanStop(s)
    BY DEF NeverStuck
  <2>1. ASSUME NEW k \in Jobs, subPc[k] \in Reading PROVE CanTrySubmit(k)
    <3>1. Len(queue) \in Nat /\ Len(queue) <= QueueSize
      BY DEF IInv, TypeOK, Locked
    <3> QED
      BY <2>1, <3>1, PoolAssumption DEF CanTrySubmit, Reading
  <2>2. CASE writer = None
    BY <2>1, <2>2 DEF CanTrySubmit, Reading
  <2>3. CASE readers # {}
    BY <2>1, <2>3 DEF IInv, TypeOK, Locked
  <2>4. CASE writer # None /\ readers = {}
    <3>1. writer \in Stoppers /\ stopPc[writer] \in Writing \cup {"announced"}
      BY <2>4 DEF IInv, TypeOK, Locked
    <3> QED
      BY <2>4, <3>1 DEF CanStop, Writing
  <2> QED
    BY <2>2, <2>3, <2>4
<1>3. IInv /\ IInv' /\ Locked /\ [Next]_vars => Locked'
  BY LockedStep DEF IInv
<1> QED
  BY <1>1, <1>2, <1>3, Invariance, PTL DEF Spec

-----------------------------------------------------------------------------
(* Stop is not stuck either, while it waits for the lock or the workers.   *)
CanWork(w) ==
  \/ workPc[w] = "idle" /\ (queue # <<>> \/ closed)
  \/ workPc[w] \in {"busy", "sending"}

StopNeverStuck ==
  (\E s \in Stoppers : stopPc[s] \notin {"new", "returned", "drained"}) =>
    \/ \E j \in Jobs : CanTrySubmit(j)
    \/ \E s \in Stoppers : CanStop(s)
    \/ \E w \in Workers : CanWork(w)

(* A worker takes no step without this guard.                              *)
LEMMA WorkGuardIsNeeded == \A w \in Workers : Worker(w) => CanWork(w)
BY DEF Worker, Receive, Skip, Send, Sent, Failed, Finish, Exit, CanWork

(* A Stop that waits for the workers has closed the channel.               *)
Closing == \A s \in Stoppers : stopPc[s] \in {"unlock", "wait"} => closed

LEMMA ClosingStep == TypeOK /\ Closing /\ [Next]_vars => Closing'
<1> SUFFICES ASSUME TypeOK, Closing, [Next]_vars PROVE Closing'
  OBVIOUS
<1> USE DEF mu, channel, work
<1>1. ASSUME UNCHANGED <<stopPc, closed>> PROVE Closing'
  BY <1>1 DEF Closing
<1>2. ASSUME NEW j \in Jobs, Submit(j) \/ TrySubmit(j) PROVE Closing'
  BY <1>1, <1>2 DEF Submit, TrySubmit, RLock, CheckStopped, Enqueue, DropFull, RUnlock
<1>3. ASSUME NEW s \in Stoppers, CallStop(s) \/ Stop(s) PROVE Closing'
  BY <1>3 DEF TypeOK, Closing, CallStop, Stop, AnnounceLock, AcquireLock, StopAgain,
              MarkStopped, CloseQueue, Unlock, WorkersGone
<1>4. ASSUME NEW w \in Workers, Worker(w) PROVE Closing'
  BY <1>1, <1>4 DEF Worker, Receive, Skip, Send, Sent, Failed, Finish, Exit, Conclude
<1> QED
  BY <1>1, <1>2, <1>3, <1>4 DEF Next, vars

(* A Stop under way never waits in vain: a step is left for a call that    *)
(* holds the lock, for the Stop that has it, or, once the channel is       *)
(* closed, for every worker that has not left.                             *)
THEOREM StopNeverStuckHolds == Spec => []StopNeverStuck
<1>1. Init => Locked /\ Closing
  BY PoolAssumption DEF Init, Locked, Closing
<1>2. IInv /\ Locked /\ Closing => StopNeverStuck
  <2> SUFFICES ASSUME IInv, Locked, Closing, NEW s \in Stoppers,
                      stopPc[s] \notin {"new", "returned", "drained"}
               PROVE  \/ \E j \in Jobs : CanTrySubmit(j)
                      \/ \E t \in Stoppers : CanStop(t)
                      \/ \E w \in Workers : CanWork(w)
    BY DEF StopNeverStuck
  <2>1. stopPc[s] \in {"lock", "announced", "locked", "close", "unlock", "wait"}
    BY DEF IInv, TypeOK
  <2>2. CASE stopPc[s] = "wait"
    <3>1. closed
      BY <2>2 DEF Closing
    <3>2. CASE \A w \in Workers : workPc[w] = "exited"
      BY <2>2, <3>2 DEF CanStop
    <3>3. ASSUME NEW w \in Workers, workPc[w] # "exited" PROVE CanWork(w)
      BY <3>1, <3>3 DEF IInv, TypeOK, CanWork
    <3> QED
      BY <3>2, <3>3
  <2>3. CASE writer = None
    BY <2>1, <2>2, <2>3, PoolAssumption DEF CanStop, IInv, Exclusion, Writing
  <2>4. CASE writer # None /\ readers = {}
    <3>1. writer \in Stoppers /\ stopPc[writer] \in Writing \cup {"announced"}
      BY <2>4 DEF IInv, TypeOK, Locked
    <3> QED
      BY <2>4, <3>1 DEF CanStop, Writing
  <2>5. ASSUME NEW j \in readers PROVE CanTrySubmit(j)
    <3>1. subPc[j] \in Reading /\ Len(queue) \in Nat /\ Len(queue) <= QueueSize
      BY DEF IInv, TypeOK, Locked
    <3> QED
      BY <3>1, PoolAssumption DEF CanTrySubmit, Reading
  <2> QED
    BY <2>3, <2>4, <2>5 DEF IInv, TypeOK
<1>3. IInv /\ IInv' /\ Locked /\ Closing /\ [Next]_vars => Locked' /\ Closing'
  BY LockedStep, ClosingStep DEF IInv
<1> QED
  BY <1>1, <1>2, <1>3, Invariance, PTL DEF Spec
=============================================================================
