---------------------------- MODULE MirrorPool -----------------------------
(***************************************************************************)
(* The pool of mirroring workers (internal/mirroring/mirroring.go).        *)
(* Request handlers call TrySubmit, a fixed set of worker goroutines takes *)
(* jobs from a buffered channel and sends each to its targets, and Stop    *)
(* closes the channel and waits until the workers have drained it.         *)
(* TrySubmit and Stop are kept apart by a sync.RWMutex: a pending writer   *)
(* holds new readers off and waits for the present ones.                   *)
(*                                                                         *)
(* A job stands for the TrySubmit call that submits it, too. An operator   *)
(* whose name starts with Mutant is no part of the specification: it is a  *)
(* plausible bug in the definition that follows it, kept to show that a    *)
(* property notices it.                                                    *)
(***************************************************************************)
EXTENDS Naturals, Sequences, FiniteSets

CONSTANTS
  Jobs,       (* one per call of TrySubmit                                 *)
  Stoppers,   (* callers of Stop                                           *)
  Workers,    (* the worker goroutines                                     *)
  QueueSize,  (* capacity of the channel                                   *)
  Ratios,     (* [Jobs -> Seq(Ratio)]: the sampling ratio of each target   *)
  None        (* nobody, nothing                                           *)

(* What sample decides by: a ratio <= 0, in between, or >= 1.              *)
Ratio == {"never", "sometimes", "always"}

(* NewPool replaces a non-positive number of workers and a non-positive    *)
(* queue size by a default.                                                *)
ASSUME PoolAssumption ==
  /\ Workers # {} /\ IsFiniteSet(Workers) /\ IsFiniteSet(Jobs)
  /\ QueueSize \in Nat \ {0}
  /\ Ratios \in [Jobs -> Seq(Ratio)]
  /\ None \notin Jobs \cup Stoppers

VARIABLES
  subPc,     (* where the TrySubmit call of each job is                    *)
  stopPc,    (* where each Stop call is                                    *)
  readers,   (* mu: the calls that hold it for reading                     *)
  writer,    (* mu: the Stop call that holds it for writing or waits to    *)
  stopped,   (* the flag mu guards                                         *)
  queue,     (* the jobs in the channel                                    *)
  closed,    (* the channel is closed                                      *)
  workPc,    (* where each worker is                                       *)
  job,       (* the job each worker is at                                  *)
  outcomes,  (* per job, what became of its targets so far                 *)
  fate,      (* per job, what TrySubmit did with it                        *)
  processed  (* history: how often a worker was done with the job          *)

vars == <<subPc, stopPc, readers, writer, stopped, queue, closed, workPc, job,
          outcomes, fate, processed>>

mu      == <<readers, writer, stopped>>
channel == <<queue, closed>>
work    == <<workPc, job, outcomes, processed>>

Init ==
  /\ subPc     = [j \in Jobs |-> "new"]
  /\ stopPc    = [s \in Stoppers |-> "new"]
  /\ readers   = {}
  /\ writer    = None
  /\ stopped   = FALSE
  /\ queue     = <<>>
  /\ closed    = FALSE
  /\ workPc    = [w \in Workers |-> "idle"]
  /\ job       = [w \in Workers |-> None]
  /\ outcomes  = [j \in Jobs |-> <<>>]
  /\ fate      = [j \in Jobs |-> "none"]
  /\ processed = [j \in Jobs |-> 0]

-----------------------------------------------------------------------------
(* TrySubmit.                                                              *)

(* A request handler calls TrySubmit.                                      *)
Submit(j) ==
  /\ subPc[j] = "new"
  /\ subPc' = [subPc EXCEPT ![j] = "rlock"]
  /\ UNCHANGED <<stopPc, mu, channel, work, fate>>

MutantRLock(j) ==
  /\ subPc[j] = "rlock"
  /\ subPc' = [subPc EXCEPT ![j] = "check"]
  /\ UNCHANGED <<stopPc, mu, channel, work, fate>>

(* RLock: waits while a writer holds the lock or has announced itself.     *)
RLock(j) ==
  /\ subPc[j] = "rlock" /\ writer = None
  /\ readers' = readers \cup {j}
  /\ subPc'   = [subPc EXCEPT ![j] = "check"]
  /\ UNCHANGED <<stopPc, writer, stopped, channel, work, fate>>

(* A stopped pool drops the job.                                           *)
CheckStopped(j) ==
  /\ subPc[j] = "check"
  /\ subPc' = [subPc EXCEPT ![j] = IF stopped THEN "unlock" ELSE "send"]
  /\ fate'  = [fate EXCEPT ![j] = IF stopped THEN "dropped" ELSE @]
  /\ UNCHANGED <<stopPc, mu, channel, work>>

(* select: the channel has room. A send on a closed channel panics:        *)
(* NoPanic says that none is reached.                                      *)
Enqueue(j) ==
  /\ subPc[j] = "send" /\ Len(queue) < QueueSize
  /\ queue' = Append(queue, j)
  /\ fate'  = [fate EXCEPT ![j] = "accepted"]
  /\ subPc' = [subPc EXCEPT ![j] = "unlock"]
  /\ UNCHANGED <<stopPc, mu, closed, work>>

MutantDropFull(j) ==
  /\ subPc[j] = "send" /\ Len(queue) = QueueSize
  /\ queue' = Append(Tail(queue), j)
  /\ fate'  = [fate EXCEPT ![j] = "accepted"]
  /\ subPc' = [subPc EXCEPT ![j] = "unlock"]
  /\ UNCHANGED <<stopPc, mu, closed, work>>

(* select, default: the channel is full, the job is dropped.               *)
DropFull(j) ==
  /\ subPc[j] = "send" /\ Len(queue) = QueueSize
  /\ fate'  = [fate EXCEPT ![j] = "dropped"]
  /\ subPc' = [subPc EXCEPT ![j] = "unlock"]
  /\ UNCHANGED <<stopPc, mu, channel, work>>

MutantRUnlock(j) ==
  /\ subPc[j] = "unlock"
  /\ readers' = IF fate[j] = "dropped" THEN readers ELSE readers \ {j}
  /\ subPc'   = [subPc EXCEPT ![j] = "done"]
  /\ UNCHANGED <<stopPc, writer, stopped, channel, work, fate>>

RUnlock(j) ==
  /\ subPc[j] = "unlock"
  /\ readers' = readers \ {j}
  /\ subPc'   = [subPc EXCEPT ![j] = "done"]
  /\ UNCHANGED <<stopPc, writer, stopped, channel, work, fate>>

-----------------------------------------------------------------------------
(* Stop.                                                                   *)

CallStop(s) ==
  /\ stopPc[s] = "new"
  /\ stopPc' = [stopPc EXCEPT ![s] = "lock"]
  /\ UNCHANGED <<subPc, mu, channel, work, fate>>

(* Lock, first half: one writer at a time announces itself.                *)
AnnounceLock(s) ==
  /\ stopPc[s] = "lock" /\ writer = None
  /\ writer' = s
  /\ stopPc' = [stopPc EXCEPT ![s] = "announced"]
  /\ UNCHANGED <<subPc, readers, stopped, channel, work, fate>>

(* Lock, second half: the present readers have left.                       *)
AcquireLock(s) ==
  /\ stopPc[s] = "announced" /\ readers = {}
  /\ stopPc' = [stopPc EXCEPT ![s] = "locked"]
  /\ UNCHANGED <<subPc, mu, channel, work, fate>>

(* Stopped before: unlock and return, without waiting for the workers.     *)
StopAgain(s) ==
  /\ stopPc[s] = "locked" /\ stopped
  /\ writer' = None
  /\ stopPc' = [stopPc EXCEPT ![s] = "returned"]
  /\ UNCHANGED <<subPc, readers, stopped, channel, work, fate>>

MarkStopped(s) ==
  /\ stopPc[s] = "locked" /\ ~stopped
  /\ stopped' = TRUE
  /\ stopPc'  = [stopPc EXCEPT ![s] = "close"]
  /\ UNCHANGED <<subPc, readers, writer, channel, work, fate>>

(* Close of a closed channel panics: NoPanic says that this never happens. *)
CloseQueue(s) ==
  /\ stopPc[s] = "close"
  /\ closed' = TRUE
  /\ stopPc' = [stopPc EXCEPT ![s] = "unlock"]
  /\ UNCHANGED <<subPc, mu, queue, work, fate>>

MutantUnlock(s) ==
  /\ stopPc[s] = "unlock" /\ \A w \in Workers : workPc[w] = "exited"
  /\ writer' = None
  /\ stopPc' = [stopPc EXCEPT ![s] = "wait"]
  /\ UNCHANGED <<subPc, readers, stopped, channel, work, fate>>

Unlock(s) ==
  /\ stopPc[s] = "unlock"
  /\ writer' = None
  /\ stopPc' = [stopPc EXCEPT ![s] = "wait"]
  /\ UNCHANGED <<subPc, readers, stopped, channel, work, fate>>

(* wg.Wait returns once every worker has called wg.Done.                   *)
WorkersGone(s) ==
  /\ stopPc[s] = "wait" /\ \A w \in Workers : workPc[w] = "exited"
  /\ stopPc' = [stopPc EXCEPT ![s] = "drained"]
  /\ UNCHANGED <<subPc, mu, channel, work, fate>>

-----------------------------------------------------------------------------
(* A worker.                                                               *)

(* The ratio of the target the worker is at, the targets left.             *)
TargetsLeft(w) == Len(outcomes[job[w]]) < Len(Ratios[job[w]])
Target(w)      == Ratios[job[w]][Len(outcomes[job[w]]) + 1]

Conclude(w, outcome) ==
  /\ outcomes' = [outcomes EXCEPT ![job[w]] = Append(@, outcome)]
  /\ workPc'   = [workPc EXCEPT ![w] = "busy"]
  /\ UNCHANGED <<subPc, stopPc, mu, channel, job, fate, processed>>

Receive(w) ==
  /\ workPc[w] = "idle" /\ queue # <<>>
  /\ job'    = [job EXCEPT ![w] = Head(queue)]
  /\ queue'  = Tail(queue)
  /\ workPc' = [workPc EXCEPT ![w] = "busy"]
  /\ UNCHANGED <<subPc, stopPc, mu, closed, outcomes, fate, processed>>

(* The next target is not sampled.                                         *)
Skip(w) ==
  /\ workPc[w] = "busy" /\ TargetsLeft(w) /\ Target(w) # "always"
  /\ Conclude(w, "skipped")

(* The next target is sampled: the copy is sent under mirrorTimeout.       *)
Send(w) ==
  /\ workPc[w] = "busy" /\ TargetsLeft(w) /\ Target(w) # "never"
  /\ workPc' = [workPc EXCEPT ![w] = "sending"]
  /\ UNCHANGED <<subPc, stopPc, mu, channel, job, outcomes, fate, processed>>

Sent(w) == workPc[w] = "sending" /\ Conclude(w, "sent")

MutantFailedLabel(w) == workPc[w] = "sending" /\ Conclude(w, "dropped")

MutantFailed(w) ==
  /\ workPc[w] = "sending"
  /\ processed' = [processed EXCEPT ![job[w]] = @ + 1]
  /\ job'       = [job EXCEPT ![w] = None]
  /\ workPc'    = [workPc EXCEPT ![w] = "idle"]
  /\ UNCHANGED <<subPc, stopPc, mu, channel, outcomes, fate>>

(* An error or the timeout: the worker goes on with the next target.       *)
Failed(w) == workPc[w] = "sending" /\ Conclude(w, "failed")

(* The last target is behind the worker.                                   *)
Finish(w) ==
  /\ workPc[w] = "busy" /\ ~TargetsLeft(w)
  /\ processed' = [processed EXCEPT ![job[w]] = @ + 1]
  /\ job'       = [job EXCEPT ![w] = None]
  /\ workPc'    = [workPc EXCEPT ![w] = "idle"]
  /\ UNCHANGED <<subPc, stopPc, mu, channel, outcomes, fate>>

MutantExit(w) ==
  /\ workPc[w] = "idle" /\ closed
  /\ workPc' = [workPc EXCEPT ![w] = "exited"]
  /\ UNCHANGED <<subPc, stopPc, mu, channel, job, outcomes, fate, processed>>

(* range ends when the channel is closed and empty.                        *)
Exit(w) ==
  /\ workPc[w] = "idle" /\ closed /\ queue = <<>>
  /\ workPc' = [workPc EXCEPT ![w] = "exited"]
  /\ UNCHANGED <<subPc, stopPc, mu, channel, job, outcomes, fate, processed>>

-----------------------------------------------------------------------------
TrySubmit(j) ==
  \/ RLock(j) \/ CheckStopped(j)
  \/ Enqueue(j) \/ DropFull(j)
  \/ RUnlock(j)

Stop(s) ==
  \/ AnnounceLock(s) \/ AcquireLock(s)
  \/ StopAgain(s) \/ MarkStopped(s) \/ CloseQueue(s) \/ Unlock(s) \/ WorkersGone(s)

Worker(w) ==
  \/ Receive(w) \/ Skip(w) \/ Send(w) \/ Sent(w) \/ Failed(w) \/ Finish(w) \/ Exit(w)

Next ==
  \/ \E j \in Jobs : Submit(j) \/ TrySubmit(j)
  \/ \E s \in Stoppers : CallStop(s) \/ Stop(s)
  \/ \E w \in Workers : Worker(w)

Spec == Init /\ [][Next]_vars

(* The calls and the workers run: the client's timeout ends every send.    *)
FairSpec ==
  /\ Spec
  /\ \A j \in Jobs : WF_vars(TrySubmit(j))
  /\ \A s \in Stoppers : WF_vars(Stop(s))
  /\ \A w \in Workers : WF_vars(Worker(w))

-----------------------------------------------------------------------------
(* Properties.                                                             *)

(* Every variable of the pool keeps its type.                              *)
TypeOK ==
  /\ subPc     \in [Jobs -> {"new", "rlock", "check", "send", "unlock", "done"}]
  /\ stopPc    \in [Stoppers -> {"new", "lock", "announced", "locked", "close", "unlock",
                                 "wait", "returned", "drained"}]
  /\ readers   \in SUBSET Jobs
  /\ writer    \in Stoppers \cup {None}
  /\ stopped   \in BOOLEAN
  /\ queue     \in Seq(Jobs)
  /\ closed    \in BOOLEAN
  /\ workPc    \in [Workers -> {"idle", "busy", "sending", "exited"}]
  /\ job       \in [Workers -> Jobs \cup {None}]
  /\ outcomes  \in [Jobs -> Seq({"skipped", "sent", "failed"})]
  /\ fate      \in [Jobs -> {"none", "accepted", "dropped"}]
  /\ processed \in [Jobs -> Nat]

(* No call panics: when a TrySubmit that found the pool running reaches    *)
(* its send, or a Stop reaches its close, the channel is still open,       *)
(* however many calls race.                                                *)
NoPanic ==
  /\ \A j \in Jobs : subPc[j] = "send" => ~closed
  /\ \A s \in Stoppers : stopPc[s] = "close" => ~closed

(* An accepted job is in exactly one place, the channel, a worker's hands  *)
(* or behind it, and a job that was not accepted is nowhere: no job is     *)
(* lost when the channel closes or taken by two workers.                   *)
ExactlyOnce ==
  \A j \in Jobs :
    Cardinality({i \in DOMAIN queue : queue[i] = j})
      + Cardinality({w \in Workers : job[w] = j}) + processed[j]
    = IF fate[j] = "accepted" THEN 1 ELSE 0

(* A job a worker is done with was tried at every target its sampling      *)
(* selected: a mirror that fails does not cost the mirrors after it their  *)
(* copy.                                                                   *)
FanOut ==
  \A j \in Jobs :
    processed[j] > 0 =>
      /\ Len(outcomes[j]) = Len(Ratios[j])
      /\ \A i \in DOMAIN outcomes[j] :
           /\ Ratios[j][i] = "never"  => outcomes[j][i] = "skipped"
           /\ Ratios[j][i] = "always" => outcomes[j][i] \in {"sent", "failed"}

Drained == \E s \in Stoppers : stopPc[s] = "drained"

(* When the Stop that closed the pool returns, every job accepted before   *)
(* has been mirrored, and none is accepted afterwards.                     *)
StopDrains ==
  Drained => \A j \in Jobs : fate[j] = "accepted" => processed[j] = 1

(* TrySubmit never waits for a mirror: while one is under way there is     *)
(* always a step left for it or for the Stop that holds the lock, although *)
(* every worker may hang in a send. Each call has finitely many steps.     *)
NeverBlocks ==
  (\E j \in Jobs : subPc[j] \in {"rlock", "check", "send", "unlock"}) =>
    \/ \E j \in Jobs : ENABLED TrySubmit(j)
    \/ \E s \in Stoppers : writer = s /\ ENABLED Stop(s)

(* Stop returns, and does not wait for jobs submitted after it.            *)
StopReturns ==
  \A s \in Stoppers : stopPc[s] = "lock" ~> stopPc[s] \in {"returned", "drained"}

(* What the pool promises, stated without lock, channel or workers.        *)
JobState ==
  [j \in Jobs |-> CASE fate[j] = "none"    -> "unseen"
                    [] fate[j] = "dropped" -> "dropped"
                    [] OTHER -> IF processed[j] > 0 THEN "mirrored" ELSE "pending"]

PoolPhase ==
  IF Drained THEN "stopped" ELSE IF stopped THEN "closing" ELSE "open"

Promise ==
  INSTANCE MirrorPromise WITH
    Capacity <- QueueSize, state <- JobState, phase <- PoolPhase

(* The pool keeps its promise: it implements MirrorPromise.                *)
KeepsPromise == Promise!FairSpec
=============================================================================
