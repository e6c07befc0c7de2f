------------------------------ MODULE Shutdown ------------------------------
(***************************************************************************)
(* The life of the process: main (cmd/proxy/main.go) and L7Proxy.Run       *)
(* (internal/proxy/proxy.go), which stops the HTTP server, the reload      *)
(* monitor and the mirroring pool in that order, each under a limit. The   *)
(* pool is what MirrorPromise says of it, the monitor what Router.Wait     *)
(* sees of it (ConfigReload has the rest), a request what the server and   *)
(* the pool see of it (RequestPath has the rest).                          *)
(*                                                                         *)
(* An operator whose name starts with Mutant is no part of the             *)
(* specification: it is a plausible bug in the definition that follows it, *)
(* kept to show that a property notices it.                                *)
(***************************************************************************)
EXTENDS Naturals, FiniteSets

CONSTANTS
  Requests,   (* the requests, each with at most one mirroring job         *)
  QueueSize   (* the capacity of the pool's channel                        *)

ASSUME ShutdownAssumption == IsFiniteSet(Requests) /\ QueueSize \in Nat \ {0}

VARIABLES
  run,        (* where main is: starting, in Run, or over                  *)
  ctxDone,    (* SIGINT or SIGTERM was received                            *)
  listener,   (* ok, or ListenAndServe has failed                          *)
  handler,    (* where each request's handler is                           *)
  late,       (* requests on connections that server.Shutdown does not see *)
  monitor,    (* the reload goroutine: off, started, subscribed, gone      *)
  joiner,     (* the goroutine that waits for the monitor and the pool     *)
  job,        (* the pool: what became of each request's mirroring job ... *)
  phase,      (* ... and whether it is open, closing or stopped            *)
  failures    (* history: what main did not wait for the end of            *)

vars == <<run, ctxDone, listener, handler, late, monitor, joiner, job, phase, failures>>

Promise == INSTANCE MirrorPromise WITH Jobs <- Requests, Capacity <- QueueSize, state <- job

pool     == <<job, phase>>
requests == <<handler, late>>

Alive   == run \notin {"exited", "killed"}
Serving == run \in {"serving", "shutdown", "joining", "returned"}

Busy(r) == handler[r] \in {"deciding", "proxying"}

Init ==
  /\ run      = "starting"
  /\ ctxDone  = FALSE
  /\ listener = "ok"
  /\ handler  = [r \in Requests |-> "none"]
  /\ late     = {}
  /\ monitor  = "off"
  /\ joiner   = "off"
  /\ Promise!Init
  /\ failures = {}

-----------------------------------------------------------------------------
(* Signals.                                                                *)

(* signal.NotifyContext: the first SIGINT or SIGTERM ends the context, the *)
(* others change nothing.                                                  *)
Sigterm ==
  /\ Alive /\ ~ctxDone
  /\ ctxDone' = TRUE
  /\ UNCHANGED <<run, listener, requests, monitor, joiner, pool, failures>>

(* SIGHUP ends the process unless the monitor is subscribed to it: before  *)
(* signal.Notify, and again after the monitor's deferred signal.Stop.      *)
Sighup ==
  /\ Alive /\ monitor # "subscribed"
  /\ run' = "killed"
  /\ UNCHANGED <<ctxDone, listener, requests, monitor, joiner, pool, failures>>

-----------------------------------------------------------------------------
(* main, up to Run.                                                        *)

(* The configurations are loaded, the monitor and the pool started, Run    *)
(* called, which starts ListenAndServe.                                    *)
Start ==
  /\ run = "starting"
  /\ run'     = "serving"
  /\ monitor' = "started"
  /\ UNCHANGED <<ctxDone, listener, requests, joiner, pool, failures>>

(* A configuration is missing or invalid: main panics.                     *)
StartFails ==
  /\ run = "starting"
  /\ run'      = "exited"
  /\ failures' = {"start"}
  /\ UNCHANGED <<ctxDone, listener, requests, monitor, joiner, pool>>

-----------------------------------------------------------------------------
(* The monitor, as the shutdown sees it.                                   *)

Subscribe ==
  /\ Alive /\ monitor = "started"
  /\ monitor' = "subscribed"
  /\ UNCHANGED <<run, ctxDone, listener, requests, joiner, pool, failures>>

(* ctx.Done is received, at the latest after the reload under way.         *)
MonitorExits ==
  /\ Alive /\ monitor = "subscribed" /\ ctxDone
  /\ monitor' = "gone"
  /\ UNCHANGED <<run, ctxDone, listener, requests, joiner, pool, failures>>

-----------------------------------------------------------------------------
(* Requests.                                                               *)

(* A request on a connection that the server has counted as active.        *)
Arrive(r) ==
  /\ run \in {"serving", "shutdown"} /\ handler[r] = "none"
  /\ handler' = [handler EXCEPT ![r] = "deciding"]
  /\ UNCHANGED <<run, ctxDone, listener, late, monitor, joiner, pool, failures>>

(* Its connection was closed as idle, or not counted yet, when Shutdown    *)
(* looked: net/http still calls the handler and waits for it no more.      *)
ArriveLate(r) ==
  /\ run \in {"shutdown", "joining", "returned"} /\ handler[r] = "none"
  /\ handler' = [handler EXCEPT ![r] = "deciding"]
  /\ late'    = late \cup {r}
  /\ UNCHANGED <<run, ctxDone, listener, monitor, joiner, pool, failures>>

(* rewrite: the request's job, if it has mirrors, is offered to the pool   *)
(* before the request is forwarded.                                        *)
Forward(r) ==
  /\ Serving /\ handler[r] = "deciding"
  /\ handler' = [handler EXCEPT ![r] = "proxying"]
  /\ Promise!Accept(r) \/ Promise!Drop(r) \/ UNCHANGED pool
  /\ UNCHANGED <<run, ctxDone, listener, late, monitor, joiner, failures>>

(* ServeHTTP returns, refused or answered.                                 *)
Answer(r) ==
  /\ Serving /\ Busy(r)
  /\ handler' = [handler EXCEPT ![r] = "done"]
  /\ UNCHANGED <<run, ctxDone, listener, late, monitor, joiner, pool, failures>>

(* The connection is upgraded: hijacked, it is the server's no more.       *)
Upgrade(r) ==
  /\ Serving /\ handler[r] = "proxying"
  /\ handler' = [handler EXCEPT ![r] = "tunnel"]
  /\ UNCHANGED <<run, ctxDone, listener, late, monitor, joiner, pool, failures>>

CloseTunnel(r) ==
  /\ Serving /\ handler[r] = "tunnel"
  /\ handler' = [handler EXCEPT ![r] = "done"]
  /\ UNCHANGED <<run, ctxDone, listener, late, monitor, joiner, pool, failures>>

(* A worker of the pool is done with a job.                                *)
Mirror(r) ==
  /\ Serving /\ Promise!Mirror(r)
  /\ UNCHANGED <<run, ctxDone, listener, requests, monitor, joiner, failures>>

-----------------------------------------------------------------------------
(* L7Proxy.Run.                                                            *)

ListenFails ==
  /\ run = "serving" /\ listener = "ok"
  /\ listener' = "failed"
  /\ UNCHANGED <<run, ctxDone, requests, monitor, joiner, pool, failures>>

(* errCh: Run returns at once. If the context is done too, select may take *)
(* either.                                                                 *)
RunFails ==
  /\ run = "serving" /\ listener = "failed"
  /\ run'      = "returned"
  /\ failures' = failures \cup {"listen"}
  /\ UNCHANGED <<ctxDone, listener, requests, monitor, joiner, pool>>

MutantBeginShutdown ==
  /\ run = "serving" /\ ctxDone
  /\ run'    = "shutdown"
  /\ joiner' = "waiting"
  /\ UNCHANGED <<ctxDone, listener, requests, monitor, pool, failures>>

(* ctx.Done: server.Shutdown is called.                                    *)
BeginShutdown ==
  /\ run = "serving" /\ ctxDone
  /\ run' = "shutdown"
  /\ UNCHANGED <<ctxDone, listener, requests, monitor, joiner, pool, failures>>

(* Shutdown returns: no connection the server counts is active. The join   *)
(* goroutine is started.                                                   *)
ShutdownDone ==
  /\ run = "shutdown"
  /\ \A r \in Requests \ late : ~Busy(r)
  /\ run'    = "joining"
  /\ joiner' = "waiting"
  /\ UNCHANGED <<ctxDone, listener, requests, monitor, pool, failures>>

MutantShutdownFails ==
  /\ run = "shutdown"
  /\ run'      = "returned"
  /\ failures' = failures \cup {"close"}
  /\ UNCHANGED <<ctxDone, listener, requests, monitor, joiner, pool>>

(* Ten seconds passed, or closing a listener failed: server.Close, and Run *)
(* returns without the monitor and the pool.                               *)
ShutdownFails ==
  /\ run = "shutdown"
  /\ run'      = "returned"
  /\ failures' = failures \cup {"shutdown"}
  /\ UNCHANGED <<ctxDone, listener, requests, monitor, joiner, pool>>

(* The join goroutine: router.Wait returns, ...                            *)
MonitorJoined ==
  /\ Serving /\ joiner = "waiting" /\ monitor = "gone"
  /\ joiner' = "stopping"
  /\ UNCHANGED <<run, ctxDone, listener, requests, monitor, pool, failures>>

MutantStopPool ==
  /\ Serving /\ joiner = "stopping"
  /\ Promise!Close
  /\ joiner' = "done"
  /\ UNCHANGED <<run, ctxDone, listener, requests, monitor, failures>>

(* ... mirroringPool.Stop refuses new jobs and waits for the workers, ...  *)
StopPool ==
  /\ Serving /\ joiner = "stopping"
  /\ Promise!Close
  /\ joiner' = "draining"
  /\ UNCHANGED <<run, ctxDone, listener, requests, monitor, failures>>

(* ... and done is closed.                                                 *)
PoolStopped ==
  /\ Serving /\ joiner = "draining"
  /\ Promise!Finish
  /\ joiner' = "done"
  /\ UNCHANGED <<run, ctxDone, listener, requests, monitor, failures>>

JoinDone ==
  /\ run = "joining" /\ joiner = "done"
  /\ run' = "returned"
  /\ UNCHANGED <<ctxDone, listener, requests, monitor, joiner, pool, failures>>

MutantJoinTimesOut ==
  /\ run = "joining" /\ joiner = "done"
  /\ run'      = "returned"
  /\ failures' = failures \cup {"join"}
  /\ UNCHANGED <<ctxDone, listener, requests, monitor, joiner, pool>>

(* Five seconds passed.                                                    *)
JoinTimesOut ==
  /\ run = "joining"
  /\ run'      = "returned"
  /\ failures' = failures \cup {"join"}
  /\ UNCHANGED <<ctxDone, listener, requests, monitor, joiner, pool>>

(* main returns; what still runs is cut off.                               *)
Exit ==
  /\ run = "returned"
  /\ run' = "exited"
  /\ UNCHANGED <<ctxDone, listener, requests, monitor, joiner, pool, failures>>

-----------------------------------------------------------------------------
Main ==
  \/ Start \/ StartFails \/ RunFails \/ BeginShutdown \/ ShutdownDone \/ ShutdownFails
  \/ JoinDone \/ JoinTimesOut \/ Exit

Joiner  == MonitorJoined \/ StopPool \/ PoolStopped
Monitor == Subscribe \/ MonitorExits

Request(r) ==
  \/ Arrive(r) \/ ArriveLate(r) \/ Forward(r) \/ Answer(r) \/ Upgrade(r) \/ CloseTunnel(r)
  \/ Mirror(r)

Environment == Sigterm \/ Sighup \/ ListenFails

Next == Environment \/ Main \/ Joiner \/ Monitor \/ \E r \in Requests : Request(r)

Spec == Init /\ [][Next]_vars

(* main runs and its two timers fire. Nothing is assumed of requests,      *)
(* mirrors, the monitor or the join goroutine.                             *)
FairSpec == Spec /\ WF_vars(Main)

-----------------------------------------------------------------------------
(* Properties.                                                             *)

(* Every variable of the process keeps its type.                           *)
TypeOK ==
  /\ run      \in {"starting", "serving", "shutdown", "joining", "returned", "exited", "killed"}
  /\ ctxDone  \in BOOLEAN
  /\ listener \in {"ok", "failed"}
  /\ handler  \in [Requests -> {"none", "deciding", "proxying", "tunnel", "done"}]
  /\ late     \subseteq Requests
  /\ monitor  \in {"off", "started", "subscribed", "gone"}
  /\ joiner   \in {"off", "waiting", "stopping", "draining", "done"}
  /\ job      \in [Requests -> {"unseen", "pending", "dropped", "mirrored"}]
  /\ phase    \in {"open", "closing", "stopped"}
  /\ failures \subseteq {"start", "listen", "shutdown", "join"}

(* When the process exits without a failure or a limit passed, it cuts     *)
(* nothing off: every request that the server knew of is answered, no      *)
(* accepted job is left, the monitor is gone (proxy.go:422-433). Upgraded  *)
(* connections and requests on connections already closed are not counted. *)
NothingLost ==
  run = "exited" /\ failures = {} =>
    /\ \A r \in Requests \ late : ~Busy(r)
    /\ Promise!Pending = {}
    /\ monitor = "gone"

(* No request that the server knows of loses its mirror copy to the        *)
(* shutdown: its job is refused only when the pool is full. Only requests  *)
(* that come late meet the flag that TrySubmit checks (mirroring.go:107).  *)
RefusedOnlyLate ==
  [][\A r \in Requests \ late' :
       job[r] # "dropped" /\ job'[r] = "dropped" =>
         Cardinality(Promise!Pending) >= QueueSize]_vars

(* After SIGTERM the process ends, whatever requests, mirrors and reloads  *)
(* do: the limits of ten and five seconds see to it (proxy.go:419, 434).   *)
ShutdownTerminates == ctxDone ~> ~Alive

=============================================================================
