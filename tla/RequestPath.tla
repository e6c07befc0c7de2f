---------------------------- MODULE RequestPath ----------------------------
(***************************************************************************)
(* The life of a request inside the proxy (internal/proxy/proxy.go):       *)
(* ServeHTTP admits and routes it, rewrite buffers the body and hands a    *)
(* copy to the mirroring pool, the attempting transport sends it to the    *)
(* routed upstream and, once, to its fallback, and the outcome is relayed  *)
(* to the client and counted.                                              *)
(*                                                                         *)
(* Time is counted per request, in units of the deadlines: elapsed[r] is   *)
(* the time since ServeHTTP derived the request's context. A step that     *)
(* waits for nothing but the scheduler takes no time; Tick(r) lets time    *)
(* pass, never beyond a timer that is due.                                 *)
(*                                                                         *)
(* An operator whose name starts with Mutant is no part of the             *)
(* specification: it is a plausible bug in the definition that follows it, *)
(* kept to show that a property notices it.                                *)
(***************************************************************************)
EXTENDS Naturals, Sequences

CONSTANTS
  Requests,        (* the requests served, concurrently                    *)
  Upstreams,       (* names of the configured upstreams                    *)
  None,            (* "no upstream": an unmatched path, an unset fallback  *)
  Methods,         (* methods the clients use                              *)
  Timeout,         (* upstreams[].timeout-ms, 0 when unset                 *)
  Fallback,        (* upstreams[].fallback, None when unset                *)
  Ceiling,         (* net-timeouts-s.server.context                        *)
  PolicyInstalled  (* FALSE: allowAllGate and unlimitedLimiter; TRUE: an   *)
                   (* implementation of Gate and Limiter that may refuse   *)

(* A validated configuration: validateUpstreams refuses a negative timeout *)
(* and a fallback that is unknown or the upstream itself, validateTimeouts *)
(* a negative ceiling.                                                     *)
ASSUME ConfigAssumption ==
  /\ None \notin Upstreams
  /\ Timeout \in [Upstreams -> Nat]
  /\ Fallback \in [Upstreams -> Upstreams \cup {None}]
  /\ \A u \in Upstreams : Fallback[u] # u
  /\ Ceiling \in Nat
  /\ PolicyInstalled \in BOOLEAN

(* How the client announces and sends the body: with a Content-Length or   *)
(* chunked, within max-body-size or over it.                               *)
Lengths == {"declared", "declaredOver", "chunked", "chunkedOver"}

(* What a request brings, with the route it matches: upstream is None when *)
(* DecideRoute finds none.                                                 *)
Inputs == [method : Methods, length : Lengths,
           upstream : Upstreams \cup {None}, mirrors : BOOLEAN]

NoInput == [method |-> "none", length |-> "declared", upstream |-> None, mirrors |-> FALSE]

(* Errors of an attempt, as errorHandler tells them apart.                 *)
Errors == {"unavailable", "deadline", "canceled", "other"}

(* Statuses an upstream answers with: a 5xx is an answer like any other.   *)
UpstreamStatus == {200, 500}

StatusOK == 200

VARIABLES
  pc,        (* where the handler of the request is                        *)
  input,     (* the request                                                *)
  client,    (* whether the client reads what it is sent                   *)
  body,      (* what rewrite has buffered: unread, whole or short          *)
  ctx,       (* the request context: live, deadline or canceled            *)
  elapsed,   (* time since the context was derived                         *)
  deadline,  (* when the attempt in flight runs out of its own timeout     *)
  attempts,  (* history: one record per call of attempt()                  *)
  err,       (* the error the last attempt returned                        *)
  recorded,  (* history: number of Gate.Record calls per upstream          *)
  mirrored,  (* history: number of mirroring jobs submitted                *)
  status,    (* status line sent to the client, 0 while none was           *)
  wrapped,   (* responseWriter.statusCode                                  *)
  observed   (* status label given to the request metrics, 0 while none    *)

vars == <<pc, input, client, body, ctx, elapsed, deadline, attempts, err, recorded,
          mirrored, status, wrapped, observed>>

transport == <<deadline, attempts, err, recorded>>
response  == <<status, wrapped, observed>>

-----------------------------------------------------------------------------
(* Pure helpers.                                                           *)

MutantIdempotent(method) == method # "PATCH"

idempotent(method) == method \in {"GET", "HEAD", "PUT", "DELETE", "OPTIONS", "TRACE"}

MutantCanFailover(r) == idempotent(input[r].method) /\ body[r] = "whole"

(* rewrite sets GetBody only when the whole body was read.                 *)
canFailover(r) ==
  /\ Fallback[input[r].upstream] # None
  /\ idempotent(input[r].method)
  /\ body[r] = "whole"

(* errorHandler: 0 stands for "no response written". A MaxBytesError never *)
(* gets here: rewrite swallows it.                                         *)
ErrorStatus(e) ==
  CASE e = "unavailable" -> 503
    [] e = "deadline"    -> 504
    [] e = "canceled"    -> 0
    [] OTHER             -> 502

(* responseWriter.WriteHeader: keeps a status code that is already set.    *)
WriteHeader(r, code) ==
  /\ status'  = [status EXCEPT ![r] = code]
  /\ wrapped' = [wrapped EXCEPT ![r] = IF @ = 0 /\ code # 0 THEN code ELSE @]

(* The upstream the next attempt goes to: RoundTrip tries the decision's   *)
(* upstream, then its fallback.                                            *)
NextTarget(r) ==
  IF attempts[r] = <<>> THEN input[r].upstream ELSE Fallback[input[r].upstream]

Current(r) == attempts[r][Len(attempts[r])]

(* send derives the attempt's deadline from the request's: a timeout of 0  *)
(* leaves the ceiling alone.                                               *)
AttemptDeadline(r, u) ==
  IF Timeout[u] > 0 /\ elapsed[r] + Timeout[u] < Ceiling
  THEN elapsed[r] + Timeout[u] ELSE Ceiling

(* An attempt that would outlast the request has no timer of its own.      *)
OwnTimerDue(r) == deadline[r] < Ceiling /\ elapsed[r] >= deadline[r]

Finished(r) == pc[r] \in {"done", "aborted"}
Active(r)   == pc[r] \in {"reading", "attempt", "inflight", "failed", "relaying", "tunnel"}

-----------------------------------------------------------------------------
Init ==
  /\ pc       = [r \in Requests |-> "idle"]
  /\ input    = [r \in Requests |-> NoInput]
  /\ client   = [r \in Requests |-> "reads"]
  /\ body     = [r \in Requests |-> "unread"]
  /\ ctx      = [r \in Requests |-> "live"]
  /\ elapsed  = [r \in Requests |-> 0]
  /\ deadline = [r \in Requests |-> 0]
  /\ attempts = [r \in Requests |-> <<>>]
  /\ err      = [r \in Requests |-> "nil"]
  /\ recorded = [r \in Requests |-> [u \in Upstreams |-> 0]]
  /\ mirrored = [r \in Requests |-> 0]
  /\ status   = [r \in Requests |-> 0]
  /\ wrapped  = [r \in Requests |-> 0]
  /\ observed = [r \in Requests |-> 0]

(* ServeHTTP refuses a request without forwarding it: 413 for a declared   *)
(* length over the limit, else 404 when no route matches. Both are         *)
(* observed with the status they are answered with.                        *)
Refuse(r, in, code) ==
  /\ pc[r] = "idle"
  /\ input'    = [input EXCEPT ![r] = in]
  /\ status'   = [status EXCEPT ![r] = code]
  /\ observed' = [observed EXCEPT ![r] = code]
  /\ pc'       = [pc EXCEPT ![r] = "done"]
  /\ UNCHANGED <<client, body, ctx, elapsed, transport, mirrored, wrapped>>

RefuseTooLarge(r, in) == in.length = "declaredOver" /\ Refuse(r, in, 413)

RefuseUnrouted(r, in) ==
  in.length # "declaredOver" /\ in.upstream = None /\ Refuse(r, in, 404)

(* ServeHTTP hands the request to the reverse proxy under a context that   *)
(* expires at the ceiling; a ceiling of 0 is an expired context.           *)
Admit(r, in) ==
  /\ pc[r] = "idle"
  /\ in.length # "declaredOver" /\ in.upstream \in Upstreams
  /\ input'   = [input EXCEPT ![r] = in]
  /\ ctx'     = [ctx EXCEPT ![r] = IF Ceiling > 0 THEN "live" ELSE "deadline"]
  /\ wrapped' = [wrapped EXCEPT ![r] = StatusOK]
  /\ pc'      = [pc EXCEPT ![r] = "reading"]
  /\ UNCHANGED <<client, body, elapsed, transport, mirrored, status, observed>>

(* rewrite, the body read to its end: it is buffered for a replay and a    *)
(* copy is submitted to the mirroring pool if the route has mirrors.       *)
BufferBody(r) ==
  /\ pc[r] = "reading" /\ input[r].length # "chunkedOver"
  /\ body'     = [body EXCEPT ![r] = "whole"]
  /\ mirrored' = [mirrored EXCEPT ![r] = IF input[r].mirrors THEN @ + 1 ELSE @]
  /\ pc'       = [pc EXCEPT ![r] = "attempt"]
  /\ UNCHANGED <<input, client, ctx, elapsed, transport, response>>

MutantBufferFails(r) ==
  /\ pc[r] = "reading"
  /\ body'     = [body EXCEPT ![r] = "short"]
  /\ mirrored' = [mirrored EXCEPT ![r] = IF input[r].mirrors THEN @ + 1 ELSE @]
  /\ pc'       = [pc EXCEPT ![r] = "attempt"]
  /\ UNCHANGED <<input, client, ctx, elapsed, transport, response>>

(* rewrite, the body read failed: MaxBytesReader cut a chunked body at the *)
(* limit, the client sent a malformed one, or it broke the connection off, *)
(* which also cancels the request. The request goes on with what was read, *)
(* without a copy for the mirrors and without GetBody.                     *)
BufferFails(r) ==
  /\ pc[r] = "reading"
  /\ body' = [body EXCEPT ![r] = "short"]
  /\ ctx'  \in {ctx, [ctx EXCEPT ![r] = IF @ = "live" THEN "canceled" ELSE @]}
  /\ pc'   = [pc EXCEPT ![r] = "attempt"]
  /\ UNCHANGED <<input, client, elapsed, transport, mirrored, response>>

-----------------------------------------------------------------------------
(* The attempting transport.                                               *)

(* attempt: the limiter or the gate refuses the upstream.                  *)
AttemptDenied(r) ==
  /\ pc[r] = "attempt" /\ PolicyInstalled
  /\ attempts' = [attempts EXCEPT ![r] =
                    Append(@, [to |-> NextTarget(r), admitted |-> FALSE, sent |-> FALSE])]
  /\ err'      = [err EXCEPT ![r] = "unavailable"]
  /\ pc'       = [pc EXCEPT ![r] = "failed"]
  /\ UNCHANGED <<input, client, body, ctx, elapsed, deadline, recorded, mirrored, response>>

(* attempt: admitted, send starts the exchange under the attempt's own     *)
(* deadline. Nothing is sent once the request's context is done.           *)
AttemptAdmitted(r) ==
  /\ pc[r] = "attempt"
  /\ attempts' = [attempts EXCEPT ![r] =
                    Append(@, [to |-> NextTarget(r), admitted |-> TRUE, sent |-> ctx[r] = "live"])]
  /\ deadline' = [deadline EXCEPT ![r] = AttemptDeadline(r, NextTarget(r))]
  /\ pc'       = [pc EXCEPT ![r] = "inflight"]
  /\ UNCHANGED <<input, client, body, ctx, elapsed, err, recorded, mirrored, response>>

(* attempt tells the gate the outcome of every exchange it was admitted to *)
Record(r) == recorded' = [recorded EXCEPT ![r][Current(r).to] = @ + 1]

(* send fails with e: the attempt is over.                                 *)
SendFails(r, e) ==
  /\ pc[r] = "inflight"
  /\ Record(r)
  /\ err' = [err EXCEPT ![r] = e]
  /\ pc'  = [pc EXCEPT ![r] = "failed"]
  /\ UNCHANGED <<input, client, body, ctx, elapsed, deadline, attempts, mirrored, response>>

(* The upstream cannot be reached or breaks the exchange off, or one of    *)
(* the transport's own timeouts fires: the dial and the response-header    *)
(* timeout are deadline errors, all else is not.                           *)
TransportFails(r) ==
  /\ pc[r] = "inflight" /\ Current(r).sent
  /\ \E e \in {"deadline", "other"} : SendFails(r, e)

MutantAttemptExpires(r) ==
  /\ pc[r] = "inflight" /\ OwnTimerDue(r)
  /\ err' = [err EXCEPT ![r] = "deadline"]
  /\ pc'  = [pc EXCEPT ![r] = "failed"]
  /\ UNCHANGED <<input, client, body, ctx, elapsed, deadline, attempts, recorded, mirrored, response>>

(* The attempt's own timer fires.                                          *)
AttemptExpires(r) ==
  /\ pc[r] = "inflight" /\ Current(r).sent /\ OwnTimerDue(r)
  /\ SendFails(r, "deadline")

(* The request's context is done: at the ceiling, or the client left.      *)
ContextDone(r) == ctx[r] # "live" /\ SendFails(r, ctx[r])

(* Response headers arrive: the reverse proxy passes the status on at once *)
(* and starts copying the body.                                            *)
Respond(r) ==
  /\ pc[r] = "inflight" /\ Current(r).sent
  /\ Record(r)
  /\ \E code \in UpstreamStatus : WriteHeader(r, code)
  /\ err' = [err EXCEPT ![r] = "nil"]
  /\ pc'  = [pc EXCEPT ![r] = "relaying"]
  /\ UNCHANGED <<input, client, body, ctx, elapsed, deadline, attempts, mirrored, observed>>

(* The upstream answers 101 and the reverse proxy does not like it: the    *)
(* protocol is not the one asked for, or the body cannot be written to,    *)
(* because cancelOnClose hides that it can. errorHandler answers 502; to   *)
(* RoundTrip the attempt was a success, so that nothing fails over.        *)
UpgradeFails(r) ==
  /\ pc[r] = "inflight" /\ Current(r).sent
  /\ Record(r)
  /\ err'      = [err EXCEPT ![r] = "nil"]
  /\ WriteHeader(r, ErrorStatus("other"))
  /\ observed' = [observed EXCEPT ![r] = wrapped'[r]]
  /\ pc'       = [pc EXCEPT ![r] = "done"]
  /\ UNCHANGED <<input, client, body, ctx, elapsed, deadline, attempts, mirrored>>

(* The upstream answers 101, and it has no timeout, so that the body was   *)
(* not wrapped: the client's connection is hijacked, the 101 goes out past *)
(* responseWriter, and both directions are copied.                         *)
Upgrade(r) ==
  /\ pc[r] = "inflight" /\ Current(r).sent
  /\ Timeout[Current(r).to] = 0
  /\ Record(r)
  /\ err'    = [err EXCEPT ![r] = "nil"]
  /\ status' = [status EXCEPT ![r] = 101]
  /\ pc'     = [pc EXCEPT ![r] = "tunnel"]
  /\ UNCHANGED <<input, client, body, ctx, elapsed, deadline, attempts, mirrored, wrapped, observed>>

MutantMayFailOver(r) == ctx[r] = "live" /\ canFailover(r)

MayFailOver(r) == Len(attempts[r]) = 1 /\ ctx[r] = "live" /\ canFailover(r)

MutantFailOver(r) ==
  /\ pc[r] = "failed" /\ MayFailOver(r)
  /\ mirrored' = [mirrored EXCEPT ![r] = IF input[r].mirrors THEN @ + 1 ELSE @]
  /\ pc'       = [pc EXCEPT ![r] = "attempt"]
  /\ UNCHANGED <<input, client, body, ctx, elapsed, transport, response>>

(* RoundTrip replays the request against the fallback, for one hop only.   *)
FailOver(r) ==
  /\ pc[r] = "failed" /\ MayFailOver(r)
  /\ pc' = [pc EXCEPT ![r] = "attempt"]
  /\ UNCHANGED <<input, client, body, ctx, elapsed, transport, mirrored, response>>

(* RoundTrip returns the error, errorHandler answers it and ServeHTTP      *)
(* observes the request.                                                   *)
GiveUp(r) ==
  /\ pc[r] = "failed" /\ ~MayFailOver(r)
  /\ WriteHeader(r, ErrorStatus(err[r]))
  /\ observed' = [observed EXCEPT ![r] = wrapped'[r]]
  /\ pc'       = [pc EXCEPT ![r] = "done"]
  /\ UNCHANGED <<input, client, body, ctx, elapsed, transport, mirrored>>

-----------------------------------------------------------------------------
(* Relaying the response body.                                             *)

(* The body is copied to its end, closing it releases the attempt's        *)
(* deadline, and ServeHTTP observes the request.                           *)
RelayDone(r) ==
  /\ pc[r] = "relaying" /\ client[r] # "stalls"
  /\ observed' = [observed EXCEPT ![r] = wrapped[r]]
  /\ pc'       = [pc EXCEPT ![r] = "done"]
  /\ UNCHANGED <<input, client, body, ctx, elapsed, transport, mirrored, status, wrapped>>

(* The copy fails: the reverse proxy panics with ErrAbortHandler, which    *)
(* unwinds ServeHTTP before it observes the request.                       *)
Abort(r) ==
  /\ pc[r] = "relaying"
  /\ pc' = [pc EXCEPT ![r] = "aborted"]
  /\ UNCHANGED <<input, client, body, ctx, elapsed, transport, mirrored, response>>

MutantRelayBreaks(r) ==
  /\ pc[r] = "relaying"
  /\ err' = [err EXCEPT ![r] = "other"]
  /\ pc'  = [pc EXCEPT ![r] = "failed"]
  /\ UNCHANGED <<input, client, body, ctx, elapsed, deadline, attempts, recorded, mirrored, response>>

(* The upstream or the client breaks the copy off; while a write to the    *)
(* client blocks only the client can.                                      *)
RelayBreaks(r) == Abort(r)

MutantRelayExpires(r) == client[r] # "stalls" /\ OwnTimerDue(r) /\ Abort(r)

(* The attempt's deadline covers the body; so does the ceiling. Either     *)
(* breaks the next read from the upstream, never a write to the client.    *)
RelayExpires(r) ==
  /\ client[r] # "stalls"
  /\ ctx[r] # "live" \/ OwnTimerDue(r)
  /\ Abort(r)

(* One side of an upgraded connection closes it.                           *)
TunnelEnds(r) ==
  /\ pc[r] = "tunnel"
  /\ observed' = [observed EXCEPT ![r] = wrapped[r]]
  /\ pc'       = [pc EXCEPT ![r] = "done"]
  /\ UNCHANGED <<input, client, body, ctx, elapsed, transport, mirrored, status, wrapped>>

(* The request's context is done: the upstream's side is closed. A copier  *)
(* blocked writing to the hijacked client, and the other one, waiting for  *)
(* the client to send, do not notice.                                      *)
TunnelExpires(r) == client[r] # "stalls" /\ ctx[r] # "live" /\ TunnelEnds(r)

-----------------------------------------------------------------------------
(* Time and the client.                                                    *)

(* The copy of the response blocks in a write: the client has stopped      *)
(* reading (in a tunnel it sends nothing either), and http.Server has no   *)
(* WriteTimeout. Several stalls are modelled as one: the proxy does not    *)
(* tell a client that stalls, reads on and stalls again from one that      *)
(* stalled throughout, unless a timer is due in between, when the next     *)
(* read from the upstream ends the copy.                                   *)
ClientStalls(r) ==
  /\ pc[r] \in {"relaying", "tunnel"} /\ client[r] = "reads"
  /\ client' = [client EXCEPT ![r] = "stalls"]
  /\ UNCHANGED <<pc, input, body, ctx, elapsed, transport, mirrored, response>>

(* It reads on: the write returns.                                         *)
ClientResumes(r) ==
  /\ pc[r] \in {"relaying", "tunnel"} /\ client[r] = "stalls"
  /\ client' = [client EXCEPT ![r] = "resumed"]
  /\ UNCHANGED <<pc, input, body, ctx, elapsed, transport, mirrored, response>>

(* The timer of the exchange ends it: no write to the client blocks.       *)
Watched(r) == pc[r] = "inflight" \/ (pc[r] \in {"relaying", "tunnel"} /\ client[r] # "stalls")

(* Time passes, up to the next timer that ends something: a copy blocked   *)
(* by the client runs past its own.                                        *)
Tick(r) ==
  /\ Active(r) /\ ctx[r] = "live"
  /\ elapsed[r] < (IF Watched(r) THEN deadline[r] ELSE Ceiling)
  /\ elapsed' = [elapsed EXCEPT ![r] = @ + 1]
  /\ UNCHANGED <<pc, input, client, body, ctx, transport, mirrored, response>>

EndContext(r, how) ==
  /\ Active(r) /\ ctx[r] = "live"
  /\ ctx' = [ctx EXCEPT ![r] = how]
  /\ UNCHANGED <<pc, input, client, body, elapsed, transport, mirrored, response>>

(* The server context's timer fires.                                       *)
CeilingFires(r) == elapsed[r] >= Ceiling /\ EndContext(r, "deadline")

(* The client closes the connection; net/http cancels the request, unless  *)
(* the connection is hijacked.                                             *)
ClientLeaves(r) == pc[r] # "tunnel" /\ EndContext(r, "canceled")

-----------------------------------------------------------------------------
Step(r) ==
  \/ \E in \in Inputs : RefuseTooLarge(r, in) \/ RefuseUnrouted(r, in) \/ Admit(r, in)
  \/ BufferBody(r) \/ BufferFails(r)
  \/ AttemptDenied(r) \/ AttemptAdmitted(r)
  \/ TransportFails(r) \/ AttemptExpires(r) \/ ContextDone(r) \/ Respond(r)
  \/ Upgrade(r) \/ UpgradeFails(r) \/ TunnelEnds(r) \/ TunnelExpires(r)
  \/ FailOver(r) \/ GiveUp(r)
  \/ RelayDone(r) \/ RelayBreaks(r) \/ RelayExpires(r)
  \/ ClientStalls(r) \/ ClientResumes(r) \/ ClientLeaves(r)
  \/ Tick(r) \/ CeilingFires(r)

Next == \E r \in Requests : Step(r)

Spec == Init /\ [][Next]_vars

(* The proxy's own steps are taken and timers fire. Nothing is assumed of  *)
(* clients (they may never finish an upload, never read a response and     *)
(* never leave) or of upstreams (they may never answer).                   *)
Fairness ==
  \A r \in Requests :
    /\ WF_vars(Tick(r)) /\ WF_vars(CeilingFires(r))
    /\ WF_vars(AttemptDenied(r) \/ AttemptAdmitted(r))
    /\ WF_vars(AttemptExpires(r)) /\ WF_vars(ContextDone(r))
    /\ WF_vars(FailOver(r)) /\ WF_vars(GiveUp(r))
    /\ WF_vars(RelayExpires(r)) /\ WF_vars(TunnelExpires(r))

FairSpec == Spec /\ Fairness

-----------------------------------------------------------------------------
(* Properties.                                                             *)

AttemptRecord == [to : Upstreams, admitted : BOOLEAN, sent : BOOLEAN]

(* Every variable of the request path keeps its type.                      *)
TypeOK ==
  /\ pc       \in [Requests -> {"idle", "reading", "attempt", "inflight", "failed",
                                "relaying", "tunnel", "done", "aborted"}]
  /\ input    \in [Requests -> Inputs \cup {NoInput}]
  /\ client   \in [Requests -> {"reads", "stalls", "resumed"}]
  /\ body     \in [Requests -> {"unread", "whole", "short"}]
  /\ ctx      \in [Requests -> {"live", "deadline", "canceled"}]
  /\ elapsed  \in [Requests -> Nat]
  /\ deadline \in [Requests -> Nat]
  /\ attempts \in [Requests -> Seq(AttemptRecord)]
  /\ err      \in [Requests -> Errors \cup {"nil"}]
  /\ recorded \in [Requests -> [Upstreams -> Nat]]
  /\ mirrored \in [Requests -> Nat]
  /\ status   \in [Requests -> Nat]
  /\ wrapped  \in [Requests -> Nat]
  /\ observed \in [Requests -> Nat]

(* A fallback is followed for one hop only: RoundTrip makes at most two    *)
(* attempts, the first at the routed upstream and the second at that       *)
(* upstream's own fallback, whatever the fallback's fallback is.           *)
OneHop ==
  \A r \in Requests :
    /\ Len(attempts[r]) <= 2
    /\ Len(attempts[r]) >= 1 => attempts[r][1].to = input[r].upstream
    /\ Len(attempts[r]) = 2 => attempts[r][2].to = Fallback[input[r].upstream]

(* Methods whose repetition may duplicate work.                            *)
NotRepeatable == {"POST", "PATCH"}

(* Failing over never duplicates work (proxy.go:360-362): a request that   *)
(* went out twice went to two different upstreams, is no POST or PATCH,    *)
(* and was replayed from a completely buffered body.                       *)
NoDuplicateWork ==
  \A r \in Requests :
    \A i, j \in DOMAIN attempts[r] :
      i # j /\ attempts[r][i].sent /\ attempts[r][j].sent =>
        /\ attempts[r][i].to # attempts[r][j].to
        /\ input[r].method \notin NotRepeatable
        /\ body[r] = "whole"

(* The attempt to u was admitted and is over.                              *)
Concluded(r, u) ==
  \E i \in DOMAIN attempts[r] :
    /\ attempts[r][i].to = u /\ attempts[r][i].admitted
    /\ ~(i = Len(attempts[r]) /\ pc[r] = "inflight")

(* The gate hears of every admitted attempt exactly once and of a refused  *)
(* one never, whichever way the attempt ends: a breaker that counts        *)
(* in-flight trials neither leaks one nor counts one twice.                *)
GateLedger ==
  \A r \in Requests : \A u \in Upstreams :
    recorded[r][u] = IF Concluded(r, u) THEN 1 ELSE 0

(* A request is copied to the mirrors at most once, only from a complete   *)
(* body and only on a route with mirrors.                                  *)
MirrorOnce ==
  \A r \in Requests :
    /\ mirrored[r] <= 1
    /\ mirrored[r] = 1 => body[r] = "whole" /\ input[r].mirrors

(* The copy is submitted before the first attempt: no attempt, and no      *)
(* failover, ever causes mirror traffic.                                   *)
MirrorBeforeAttempts ==
  [][\A r \in Requests : mirrored'[r] # mirrored[r] => attempts[r] = <<>>]_vars

(* Once a status line has gone to the client it is final: it is not        *)
(* replaced by an error page and no further attempt is made for it.        *)
ResponseFinal ==
  [][\A r \in Requests :
       status[r] # 0 => status'[r] = status[r] /\ attempts'[r] = attempts[r]]_vars

(* How far the handler of a request is from its end: three steps for each  *)
(* attempt it may still make, then the relay.                              *)
Stage(r) ==
  CASE pc[r] = "idle"                  -> 10
    [] pc[r] = "reading"               -> 8
    [] pc[r] = "attempt"               -> 7 - 3 * Len(attempts[r])
    [] pc[r] = "inflight"              -> 9 - 3 * Len(attempts[r])
    [] pc[r] = "failed"                -> 8 - 3 * Len(attempts[r])
    [] pc[r] \in {"relaying", "tunnel"} -> 1
    [] OTHER                           -> 0

(* Whether the client may still stop reading, and read on.                 *)
Patience(r) ==
  CASE client[r] = "reads" -> 2 [] client[r] = "stalls" -> 1 [] client[r] = "resumed" -> 0

(* What is left of a request: the stages before it, its context's end, its *)
(* client's stall and the time up to the ceiling.                          *)
Left(r) ==
  Stage(r) + (IF ctx[r] = "live" THEN 1 ELSE 0) + Patience(r) + (Ceiling - elapsed[r])

(* A request is never worked on in circles: whatever upstreams, clients    *)
(* and timers do, and however the fallbacks chain, each step of a request  *)
(* brings it closer to its end and leaves every other request where it is. *)
WorkRunsOut ==
  [][\E r \in Requests :
       /\ Left(r)' < Left(r)
       /\ \A q \in Requests \ {r} : Left(q)' = Left(q)]_vars

(* Once its body is buffered a request is finished, even if the upstreams  *)
(* never answer and if neither side closes an upgraded connection: the     *)
(* attempt's timers or the ceiling end it. Only a client that has stopped  *)
(* reading keeps it, and only until it reads on.                           *)
EndsUnlessUnread ==
  \A r \in Requests :
    (Active(r) /\ pc[r] # "reading") ~> (Finished(r) \/ client[r] = "stalls")

-----------------------------------------------------------------------------
(* What the documentation, comments and metric names say of the program    *)
(* and the code does not do. Each is checked by a run that finds it        *)
(* violated.                                                               *)

(* The status label of http_requests_total is the status the client got    *)
(* (metrics.go:18-24; responseWriter exists to capture it). ServeHTTP      *)
(* initialises the captured code to 200, so WriteHeader never replaces it. *)
ObservedStatusIsSent ==
  \A r \in Requests : observed[r] # 0 /\ status[r] # 0 => observed[r] = status[r]

(* http_requests_total counts every HTTP request processed                 *)
(* (metrics.go:21). A response whose body breaks off unwinds ServeHTTP     *)
(* before observe.                                                         *)
EveryRequestCounted == \A r \in Requests : Finished(r) => observed[r] # 0

(* A body larger than max-body-size is answered 413 (request-flow.md:72).  *)
(* rewrite swallows the MaxBytesError of a chunked body and forwards the   *)
(* truncated body.                                                         *)
OversizeIs413 ==
  \A r \in Requests :
    Finished(r) /\ input[r].upstream # None /\ input[r].length \in {"declaredOver", "chunkedOver"}
      => status[r] \in {0, 413}

(* The server context bounds the whole request (request-flow.md:29,        *)
(* configuration.md:42): once it has expired the request ends. io.ReadAll  *)
(* of the body does not watch the context and the server sets no           *)
(* ReadTimeout: a stalled upload goes on.                                  *)
CeilingBoundsUpload ==
  \A r \in Requests : (pc[r] = "reading" /\ ctx[r] = "deadline") ~> Finished(r)

=============================================================================
