------------------------- MODULE RequestPathProofs -------------------------
(***************************************************************************)
(* Proofs about RequestPath, for every set of requests, every set of       *)
(* upstreams with their timeouts and fallbacks, every ceiling.             *)
(***************************************************************************)
EXTENDS RequestPath, Integers, TLAPS

(* A request beyond ServeHTTP's early returns has a route.                 *)
Routed ==
  \A r \in Requests :
    pc[r] \notin {"idle", "done"} => input[r] \in Inputs /\ input[r].upstream \in Upstreams

(* How many attempts were made where; a second one is always a legal       *)
(* failover. body and input no longer change once an attempt was made.     *)
Hops ==
  \A r \in Requests :
    /\ pc[r] \in {"idle", "reading"} => Len(attempts[r]) = 0
    /\ pc[r] = "attempt" => Len(attempts[r]) \in {0, 1}
    /\ pc[r] = "attempt" /\ Len(attempts[r]) = 1 => canFailover(r)
    /\ pc[r] \in {"inflight", "failed", "relaying", "tunnel"} => Len(attempts[r]) \in {1, 2}
    /\ pc[r] = "inflight" => Current(r).admitted
    /\ Len(attempts[r]) = 2 => canFailover(r)

(* The request's clock stops at the ceiling, when its context ends; what   *)
(* goes on after that does so in no live context.                          *)
WithinCeiling == \A r \in Requests : elapsed[r] <= Ceiling

(* No attempt is given more time than the request has.                     *)
DeadlineWithin ==
  \A r \in Requests : pc[r] \in {"inflight", "relaying", "tunnel"} => deadline[r] <= Ceiling

(* Nothing is mirrored before the body is buffered, and no status is sent  *)
(* before an attempt has answered or the handler is over.                  *)
NothingYet ==
  \A r \in Requests :
    /\ pc[r] \in {"idle", "reading"} => mirrored[r] = 0
    /\ status[r] # 0 => pc[r] \in {"relaying", "tunnel", "done", "aborted"}

(* The inductive invariant.                                                *)
IInv ==
  /\ TypeOK /\ Routed /\ Hops /\ OneHop
  /\ WithinCeiling /\ DeadlineWithin
  /\ NothingYet /\ MirrorOnce

-----------------------------------------------------------------------------
(* Sending a request out appends one attempt record.                       *)
LEMMA AttemptType ==
  ASSUME TypeOK, Routed, Hops, NEW r \in Requests, pc[r] = "attempt"
  PROVE  NextTarget(r) \in Upstreams
<1>1. input[r].upstream \in Upstreams
  BY DEF Routed
<1>2. CASE attempts[r] = <<>>
  BY <1>1, <1>2 DEF NextTarget
<1>3. CASE attempts[r] # <<>>
  <2>1. attempts[r] \in Seq(AttemptRecord)
    BY DEF TypeOK
  <2>2. Len(attempts[r]) = 1
    BY <2>1, <1>3 DEF Hops
  <2>3. Fallback[input[r].upstream] # None
    BY <2>2 DEF Hops, canFailover
  <2> QED
    BY <1>1, <1>3, <2>3, ConfigAssumption DEF NextTarget
<1> QED
  BY <1>2, <1>3

(* Recording an outcome counts one call for one upstream.                  *)
LEMMA RecordType ==
  ASSUME TypeOK, NEW r \in Requests, Record(r)
  PROVE  recorded' \in [Requests -> [Upstreams -> Nat]]
<1> DEFINE counts == [recorded[r] EXCEPT ![Current(r).to] = @ + 1]
<1>1. recorded[r] \in [Upstreams -> Nat]
  BY DEF TypeOK
<1>2. ASSUME NEW f \in [Upstreams -> Nat], NEW u
      PROVE  [f EXCEPT ![u] = @ + 1] \in [Upstreams -> Nat]
  <2>1. CASE u \in Upstreams
    <3>1. f[u] + 1 \in Nat
      BY <2>1
    <3> QED
      BY <3>1
  <2>2. CASE u \notin Upstreams
    BY <2>2
  <2> QED
    BY <2>1, <2>2
<1>3. recorded' = [recorded EXCEPT ![r] = counts]
  BY DEF Record
<1> QED
  BY <1>1, <1>2, <1>3 DEF TypeOK

(* Appending to a sequence.                                                *)
LEMMA AppendFacts ==
  ASSUME NEW S, NEW s \in Seq(S), NEW e \in S
  PROVE  /\ Append(s, e) \in Seq(S)
         /\ Len(Append(s, e)) = Len(s) + 1
         /\ \A i \in 1 .. Len(s) : Append(s, e)[i] = s[i]
         /\ Append(s, e)[Len(s) + 1] = e
OBVIOUS

(* Writing a status line.                                                  *)
LEMMA HeaderType ==
  ASSUME TypeOK, NEW r \in Requests, NEW code \in Nat, WriteHeader(r, code)
  PROVE  status' \in [Requests -> Nat] /\ wrapped' \in [Requests -> Nat]
BY DEF TypeOK, WriteHeader

LEMMA InitType == Init => TypeOK
BY DEF Init, TypeOK

LEMMA TypeStep == TypeOK /\ Routed /\ Hops /\ [Next]_vars => TypeOK'
<1> SUFFICES ASSUME TypeOK, Routed, Hops, [Next]_vars PROVE TypeOK'
  OBVIOUS
<1>1. CASE UNCHANGED vars
  BY <1>1 DEF TypeOK, vars
<1>2. ASSUME NEW r \in Requests, Step(r) PROVE TypeOK'
  <2>0. ASSUME NEW in \in Inputs, NEW code \in Nat, Refuse(r, in, code) PROVE TypeOK'
    <3>1. status' \in [Requests -> Nat] /\ observed' \in [Requests -> Nat]
      BY <2>0 DEF TypeOK, Refuse
    <3>2. /\ input' = [input EXCEPT ![r] = in] /\ pc' = [pc EXCEPT ![r] = "done"]
          /\ UNCHANGED <<client, body, ctx, elapsed, transport, mirrored, wrapped>>
      BY <2>0 DEF Refuse
    <3> QED
      BY <3>1, <3>2 DEF TypeOK, transport
  <2>1. ASSUME NEW in \in Inputs, RefuseTooLarge(r, in) PROVE TypeOK'
    BY <2>0, <2>1 DEF RefuseTooLarge
  <2>2. ASSUME NEW in \in Inputs, RefuseUnrouted(r, in) PROVE TypeOK'
    BY <2>0, <2>2 DEF RefuseUnrouted
  <2>3. ASSUME NEW in \in Inputs, Admit(r, in) PROVE TypeOK'
    <3>1. wrapped' \in [Requests -> Nat]
      BY <2>3 DEF TypeOK, Admit, StatusOK
    <3>2. ctx' \in [Requests -> {"live", "deadline", "canceled"}]
      BY <2>3 DEF TypeOK, Admit
    <3>3. /\ input' = [input EXCEPT ![r] = in] /\ pc' = [pc EXCEPT ![r] = "reading"]
          /\ UNCHANGED <<client, body, elapsed, transport, mirrored, status, observed>>
      BY <2>3 DEF Admit
    <3> QED
      BY <3>1, <3>2, <3>3 DEF TypeOK, transport
  <2>4. CASE BufferBody(r)
    <3>1. mirrored' \in [Requests -> Nat]
      BY <2>4 DEF TypeOK, BufferBody
    <3>2. /\ pc' = [pc EXCEPT ![r] = "attempt"] /\ body' = [body EXCEPT ![r] = "whole"]
          /\ UNCHANGED <<input, client, ctx, elapsed, transport, response>>
      BY <2>4 DEF BufferBody
    <3> QED
      BY <3>1, <3>2 DEF TypeOK, transport, response
  <2>5. CASE BufferFails(r)
    BY <2>5 DEF TypeOK, BufferFails, transport, response
  <2>6. CASE AttemptDenied(r)
    <3>1. [to |-> NextTarget(r), admitted |-> FALSE, sent |-> FALSE] \in AttemptRecord
      BY <2>6, AttemptType DEF AttemptDenied, AttemptRecord
    <3>2. attempts' \in [Requests -> Seq(AttemptRecord)]
      <4>1. attempts[r] \in Seq(AttemptRecord) /\ attempts \in [Requests -> Seq(AttemptRecord)]
        BY DEF TypeOK
      <4>2. Append(attempts[r], [to |-> NextTarget(r), admitted |-> FALSE, sent |-> FALSE])
              \in Seq(AttemptRecord)
        BY <3>1, <4>1, AppendFacts
      <4> QED
        BY <2>6, <4>1, <4>2 DEF AttemptDenied
    <3>3. /\ pc' = [pc EXCEPT ![r] = "failed"]
          /\ err' = [err EXCEPT ![r] = "unavailable"]
          /\ UNCHANGED <<input, client, body, ctx, elapsed, deadline, recorded, mirrored, response>>
      BY <2>6 DEF AttemptDenied
    <3> QED
      BY <3>2, <3>3 DEF TypeOK, response, Errors
  <2>7. CASE AttemptAdmitted(r)
    <3>1. NextTarget(r) \in Upstreams
      BY <2>7, AttemptType DEF AttemptAdmitted
    <3>2. [to |-> NextTarget(r), admitted |-> TRUE, sent |-> ctx[r] = "live"] \in AttemptRecord
      BY <3>1 DEF AttemptRecord
    <3>3. AttemptDeadline(r, NextTarget(r)) \in Nat
      BY <3>1, ConfigAssumption DEF AttemptDeadline, TypeOK
    <3>4. attempts' \in [Requests -> Seq(AttemptRecord)]
      <4>1. attempts[r] \in Seq(AttemptRecord) /\ attempts \in [Requests -> Seq(AttemptRecord)]
        BY DEF TypeOK
      <4>2. Append(attempts[r], [to |-> NextTarget(r), admitted |-> TRUE, sent |-> ctx[r] = "live"])
              \in Seq(AttemptRecord)
        BY <3>2, <4>1, AppendFacts
      <4> QED
        BY <2>7, <4>1, <4>2 DEF AttemptAdmitted
    <3>5. deadline' \in [Requests -> Nat]
      BY <2>7, <3>3 DEF TypeOK, AttemptAdmitted
    <3>6. /\ pc' = [pc EXCEPT ![r] = "inflight"]
          /\ UNCHANGED <<input, client, body, ctx, elapsed, err, recorded, mirrored, response>>
      BY <2>7 DEF AttemptAdmitted
    <3> QED
      BY <3>4, <3>5, <3>6 DEF TypeOK, response
  <2>8. ASSUME NEW e \in Errors, SendFails(r, e) PROVE TypeOK'
    BY <2>8, RecordType DEF TypeOK, SendFails, response
  <2>9. CASE TransportFails(r)
    BY <2>9, <2>8 DEF TransportFails, Errors
  <2>10. CASE AttemptExpires(r)
    BY <2>10, <2>8 DEF AttemptExpires, Errors
  <2>11. CASE ContextDone(r)
    BY <2>11, <2>8 DEF ContextDone, Errors, TypeOK
  <2>12. CASE Respond(r)
    <3>1. recorded' \in [Requests -> [Upstreams -> Nat]]
      BY <2>12, RecordType DEF Respond
    <3>2. status' \in [Requests -> Nat] /\ wrapped' \in [Requests -> Nat]
      BY <2>12, HeaderType DEF Respond, UpstreamStatus
    <3> QED
      BY <2>12, <3>1, <3>2 DEF TypeOK, Respond
  <2>19. CASE UpgradeFails(r)
    <3>1. recorded' \in [Requests -> [Upstreams -> Nat]]
      BY <2>19, RecordType DEF UpgradeFails
    <3>2. status' \in [Requests -> Nat] /\ wrapped' \in [Requests -> Nat]
      BY <2>19, HeaderType DEF UpgradeFails, ErrorStatus
    <3>3. observed' \in [Requests -> Nat]
      BY <2>19, <3>2 DEF UpgradeFails, TypeOK
    <3> QED
      BY <2>19, <3>1, <3>2, <3>3 DEF TypeOK, UpgradeFails
  <2>20. CASE Upgrade(r)
    <3>1. recorded' \in [Requests -> [Upstreams -> Nat]]
      BY <2>20, RecordType DEF Upgrade
    <3> QED
      BY <2>20, <3>1 DEF TypeOK, Upgrade
  <2>21. CASE TunnelEnds(r)
    BY <2>21 DEF TypeOK, TunnelEnds, transport
  <2>13. CASE FailOver(r)
    BY <2>13 DEF TypeOK, FailOver, transport, response
  <2>14. CASE GiveUp(r)
    BY <2>14 DEF TypeOK, GiveUp, WriteHeader, ErrorStatus, transport
  <2>15. CASE RelayDone(r)
    BY <2>15 DEF TypeOK, RelayDone, transport
  <2>16. CASE RelayBreaks(r) \/ RelayExpires(r)
    BY <2>16 DEF TypeOK, RelayBreaks, RelayExpires, Abort, transport, response
  <2>17. CASE Tick(r)
    BY <2>17 DEF TypeOK, Tick, transport, response
  <2>22. CASE ClientStalls(r) \/ ClientResumes(r)
    BY <2>22 DEF TypeOK, ClientStalls, ClientResumes, transport, response
  <2>18. CASE CeilingFires(r) \/ ClientLeaves(r)
    BY <2>18 DEF TypeOK, CeilingFires, ClientLeaves, EndContext, transport, response
  <2> QED
    BY <1>2, <2>1, <2>2, <2>3, <2>4, <2>5, <2>6, <2>7, <2>9, <2>10, <2>11, <2>12,
       <2>13, <2>14, <2>15, <2>16, <2>17, <2>18, <2>19, <2>20, <2>21, <2>22 DEF Step, TunnelExpires
<1> QED
  BY <1>1, <1>2 DEF Next
-----------------------------------------------------------------------------
(* The other parts of the inductive invariant, action by action.           *)

(* What has an element is not empty.                                       *)
LEMMA OneIsSome == ASSUME NEW s, Len(s) = 1 PROVE s # <<>>
OBVIOUS

LEMMA InitInv == Init => IInv
<1> SUFFICES ASSUME Init PROVE IInv
  OBVIOUS
<1>1. TypeOK
  BY InitType
<1>2. Routed /\ Hops /\ OneHop
  BY DEF Init, Routed, Hops, OneHop
<1>3. WithinCeiling /\ DeadlineWithin
  BY ConfigAssumption DEF Init, WithinCeiling, DeadlineWithin
<1>4. NothingYet /\ MirrorOnce
  BY DEF Init, NothingYet, MirrorOnce
<1> QED
  BY <1>1, <1>2, <1>3, <1>4 DEF IInv

(* Attempts are made one at a time, the second only as a legal failover.   *)
LEMMA HopsStep == IInv /\ TypeOK' /\ [Next]_vars => Routed' /\ Hops' /\ OneHop'
<1> DEFINE P == Routed /\ Hops /\ OneHop
<1> SUFFICES ASSUME IInv, TypeOK', [Next]_vars PROVE P'
  OBVIOUS
<1> USE DEF IInv
<1>1. CASE UNCHANGED vars
  BY <1>1 DEF vars, Routed, Hops, OneHop, Current, canFailover
<1>2. ASSUME NEW r \in Requests, Step(r) PROVE P'
  <2>1. ASSUME attempts' = attempts, pc[r] \in {"idle", "reading"},
               pc'[r] \in {"reading", "attempt"} => input'[r] \in Inputs /\ input'[r].upstream \in Upstreams,
               pc'[r] \in {"reading", "attempt", "done"},
               \A q \in Requests \ {r} : pc'[q] = pc[q] /\ input'[q] = input[q] /\ body'[q] = body[q]
        PROVE  P'
    <3>1. Len(attempts[r]) = 0
      BY <2>1 DEF Hops
    <3>2. Routed'
      BY <2>1 DEF Routed
    <3>3. Hops'
      BY <2>1, <3>1 DEF Hops, Current, canFailover
    <3>4. OneHop'
      BY <2>1, <3>1 DEF OneHop
    <3> QED
      BY <3>2, <3>3, <3>4
  <2>2. ASSUME NEW in \in Inputs, Refuse(r, in, 413) \/ Refuse(r, in, 404) \/ Admit(r, in) PROVE P'
    <3>1. /\ attempts' = attempts /\ body' = body
          /\ input' = [input EXCEPT ![r] = in]
          /\ \/ pc' = [pc EXCEPT ![r] = "done"]
             \/ pc' = [pc EXCEPT ![r] = "reading"] /\ in.upstream \in Upstreams
          /\ pc[r] = "idle"
      BY <2>2 DEF Refuse, Admit, transport
    <3> QED
      BY <2>1, <3>1 DEF TypeOK
  <2>3. CASE BufferBody(r) \/ BufferFails(r)
    <3>1. /\ attempts' = attempts /\ input' = input
          /\ pc' = [pc EXCEPT ![r] = "attempt"]
          /\ \E w : body' = [body EXCEPT ![r] = w]
          /\ pc[r] = "reading"
      BY <2>3 DEF BufferBody, BufferFails, transport
    <3>2. input[r] \in Inputs /\ input[r].upstream \in Upstreams
      BY <3>1 DEF Routed
    <3>3. pc'[r] = "attempt"
      BY <3>1 DEF TypeOK
    <3>4. \A q \in Requests \ {r} : pc'[q] = pc[q] /\ input'[q] = input[q] /\ body'[q] = body[q]
      BY <3>1 DEF TypeOK
    <3> QED
      BY <2>1, <3>1, <3>2, <3>3, <3>4
  <2>4. ASSUME NEW rec \in AttemptRecord, rec.to = NextTarget(r), pc[r] = "attempt",
               attempts' = [attempts EXCEPT ![r] = Append(@, rec)],
               NEW next \in {"failed", "inflight"}, pc' = [pc EXCEPT ![r] = next],
               next = "inflight" => rec.admitted,
               UNCHANGED <<input, body>>
        PROVE  P'
    <3>1. attempts[r] \in Seq(AttemptRecord)
      BY DEF TypeOK
    <3>2. Len(attempts'[r]) = Len(attempts[r]) + 1 /\ attempts'[r][Len(attempts[r]) + 1] = rec
      BY <2>4, <3>1, AppendFacts DEF TypeOK
    <3>3. \A i \in 1 .. Len(attempts[r]) : attempts'[r][i] = attempts[r][i]
      BY <2>4, <3>1, AppendFacts DEF TypeOK
    <3>4. ASSUME NEW q \in Requests \ {r} PROVE attempts'[q] = attempts[q] /\ pc'[q] = pc[q]
      <4>1. attempts'[q] = attempts[q]
        BY <2>4 DEF TypeOK
      <4>2. pc'[q] = pc[q]
        BY <2>4 DEF TypeOK
      <4> QED
        BY <4>1, <4>2
    <3>5. Len(attempts[r]) = 0 => rec.to = input[r].upstream
      BY <2>4, <3>1 DEF NextTarget
    <3>6. ASSUME Len(attempts[r]) = 1 PROVE rec.to = Fallback[input[r].upstream]
      <4>1. attempts[r] # <<>>
        BY <3>6, OneIsSome
      <4> QED
        BY <2>4, <4>1 DEF NextTarget
    <3>7. Len(attempts[r]) \in {0, 1}
      BY <2>4 DEF Hops
    <3>8. Len(attempts[r]) = 1 => canFailover(r)
      BY <2>4 DEF Hops
    <3>9. Routed'
      <4>1. input[r] \in Inputs /\ input[r].upstream \in Upstreams
        BY <2>4 DEF Routed
      <4> QED
        BY <2>4, <3>4, <4>1 DEF Routed
    <3>10. Hops'
      <4>1. pc'[r] = next
        BY <2>4 DEF TypeOK
      <4>2. \A q \in Requests : canFailover(q)' = canFailover(q)
        BY <2>4 DEF canFailover
      <4>3. Current(r)' = rec
        BY <3>1, <3>2 DEF Current
      <4>4. \A q \in Requests \ {r} : Current(q)' = Current(q)
        BY <3>4 DEF Current
      <4>5. Len(attempts'[r]) \in {1, 2} /\ (Len(attempts'[r]) = 2 => Len(attempts[r]) = 1)
        <5>1. ASSUME NEW k \in {0, 1} PROVE k + 1 \in {1, 2} /\ (k + 1 = 2 => k = 1)
          OBVIOUS
        <5> QED
          BY <3>2, <3>7, <5>1
      <4> QED
        BY <2>4, <3>4, <3>8, <4>1, <4>2, <4>3, <4>4, <4>5 DEF Hops
    <3>11. OneHop'
      BY <2>4, <3>2, <3>3, <3>4, <3>5, <3>6, <3>7 DEF OneHop
    <3> QED
      BY <3>9, <3>10, <3>11
  <2>5. CASE AttemptDenied(r)
    <3>1. [to |-> NextTarget(r), admitted |-> FALSE, sent |-> FALSE] \in AttemptRecord
      BY <2>5, AttemptType DEF AttemptDenied, AttemptRecord
    <3> QED
      BY <2>4, <2>5, <3>1 DEF AttemptDenied
  <2>6. CASE AttemptAdmitted(r)
    <3>1. [to |-> NextTarget(r), admitted |-> TRUE, sent |-> ctx[r] = "live"] \in AttemptRecord
      BY <2>6, AttemptType DEF AttemptAdmitted, AttemptRecord
    <3> QED
      BY <2>4, <2>6, <3>1 DEF AttemptAdmitted
  <2>7. ASSUME UNCHANGED <<attempts, input, body>>, pc[r] \in {"inflight", "failed", "relaying", "tunnel"},
               \A q \in Requests \ {r} : pc'[q] = pc[q],
               \/ pc'[r] \in {"failed", "relaying", "tunnel", "done", "aborted"}
               \/ pc'[r] = "attempt" /\ Len(attempts[r]) = 1 /\ canFailover(r)
        PROVE  P'
    <3>1. Routed'
      BY <2>7 DEF Routed
    <3>2. Hops'
      BY <2>7 DEF Hops, Current, canFailover
    <3>3. OneHop'
      BY <2>7 DEF OneHop
    <3> QED
      BY <3>1, <3>2, <3>3
  <2>8. CASE Respond(r) \/ GiveUp(r) \/ RelayDone(r) \/ Abort(r) \/ \E e : SendFails(r, e)
    BY <2>7, <2>8 DEF TypeOK, SendFails, Respond, GiveUp, RelayDone, Abort, transport
  <2>11. CASE UpgradeFails(r) \/ Upgrade(r) \/ TunnelEnds(r)
    BY <2>7, <2>11 DEF TypeOK, UpgradeFails, Upgrade, TunnelEnds, transport
  <2>9. CASE FailOver(r)
    BY <2>7, <2>9 DEF TypeOK, FailOver, MayFailOver, transport
  <2>10. ASSUME NEW how, Tick(r) \/ EndContext(r, how) \/ ClientStalls(r) \/ ClientResumes(r)
         PROVE  P'
    <3>1. UNCHANGED <<pc, input, body, attempts>>
      BY <2>10 DEF Tick, EndContext, ClientStalls, ClientResumes, transport
    <3> QED
      BY <3>1 DEF Routed, Hops, OneHop, Current, canFailover
  <2> QED
    BY <1>2, <2>2, <2>3, <2>5, <2>6, <2>8, <2>9, <2>10, <2>11
    DEF Step, TunnelExpires, RefuseTooLarge, RefuseUnrouted, TransportFails, AttemptExpires, ContextDone,
        RelayBreaks, RelayExpires, CeilingFires, ClientLeaves
<1> QED
  BY <1>1, <1>2 DEF Next

(* Time: only Tick advances it, and an attempt starts within the ceiling.  *)
LEMMA CeilingStep ==
  IInv /\ TypeOK' /\ [Next]_vars => WithinCeiling' /\ DeadlineWithin'
<1> DEFINE P == WithinCeiling /\ DeadlineWithin
<1> SUFFICES ASSUME IInv, TypeOK', [Next]_vars PROVE P'
  OBVIOUS
<1> USE ConfigAssumption DEF IInv
<1>1. CASE UNCHANGED vars
  BY <1>1 DEF vars, WithinCeiling, DeadlineWithin
<1>2. ASSUME NEW r \in Requests, Step(r) PROVE P'
  <2>1. ASSUME UNCHANGED <<elapsed, deadline>>,
               \A q \in Requests : pc'[q] \in {"inflight", "relaying", "tunnel"} =>
                                      pc[q] \in {"inflight", "relaying", "tunnel"}
        PROVE  P'
    BY <2>1 DEF WithinCeiling, DeadlineWithin
  <2>2. ASSUME NEW next \in {"reading", "attempt", "failed", "done", "aborted"},
               UNCHANGED <<elapsed, deadline>>, pc' = [pc EXCEPT ![r] = next]
        PROVE  P'
    BY <2>1, <2>2 DEF TypeOK
  <2>3. ASSUME NEW in \in Inputs, Refuse(r, in, 413) \/ Refuse(r, in, 404) \/ Admit(r, in) PROVE P'
    BY <2>2, <2>3 DEF Refuse, Admit, transport
  <2>4. CASE BufferBody(r) \/ BufferFails(r) \/ AttemptDenied(r) \/ \E e : SendFails(r, e)
    BY <2>2, <2>4 DEF BufferBody, BufferFails, AttemptDenied, SendFails, transport
  <2>5. CASE FailOver(r) \/ GiveUp(r) \/ RelayDone(r) \/ Abort(r) \/ UpgradeFails(r) \/ TunnelEnds(r)
    BY <2>2, <2>5 DEF FailOver, GiveUp, RelayDone, Abort, UpgradeFails, TunnelEnds, transport
  <2>6. CASE AttemptAdmitted(r)
    <3>1. NextTarget(r) \in Upstreams
      BY <2>6, AttemptType DEF AttemptAdmitted
    <3>2. elapsed[r] \in Nat /\ elapsed[r] <= Ceiling /\ Timeout[NextTarget(r)] \in Nat
      BY <3>1 DEF TypeOK, WithinCeiling
    <3>3. AttemptDeadline(r, NextTarget(r)) <= Ceiling
      BY <3>2 DEF AttemptDeadline
    <3> QED
      BY <2>6, <3>3 DEF AttemptAdmitted, TypeOK, WithinCeiling, DeadlineWithin
  <2>7. CASE Respond(r) \/ Upgrade(r)
    <3>1. /\ UNCHANGED <<elapsed, deadline>> /\ pc[r] = "inflight"
          /\ \E next : pc' = [pc EXCEPT ![r] = next]
      BY <2>7 DEF Respond, Upgrade
    <3>2. \A q \in Requests \ {r} : pc'[q] = pc[q]
      BY <3>1 DEF TypeOK
    <3> QED
      BY <2>1, <3>1, <3>2
  <2>8. CASE Tick(r)
    <3>1. elapsed' = [elapsed EXCEPT ![r] = @ + 1] /\ UNCHANGED <<pc, deadline>>
      BY <2>8 DEF Tick, transport
    <3>2. elapsed[r] \in Nat /\ deadline[r] \in Nat
      BY DEF TypeOK
    <3>3. Watched(r) => deadline[r] <= Ceiling
      BY DEF Watched, DeadlineWithin
    <3>4. elapsed[r] + 1 <= Ceiling
      BY <2>8, <3>2, <3>3 DEF Tick
    <3>5. elapsed'[r] = elapsed[r] + 1 /\ \A q \in Requests \ {r} : elapsed'[q] = elapsed[q]
      BY <3>1 DEF TypeOK
    <3>6. WithinCeiling'
      BY <3>4, <3>5 DEF WithinCeiling
    <3>7. DeadlineWithin'
      BY <3>1 DEF DeadlineWithin
    <3> QED
      BY <3>6, <3>7
  <2>9. ASSUME NEW how, EndContext(r, how) \/ ClientStalls(r) \/ ClientResumes(r) PROVE P'
    BY <2>1, <2>9 DEF EndContext, ClientStalls, ClientResumes, transport
  <2> QED
    BY <1>2, <2>3, <2>4, <2>5, <2>6, <2>7, <2>8, <2>9
    DEF Step, TunnelExpires, RefuseTooLarge, RefuseUnrouted, TransportFails, AttemptExpires, ContextDone,
        RelayBreaks, RelayExpires, CeilingFires, ClientLeaves
<1> QED
  BY <1>1, <1>2 DEF Next

(* Mirroring happens with the buffering of the body, the status line with  *)
(* the end of the last attempt.                                            *)
LEMMA OutputStep ==
  IInv /\ TypeOK' /\ [Next]_vars => NothingYet' /\ MirrorOnce'
<1> DEFINE P == NothingYet /\ MirrorOnce
<1> SUFFICES ASSUME IInv, TypeOK', [Next]_vars PROVE P'
  OBVIOUS
<1> USE DEF IInv
<1>1. CASE UNCHANGED vars
  BY <1>1 DEF vars, NothingYet, MirrorOnce
<1>2. ASSUME NEW r \in Requests, Step(r) PROVE P'
  <2>1. ASSUME NEW next \in {"attempt", "inflight", "failed", "relaying", "tunnel", "done", "aborted"},
               pc[r] \in {"attempt", "inflight", "failed", "relaying", "tunnel"},
               pc' = [pc EXCEPT ![r] = next],
               \/ next \in {"relaying", "tunnel", "done", "aborted"}
               \/ status' = status /\ pc[r] \notin {"relaying", "tunnel"},
               status' = status \/ \E code : status' = [status EXCEPT ![r] = code],
               UNCHANGED <<input, body, mirrored>>
        PROVE  P'
    <3>1. pc'[r] = next /\ \A q \in Requests \ {r} : pc'[q] = pc[q]
      BY <2>1 DEF TypeOK
    <3>2. \A q \in Requests \ {r} : status'[q] = status[q]
      <4>1. CASE status' = status
        BY <4>1
      <4>2. ASSUME NEW code, status' = [status EXCEPT ![r] = code]
            PROVE  \A q \in Requests \ {r} : status'[q] = status[q]
        BY <4>2 DEF TypeOK
      <4> QED
        BY <2>1, <4>1, <4>2
    <3>3. next \in {"attempt", "inflight", "failed"} => status'[r] = 0
      BY <2>1 DEF NothingYet
    <3>4. NothingYet'
      BY <2>1, <3>1, <3>3, <3>2 DEF NothingYet
    <3>5. MirrorOnce'
      BY <2>1 DEF MirrorOnce
    <3> QED
      BY <3>4, <3>5
  <2>2. ASSUME NEW in \in Inputs, NEW code, Refuse(r, in, code) PROVE P'
    <3>1. pc'[r] = "done" /\ mirrored[r] = 0
      BY <2>2 DEF Refuse, TypeOK, NothingYet
    <3>2. mirrored' = mirrored /\ body' = body
      BY <2>2 DEF Refuse
    <3>3. \A q \in Requests \ {r} : pc'[q] = pc[q] /\ status'[q] = status[q] /\ input'[q] = input[q]
      BY <2>2 DEF Refuse, TypeOK
    <3>4. NothingYet'
      BY <3>1, <3>2, <3>3 DEF NothingYet
    <3>5. MirrorOnce'
      BY <3>1, <3>2, <3>3 DEF MirrorOnce
    <3> QED
      BY <3>4, <3>5
  <2>3. ASSUME NEW in \in Inputs, Admit(r, in) PROVE P'
    BY <2>3 DEF Admit, TypeOK, NothingYet, MirrorOnce
  <2>4. CASE BufferBody(r)
    <3>1. mirrored[r] = 0 /\ status[r] = 0
      BY <2>4 DEF BufferBody, NothingYet
    <3>2. /\ pc'[r] = "attempt" /\ body'[r] = "whole" /\ input' = input /\ status' = status
          /\ mirrored'[r] = IF input[r].mirrors THEN 1 ELSE 0
      BY <2>4, <3>1 DEF BufferBody, TypeOK, response
    <3>3. \A q \in Requests \ {r} :
             pc'[q] = pc[q] /\ body'[q] = body[q] /\ mirrored'[q] = mirrored[q]
      BY <2>4 DEF BufferBody, TypeOK
    <3>4. NothingYet'
      BY <3>1, <3>2, <3>3 DEF NothingYet
    <3>5. MirrorOnce'
      BY <3>2, <3>3 DEF MirrorOnce
    <3> QED
      BY <3>4, <3>5
  <2>5. CASE BufferFails(r)
    <3>1. mirrored[r] = 0 /\ status[r] = 0
      BY <2>5 DEF BufferFails, NothingYet
    <3>2. pc'[r] = "attempt" /\ input' = input /\ status' = status /\ mirrored' = mirrored
      BY <2>5 DEF BufferFails, TypeOK, response
    <3>3. \A q \in Requests \ {r} : pc'[q] = pc[q] /\ body'[q] = body[q]
      BY <2>5 DEF BufferFails, TypeOK
    <3>4. NothingYet'
      BY <3>1, <3>2, <3>3 DEF NothingYet
    <3>5. MirrorOnce'
      BY <3>1, <3>2, <3>3 DEF MirrorOnce
    <3> QED
      BY <3>4, <3>5
  <2>6. CASE AttemptDenied(r) \/ AttemptAdmitted(r) \/ \E e : SendFails(r, e)
    BY <2>1, <2>6 DEF AttemptDenied, AttemptAdmitted, SendFails, response
  <2>7. CASE Respond(r) \/ Upgrade(r) \/ UpgradeFails(r)
    BY <2>1, <2>7 DEF Respond, Upgrade, UpgradeFails, WriteHeader
  <2>8. CASE FailOver(r) \/ GiveUp(r)
    BY <2>1, <2>8 DEF FailOver, GiveUp, WriteHeader, response
  <2>9. CASE RelayDone(r) \/ Abort(r) \/ TunnelEnds(r)
    BY <2>1, <2>9 DEF RelayDone, Abort, TunnelEnds, response
  <2>10. ASSUME NEW how, Tick(r) \/ EndContext(r, how) \/ ClientStalls(r) \/ ClientResumes(r)
         PROVE  P'
    <3>1. UNCHANGED <<pc, input, body, mirrored, status>>
      BY <2>10 DEF Tick, EndContext, ClientStalls, ClientResumes, response
    <3> QED
      BY <3>1 DEF NothingYet, MirrorOnce
  <2> QED
    BY <1>2, <2>2, <2>3, <2>4, <2>5, <2>6, <2>7, <2>8, <2>9, <2>10
    DEF Step, TunnelExpires, RefuseTooLarge, RefuseUnrouted, TransportFails, AttemptExpires, ContextDone,
        RelayBreaks, RelayExpires, CeilingFires, ClientLeaves
<1> QED
  BY <1>1, <1>2 DEF Next

LEMMA InvStep == IInv /\ [Next]_vars => IInv'
<1> SUFFICES ASSUME IInv, [Next]_vars PROVE IInv'
  OBVIOUS
<1>1. TypeOK'
  BY TypeStep DEF IInv
<1> QED
  BY <1>1, HopsStep, CeilingStep, OutputStep DEF IInv

LEMMA Invariance == Spec => []IInv
BY InitInv, InvStep, PTL DEF Spec

(* Two attempts are a failover, to another upstream.                       *)
LEMMA TwoAttempts ==
  ASSUME IInv, NEW r \in Requests,
         NEW i \in DOMAIN attempts[r], NEW j \in DOMAIN attempts[r], i # j
  PROVE  attempts[r][i].to # attempts[r][j].to /\ canFailover(r)
<1> USE DEF IInv
<1>1. attempts[r] \in Seq(AttemptRecord) /\ Len(attempts[r]) <= 2
  BY DEF TypeOK, OneHop
<1>2. i \in 1 .. 2 /\ j \in 1 .. 2 /\ Len(attempts[r]) = 2
  <2> DEFINE n == Len(attempts[r])
  <2>1. n \in Nat /\ DOMAIN attempts[r] = 1 .. n /\ n <= 2
    BY <1>1
  <2> HIDE DEF n
  <2>2. i \in 1 .. n /\ j \in 1 .. n
    BY <2>1
  <2>3. i \in 1 .. 2 /\ j \in 1 .. 2 /\ n = 2
    BY <2>1, <2>2
  <2> QED
    BY <2>3 DEF n
<1>3. (i = 1 /\ j = 2) \/ (i = 2 /\ j = 1)
  BY <1>2
<1>4. canFailover(r)
  BY <1>2 DEF Hops
<1>5. attempts[r][1].to = input[r].upstream /\ attempts[r][2].to = Fallback[input[r].upstream]
  BY <1>2 DEF OneHop
<1>6. attempts[r][1].to \in Upstreams
  <2>1. attempts[r][1] \in AttemptRecord
    BY <1>1, <1>2
  <2> QED
    BY <2>1 DEF AttemptRecord
<1>7. attempts[r][1].to # attempts[r][2].to
  BY <1>5, <1>6, ConfigAssumption
<1> QED
  BY <1>3, <1>4, <1>7

(* The gate's ledger: an attempt concludes when its outcome is recorded.   *)
LEMMA LedgerStep == IInv /\ GateLedger /\ TypeOK' /\ [Next]_vars => GateLedger'
<1> SUFFICES ASSUME IInv, GateLedger, TypeOK', [Next]_vars PROVE GateLedger'
  OBVIOUS
<1> USE DEF IInv
<1>1. CASE UNCHANGED vars
  BY <1>1 DEF vars, GateLedger, Concluded
<1>2. ASSUME NEW r \in Requests, Step(r) PROVE GateLedger'
  <2>1. ASSUME UNCHANGED <<attempts, recorded>>,
               \A q \in Requests : pc'[q] = "inflight" <=> pc[q] = "inflight"
        PROVE  GateLedger'
    BY <2>1 DEF GateLedger, Concluded
  <2>2. ASSUME UNCHANGED <<attempts, recorded>>, pc[r] # "inflight",
               NEW next \in {"reading", "attempt", "done", "aborted"},
               pc' = [pc EXCEPT ![r] = next]
        PROVE  GateLedger'
    <3>1. pc \in [Requests -> {"idle", "reading", "attempt", "inflight", "failed",
                               "relaying", "tunnel", "done", "aborted"}]
      BY DEF TypeOK
    <3>2. \A q \in Requests : pc'[q] = IF q = r THEN next ELSE pc[q]
      BY <2>2, <3>1
    <3> QED
      BY <2>1, <2>2, <3>2
  <2>3. ASSUME NEW rec \in AttemptRecord, pc[r] = "attempt", UNCHANGED recorded,
               attempts' = [attempts EXCEPT ![r] = Append(@, rec)],
               NEW next, pc' = [pc EXCEPT ![r] = next], rec.admitted => next = "inflight"
        PROVE  GateLedger'
    <3> DEFINE n == Len(attempts[r])
    <3>1. attempts[r] \in Seq(AttemptRecord) /\ n \in Nat /\ DOMAIN attempts[r] = 1 .. n
      BY DEF TypeOK
    <3>2. attempts'[r] = Append(attempts[r], rec) /\ pc'[r] = next
      BY <2>3 DEF TypeOK
    <3>3. /\ Len(attempts'[r]) = n + 1 /\ DOMAIN attempts'[r] = 1 .. n + 1
          /\ attempts'[r][n + 1] = rec
          /\ \A i \in 1 .. n : attempts'[r][i] = attempts[r][i]
      BY <3>1, <3>2, AppendFacts
    <3>4. \A q \in Requests \ {r} : attempts'[q] = attempts[q] /\ pc'[q] = pc[q]
      BY <2>3 DEF TypeOK
    <3>5. ASSUME NEW u \in Upstreams PROVE Concluded(r, u)' <=> Concluded(r, u)
      <4> HIDE DEF n
      <4>1. Concluded(r, u) <=>
              \E i \in 1 .. n : attempts[r][i].to = u /\ attempts[r][i].admitted
        BY <2>3, <3>1 DEF Concluded
      <4>2. Concluded(r, u)' <=>
              \E i \in 1 .. n + 1 :
                /\ attempts'[r][i].to = u /\ attempts'[r][i].admitted
                /\ ~(i = n + 1 /\ next = "inflight")
        BY <3>2, <3>3 DEF Concluded
      <4>3. \A i \in 1 .. n + 1 : i = n + 1 \/ i \in 1 .. n
        BY <3>1
      <4>4. \A i \in 1 .. n : i \in 1 .. n + 1 /\ i # n + 1
        BY <3>1
      <4> QED
        BY <2>3, <3>3, <4>1, <4>2, <4>3, <4>4
    <3> QED
      BY <2>3, <3>4, <3>5 DEF GateLedger, Concluded
  <2>4. ASSUME pc[r] = "inflight", Record(r), UNCHANGED attempts,
               NEW next \in {"failed", "relaying", "tunnel", "done"}, pc' = [pc EXCEPT ![r] = next]
        PROVE  GateLedger'
    <3>1. PICK n \in 1 .. 2 : n = Len(attempts[r])
      BY <2>4 DEF Hops
    <3>2. attempts[r] \in Seq(AttemptRecord) /\ n \in DOMAIN attempts[r] /\ attempts[r][n] = Current(r)
      BY <3>1 DEF TypeOK, Current
    <3>3. attempts[r][n] \in AttemptRecord /\ attempts[r][n].admitted
      BY <2>4, <3>2 DEF Hops
    <3>4. PICK to \in Upstreams : to = attempts[r][n].to
      BY <3>3 DEF AttemptRecord
    <3>5. /\ pc'[r] = next
          /\ \A q \in Requests \ {r} : pc'[q] = pc[q] /\ recorded'[q] = recorded[q]
      BY <2>4 DEF TypeOK, Record
    <3>6. Concluded(r, to)'
      BY <2>4, <3>2, <3>3, <3>4, <3>5 DEF Concluded
    <3>7. ~Concluded(r, to)
      BY <2>4, <3>1, <3>2, <3>4, TwoAttempts DEF Concluded
    <3>8. ASSUME NEW u \in Upstreams, u # to PROVE Concluded(r, u)' <=> Concluded(r, u)
      BY <2>4, <3>1, <3>4, <3>5, <3>8 DEF Concluded
    <3>9. recorded[r] \in [Upstreams -> Nat] /\ recorded'[r] = [recorded[r] EXCEPT ![to] = @ + 1]
      BY <2>4, <3>2, <3>4 DEF TypeOK, Record
    <3>10. recorded[r][to] = 0 /\ recorded'[r][to] = 1
      BY <3>7, <3>9 DEF GateLedger
    <3>11. \A u \in Upstreams : recorded'[r][u] = IF Concluded(r, u)' THEN 1 ELSE 0
      <4>1. TAKE u \in Upstreams
      <4>2. CASE u = to
        BY <3>6, <3>10, <4>2
      <4>3. CASE u # to
        <5>1. recorded'[r][u] = recorded[r][u]
          BY <3>9, <4>3
        <5>2. recorded[r][u] = IF Concluded(r, u) THEN 1 ELSE 0
          BY DEF GateLedger
        <5> QED
          BY <3>8, <4>3, <5>1, <5>2
      <4> QED
        BY <4>2, <4>3
    <3>12. \A q \in Requests \ {r} : \A u \in Upstreams : Concluded(q, u)' <=> Concluded(q, u)
      BY <2>4, <3>5 DEF Concluded
    <3> QED
      BY <3>5, <3>11, <3>12 DEF GateLedger
  <2>5. ASSUME NEW in \in Inputs, Refuse(r, in, 413) \/ Refuse(r, in, 404) \/ Admit(r, in)
        PROVE  GateLedger'
    BY <2>2, <2>5 DEF Refuse, Admit, transport
  <2>6. CASE BufferBody(r) \/ BufferFails(r) \/ FailOver(r) \/ GiveUp(r) \/ RelayDone(r) \/ Abort(r)
             \/ TunnelEnds(r)
    BY <2>2, <2>6 DEF BufferBody, BufferFails, FailOver, GiveUp, RelayDone, Abort, TunnelEnds, transport
  <2>7. CASE AttemptDenied(r)
    <3>1. [to |-> NextTarget(r), admitted |-> FALSE, sent |-> FALSE] \in AttemptRecord
      BY <2>7, AttemptType DEF AttemptDenied, AttemptRecord
    <3> QED
      BY <2>3, <2>7, <3>1 DEF AttemptDenied
  <2>8. CASE AttemptAdmitted(r)
    <3>1. [to |-> NextTarget(r), admitted |-> TRUE, sent |-> ctx[r] = "live"] \in AttemptRecord
      BY <2>8, AttemptType DEF AttemptAdmitted, AttemptRecord
    <3> QED
      BY <2>3, <2>8, <3>1 DEF AttemptAdmitted
  <2>9. CASE Respond(r) \/ Upgrade(r) \/ UpgradeFails(r) \/ \E e : SendFails(r, e)
    BY <2>4, <2>9 DEF Respond, Upgrade, UpgradeFails, SendFails
  <2>10. ASSUME NEW how, Tick(r) \/ EndContext(r, how) \/ ClientStalls(r) \/ ClientResumes(r)
         PROVE  GateLedger'
    BY <2>1, <2>10 DEF Tick, EndContext, ClientStalls, ClientResumes, transport
  <2> QED
    BY <1>2, <2>5, <2>6, <2>7, <2>8, <2>9, <2>10
    DEF Step, TunnelExpires, RefuseTooLarge, RefuseUnrouted, TransportFails, AttemptExpires, ContextDone,
        RelayBreaks, RelayExpires, CeilingFires, ClientLeaves
<1> QED
  BY <1>1, <1>2 DEF Next

-----------------------------------------------------------------------------
(* The theorems.                                                           *)

(* Every variable of the request path keeps its type.                      *)
THEOREM TypeCorrect == Spec => []TypeOK
BY Invariance, PTL DEF IInv

(* RoundTrip follows a fallback for one hop only, however the configured   *)
(* fallbacks chain or form a cycle.                                        *)
THEOREM OneHopHolds == Spec => []OneHop
BY Invariance, PTL DEF IInv

(* A request goes out twice only to two different upstreams, with a        *)
(* repeatable method and a completely buffered body.                       *)
THEOREM NoDuplicateWorkHolds == Spec => []NoDuplicateWork
<1>1. IInv => NoDuplicateWork
  BY TwoAttempts DEF NoDuplicateWork, NotRepeatable, canFailover, idempotent
<1> QED
  BY <1>1, Invariance, PTL

(* A request is mirrored at most once, from a complete body.               *)
THEOREM MirrorOnceHolds == Spec => []MirrorOnce
BY Invariance, PTL DEF IInv

(* The gate is told the outcome of every admitted attempt exactly once, of *)
(* a refused one never.                                                    *)
THEOREM GateLedgerHolds == Spec => []GateLedger
<1>1. Init => GateLedger
  BY DEF Init, GateLedger, Concluded
<1>2. IInv /\ GateLedger /\ [Next]_vars => GateLedger'
  BY TypeStep, LedgerStep DEF IInv
<1> QED
  BY <1>1, <1>2, Invariance, PTL DEF Spec

(* A request is copied to the mirrors before its first attempt, never by   *)
(* an attempt or a failover.                                               *)
THEOREM MirrorBeforeAttemptsHolds == Spec => MirrorBeforeAttempts
<1> DEFINE A == \A r \in Requests : mirrored'[r] # mirrored[r] => attempts[r] = <<>>
<1>1. IInv /\ [Next]_vars => [A]_vars
  <2> SUFFICES ASSUME IInv, NEW q \in Requests, Step(q) PROVE A
    BY DEF Next
  <2>1. CASE UNCHANGED mirrored
    BY <2>1
  <2>2. CASE BufferBody(q)
    <3>1. attempts[q] \in Seq(AttemptRecord) /\ Len(attempts[q]) = 0
      BY <2>2 DEF BufferBody, IInv, TypeOK, Hops
    <3>2. attempts[q] = <<>>
      BY <3>1
    <3>3. \A r \in Requests \ {q} : mirrored'[r] = mirrored[r]
      BY <2>2 DEF BufferBody, IInv, TypeOK
    <3> QED
      BY <3>2, <3>3
  <2> QED
    BY <2>1, <2>2
    DEF Step, RefuseTooLarge, RefuseUnrouted, Refuse, Admit, BufferFails, AttemptDenied,
        AttemptAdmitted, TransportFails, AttemptExpires, ContextDone, SendFails, Respond,
        FailOver, GiveUp, RelayDone, RelayBreaks, RelayExpires, Abort, Tick, CeilingFires,
        ClientLeaves, ClientStalls, ClientResumes, EndContext, Upgrade, UpgradeFails, TunnelEnds,
        TunnelExpires
<1> QED
  BY <1>1, Invariance, PTL DEF Spec, MirrorBeforeAttempts

(* Once a status line is sent it is final and no attempt follows.          *)
THEOREM ResponseFinalHolds == Spec => ResponseFinal
<1> DEFINE A == \A r \in Requests :
                  status[r] # 0 => status'[r] = status[r] /\ attempts'[r] = attempts[r]
<1>1. IInv /\ [Next]_vars => [A]_vars
  <2> SUFFICES ASSUME IInv, NEW q \in Requests, Step(q) PROVE A
    BY DEF Next
  <2>1. CASE UNCHANGED <<status, attempts>>
    BY <2>1
  <2>2. ASSUME pc[q] \notin {"relaying", "tunnel", "done", "aborted"},
               \A r \in Requests \ {q} : status'[r] = status[r] /\ attempts'[r] = attempts[r]
        PROVE  A
    BY <2>2 DEF IInv, NothingYet
  <2>3. ASSUME NEW in, NEW code, Refuse(q, in, code) PROVE A
    BY <2>2, <2>3 DEF Refuse, transport, IInv, TypeOK
  <2>4. CASE AttemptDenied(q)
    BY <2>2, <2>4 DEF AttemptDenied, response, IInv, TypeOK
  <2>5. CASE AttemptAdmitted(q)
    BY <2>2, <2>5 DEF AttemptAdmitted, response, IInv, TypeOK
  <2>6. CASE Respond(q)
    BY <2>2, <2>6 DEF Respond, WriteHeader, IInv, TypeOK
  <2>8. CASE Upgrade(q) \/ UpgradeFails(q)
    <3>1. CASE Upgrade(q)
      BY <2>2, <3>1 DEF Upgrade, IInv, TypeOK
    <3>2. CASE UpgradeFails(q)
      BY <2>2, <3>2 DEF UpgradeFails, WriteHeader, IInv, TypeOK
    <3> QED
      BY <2>8, <3>1, <3>2
  <2>7. CASE GiveUp(q)
    BY <2>2, <2>7 DEF GiveUp, WriteHeader, transport, IInv, TypeOK
  <2> QED
    BY <2>1, <2>3, <2>4, <2>5, <2>6, <2>7, <2>8
    DEF Step, TunnelEnds, TunnelExpires, RefuseTooLarge, RefuseUnrouted, Admit, BufferBody, BufferFails, TransportFails,
        AttemptExpires, ContextDone, SendFails, FailOver, RelayDone, RelayBreaks,
        RelayExpires, Abort, Tick, CeilingFires, ClientLeaves, ClientStalls, ClientResumes,
        EndContext, transport, response
<1> QED
  BY <1>1, Invariance, PTL DEF Spec, ResponseFinal

-----------------------------------------------------------------------------
(* Why a request ends: its work runs out, and until then it never waits    *)
(* for an upstream or a client alone.                                      *)

(* A request is at most ten stages and one stall from its end, and its     *)
(* clock within its ceiling.                                               *)
LeftBounded ==
  \A r \in Requests :
    Stage(r) \in 0 .. 10 /\ Patience(r) \in 0 .. 2 /\ Ceiling - elapsed[r] \in 0 .. Ceiling

LEMMA InvBounds == IInv => LeftBounded
<1> SUFFICES ASSUME IInv, NEW r \in Requests
             PROVE  /\ Stage(r) \in 0 .. 10 /\ Patience(r) \in 0 .. 2
                    /\ Ceiling - elapsed[r] \in 0 .. Ceiling
  BY DEF LeftBounded
<1> USE DEF IInv
<1> DEFINE n == Len(attempts[r])
<1>1. pc[r] = "attempt" => n = 0 \/ n = 1
  BY DEF Hops
<1>2. pc[r] \in {"inflight", "failed"} => n = 1 \/ n = 2
  BY DEF Hops
<1> HIDE DEF n
<1>3. Stage(r) \in 0 .. 10
  <2>1. CASE pc[r] = "attempt"
    <3>1. Stage(r) = 7 - 3 * n
      BY <2>1 DEF Stage, n
    <3> QED
      BY <1>1, <2>1, <3>1
  <2>2. CASE pc[r] = "inflight"
    <3>1. Stage(r) = 9 - 3 * n
      BY <2>2 DEF Stage, n
    <3> QED
      BY <1>2, <2>2, <3>1
  <2>3. CASE pc[r] = "failed"
    <3>1. Stage(r) = 8 - 3 * n
      BY <2>3 DEF Stage, n
    <3> QED
      BY <1>2, <2>3, <3>1
  <2>4. CASE pc[r] \notin {"attempt", "inflight", "failed"}
    BY <2>4 DEF Stage
  <2> QED
    BY <2>1, <2>2, <2>3, <2>4
<1>4. elapsed[r] \in Nat /\ elapsed[r] <= Ceiling /\ Ceiling \in Nat
  BY ConfigAssumption DEF TypeOK, WithinCeiling
<1>5. Patience(r) \in 0 .. 2
  BY DEF TypeOK, Patience
<1> QED
  BY <1>3, <1>4, <1>5

LEMMA NextBounds == IInv' => LeftBounded'
BY InvBounds, PTL

(* A step of r that reaches a later stage, that ends r's context or that   *)
(* its client takes in the same stage, takes something from what is left.  *)
LEMMA StageAdvances ==
  ASSUME IInv, IInv', NEW r \in Requests, UNCHANGED elapsed,
         \/ /\ client' = client
            /\ \/ Stage(r)' < Stage(r) /\ (ctx[r] = "live" \/ ctx'[r] # "live")
               \/ Stage(r)' + 1 < Stage(r)
               \/ Stage(r)' = Stage(r) /\ ctx[r] = "live" /\ ctx'[r] # "live"
         \/ Patience(r)' < Patience(r) /\ Stage(r)' = Stage(r) /\ ctx' = ctx
  PROVE  Left(r)' < Left(r)
<1> DEFINE rest == Ceiling - elapsed[r]
           wait == Patience(r)
           late == Patience(r)'
<1>1. Stage(r) \in 0 .. 10 /\ rest \in Int /\ wait \in 0 .. 2
  BY InvBounds DEF LeftBounded
<1>2. Stage(r)' \in 0 .. 10 /\ late \in 0 .. 2
  BY NextBounds DEF LeftBounded
<1>3. Left(r) = Stage(r) + (IF ctx[r] = "live" THEN 1 ELSE 0) + wait + rest
  BY DEF Left
<1>4. Left(r)' = Stage(r)' + (IF ctx'[r] = "live" THEN 1 ELSE 0) + late + rest
  BY DEF Left
<1>5. client' = client => late = wait
  BY DEF Patience
<1>6. late < wait <=> Patience(r)' < Patience(r)
  OBVIOUS
<1> HIDE DEF rest, wait, late
<1>7. CASE client' = client
  BY <1>1, <1>2, <1>3, <1>4, <1>5, <1>6, <1>7
<1>8. CASE late < wait /\ Stage(r)' = Stage(r) /\ ctx' = ctx
  BY <1>1, <1>2, <1>3, <1>4, <1>8
<1> QED
  BY <1>6, <1>7, <1>8

(* A step of a request leaves the others where they are.                   *)
LEMMA OthersStay ==
  ASSUME IInv, NEW r \in Requests, Step(r), NEW q \in Requests \ {r}
  PROVE  Left(q)' = Left(q)
<1> USE DEF IInv
<1> SUFFICES /\ pc'[q] = pc[q] /\ attempts'[q] = attempts[q]
             /\ ctx'[q] = ctx[q] /\ elapsed'[q] = elapsed[q] /\ client'[q] = client[q]
  BY DEF Left, Stage, Patience
<1>1. ASSUME NEW in, NEW code, Refuse(r, in, code) \/ Admit(r, in)
      PROVE  /\ pc'[q] = pc[q] /\ attempts'[q] = attempts[q]
             /\ ctx'[q] = ctx[q] /\ elapsed'[q] = elapsed[q] /\ client'[q] = client[q]
  BY <1>1 DEF Refuse, Admit, TypeOK, transport
<1>2. CASE BufferBody(r) \/ BufferFails(r)
  BY <1>2 DEF BufferBody, BufferFails, TypeOK, transport
<1>3. CASE AttemptDenied(r) \/ AttemptAdmitted(r)
  BY <1>3 DEF AttemptDenied, AttemptAdmitted, TypeOK
<1>4. CASE \E e : SendFails(r, e)
  BY <1>4 DEF SendFails, TypeOK
<1>5. CASE Respond(r) \/ Upgrade(r) \/ UpgradeFails(r) \/ TunnelEnds(r)
  BY <1>5 DEF Respond, Upgrade, UpgradeFails, TunnelEnds, TypeOK, transport
<1>6. CASE FailOver(r) \/ GiveUp(r) \/ RelayDone(r) \/ Abort(r)
  BY <1>6 DEF FailOver, GiveUp, RelayDone, Abort, TypeOK, transport
<1>7. CASE Tick(r) \/ ClientStalls(r) \/ ClientResumes(r) \/ \E how : EndContext(r, how)
  BY <1>7 DEF Tick, ClientStalls, ClientResumes, EndContext, TypeOK, transport
<1> QED
  BY <1>1, <1>2, <1>3, <1>4, <1>5, <1>6, <1>7
  DEF Step, TunnelExpires, RefuseTooLarge, RefuseUnrouted, TransportFails, AttemptExpires, ContextDone,
      RelayBreaks, RelayExpires, CeilingFires, ClientLeaves

(* A step of a request takes something from what is left of it: it reaches *)
(* a later stage, ends the context or uses up time.                        *)
LEMMA StepCounts ==
  ASSUME IInv, IInv', NEW r \in Requests, Step(r)
  PROVE  Left(r)' < Left(r)
<1> USE DEF IInv
<1> DEFINE n == Len(attempts[r])
<1>1. ASSUME NEW in, NEW code, Refuse(r, in, code)
      PROVE  Left(r)' < Left(r)
  <2>1. Stage(r) = 10 /\ Stage(r)' = 0 /\ UNCHANGED <<elapsed, client>>
    BY <1>1 DEF Refuse, TypeOK, Stage
  <2> QED
    BY <2>1, StageAdvances
<1>2. ASSUME NEW in, Admit(r, in)
      PROVE  Left(r)' < Left(r)
  <2>1. Stage(r) = 10 /\ Stage(r)' = 8 /\ UNCHANGED <<elapsed, client>>
    BY <1>2 DEF Admit, TypeOK, Stage
  <2> QED
    BY <2>1, StageAdvances
<1>3. CASE BufferBody(r) \/ BufferFails(r)
  <2>1. /\ pc[r] = "reading" /\ pc'[r] = "attempt" /\ UNCHANGED <<elapsed, client, attempts>>
        /\ ctx[r] = "live" \/ ctx'[r] # "live"
    BY <1>3 DEF BufferBody, BufferFails, TypeOK, transport
  <2>2. n = 0
    BY <2>1 DEF Hops
  <2>3. Stage(r) = 8 /\ Stage(r)' = 7 - 3 * 0
    BY <2>1, <2>2 DEF Stage
  <2> QED
    BY <2>1, <2>3, StageAdvances
<1>4. CASE AttemptDenied(r) \/ AttemptAdmitted(r)
  <2>1. PICK rec : /\ attempts' = [attempts EXCEPT ![r] = Append(@, rec)]
                   /\ pc[r] = "attempt" /\ pc'[r] \in {"failed", "inflight"}
                   /\ UNCHANGED <<elapsed, client, ctx>>
    BY <1>4 DEF AttemptDenied, AttemptAdmitted, TypeOK
  <2>2. n \in {0, 1} /\ Len(attempts'[r]) = n + 1
    BY <2>1 DEF Hops, TypeOK
  <2>3. Stage(r) = 7 - 3 * n
    BY <2>1 DEF Stage
  <2>4. \/ Stage(r)' = 8 - 3 * Len(attempts'[r])
        \/ Stage(r)' = 9 - 3 * Len(attempts'[r])
    BY <2>1 DEF Stage
  <2> HIDE DEF n
  <2>5. Stage(r)' < Stage(r)
    BY <2>2, <2>3, <2>4
  <2> QED
    BY <2>1, <2>5, StageAdvances
<1>5. ASSUME pc[r] = "inflight", pc'[r] \in {"failed", "relaying", "tunnel", "done"},
             UNCHANGED <<elapsed, client, ctx, attempts>>
      PROVE  Left(r)' < Left(r)
  <2>1. n \in {1, 2} /\ Stage(r) = 9 - 3 * n
    BY <1>5 DEF Hops, Stage
  <2>2. Stage(r)' \in {8 - 3 * n, 1, 0}
    BY <1>5 DEF Stage
  <2> HIDE DEF n
  <2>3. Stage(r)' < Stage(r)
    BY <2>1, <2>2
  <2> QED
    BY <1>5, <2>3, StageAdvances
<1>6. CASE Respond(r) \/ Upgrade(r) \/ UpgradeFails(r) \/ \E e : SendFails(r, e)
  BY <1>5, <1>6 DEF Respond, Upgrade, UpgradeFails, SendFails, TypeOK
<1>7. CASE FailOver(r)
  <2>1. /\ pc[r] = "failed" /\ pc'[r] = "attempt" /\ n = 1
        /\ UNCHANGED <<elapsed, client, ctx, attempts>>
    BY <1>7 DEF FailOver, MayFailOver, TypeOK, transport
  <2>2. Stage(r) = 8 - 3 * n /\ Stage(r)' = 7 - 3 * n
    BY <2>1 DEF Stage
  <2> HIDE DEF n
  <2>3. Stage(r)' < Stage(r)
    BY <2>1, <2>2
  <2> QED
    BY <2>1, <2>3, StageAdvances
<1>8. CASE GiveUp(r)
  <2>1. /\ pc[r] = "failed" /\ pc'[r] = "done" /\ UNCHANGED <<elapsed, client, ctx>>
    BY <1>8 DEF GiveUp, TypeOK, transport
  <2>2. n \in {1, 2} /\ Stage(r) = 8 - 3 * n /\ Stage(r)' = 0
    BY <2>1 DEF Hops, Stage
  <2> HIDE DEF n
  <2>3. Stage(r)' < Stage(r)
    BY <2>2
  <2> QED
    BY <2>1, <2>3, StageAdvances
<1>9. CASE RelayDone(r) \/ Abort(r) \/ TunnelEnds(r)
  <2>1. Stage(r) = 1 /\ Stage(r)' = 0 /\ UNCHANGED <<elapsed, client, ctx>>
    BY <1>9 DEF RelayDone, Abort, TunnelEnds, TypeOK, transport, Stage
  <2> QED
    BY <2>1, StageAdvances
<1>10. CASE Tick(r)
  <2>1. /\ UNCHANGED <<pc, client, ctx, attempts>> /\ elapsed'[r] = elapsed[r] + 1
        /\ elapsed[r] \in Nat
    BY <1>10 DEF Tick, TypeOK, transport
  <2>2. Stage(r)' = Stage(r) /\ Patience(r)' = Patience(r)
    BY <2>1 DEF Stage, Patience
  <2>3. Stage(r) \in Int /\ Patience(r) \in Int
    BY InvBounds DEF LeftBounded
  <2>4. Ceiling - elapsed'[r] < Ceiling - elapsed[r] /\ Ceiling \in Nat
    BY <2>1, ConfigAssumption
  <2> QED
    BY <2>1, <2>2, <2>3, <2>4 DEF Left
<1>11. ASSUME NEW how \in {"deadline", "canceled"}, EndContext(r, how)
       PROVE  Left(r)' < Left(r)
  <2>1. /\ UNCHANGED <<pc, client, attempts, elapsed>> /\ ctx[r] = "live" /\ ctx'[r] # "live"
    BY <1>11 DEF EndContext, TypeOK, transport
  <2>2. Stage(r)' = Stage(r)
    BY <2>1 DEF Stage
  <2> QED
    BY <2>1, <2>2, StageAdvances
<1>12. CASE ClientStalls(r) \/ ClientResumes(r)
  <2>1. /\ UNCHANGED <<pc, attempts, ctx, elapsed>>
        /\ \/ client[r] = "reads" /\ client'[r] = "stalls"
           \/ client[r] = "stalls" /\ client'[r] = "resumed"
    BY <1>12 DEF ClientStalls, ClientResumes, TypeOK, transport
  <2>2. Stage(r)' = Stage(r) /\ Patience(r)' < Patience(r)
    BY <2>1 DEF Stage, Patience
  <2> QED
    BY <2>1, <2>2, StageAdvances
<1> QED
  BY <1>1, <1>2, <1>3, <1>4, <1>6, <1>7, <1>8, <1>9, <1>10, <1>11, <1>12
  DEF Step, TunnelExpires, RefuseTooLarge, RefuseUnrouted, TransportFails, AttemptExpires, ContextDone,
      RelayBreaks, RelayExpires, CeilingFires, ClientLeaves

(* Each step of a request brings it closer to its end, for any upstreams,  *)
(* fallbacks, timeouts and ceiling: no chain or cycle of fallbacks, no     *)
(* timer and no client makes the proxy work on a request in circles.       *)
THEOREM WorkRunsOutHolds == Spec => WorkRunsOut
<1> DEFINE A == \E r \in Requests : /\ Left(r)' < Left(r)
                                    /\ \A q \in Requests \ {r} : Left(q)' = Left(q)
<1>1. IInv /\ IInv' /\ [Next]_vars => [A]_vars
  BY OthersStay, StepCounts DEF Next
<1> QED
  BY <1>1, Invariance, PTL DEF Spec, WorkRunsOut

(* A request takes at most Ceiling + 13 steps from its arrival to its end: *)
(* Left starts no higher, never falls below 0 and, by WorkRunsOutHolds,    *)
(* falls with every step.                                                  *)
THEOREM StepsAreBounded == Spec => [](\A r \in Requests : Left(r) \in 0 .. Ceiling + 13)
<1> DEFINE P == \A r \in Requests : Left(r) \in 0 .. Ceiling + 13
<1>1. IInv => P
  <2> SUFFICES ASSUME IInv, NEW r \in Requests PROVE Left(r) \in 0 .. Ceiling + 13
    OBVIOUS
  <2> DEFINE rest == Ceiling - elapsed[r]
  <2>1. Stage(r) \in 0 .. 10 /\ Patience(r) \in 0 .. 2 /\ rest \in 0 .. Ceiling
    BY InvBounds DEF LeftBounded
  <2>2. Left(r) = Stage(r) + (IF ctx[r] = "live" THEN 1 ELSE 0) + Patience(r) + rest
    BY DEF Left
  <2> HIDE DEF rest
  <2> QED
    BY <2>1, <2>2, ConfigAssumption
<1> QED
  BY <1>1, Invariance, PTL

(* Every exchange has a timer that ends it: an exchange without timeout    *)
(* of its own, and so every upgraded connection, lasts until the ceiling,  *)
(* and one that was not sent has an ended context.                         *)
Timed ==
  \A r \in Requests :
    /\ pc[r] = "inflight" =>
         /\ Current(r).sent \/ ctx[r] # "live"
         /\ Timeout[Current(r).to] = 0 => deadline[r] = Ceiling
    /\ pc[r] = "tunnel" => deadline[r] = Ceiling

LEMMA TimedStep == IInv /\ Timed /\ [Next]_vars => Timed'
<1> SUFFICES ASSUME IInv, Timed, [Next]_vars PROVE Timed'
  OBVIOUS
<1> USE DEF IInv
<1>1. CASE UNCHANGED vars
  BY <1>1 DEF vars, Timed, Current
<1>2. ASSUME NEW r \in Requests, Step(r) PROVE Timed'
  <2>1. ASSUME UNCHANGED <<attempts, deadline>>,
               \A q \in Requests : /\ pc'[q] \in {"inflight", "tunnel"} => pc'[q] = pc[q]
                                   /\ pc[q] = "inflight" => ctx'[q] = ctx[q] \/ ctx'[q] # "live"
        PROVE  Timed'
    BY <2>1 DEF Timed, Current
  <2>2. ASSUME NEW in, NEW code, Refuse(r, in, code) \/ Admit(r, in) PROVE Timed'
    BY <2>1, <2>2 DEF Refuse, Admit, TypeOK, transport
  <2>3. CASE BufferBody(r) \/ BufferFails(r)
    BY <2>1, <2>3 DEF BufferBody, BufferFails, TypeOK, transport
  <2>4. CASE AttemptDenied(r)
    <3>1. /\ pc'[r] = "failed" /\ UNCHANGED <<ctx, deadline>>
          /\ \A q \in Requests \ {r} : pc'[q] = pc[q] /\ attempts'[q] = attempts[q]
      BY <2>4 DEF AttemptDenied, TypeOK
    <3> QED
      BY <3>1 DEF Timed, Current
  <2>5. CASE AttemptAdmitted(r)
    <3> DEFINE u == NextTarget(r)
               rec == [to |-> u, admitted |-> TRUE, sent |-> ctx[r] = "live"]
    <3>1. u \in Upstreams
      BY <2>5, AttemptType DEF AttemptAdmitted
    <3>2. rec \in AttemptRecord
      BY <3>1 DEF AttemptRecord
    <3>3. /\ attempts'[r] = Append(attempts[r], rec) /\ pc'[r] = "inflight"
          /\ deadline'[r] = AttemptDeadline(r, u) /\ UNCHANGED ctx
          /\ \A q \in Requests \ {r} :
               pc'[q] = pc[q] /\ attempts'[q] = attempts[q] /\ deadline'[q] = deadline[q]
      BY <2>5 DEF AttemptAdmitted, TypeOK
    <3>4. Current(r)' = rec
      <4>1. attempts[r] \in Seq(AttemptRecord)
        BY DEF TypeOK
      <4>2. /\ Len(Append(attempts[r], rec)) = Len(attempts[r]) + 1
            /\ Append(attempts[r], rec)[Len(attempts[r]) + 1] = rec
        BY <3>2, <4>1, AppendFacts
      <4> QED
        BY <3>3, <4>2 DEF Current
    <3>5. Timeout[u] = 0 => deadline'[r] = Ceiling
      BY <3>3 DEF AttemptDeadline
    <3>6. ASSUME NEW q \in Requests \ {r} PROVE Current(q)' = Current(q)
      BY <3>3 DEF Current
    <3>7. /\ Current(r)'.sent \/ ctx'[r] # "live"
          /\ Timeout[Current(r)'.to] = 0 => deadline'[r] = Ceiling
      <4>1. rec.to = u /\ rec.sent = (ctx[r] = "live")
        OBVIOUS
      <4>2. Current(r)'.to = u /\ Current(r)'.sent = (ctx[r] = "live")
        BY <3>4, <4>1, Zenon
      <4>3. ctx'[r] = ctx[r]
        BY <3>3
      <4>4. Current(r)'.sent \/ ctx'[r] # "live"
        BY <4>2, <4>3, Zenon
      <4> QED
        BY <3>5, <4>2, <4>4, Zenon
    <3>8. pc'[r] # "tunnel"
      BY <3>3
    <3> HIDE DEF rec, u
    <3>9. ASSUME NEW q \in Requests
          PROVE  /\ pc'[q] = "inflight" =>
                      /\ Current(q)'.sent \/ ctx'[q] # "live"
                      /\ Timeout[Current(q)'.to] = 0 => deadline'[q] = Ceiling
                 /\ pc'[q] = "tunnel" => deadline'[q] = Ceiling
      BY <3>3, <3>6, <3>7, <3>8 DEF Timed
    <3> QED
      BY <3>9 DEF Timed
  <2>6. CASE Respond(r) \/ UpgradeFails(r) \/ \E e : SendFails(r, e)
    BY <2>1, <2>6 DEF Respond, UpgradeFails, SendFails, TypeOK
  <2>7. CASE Upgrade(r)
    <3>1. /\ pc[r] = "inflight" /\ Timeout[Current(r).to] = 0 /\ pc'[r] = "tunnel"
          /\ UNCHANGED <<ctx, deadline, attempts>>
          /\ \A q \in Requests \ {r} : pc'[q] = pc[q]
      BY <2>7 DEF Upgrade, TypeOK
    <3>2. deadline'[r] = Ceiling
      BY <3>1 DEF Timed
    <3> QED
      BY <3>1, <3>2 DEF Timed, Current
  <2>8. CASE FailOver(r) \/ GiveUp(r) \/ RelayDone(r) \/ Abort(r) \/ TunnelEnds(r)
    BY <2>1, <2>8 DEF FailOver, GiveUp, RelayDone, Abort, TunnelEnds, TypeOK, transport
  <2>9. CASE Tick(r) \/ ClientStalls(r) \/ ClientResumes(r)
    BY <2>1, <2>9 DEF Tick, ClientStalls, ClientResumes, transport
  <2>10. ASSUME NEW how \in {"deadline", "canceled"}, EndContext(r, how) PROVE Timed'
    BY <2>1, <2>10 DEF EndContext, TypeOK, transport
  <2> QED
    BY <1>2, <2>2, <2>3, <2>4, <2>5, <2>6, <2>7, <2>8, <2>9, <2>10
    DEF Step, TunnelExpires, RefuseTooLarge, RefuseUnrouted, TransportFails, AttemptExpires, ContextDone,
        RelayBreaks, RelayExpires, CeilingFires, ClientLeaves
<1> QED
  BY <1>1, <1>2 DEF Next

(* The guard of a step that Fairness speaks of is open: an attempt, its    *)
(* timer or the end of its context, failing over or giving up, the ceiling *)
(* or the passing of time. While a write to the client blocks only the     *)
(* last two are.                                                           *)
CanGoOn(r) ==
  \/ pc[r] \in {"attempt", "failed"}
  \/ Watched(r) /\ ctx[r] # "live"
  \/ pc[r] = "inflight" /\ Current(r).sent /\ OwnTimerDue(r)
  \/ pc[r] = "relaying" /\ client[r] # "stalls" /\ OwnTimerDue(r)
  \/ ctx[r] = "live" /\ elapsed[r] >= Ceiling
  \/ ctx[r] = "live" /\ elapsed[r] < (IF Watched(r) THEN deadline[r] ELSE Ceiling)

(* A copy that waits for a client that has stopped reading and no longer   *)
(* has a live context: nothing the proxy does ends it.                     *)
LeftUnread(r) == client[r] = "stalls" /\ ctx[r] # "live"

(* Once its body is buffered a request waits for an upstream or a client   *)
(* alone only in that one case. With StepsAreBounded this is why           *)
(* EndsUnlessUnread holds: the steps that Fairness speaks of go on until   *)
(* the request is finished or left unread.                                 *)
THEOREM WaitsOnlyUnread ==
  Spec => [](\A r \in Requests :
                Active(r) /\ pc[r] # "reading" /\ ~LeftUnread(r) => CanGoOn(r))
<1> DEFINE P == \A r \in Requests :
                  Active(r) /\ pc[r] # "reading" /\ ~LeftUnread(r) => CanGoOn(r)
<1>1. Init => Timed
  BY DEF Init, Timed
<1>2. IInv /\ Timed => P
  <2> SUFFICES ASSUME IInv, Timed, NEW r \in Requests,
                      pc[r] \in {"inflight", "relaying", "tunnel"}, ~LeftUnread(r)
               PROVE  CanGoOn(r)
    BY DEF Active, CanGoOn
  <2>1. elapsed[r] \in Nat /\ deadline[r] \in Nat /\ Ceiling \in Nat
    BY ConfigAssumption DEF IInv, TypeOK
  <2>2. CASE ctx[r] # "live"
    BY <2>2 DEF LeftUnread, Watched, CanGoOn
  <2>3. CASE ctx[r] = "live" /\ ~Watched(r)
    BY <2>1, <2>3 DEF CanGoOn
  <2>4. ASSUME ctx[r] = "live", Watched(r), ~(elapsed[r] < deadline[r]), ~(elapsed[r] >= Ceiling)
        PROVE  CanGoOn(r)
    <3>1. OwnTimerDue(r)
      BY <2>1, <2>4 DEF OwnTimerDue
    <3>2. pc[r] # "tunnel"
      BY <2>1, <3>1 DEF Timed, OwnTimerDue
    <3>3. pc[r] = "inflight" => Current(r).sent
      BY <2>4 DEF Timed
    <3>4. pc[r] = "relaying" => client[r] # "stalls"
      BY <2>4 DEF Watched
    <3> QED
      BY <3>1, <3>2, <3>3, <3>4 DEF CanGoOn
  <2>5. CASE ctx[r] = "live" /\ Watched(r)
    BY <2>4, <2>5 DEF CanGoOn
  <2> QED
    BY <2>2, <2>3, <2>5
<1> QED
  BY <1>1, <1>2, TimedStep, Invariance, PTL DEF Spec
=============================================================================
