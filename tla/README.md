# l7_proxy in TLA+

A specification of the reverse proxy in `src/`: what its parts do, checked by TLC on
small instances and, for the properties named below, proved by TLAPS for all of them.
Line numbers refer to the sources; `PROJECT.json` maps every definition to the lines it
stands for and lists the runs, the findings, the hazards and the theorems.

## 1. The system

| component | state it keeps | operations | hard behaviour |
|---|---|---|---|
| **Request path** `internal/proxy/proxy.go` | per request: body, context, attempts, captured status. Shared: nothing but the router's index, the pool, the gate and the limiter | `ServeHTTP`, `rewrite`, `attemptingTransport` (`RoundTrip`, `attempt`, `send`), `errorHandler`, `observe` | two deadlines over each attempt, a client that may leave or stop reading, a body that may break off, a replay that may duplicate work, a panic that unwinds the handler |
| **Mirroring pool** `internal/mirroring/mirroring.go` | bounded channel, `stopped` under an `RWMutex`, workers | `TrySubmit`, `Stop`, `worker`, `send`, `sample` | send against close of a channel, a full queue, draining, slow mirrors |
| **Configuration reload** `internal/routing/routing.go` 464-662 | watched file, event queue, SIGHUP channel, cooldown timer, `pendingReload` | `CreateFromConfig`, the monitor goroutine, `reloadConfig`, `updateConfig` | a file changing under the reader, lost signals and events, a cooldown that puts work off |
| **Routing decision** `routing.go` 57-462, `trie.go` | an immutable index behind an atomic pointer | `newRouteIndex`, `DecideRoute`, `finalize`, `swapConfig` | precedence between three kinds of match, a swap during a decision |
| **Configuration validation** `internal/config/config.go` | none | `ParseConfig`, `Validate`, `findCycle` | what it lets through is what routing must survive; a search in random order |
| **Process lifecycle** `cmd/proxy/main.go`, `proxy.go` 405-445 | server, monitor, pool | start, graceful shutdown | order and time limits of stopping the three |
| **Metrics** `internal/metrics/metrics.go` | counters | `Observe`, `Inc` | none of its own; what is counted when belongs to the callers |
| **Test backend** `cmd/backend/main.go` | none | a dummy upstream | not part of the proxy |

A request goes through `ServeHTTP`, which asks the router for a `Decision` (one load of
the index), puts it in the request's context and calls `httputil.ReverseProxy`. That calls
back `rewrite` (reads the whole body, submits a mirroring job), then the attempting
transport (the routed upstream and, at most once, its fallback), then copies the response
or calls `errorHandler`. The pool's workers send the copies on their own, and the monitor
swaps the index on its own. Requests meet only at the index (read-only once published), the
pool (module MirrorPool) and the gate and limiter (external, section 3).

What makes each part correct:

- *Request path*: no duplicated work, one hop of failover, the gate learns of each admitted
  attempt once, a response is final, every request ends, whatever the upstreams do. (The ceiling
  does not hold back everything: not a stalled upload, nor a response the client does not read.)
- *Pool*: no caller panics or waits for a mirror, no accepted job is lost or done twice, a
  failing mirror does not cost the others their copy, `Stop` drains and returns.
- *Reload*: a bad file never becomes the running configuration, no change or signal is
  forgotten, a divergence between file and index is never silent and ends when it can.
- *Routing*: the index gives the documented precedence, one configuration explains a whole
  decision, an accepted configuration serves what it matches.
- *Validation*: it refuses everything routing cannot serve and no route of use; it finds exactly
  the cycles.
- *Lifecycle*: stopping in the order server, monitor, pool loses no accepted job and costs no known
  request its mirror copy; the process ends after SIGTERM whatever hangs.

## 2. Modules

| module | what it is |
|---|---|
| `RequestPath` | one request from `ServeHTTP` to its observation, for a set of requests |
| `MirrorPool` | `TrySubmit`, `Stop` and the workers, one action per operation on the lock, the channel or the wait group |
| `MirrorPromise` | what the pool promises its callers, without lock, channel or workers; `MirrorPool` implements it |
| `ConfigReload` | boot, monitor and environment (editors, operators, timer) |
| `Conditions` | the conditions of a rule, its rewrite, its checks and its duplicate key, with what the documentation says of each |
| `Routing` | validation's promises, the compiled index, `DecideRoute` in steps, the swap; extends `Conditions` |
| `RoutingPromise` | what the router promises its callers, without index or steps; `Routing` implements it |
| `MirrorCycles` | `validateMirrorCycles` and `findCycle` as a state machine |
| `Shutdown` | `main` and `Run`: composes the server, the monitor as `Router.Wait` sees it, and the pool as `MirrorPromise` |
| `MCRequestPath`, `MCMirrorPool`, `MCRouting`, `MCMirrorCycles` | values of the constants for TLC |
| `RequestPathProofs`, `MirrorPoolProofs`, `MirrorPoolRefinement`, `ConfigReloadProofs`, `ConditionsProofs`, `RoutingProofs`, `MirrorCyclesProofs`, `ShutdownProofs` | the theorems |

Operators whose name starts with `Mutant` are plausible bugs in the definition that follows
them. They are part of no specification; each shows that a property notices its bug.

### RequestPath

`pc[r]` is where the handler is: `idle`, `reading` (in `rewrite`), `attempt` (about to call
`attempt()`), `inflight` (in `base.RoundTrip`), `failed`, `relaying` (copying the body), `tunnel`
(copying both ways after a 101), `done`, or `aborted` (unwound by `http.ErrAbortHandler`). `ctx`,
`elapsed` and `deadline` are the request's context and the timers of the ceiling and of the attempt
in flight. Time is counted per request: `Tick` advances it by a unit, never past a timer that ends
something, and the steps that wait for nothing take none. `client[r]` is `stalls` while the copy of
a response or a tunnel blocks in a write, because the client has stopped reading. Then the attempt's
timer and the context end nothing: they break the next read from the upstream, and `http.Server`
(395-400) has no `WriteTimeout`. So `Tick` passes the attempt's deadline, up to the ceiling, after
which a request has an ended context and no clock; only the client can end the copy, or let it go
on. `body` is `whole` exactly when `rewrite` set `GetBody`. `attempts` and `recorded` are histories
of `attempt()` and of `Gate.Record`.

| action | code |
|---|---|
| `RefuseTooLarge`, `RefuseUnrouted`, `Admit` | `ServeHTTP` 108-136 |
| `BufferBody`, `BufferFails` | `rewrite` 153-192, `io.ReadAll` succeeding or not |
| `AttemptDenied`, `AttemptAdmitted` | `attempt` 297-302, `send` 309-333 |
| `TransportFails`, `AttemptExpires`, `ContextDone`, `Respond` | the ways `base.RoundTrip` returns, with `Record` 303 |
| `FailOver`, `GiveUp` | `RoundTrip` 263-285, `errorHandler` 194-212 and `observe` |
| `RelayDone`, `RelayBreaks`, `RelayExpires` | the copy of the response body, `cancelOnClose`, `observe` 138 |
| `Upgrade`, `UpgradeFails`, `TunnelEnds`, `TunnelExpires` | a 101 from the upstream: `httputil` hijacks the connection, or answers 502 because the protocol differs or `cancelOnClose` (341-352) hides that the body can be written to; the end of the tunnel, by either side or by the context |
| `Tick`, `CeilingFires` | timers |
| `ClientStalls`, `ClientResumes`, `ClientLeaves` | the client: it stops reading, reads on, breaks the connection off |

`PolicyInstalled = FALSE` is the program as shipped, where `allowAllGate` and
`unlimitedLimiter` refuse nothing; `TRUE` stands for any implementation of the `Gate` and
`Limiter` interfaces that the transport is written for. `max-body-size` is always positive,
because `validateMaxBodySize` refuses any other value, so the limit is always in force.

### MirrorPool and MirrorPromise

`readers` and `writer` are the `RWMutex`: `AnnounceLock` is the first half of `Lock`, after
which Go's mutex lets no new reader in, and `AcquireLock` the second, when the present readers
have left. `stopped`, `queue` and `closed` are the flag and the channel. `subPc`, `stopPc` and
`workPc` are where each `TrySubmit`, `Stop` and worker is. Rendezvous with a waiting worker is
an `Enqueue` followed by a `Receive`. The HTTP exchange with a mirror is the step from
`Send` to `Sent` or `Failed`. `MirrorPromise` knows only `unseen`, `pending`, `mirrored` and
`dropped` jobs and an `open`, `closing` or `stopped` pool; the mapping is `Promise` in
`MirrorPool`.

### ConfigReload

A state of the file is its version, whether it is whole (a save in place first truncates, then
writes) and what parsing and validating make of it. `mpc` goes from `bootRead` and `bootApply`
(`CreateFromConfig`) over `watch` (`watcher.Add`) and `subscribe` (`signal.Notify` in the
goroutine) to `select`, `read`, `apply` (the loop and the two halves of `reloadConfig`: the file
can change between them). `events` are watcher events still unread, `sigCh` the signal channel
of capacity one. `onCoolDown`, `timer` and `pending` are the cooldown.
`outcome` is the label of the last count in `config_reload_errors_total`, `ok` after a success.
In the `select`, every ready case is enabled: Go chooses among them at random.

An edit leaves an event (`Announce`), or none: before the directory is watched, and when
`QueueLimit` events are unread (`Lose`; the monitor only logs the overflow, 592-597). `Retarget` is
a change behind a symbolic link, whose event names another file, so that `isTargetPath` (608-621)
drops it; `OtherFile` fills the queue with events of no concern. The history variable `missed`
remembers that a change left no event for the file and that nothing has been read since; the two
properties about divergence say that nothing else can go unnoticed.

| action | code |
|---|---|
| `BootRead`, `BootApply`, `Watch`, `Subscribe` | `CreateFromConfig` 464-495, `startMonitoringConfigUpdates` 500-548 |
| `HandleSighup`, `HandleChanged`, `HandleRemoved`, `HandleReplaced`, `HandleOther`, `HandleCooldown`, `Exit` | the cases of the `select` 550-600 |
| `ReadConfig`, `ApplyConfig` | `reloadConfig`, `updateConfig` 629-662 |
| `StartSave`, `EndSave`, `Replace`, `Delete`, `Retarget`, `OtherFile`, `Sighup`, `Shutdown`, `TimerFires` | the environment |

### Routing, RoutingPromise and Conditions

A path is a sequence of characters, a regex its text with a function from the paths it matches to
what it captures in them. `newRouteIndex` is the loop over the routes (75-92): `AddRoute` puts one
route after those already in its map entry, trie node or list. The trie is a function from the
prefixes that have a node to the routes at that node, and `matchPrefix` descends it as
`trieNode.match` does, children first.
`DecideRoute` is one action per step (`LoadIndex`, `MatchExact`, `MatchPrefix`, `MatchRegex`,
`Finalize`, `NoRoute`) so that a `Reload` can come in between. `Eligible` states the documented
precedence independently, over the list of routes, as the oracle of `routing_diff_test.go` does, and
`Reference` the whole decision that follows from it: upstream, path, mirrors and fallback.

`RoutingPromise` knows a published configuration, which may be replaced at any moment, and requests
that are `called`, `decided` in one step by the configuration published then, and `answered` with
that decision. `Promise` in `Routing` is the mapping: `index.cfg` is the configuration published, a
call that has loaded the index is decided (`Stages`), by `Reference` for the configuration it has
loaded (`Decisions`), and `result` is the answer. A request that `DecideRoute` rejects before it
loads anything (an empty path, routing.go:136) is `AnswerAtOnce`, which the promise allows
only if all configurations agree. The promise has no fairness.

`Conditions` has the rest of a rule as pure operators: `headerMatches` with `EffectiveOp`,
`hostMatches` (a host is the sequence of its labels; `hostOnly` drops port, brackets and capitals),
`clientIPMatches` (addresses are bits; a peer with a zone parses as no address and is in no
network), `expandRegexRewrite`, `validateRule`, and `dedupKey` as the text it is: its parts
(`KeyParts`) joined with bars, each with the delimiters the code writes into it. Only the length of a
mask is not in decimal digits but in strokes, since all that counts is that it can be read back.
`NoBar` says that no bar is in a pattern, a header or a host, where one would be taken for a joint.
`Met` and `Expansion` say the same from `docs/configuration.md` without following the code:
a contained value is one with something before and after it, a wildcard is one or more leading
labels, and a `$` begins a reference if an even number of them precedes it. `IsRule` and
`IsRequest` are what YAML, `ParseCIDR`, `regexp` and `net/http` give the code, before any check
of its own: texts, a pattern that is not empty (that one field is set is the kind of the rule), a
mask no longer than its address, captures that are texts.

### MirrorCycles

The first loop of `validateMirrorCycles` builds `adj` one mirror at a time (`AddMirror`,
`NextRoute`, 646-665), then `findCycle` (676-719) searches. Its recursion is `stack` and, for each
upstream, the position `next` of the neighbour to look at.

| action | code |
|---|---|
| `Start` | an upstream of the outer loop, which ranges over a map: any unvisited one, 711-716 |
| `Descend`, `Skip`, `Close` | the neighbour is white, black or gray, 690-704 |
| `Leave` | the return of `dfs`, 706-708 |
| `NoCycle` | the end of the outer loop, 718 |

The properties speak of the routes (`Mirrors`), not of `adj`, and so cover both loops. That a group
of upstreams each mirrored to another of the group exists is the same as a cycle, for finite sets.

### Shutdown

`run` is where `main` is: `starting`, `serving` (the select of `Run`), `shutdown` (in
`server.Shutdown`), `joining` (the second select), `returned`, `exited`, or `killed` by a signal.
`joiner` is the goroutine of line 430. A request is what the server sees of it (`handler`) and its
job in the pool, which is an instance of `MirrorPromise`: what `MirrorPool` is proved to implement.

| action | code |
|---|---|
| `Start`, `StartFails`, `Exit` | `main` 62-107 |
| `Sigterm`, `Sighup` | `signal.NotifyContext`, `main` 59; the default action of SIGHUP outside `routing.go` 545-548 |
| `ListenFails`, `RunFails` | 406-413, 442-443 |
| `BeginShutdown`, `ShutdownDone`, `ShutdownFails` | 416-427, the limit of ten seconds included |
| `MonitorJoined`, `StopPool`, `PoolStopped` | 430 |
| `JoinDone`, `JoinTimesOut` | 432-436, the limit of five seconds |
| `Subscribe`, `MonitorExits` | the monitor goroutine |
| `Arrive`, `ArriveLate`, `Forward`, `Answer`, `Upgrade`, `CloseTunnel`, `Mirror` | requests, hijacked connections and the pool's workers |

`ArriveLate` is a request on a connection that `net/http` counted as idle or new when `Shutdown`
looked: its handler runs although nothing waits for it. `failures` records why the process ended
early, which excuses what it cut off.

## 3. Runs

Runs that pass:

| run | instance | shows |
|---|---|---|
| `request_path` | one request of any kind; upstreams `a` and `b` that fail over to each other, `c` alone; timeouts within (2), beyond (5) and without (0) a ceiling of 3; a gate that may refuse; a client that may stop reading | `OneHop`, `NoDuplicateWork`, `GateLedger`, `MirrorOnce`, `MirrorBeforeAttempts`, `ResponseFinal`, `WorkRunsOut`, `EndsUnlessUnread` |
| `mirror_pool` | three submitters, two stoppers, two workers, a channel of one, a job of two targets, all kinds of ratio | `NoPanic`, `ExactlyOnce`, `FanOut`, `StopDrains`, `NeverBlocks`, `StopReturns`, `KeepsPromise` |
| `config_reload` | four edits of any kind, two SIGHUPs, a shutdown, a queue of two events, at every moment from the first read on | `LastGood`, `PendingHasTimer`, `SighupNotLost`, `NoSilentDivergence`, `OneReadPerCooldown`, `Converges` |
| `routing` | every valid configuration of one or two routes out of seven that compete, every path of five, with and without a header; every pair of rules that differ in headers, hosts, networks, method or template, against the requests that tell them apart; a reload at every moment | `MatchesReference`, `DuplicatesAreEqual`, `OneSnapshot`, `EveryMatchServed`, `KeepsRoutingPromise` |
| `mirror_cycles` | every mirror graph over three upstreams, and lists with unknown, empty and repeated names, in every order of the search | `CycleIsReal`, `AcceptedIsAcyclic`, `VisitedOnce`, `Terminates` |
| `shutdown` | three requests, a pool of one job, every signal and every limit | `NothingLost`, `RefusedOnlyLate`, `ShutdownTerminates` |

Every passing run also checks its module's `TypeOK`. `routing` takes about a minute, the others
less.

Runs that find what a document, a comment or a metric says of the program violated
(`PROJECT.json`, `findings`, quotes each):

| run | the code does | against |
|---|---|---|
| `request_status_label` | labels every proxied request 200: `responseWriter` starts at 200 and keeps the first code | `metrics.go` 18-24 |
| `request_uncounted` | observes no request whose response body breaks off: the panic skips `observe` | `metrics.go` 21 |
| `request_oversize` | forwards a chunked body cut at the limit; 413 is never reached | `request-flow.md` 72 |
| `request_upload` | waits for a stalled upload past the ceiling | `request-flow.md` 29, `configuration.md` 42 |
| `config_reload_torn` | reloads at the first event of a save, without waiting for the rest, and may swap in a half-written file (`NoTornReload`) | ADR-0009 12-14 |
| `routing_empty_mirror` | accepts a mirror without an upstream, whose route then refuses every request | `configuration.md` 157 |

Disagreements that have no run of their own, because a model would only restate the line:

- `request-flow.md:74` "the request exceeded the server context timeout | 504", :76 "any other
  transport error | 502": `errorHandler` answers 504 for every `context.DeadlineExceeded`, those of
  an attempt's `timeout-ms` and of the dial included (proxy.go:202). In the model: `ErrorStatus`.
- `configuration.md:78`, `request-flow.md:42` and the comment at proxy.go:247 have a fallback tried
  when the primary "cannot be reached"; `RoundTrip` (263-271) fails over on any error of the attempt,
  such as an exchange broken off after the request was sent or a refusal by the gate. In the model:
  `FailOver`, whatever `err` is; what makes it safe is `NoDuplicateWork`.
- `request-flow.md:29-30` has the server context and the attempt's timeout cover the body: the copy
  of a response whose client has stopped reading passes both (proxy.go:395-400 sets no
  `WriteTimeout`). In the model: `ClientStalls`; `EndsUnlessUnread` makes just this exception, and
  `WaitsOnlyUnread` proves that after the upload there is no other.
- ADR-0009:38 "Editing the config file and saving triggers reload automatically": a save between
  the first read (routing.go:465) and `watcher.Add` (:514) triggers none. In the model: `missed`.
- `README.md:94` "hot-reloadable via `fsnotify` or `SIGHUP`" and :12 "Graceful shutdown on
  `SIGTERM`": a SIGHUP before the monitor has subscribed, or after its `signal.Stop` while the
  shutdown still drains, kills the process. In the model: `Sighup` in `ConfigReload` and `Shutdown`.
- `configuration.md:42` "Must be greater than 0" of the server context: `validateTimeouts`
  (config.go:583) accepts 0. `Ceiling` is any natural in `RequestPath`, and its theorems hold for 0.
- `dedupKey` (config.go:507) refuses different rules as duplicates if a pattern, a header or a host
  holds the bar that joins two parts, and takes the same hosts in another order for a new rule.
  `DuplicatesAreEqual` speaks of rules without bars that pass their own checks (`Comparable`; the
  key of a rule that is refused anyway does not matter), and the run has the pair of rules that
  shows why.
- An upgrade through an upstream with a `timeout-ms` always fails, since `cancelOnClose`
  (proxy.go:349) has no `Write`. In the model: `UpgradeFails`.
- A client with a link-local address (with a zone) is in no network of `client-cidrs`, `fe80::/10`
  included: `net.ParseIP` (routing.go:284) knows no zones.
- The comment at config.go:418 says the router compares against `r.Host` as it is; `hostOnly`
  strips port and capitals. ADR-0010 says the watcher does not survive a deletion; it does.

### Bounds

- *One request.* Requests share no variable in the model and no mutable state in the code other than
  the pool and the index, which have modules of their own, and the gate, which is an arbitrary
  environment. A second request adds interleavings, no behaviour of the first. The proofs are for
  any number. A client stalls once: stalls before a timer is due are to the proxy like one long
  stall, and when one is due the copy ends after the first. A pair of mutual fallbacks is the
  smallest fallback graph in which following a second hop would return to the first upstream. A
  ceiling of 3 with timeouts 0, 2 and 5 puts an attempt's deadline before the ceiling, has the
  fallback's budget cut by it, and leaves one with no timer of its own.
- *Pool.* Two workers and a channel of one fill up with three jobs (one held, one queued, one
  dropped). `Run` calls `Stop` once; the second shows that the flag, which `Stop` checks for this,
  keeps the channel from being closed twice.
- *Reload.* `MaxEdits = 4` covers a save in place followed by another, a save interrupted by a
  delete and put back, and an edit left over for the cooldown. Two signals overflow a channel of
  one, three events a queue of two. A single cooldown spans any number of them, since a timer that
  restarts is as new.
- *Routing.* Every precedence rule compares two routes, so lists of two cover each; paths of up to
  three characters separate a prefix, a longer prefix and a rest. One reload is the smallest
  number that can tear a decision. Conditions are and-ed field by field, so that the rules of a
  world differ in one field; values of three characters have a beginning, a middle and an end,
  hosts up to four labels, networks of two bits the masks 0, part and all. A `world` is one such
  family of files and requests.
- *Cycles.* Three upstreams give cycles of length two and three, a tail before a cycle, two ways
  to the same upstream and two components. The theorems are for any number.
- *Shutdown.* Three requests are one in each of three fates (one known, one late, one tunnelled);
  a pool of one job is full with one. The theorems are for any number.

`CHECK_DEADLOCK FALSE` is set everywhere because every one of these systems may stop: requests
end, the pool stops, the process exits, decisions return, the search ends.

### Fairness

- `RequestPath`: the proxy's own steps are taken and timers fire (goroutines are scheduled, the
  Go runtime runs its timers). `RelayExpires` and `TunnelExpires`
  are fair and have a guard: no write to the client blocks. Nothing is assumed of clients or
  upstreams: no fairness on `BufferBody`, `Respond`, `TransportFails`, `RelayDone`, `ClientResumes` or
  `ClientLeaves`. `EndsUnlessUnread` therefore excludes the reading of the body, which may never end
  (`request_upload`), and says nothing of a response while its client does not read it.
- `MirrorPool`: weak fairness on each call and each worker. A send always ends because the
  client has a timeout (`mirrorTimeout`). Whether `Submit` and `CallStop` happen is up to the callers.
  `NeverBlocks` needs no fairness.
- `ConfigReload`: weak fairness on the boot, the monitor and the timer. Other files may produce
  events for ever, so that fairness of the monitor as a whole does not see to the cooldown: weak
  fairness of `HandleCooldown` stands for the random choice of `select`, which does not pass over a
  ready case for ever. Signals and events of the file are finite in number. Editors promise nothing.
- `MirrorCycles`: a sequential program that runs.
- `Shutdown`: weak fairness on `main` alone, whose steps include its two timers. Nothing is assumed
  of requests, mirrors, the monitor or the goroutine that joins them.

## 4. Proofs

TLAPS proves, for all values of the constants that satisfy the named assumptions:

| theorem | property | module |
|---|---|---|
| `TypeCorrect` | `TypeOK` | `RequestPathProofs`, `MirrorPoolProofs`, `ConfigReloadProofs`, `RoutingProofs`, `MirrorCyclesProofs`, `ShutdownProofs` |
| `OneHopHolds`, `NoDuplicateWorkHolds`, `MirrorOnceHolds`, `GateLedgerHolds`, `MirrorBeforeAttemptsHolds`, `ResponseFinalHolds`, `WorkRunsOutHolds` | `OneHop`, `NoDuplicateWork`, `MirrorOnce`, `GateLedger`, `MirrorBeforeAttempts`, `ResponseFinal`, `WorkRunsOut` | `RequestPathProofs` |
| `StepsAreBounded` | what is left of a request is between 0 and `Ceiling + 13` | `RequestPathProofs` |
| `WaitsOnlyUnread` | an unfinished request whose body is buffered has the guard of a fair step open, unless its context is done and its client has stopped reading | `RequestPathProofs` |
| `NoPanicHolds` | `NoPanic` | `MirrorPoolProofs` |
| `ExactlyOnceHolds`, `StopDrainsHolds`, `FanOutHolds` | `ExactlyOnce`, `StopDrains`, `FanOut` | `MirrorPoolProofs` |
| `NeverStuckHolds` | `NeverStuck`: `NeverBlocks` with the guards of the steps in place of `ENABLED` | `MirrorPoolProofs` |
| `StopNeverStuckHolds` | while a `Stop` is under way, the guard of a step of a call, a `Stop` or a worker is open | `MirrorPoolProofs` |
| `ImplementsPromise` | `Spec => Promise!Spec`, the safety part of `KeepsPromise` | `MirrorPoolRefinement` |
| `LastGoodHolds`, `PendingHasTimerHolds`, `SighupNotLostHolds`, `OneReadPerCooldownHolds`, `NoSilentDivergenceHolds` | the property of that name | `ConfigReloadProofs` |
| `ConditionsAreMet` | `matchConditions` is `Met`, for every rule validation accepts and every request | `ConditionsProofs` |
| `RewriteIsExpansion` | `expandRegexRewrite` is `Expansion`, for every template and all captures | `ConditionsProofs` |
| `EqualKeysDemandTheSame` | rules with the same `dedupKey` that pass their checks and have no bar agree in kind and pattern, and their conditions are met by the same requests | `ConditionsProofs` |
| `IndexIsBuilt` | `newRouteIndex` puts each route in its place and nowhere else, in the order of the configuration | `RoutingProofs` |
| `MatchesReferenceHolds`, `OneSnapshotHolds`, `DuplicatesAreEqualHolds` | `MatchesReference`, `OneSnapshot`, `DuplicatesAreEqual` | `RoutingProofs` |
| `PathKeptHolds`, `RewriteExpandedHolds` | `PathKept`, `RewriteExpanded`: what becomes of the path, stated in `RoutingProofs` in terms of the code's own variables; the run checks both as part of `KeepsRoutingPromise` | `RoutingProofs` |
| `KeepsRoutingPromiseHolds` | `KeepsRoutingPromise`: `Routing` implements `RoutingPromise` | `RoutingProofs` |
| `OnlyUnnamedMirrorsFailHolds` | a matched request is refused only for a mirror entry that names no upstream | `RoutingProofs` |
| `EveryMatchServedHolds` | `EveryMatchServed`, if every mirror entry names an upstream | `RoutingProofs` |
| `CycleIsRealHolds`, `AcceptedIsAcyclicHolds`, `VisitedOnceHolds` | `CycleIsReal`, `AcceptedIsAcyclic`, `VisitedOnce` | `MirrorCyclesProofs` |
| `SearchNeverStuck` | until its verdict the search has the guard of a next step open | `MirrorCyclesProofs` |
| `NothingLostHolds`, `RefusedOnlyLateHolds` | `NothingLost`, `RefusedOnlyLate` | `ShutdownProofs` |

Assumptions on the constants are those validation gives the code: `ConfigAssumption`
(timeouts and the ceiling are naturals, a fallback is a known upstream other than its own) in
`RequestPath`, `PoolAssumption` (`NewPool` replaces non-positive sizes), `BoundsAssumption`,
`ConfigAssumption` in `MirrorCycles` (finitely many upstreams; names otherwise arbitrary, since the
search runs even when other checks have failed), `ShutdownAssumption`, `TextAssumption` (the
characters the code looks for are characters, the lower case of a name with capitals is a name and
none of the delimiters of a key, nor is a family of addresses, an address has a number of bits) and
`RoutingAssumption` (a configuration is a list of routes of the types YAML and the parsers give
them, in which a regex matches what its text says: two routes with the same text match and capture
the same; that a configuration is *valid* is no assumption but a guard of `Init` and `Reload`). TLC
evaluates them in every run. `EveryMatchServedHolds` alone has a hypothesis besides,
`NamedMirrors`: without it the statement is false (`routing_empty_mirror`), and
`OnlyUnnamedMirrorsFailHolds` shows that nothing else makes it so.

The arguments:

- *Request path.* `OneHop` alone is not inductive: it does not say that an attempt is only started
  from a request with a route, or that no third one is. `IInv` adds `Routed` (an active request has
  an upstream), `Hops` (how many attempts there are, and with what right, at each `pc`),
  `WithinCeiling` and `DeadlineWithin` (the clock of a request stops at the ceiling, and no attempt is
  given more; they bound `Left` and say nothing of how long a blocked copy lasts) and `NothingYet`
  (nothing is mirrored before the body is buffered, no status is sent before an attempt has
  answered or the handler is over). `NoDuplicateWork` follows from `Hops`, from the
  assumption that no upstream is its own fallback (lemma `TwoAttempts`), and from `body` being
  fixed once read. `GateLedger` is inductive on top of `IInv`: the count goes from 0 to 1 because
  the two attempts of a request never go to the same upstream.
- *Why a request ends.* `EndsUnlessUnread` needs fairness; what it rests on does not. `Left` is a
  ranking function: the stages of the handler (three for each attempt that may still be made), the end
  of the context, the client's stall, the time up to the ceiling. It is bounded because `Hops` allows
  two attempts and the clock stops at the ceiling (`StepsAreBounded`), and each step lowers it
  (`WorkRunsOutHolds`). It counts steps, not how long a write blocks. `WaitsOnlyUnread` says that a
  step is always open to the proxy or its timers, with one exception (`LeftUnread`: the context is
  done and the client does not read), which the code has (section 3). It needs
  `Timed`, that an exchange without a timeout of its own, and so any tunnel, runs until the ceiling,
  and that one never sent has an ended context.
- *Pool.* `NoPanic` rests on the lock. `Exclusion` says that a call between `RLock` and `RUnlock`
  is in `readers` and that a `Stop` that holds the lock is `writer` and excludes them;
  `FlagGuards` says that the channel is closed only with `stopped` set, and that a call about to
  send or close saw it unset under the lock.
  `NeverStuck` needs the converse, `Locked`: whoever is in `readers`, or is the writer, is inside
  its region, where every step has a way on, and the channel never holds more than its size.
  `StopNeverStuck` adds `Closing`: a `Stop` that waits for the workers has closed the channel, so
  that every worker that has not left has a step.
- *Jobs.* `ExactlyOnce` counts; counting is not inductive. `Places` says the same without numbers:
  no job is twice in the channel or in two hands (`Apart`), being queued, held and processed
  exclude each other and each implies that the job was accepted (`OnePlace`), and a call that has
  not decided has no fate yet (`Undecided`). The cardinalities follow. `Leaving` (a worker exits
  only from a closed, empty channel, `Stop` returns from its wait only when all have exited)
  gives `StopDrains`. `Trace` (a worker goes through the targets of its job in order and past
  none) gives `FanOut`; it needs `Apart`, because two workers at one job would disturb each
  other's outcomes.
- *Refinement.* Under these invariants each step of the pool is a step of `MirrorPromise` or
  changes nothing it speaks of. The step that needs an argument is the drop of a job on a full
  channel: the promise allows it only with `QueueSize` jobs pending, and they are, because the
  channel maps its positions one-to-one to pending jobs.
- *Reload.* `SafeInv` is `TypeOK`, `CooldownAgrees` (the flag and the timer agree, nothing is
  pending without them, no reload begins during a cooldown), `LastGood` and `SighupNotLost`.
  `Tracked` adds that an unread change always has an event, a pending reload or a read ahead of it,
  or is `missed`, from which `NoSilentDivergence` follows when none is left.
- *Conditions.* The code works from one end of a text, the documentation speaks of the whole. A
  header value, a host, an address is compared position by position. For the rewrite, tokens do
  not overlap as the documentation counts them (`TokensDoNotOverlap`): of two adjacent dollars
  exactly one has an even number before it (`BeginsAlternate`). At every
  position that is not inside a token, what the characters passed stand for, followed by what the
  loop makes of the rest, is then the whole, by induction over the position.
- *Routing.* `IndexIsBuilt` is the loop invariant of `newRouteIndex` at its end: after `n` routes,
  each list in the index names, increasing, exactly the places up to `n` that belong there
  (`Lists`, `Holds`), and each prefix route has all nodes on the way to its own (`Built`). `First`
  of such a list is the least accepted place (`FirstAccepted`). For `matchPrefix` the induction is
  downwards, from the end of the path: at each depth it returns the `Winner` among the matching
  routes no shorter than that, or nothing if there are none (`PrefixFound`); `ConditionsAreMet` turns
  accepted into matching. A decision takes several steps, with reloads in between, so that the
  invariants need `IInv`: every index is what `newRouteIndex` makes of a valid configuration
  (`Indexes`), the one loaded was in force during the call (`Loaded`), the kinds of match already
  passed have nothing to offer (`Tried`), and what was returned is `finalize` of what was found,
  with the same configuration (`Returned`). `OneSnapshot` and `MatchesReference` say less about
  the states in between and are not inductive.
- *Duplicates.* Equal keys are equal texts, and what was joined must be told from them.
  `JoinedIsInjective`: texts without bars are told apart by the bars between them, by induction over
  their number (`LastPart` splits off the last). A part shows what it is: a header's has a colon, a
  network's has a slash and no colon, a host's neither, because `validateHosts` allows none
  (`HeaderPartShape`, `HostPartShape`, `CIDRPartShape`). So the parts of two keys agree in sort and
  number (`PartsAreTold`), and each says all that counts of what it was made from
  (`HeaderPartTells`, `HostPartTells`, `CIDRPartTells`).
- *Router.* The promise is decided at `LoadIndex`, before the router knows the answer: `Decisions`
  says what `Reference` makes of the index loaded. That later steps, which look only at that index,
  come to the same is `FinalizeIsReference` (what is found is first among the `Eligible`, and
  `Finalize` resolves it as documented) and `NothingEligible`; both use `IInv`. A `Reload` between
  the steps is a `Publish` that leaves the decision alone.
- *Cycles.* `ListsInv` says that the lists are made of the routes' mirrors (`ListsReal`), and that
  those already passed are in them, so that in the end the lists are exactly `Mirrors`.
  `SearchInv` is what makes the colours mean something: the gray upstreams are the stack
  (`GrayIsStack`), each once (`Apart`), each mirrored to the next (`Path`); the neighbours passed
  are not white (`AllSeen`); a finished upstream has only finished neighbours (`BlackDone`), and
  every group of finished upstreams has one that is mirrored to none of the group (`BlackSinks`).
  `Close` finds a stretch of the stack, hence `CycleIsReal`. When the search ends without one all
  upstreams with mirrors are finished, and `BlackSinks` becomes `AcceptedIsAcyclic`, for any order
  of `Start`. The top of the stack is gray, so that `Leave` only blackens and `next` only moves at a
  gray upstream: `VisitedOnce`, which bounds the search by twice the upstreams and the edges.
- *Shutdown.* The order of the stops is the invariant: the join goroutine exists only after
  `ShutdownDone`, from when on no request the server knows of is busy; the pool leaves `open` only
  in that goroutine, after the monitor is gone; and `run` gets past `joining` without a failure only
  when the pool is `stopped`, in which `MirrorPromise` has nothing pending. `RefusedOnlyLate` is an
  action property: a known request offers its job only while the pool is open, where
  `MirrorPromise` drops a job only when it is full.

The induction theorems of the library take an operator as a parameter, which the provers cannot
instantiate. Lemma `Induction` in `ConditionsProofs` states induction for a *set* of naturals, which
they can, and is itself proved from the least element a set of naturals has; the loops and descents
above are instances of it.

Only model-checked:

- liveness (`EndsUnlessUnread`, `Terminates` of `MirrorCycles`, `StopReturns`, `Converges`,
  `ShutdownTerminates`, the fairness of `KeepsPromise`), which is out of the prover's reach;
- `NeverBlocks` as it stands, for its `ENABLED`. `NeverStuckHolds` proves it with the guards written
  out, and `GuardsAreNeeded` that no step is taken without them; that they suffice shows in the
  actions, which assign to each variable. `StopNeverStuck`, `WaitsOnlyUnread` and
  `SearchNeverStuck`, which the liveness properties rest on besides fairness, speak of guards in the
  same way.

## 5. Not modelled

- Header rewriting (`SetXForwarded`, hop-by-hop headers), the URL's query, redirects by
  `http.ServeMux` of unclean paths, and `/metrics`, which the mux serves itself. 1xx responses other
  than 101, and trailers.
- The transport's own repetition of a request on a connection that turned out to be dead: it is
  below `base.RoundTrip`, whose outcome the model chooses.
- Which text a regex matches, and the syntax of URLs, paths, header names, networks and YAML: pure
  functions of text that the unit tests enumerate better than a model.
- The `ratio` of a mirror in a decision: `finalize` carries it along unchanged; what is sampled by it is
  in `MirrorPool`. The port and the brackets of a host, which `hostOnly` removes: the hosts of the
  model are without them (its capitals are in the model, `Lower`).
- `infrastructure.yaml`: its checks are ranges of numbers, whose consequences are the assumptions of
  the modules that use them.
- What `net/http.Server` does inside `Shutdown` and `Close`, other than whom it waits for.
- Metrics, which have no control flow of their own (what is counted, and when, is in the modules that
  count), the test backend, logging and pprof.

## 6. Plan

Done, the most important first: `RequestPath`, `MirrorPool` with `MirrorPromise`, `ConfigReload`,
`Routing` with `Conditions` and `RoutingPromise`, `Shutdown`, `MirrorCycles`, and the theorems of section 4.

What would come next:

1. Proofs: a ranking of the pool like that of a request (the calls, jobs and targets still ahead of a
   `Stop`), and guards for `ConfigReload` and `Shutdown` as there are for the other three.
2. `RequestPath` with a gate that has a state (a breaker) in place of the arbitrary one, when
   `internal/policy` exists.
3. `Shutdown` composed with `ConfigReload` itself in place of the monitor's four states.
