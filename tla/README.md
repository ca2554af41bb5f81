# A TLA+ verification of GuardDNS

GuardDNS is a split-DNS container. A Go entrypoint supervises MosDNS (with
GuardDNS's own plugins compiled in) and two Unbound resolvers, and runs a DoH
bridge in its own process. This directory holds TLA+ models of its concurrent
core, the configurations that check them with TLC, and proofs checked by TLAPS.
Paths below are relative to `src/`.

Contents: [inventory](#inventory), [modules](#modules-and-the-code),
[runs](#runs), [fairness](#fairness), [refinement](#refinement),
[proofs](#proofs), [findings](#findings), [limits](#what-is-not-modelled),
[plan](#plan).

## Inventory

### How the parts interact

A client query enters MosDNS on port 53. Its sequences send it to the fake-IP
path (Mihomo, guarded by the *circuit* plugin), to the validating Unbound or,
for unknown names, to a recursive Unbound that classifies the answer. The
*rule files* decide the first branch. The validating Unbound forwards to the
*DoH bridge*, which asks encrypted providers in order. A provider configured as
`AUTO_FORWARD` is itself reached through Mihomo's fake-IP addresses, kept in the
*dial cache*. The entrypoint starts and restarts the processes, keeps the
*runtime state* and sends it once a second over a Unix datagram socket to the
*supervisor plugin* in MosDNS, which serves the health endpoints.

| Component | State | Operations | What is hard | What makes it correct |
| --- | --- | --- | --- | --- |
| AUTO_FORWARD circuit (`internal/circuitplugin/circuit.go`) | `consecutiveFailures`, `backoffStep`, `retryAt`, `probing`, two gauges | `acquire`, `succeed`, `fail`, `Exec`, `attemptOnce` | queries admitted in one state report in another; workers outlive their attempt; contexts end at any point | fields and gauges agree; one probe per round; stale failures do not prolong an outage; a response is the query's own; recovery |
| Retry backoff (in the circuit, the bridge and the supervisor) | none | exponential delay, jitter | doubling at the cap and the integer range | positive and at most the maximum |
| DoH bridge (`cmd/guarddns/dohbridge.go`) | per upstream: `failures`, `backoffStep`, `retryAt`, `probing` | `ServeDNS`, `exchange`, `acquire`, `fail`, `succeed`, `record`, startup probes | concurrent requests share the breakers; the five-second context ends mid-list; `record` uses two mutexes | the permit is never lost; SERVFAIL is the last resort; the preferred provider comes back |
| Dial cache (same file) | `addresses`, `expiresAt` | `get`, `invalidate` | `get` resolves without the mutex | stale addresses leave the cache |
| Runtime state (`cmd/guarddns/state.go`) | components, upstreams, events | `update`, `observeDoHUpstream`, `sendState` | written by several goroutines; datagrams may be lost | what is exported is current |
| Entrypoint and supervision (`cmd/guarddns/main.go`, `process.go`, `process_unix.go`) | WaitGroup, context, one process per child | `main`, `superviseChild`, signals | a signal at any moment of startup; exit racing shutdown; children that ignore SIGTERM | one instance; no orphans; shutdown completes; restarts |
| Child logs (`cmd/guarddns/process.go`) | `pending`, `boundaries` | `Write`, `Flush`, `suppress` | lines cut by a chunk or by death; query numbers that repeat after a restart | only warnings of reported queries are dropped, none is lost |
| Health endpoints (`internal/supervisorplugin/plugin.go`) | last snapshot, time of receipt | datagram loop, `livez`, `readyz`, metrics | lost or delayed datagrams, restarts of MosDNS | ready only on a recent snapshot; the truth in the end |
| Container health check (`cmd/guarddns/healthcheck.go`) | none | one HTTP request, one DNS query | | verdict follows both |
| Rule files (`internal/rulesplugin/rulesplugin.go`) | file, matcher, `lastGood`, `loaded`, watcher, timer | `newRuleFile`, `reload`, `restoreOrClear`, `watch`, `Close` | saves between the steps of a reload; rewriting causes events; failures half way | file and matcher agree; policy is not lost; the watcher settles |
| TCP server, cancellation classification, request metrics (`internal/`) | counters | `Write` of the wrapped core, `Expected`, `Exec` | a client closing during a query; deadlines that look alike | expected cancellations are counted and quiet, failures are not |
| Routing sequences (`config/`) and decision plugin | the response in the context, the cache | the split-DNS policy | two branches of a fallback racing; a reload between two questions; failures of each resolver | which resolver may answer whom; no fake-IP in the cache; losing one resolver costs no resolution |
| Configuration (`cmd/guarddns/config.go` and templates), MosDNS binary, Unbound configuration | files written once | rendering | | |

`PROJECT.json` lists every component with its status, and every hazard at its
line with the property that would catch it.

## Modules and the code

| Module | Models | Extends / uses |
| --- | --- | --- |
| `Backoff` | the set of delays a call may return, in closed form | |
| `BackoffLoop` | the loop itself, statement by statement, with wrapping integers | `Backoff` |
| `Breaker` | the abstract promise of both circuit breakers | |
| `Circuit` | `circuit.go` | `Backoff`, instance of `Breaker` |
| `DoHBridge` | `dohbridge.go` without the dial cache, and the exported `RetryAtUnixMilli` | `Backoff`, one instance of `Breaker` per upstream |
| `DialCache` | the dial cache of one bootstrapped upstream | |
| `Supervision` | `main.go`, `superviseChild`, the two signals | `Backoff`, instance of `Components` |
| `Components` | the abstract promise of the entrypoint about its component state | |
| `Health` | `sendStateLoop`, the socket, the supervisor plugin and its endpoints | composed with `Components` |
| `RuleFile` | `rulesplugin.go` | |
| `Routing` | the sequences and fallbacks of `mosdns.yaml.tmpl`, `foreign-mihomo.yaml.tmpl`, `foreign-secure.yaml`; the decision plugin | |
| `Reporting` | request metrics, the TCP listeners' logger, `cancelclassify.Expected`, the log filter of the entrypoint | |
| `MCRuleFile` | the contents an operator saves | `RuleFile` |
| `BackoffTheorems`, `CircuitProofs`, `SupervisionProofs`, `RuleFileProofs`, `HealthProofs`, `RoutingProofs`, `ReportingProofs` | theorems | their module |
| `DoHBridgeProofs` | theorems | `DoHBridge` and `DialCache`, the two halves of `dohbridge.go` |

Everywhere a critical section is one step and everything between two critical
sections interleaves. Time is a countdown: the code only ever compares a clock
with `retryAt`, so `retryIn` is the delay drawn and one step, `Elapse`, brings it
to zero. Retry steps saturate at `StepCap`; `StepCapAssumption`, which TLC
evaluates, says that from there on every delay is the maximum, so the
saturation changes no delay.

**Circuit.** A query is a goroutine in `Exec`. `Admit`, `AdmitProbe` and `Bypass`
are the three outcomes of `acquire`; `Reply` is the worker putting its result in
the channel of `attemptOnce`; `TakeAnswer`, `TakeFailureRCode`, `TakeError`,
`AttemptTimeout` and `SelectCtxDone` are the cases of the select together with the
rest of the loop body; `Succeed`, `FailIgnored`, `FailCounted`, `FailTrips` and
`FailEscalates` are the paths of `succeed` and `fail`. `late` holds abandoned
attempts whose worker still runs. A ready result, an expired timer and an ended
context may compete: select chooses any. A name in `Queries` is reused once
nothing of its previous execution is left, so a handful of names stands for
unboundedly many queries, of which that many overlap. `roundProbes` is a history
variable.

**DoHBridge.** `StartupProbe` is `probeDoHUpstream`, before anything listens. A
request goes through `acquire`, the exchange, `succeed` or `fail`, the two halves of
`record` and on to the next upstream. A provider that is up answers before the
HTTP client's three seconds are over. `CtxEnds` requires one failed exchange: the
first cannot outlast the five seconds of `ServeDNS`. `available` is a history
variable: the upstreams reachable and not parked ever since the request came.

**DialCache.** An address is represented by the fake-IP pool it came from. An
exchange over an address of an old pool cannot succeed, because the TLS
certificate is checked against the provider's name; one over a current address
may fail for other reasons. Its names (`DialSpec`, `at`, ...) differ from those of
`DoHBridge` so that one module can extend both.

**Supervision.** `sup[c]` is the program counter of `superviseChild`, `alive[c]` the
number of running processes of the child, `waited[c]` the result in the channel.
Starting a process and marking its component up are two steps, `Start` and `MarkUp`:
the process may end, and the state may be read, in between.
`main` goes on spawning when the signal comes early, as the code does. The probing
of ports between two spawns is a bounded wait whatever happens and is left out.

**RuleFile.** A content is a set of lines of four forms: canonical, another
spelling of a rule, invalid, comment. `Cleaned` is what `sanitizeRules` leaves. The
size of a content is known as far as reload looks at it: `Oversized` is a set of
contents, and a content that is not in it may be once it is sanitized, since a bare
name is given its type. The read, the build, the rename and the swap of `reload` are separate steps that may
each fail; the operator saves between any two; a rename of reload's own causes an
event like any save. `Restart` loses everything but the file. `missed` and `ours` are
history variables: a save nobody was watching for, not read since; and that the file
is as a reload has written it.

**Health.** `EXTENDS Components`, so the entrypoint's part is the abstract one that
`Supervision` is shown to implement: the composition is checked once, on the small
specification. `sendState` is three steps (snapshot, dial, write) between any two
of which a component may change or MosDNS may die; a write goes to the socket that
was dialed, and is lost if that MosDNS is gone even if another is bound to the
path. `held` is the snapshot of the plugin with its age since receipt. `downFor` is a
history variable, the seconds since the bridge was up. A second passes only when
no datagram is older than `MaxDelay`: that bound is the one assumption about the
time a datagram takes, and `ReadyIsRecent` states what follows from it.

**Routing.** One query, as a main context and the two copies a fallback works on; the
copy-back of the first response, the threshold, the failure of both and the stand-by
are MosDNS's fallback plugin, modelled from its use. A response is its origin, its
kind (CN address, other address, none, NXDOMAIN, SERVFAIL, fake address) and
whether its TTL was clamped. Other queries are seen through the shared cache, which
changes under a lookup. Whether MosDNS's cache answers at once or lets the
sequence go on after a hit is left open, and so is what it keeps after a failed
lookup: both are allowed. Each rule file is asked twice, as the
sequence does, and may be reloaded in between. `verdict`, `revised`, `lost` and
`reloaded` are history variables. `Attempts * AttemptTimeout` and `Threshold` are the
configured 2 × 800 ms and 2000 ms in units of 400 ms.

**Reporting.** A query is `Begin` (the collector), `Collect`, `Report` (the entry
handler's warning through the wrapped or the plain logger) and `Respond`. Its lookups
may log a deadline at any time, after its end too. The pipe to the entrypoint holds
lines; `ReadPart` and `ReadRest` are a line cut by a chunk, `Flush` the one cut by
the death of MosDNS. `OutputFails` is a write to the entrypoint's own output that
fails, in `Write` or in `Flush`: copying ends and the pipe is closed, and `lost` holds the
lines that met with it. The next MosDNS uses the same query numbers. `output`,
`suppressed` and `lost` hold the lines of the current MosDNS, so the model needs no
bound on restarts.

## Runs

| Run | Question | Bounds |
| --- | --- | --- |
| `backoff_loop` | Does the loop compute the closed form? | every initial ≤ maximum ≤ 40, steps 0..9, 8-bit signed integers |
| `circuit` | Gauges, probes, own responses, refinement, returns, recovery | 2 queries, threshold 2, 2 attempts, delays 5 and 6, fair |
| `circuit_probe_leak` | Does a half-open probe always restore forwarding? **No** | 2 queries, threshold 1, 1 attempt |
| `doh` | Breakers, permits, last resort, refinement, returns, recovery | 2 requests, 2 upstreams, one probed at startup, one delay, fair |
| `dial_cache` | Do stale addresses leave the cache without the TTL? | 3 exchanges, 2 rebuilds, fair |
| `supervision` | Instances, orphans, refinement of `Components`, shutdown, restarts | 2 children, delays 5 and 6, fair |
| `rule_file` | Agreement, lost policy, settling | 3 saves of 8 kinds of content, 1 restart, fair |
| `rule_file_overwrite` | Is every saved change read before it is overwritten? **No** | 1 save |
| `health` | Is readiness recent, and does the report settle? | 2 children, stale after 3 s, delay up to 2 s, 2 datagrams, fair |
| `routing` | Who may answer whom, and what do failures cost? | one query of any type on either listener in either mode, 2 attempts of 2 units, threshold 5, fair |
| `routing_unproven` | Does a name reach Mihomo only if proved non-CN? **No** | the same |
| `reporting` | Which lines are suppressed, hidden or lost? | 2 queries per MosDNS, 2 lines in the pipe, fair |

Why the bounds are enough to meet the interesting cases:

- Two queries with a threshold of two give the failure that counts, the one that
  opens and, since names are reused, a stale query that reports to an open,
  half-open or closed-again circuit while the other is the probe. Two attempts
  give a late worker beside a current one. The delays 5 and 6 are the smallest
  with a spread (5 ± 1) and a cap (6) in reach, so jitter below, at and cut off at
  the maximum all occur.
- Two upstreams give a preferred and a last one. Two requests give two results of
  one upstream in either order, and a request that is refused while the other
  probes. `doh` uses a single delay because its properties do not depend on the
  length of a delay; the growth of delays is in the `circuit` run, which shares the
  operators, and the proofs of the safety properties hold for all delays.
- Three exchanges allow two old resolutions to be outstanding around an
  invalidate, one of each older pool.
- Two children show the order of spawning; a child's supervisor shares nothing
  with another's but the WaitGroup and the context.
- Three saves cover one before the watch or during the first load, one between
  the read and the rename, and one during the reload that the rename causes. One
  content is oversized, and one becomes so by being sanitized.
- Two children of `health` are MosDNS, whose death takes the socket along, and one
  whose loss only degrades. A stale limit of three with delays up to two lets a
  datagram of before a loss arrive after it and be believed.
- One query is enough for `routing`, where queries meet in the cache and the
  circuit only: `CacheChanges` is what the others do to the cache, and any failure
  of the circuit is allowed at any time. The fallback of the classifier and a
  fake-IP fallback follow each other within one query, so left-over branches of
  the first are covered.
- Two queries of `reporting` give a reported one and an unreported one whose lines
  mix, and the same two numbers come back after a restart.
- Eight bits hold twice the largest delay of `backoff_loop`, as 64 bits hold twice
  the configured maxima.

The bounds on saves and restarts (`MaxSaves`, `MaxRestarts`), on rebuilds
(`MaxPool`), on steps (`StepCap`), on the delay and number of datagrams (`MaxDelay`,
`QueueLimit`) and on queries and lines of the log (`NQueries`, `PipeLimit`) are the
only caps on behaviour.

What the passing properties say, by module:

- `Circuit`: `GaugesTruthful`, `OneProbePerRound`, `ResponseIsOwn`,
  `OutageProlongedOnlyByProbe`, `ImplementsBreaker`, `ExecReturns`,
  `ClosesUnlessProbeAbandoned` (the circuit closes once Mihomo works, except in the
  situation of the first finding).
- `DoHBridge`: `ProbeIsHeld` (what the circuit cannot promise:
  every path out of `exchange` settles its permit), `AvailableProviderAnswers`,
  `ImplementsBreakers`, `EveryRequestReturns`, `PreferredRecovers`.
- `DialCache`: `StaleAddressesGo`.
- `Supervision`: `OneInstance`, `NoOrphans`, `ShutdownCompletes`,
  `ExitedChildIsRestarted`, `ImplementsComponents` (a component is marked up after
  its process was started and down after its end was seen).
- `Health`: `ReadyIsRecent` (the container is never called ready longer than the
  stale limit and one delay after the bridge was last up), `ReportSettles` (lost
  datagrams and restarts notwithstanding, `dependencies` reports the truth for good
  once nothing changes).
- `Routing`: `FakeNeverCached`, `RealPathIsEncrypted`, `PlaintextOnlyIfDomestic`,
  `NegativeNotFaked`, `FallbackIsTransient`, `StandbyIsErrorDriven`,
  `ResolutionSurvives`, `OneRouteCounted`, `EveryQueryEnds`: the claims of
  `README.md` 96-107 and of the comments in the templates, each over all races of
  branches, threshold, deadline, cache and reload.
- `Reporting`: `SuppressedOnlyAfterReport`, `DisconnectsAreQuiet` (`err_total` is exactly
  the deadlines and the upstreams' errors), `FailureIsReported`: the three claims of
  `README.md` 115-122. A line that meets a failing write counts as handed to the
  output.
- `RuleFile`: `SettledFileIsActive`, `RewrittenFileIsActive` (what reload has written,
  whatever made it write, is what is active, across failures and restarts),
  `ClearedOnlyByEmptyFile`, `RewrittenOnce` (no second rewrite, not even by a later
  MosDNS, without a save in between) and `WatcherSettles`; the last two except rules
  that are oversized once sanitized, the situation of the fourth finding.

The type invariants of `Circuit`, `DoHBridge`, `DialCache`, `Supervision`, `Health` and `RuleFile`,
and the plain agreements between fields (`CircuitConsistent`, `BreakersConsistent`,
`ComponentsTruthful`), are proved for every instance and not checked again by a run;
those of `Routing` and `Reporting` are proved and also checked.

Next to the definitions stand *mutants*: a definition with one plausible mistake
(a dropped guard, a missing reset, an off-by-one). `PROJECT.json` names, for each
property, a mutant that violates it.

## Fairness

Only what the Go runtime and the operating system guarantee is assumed, as weak
fairness: goroutines that can proceed do, timers fire, a process that was sent
SIGKILL dies, events of the file watcher are delivered, and the forward plugin
under a worker returns (it has a deadline of its own). Two assumptions are about
the load: clients keep asking (`Exec(q)`, `Serve(r)`, `Dial(e)`), since breakers
recover only by being asked. Nothing is assumed of Mihomo, the providers,
contexts, children that were not killed, or of the TTL of the dial cache; where
recovery depends on a provider being back, that is the premise of the property.
`Health` also lets time pass, `Routing` has every exchange of a forward plugin end
(each has a deadline of its own) without relying on the deadline of the query, and
`Reporting` has the copying goroutine of `os/exec` scheduled.

## Refinement

`Breaker` is the promise, with no query in sight: a closed breaker opens when
`Threshold` failures have been counted with no success in between; an open one lets a
probe through once its delay is over, one per round; only a failure with a probe
out prolongs the outage; a success closes it. `Circuit` implements it under the map
`mode <- stateGauge`, `failures <- consecutiveFailures`, `level <- backoffStep`,
`cooling <- retryIn > 0`; the mode is the exported gauge, so the gauge is part of the
claim. Every upstream of `DoHBridge` implements it too, with the mode computed from
`backoffStep` and `probing`. Both are checked by TLC and proved.

`Components` is what a reader of the component state may rely on: a component is marked
up once after each start of its process and down after its end was seen, the bridge comes up once, and
the entrypoint exits with every child gone. `Supervision` implements it under
`exited <- main = "exited"`, `running[c] <- alive[c] > 0`, `unmarked[c] <- sup[c] =
"started"` (started and not yet marked up) and the bridge's state from `main` and `bridgeUp` (`ImplementsComponents`, checked by TLC and proved), and `Health` extends
it, so that its results hold of the detailed supervisors. (Both declare the same
`compUp` and `ctxDone`.) That the sender and the plugin add nothing to what the
entrypoint does, `HealthSpec => Spec`, is proved as well (`EntrypointIsUndisturbed`).

## Proofs

Assumptions are those of the component modules, all evaluated by TLC in the runs:
thresholds, attempts and delays are positive, the initial delay is at most the
maximum (the code validates or fixes these), and `StepCapAssumption`. For
`RuleFile`: contents are sets of lines, `Absent` and `NoMatcher` are different from
contents, and `Oversized` is any set of contents without the empty one. For `Routing`: the attempts of the circuit together take less
than the threshold of a fallback, as the template has it (two times 800 ms, and two
seconds). `None` of `Routing` and of `Reporting` and `NoSnapshot` of `Health` are none
of the values they stand for the absence of. `StaleAfter` exceeds `MaxDelay`: no datagram
takes five seconds.

| Module | Theorems | Inductive invariant, and why |
| --- | --- | --- |
| `BackoffTheorems` | `RetryDelaysBounded`: every delay is in 1..maximum | none; arithmetic on the closed form |
| `CircuitProofs` | `TypeCorrect`, `Consistency`, `Truthfulness`, `SingleProbe`, `OwnResponse`, `Refinement`, `NoStaleProlonging` | `TypeOK`, `CircuitConsistent`, `GaugesTruthful`, `OneProbePerRound`, `ResponseIsOwn` together: only consistency keeps `consecutiveFailures` within its type, and the probe count needs to know that an open circuit without probe has granted none |
| `DoHBridgeProofs` | `TypeCorrect`, `Consistency`, `ProbeNeverLost`, `ServfailIsLastResort`, `Refinement` | adds `StartupInv` (the startup probes touch closed breakers only) and `AvailabilityInv` (a request has passed no upstream that was available throughout), which is what makes `AvailableProviderAnswers` inductive |
| | `DialTypeCorrect`, `StalenessRunsOut` | `DialTypeOK` itself, which includes that nothing empty is dialed; the second is an action property, the safety half of `StaleAddressesGo`: while the pool stays, the stale resolutions only get fewer and a cache becomes stale only by using one up |
| `SupervisionProofs` | `TypeCorrect`, `SingleInstance`, `CleanExit`, `TruthfulComponents`, `Refinement` | `ProcessInv` (a supervisor holds one process, running or waited for), `Counting` (the WaitGroup counts the supervisors that have not returned, by the cardinality of a finite set), `MainInv` (which supervisors exist); the refinement also needs `MainKnows` (main waits only after the signal, and the bridge is not up before it was started) |
| `RuleFileProofs` | `TypeCorrect`, `RewrittenAgrees`, `SettledAgrees`, `PolicyNotLost` | `ControlInv` (what each point of reload has set up), `FileInv` (with no change pending, the file is what this point of reload expects) and `OursInv` (what a reload in progress would leave of a file it has written itself, and how that compares with what is active) |
| `HealthProofs` | `TypeCorrect`, `ReadinessIsRecent`, `EntrypointIsUndisturbed` | `AgeInv`: a snapshot in the sender or in the socket that has the bridge up is at least as old as the bridge has been down; what the plugin holds is that old too but for the delay, as long as its age still counts. `ReadyIsRecent` alone says nothing of the datagrams still to be received |
| `RoutingProofs` | `TypeCorrect`, `CacheIsReal`, `SecurePath`, `PlaintextIsDomestic`, `DenialStays`, `StandInIsTransient`, `ErrorDrivenStandby`, `ResolutionIsNotLost`, `RouteIsCounted` | `ControlInv` (where each of the three contexts can be under which fallback, what the branches taken say about question and rules, which route is counted at each), `ResponseInv` (where the response in each context came from, `revised` being the one the encrypted resolver gave after the classifier), `ErrorInv` (the time spent on Mihomo is within the circuit's budget, so the threshold cannot have passed; a stand-by fails only by the encrypted resolver or because the primary has answered). The claims are about answered queries; the invariant is about the responses on their way |
| `ReportingProofs` | `TypeCorrect`, `NothingUnreportedIsDropped`, `DisconnectsAreNoErrors`, `ReportsAreNotLost` | `LineInv` (the lines of this MosDNS, in the pipe, pending, written or dropped, belong to its queries and agree on their listener, even when it has died), `BoundaryInv` (a query in `boundaries` has its line in the output, or a failing write has met it), `ResultInv` (nothing but a lookup is logged of a disconnect), `CounterInv` (each counter is the cardinality of a set of queries, which is what bounds them, keeps the gauge from becoming negative and makes `err_total` exactly the failures that are not disconnects). The last theorem is the safety half of `FailureIsReported`: a failed query has its line on the way, and from there the line goes nowhere but to the output, and is lost only by a failing write |

They hold for every number of queries, requests, upstreams, children, rules,
contents, attempts, log lines, datagrams and rebuilds, and for every delay. Every proof is per action; step
invariance is one lemma or one step per action, and the temporal step is last.

### Safety halves of liveness

Liveness itself is beyond the prover, but most of what could be wrong in it is
not about fairness: a cycle, a retry that starts over, someone waiting on something
that cannot come. That part is proved, where it applies as a measure: a natural number
with a bound for every instance, which the steps of the process in question decrease
and which nothing increases but what gives it new work (a new query, a save, a new
process). What remains to the liveness property is that a step that stays possible
is taken, and for the breakers that clients keep asking.

| Property | Theorems | Measure |
| --- | --- | --- |
| `ExecReturns` | `ExecIsBounded` | `ExecSteps`: two steps per attempt left and one for the return; other queries leave it alone |
| `ClosesUnlessProbeAbandoned` | `ProbeLostOnlyByItsContext`, `AbandonedProbeIsForGood` | none: which end of a probe is not reported, and that the state after it is closed under every step. The second proves the first finding for any number of queries |
| `EveryRequestReturns` | `RequestIsBounded` | five steps for each upstream left; the list is gone through once |
| `PreferredRecovers` | `ExportFollowsBreaker` | the set of requests that hold a reading older than the breaker; it only shrinks while the breaker stays |
| `ShutdownCompletes` | `ShutdownIsBounded`, `ShutdownNeverStuck` | `NChildren + 3` steps of main and 19 per child, over supervisor, process and result; the second theorem says that whoever is waited for can move |
| `ExitedChildIsRestarted` | `RestartIsNear` | `UntilStart`, at most four |
| `WatcherSettles` | `OneRewritePerSave`, `WorkIsBounded`, `OversizedLoops` | `Work`, counting pending events and the rest of the current reload; it needs `RewriteInv`, that reload rewrites only what is not sanitized, and `OursTidy`, that a file it has written is sanitized unless it is oversized. The third theorem is about that exception: it proves the endless loop of the fourth finding for any rules and contents |
| `ReportSettles` | `SnapshotsKeepComing`, `ReportSettlesInTime` | seconds: `FlightInv` bounds the age of what is held by that of what is received next, so it is at most `MaxDelay + 1`; `SettledFor(k)` says that what was taken in the last `k` seconds is true, which a quiet second turns into `k + 1`. Both bounds are tight: TLC finds counterexamples to either less one |
| `EveryQueryEnds` | `QueryIsBounded`, `QueryNeverStuck` | 13 steps of main, lexicographically before `Threshold + 5` of branches and clock |
| `FailureIsReported` | `ReportsAreNotLost`, `LinesAreNear` | `Turn(i)`: two steps of the copier per line, in order, as long as no write of the output fails |
| `StaleAddressesGo` | `StalenessRunsOut` | the stale resolutions outstanding |

Only model-checked: the liveness properties themselves (`ExecReturns`, `ClosesUnlessProbeAbandoned`,
`EveryRequestReturns`, `PreferredRecovers`, `StaleAddressesGo`, `ShutdownCompletes`,
`ExitedChildIsRestarted`, `WatcherSettles`, `ReportSettles`, `EveryQueryEnds`,
`FailureIsReported`), of which the halves above are proved and the fairness is not: that
a step that stays possible is taken; the loop of `BackoffLoop`
(`LoopMeetsClosedForm`), whose result needs induction over the iterations and facts
about powers of two (the provers do not even find `2^(n+1) = 2 * 2^n`); and the violations. Every
other property of a passing run is stated by a theorem.

## Findings

1. `circuit_probe_leak`: a probe whose context ends returns from `Exec` without
   `succeed` or `fail` (`internal/circuitplugin/circuit.go:283`). `probing` stays true
   and every later query is refused, although "a half-open probe restores
   forwarding automatically" (`README.md:107`). `AbandonedProbeIsForGood` proves it for
   any number of queries; only the success of a query admitted before the circuit
   opened can still help.
2. `rule_file_overwrite`: a save between reload's read and its rename
   (`internal/rulesplugin/rulesplugin.go:207`) is overwritten unread.
3. `routing_unproven`: whatever is not a CN address counts as overseas, an empty
   answer or a SERVFAIL of the recursive resolver included, and the encrypted
   answer is not tested against `cn_ips` (`config/mosdns.yaml.tmpl:112`). A name with a
   CN address can so be sent to Mihomo, although "unknown names reach Mihomo only
   after their real response proves non-CN" (`README.md:100`).
4. `OversizedLoops` (proved, without a run of its own): `normalizeRule` gives a bare name its type
   (`internal/rulesplugin/rulesplugin.go:335`), so a file of bare names within
   `maxRuleFileBytes` may be rewritten to more than the limit. The rules are in force,
   but the event of the rewrite makes reload read a file it rejects (279), and
   `restoreOrClear` writes the same oversized rules back (230-236), and so on after
   every debounce, as the theorem says for any rules. The next MosDNS has nothing to restore and
   clears the file (238), although all its rules were valid and they were to be kept
   "so active policy is not lost" (`README.md:211`).

Smaller races the models contain without a run of their own: `record` stores what
it read in an earlier critical section, so that an exported backoff may be
outdated until the next request (`PreferredRecovers` shows that it does not stay);
a resolution begun before an `invalidate` is stored after it (`StaleAddressesGo`
shows that the next failure removes it); a save between the first read and the
start of the watch is not reloaded (`missed` in `SettledFileIsActive`); a report whose
write to the output fails is remembered as made, so that the warnings of its query
are still dropped (`lost` in `SuppressedOnlyAfterReport`); and an
upstream's "connection reset by peer" on a TCP listener is taken for the client's
(excepted in `FailureIsReported`).

## What is not modelled

- Log formatting, and counters that no property is about (`Restarts`, the event
  counters of an upstream, the latency histogram, the metrics `Collect` derives
  from a snapshot): they carry no control.
- `checkSecureDNS`: one query on the secure listener, whose path is in `Routing`.
- Sockets, TLS and idle timeouts of the TCP listeners: MosDNS's server.
- DNS packing and HTTP: an exchange is its outcome.
- Configuration and templates: sequential string processing before anything runs,
  every file replaced by a rename. `AUTO_FORWARD` appears as `auto` of `Routing`.
- MosDNS, Unbound, Mihomo, fsnotify and the kernel are environment, modelled by
  how the code uses them: Mihomo and providers that break and recover, contexts
  that end, a watcher that delivers every event (an overflow of its queue is not
  modelled), processes that exit at any time.
- What a rule matches.

## Plan

Done, in this order: `Backoff`, `Breaker`, `Circuit`, `DoHBridge`, `DialCache`,
`Supervision`, `RuleFile` and their proofs; then `Components`, `Health`, `Routing` and
`Reporting`, and the proofs of their safety.

Then the safety halves of the liveness properties, module by module. What is left
would be the liveness proofs themselves and the loop of `BackoffLoop`, for a prover
with fairness and induction.
