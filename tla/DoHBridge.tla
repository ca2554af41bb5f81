------------------------------ MODULE DoHBridge ------------------------------
(***************************************************************************)
(* The in-process DoH bridge of cmd/guarddns/dohbridge.go: Unbound sends   *)
(* its queries to it, and ServeDNS tries the encrypted upstreams in order  *)
(* until one answers.  Every upstream has a breaker of its own, shared by  *)
(* all requests, which parks it after two consecutive failures.            *)
(*                                                                         *)
(* ServeDNS runs on a goroutine per request.  acquire, fail, succeed and   *)
(* the two halves of record (reading retryAt, storing it in the runtime    *)
(* state) each hold a mutex and are one step each; requests interleave     *)
(* between them.  The dial address cache of the upstreams is in module     *)
(* DialCache.                                                              *)
(***************************************************************************)
EXTENDS Backoff

CONSTANTS
    Requests,       \* goroutines of ServeDNS
    NUpstreams,     \* number of upstreams, tried in order from 1
    NAuto,          \* the first NAuto of them are probed at startup
    InitialBackoff, \* one second, in units of the model
    MaxBackoff,     \* five minutes
    StepCap         \* bound on backoffStep: from here on every delay is MaxBackoff

ASSUME BridgeAssumption ==
    /\ NUpstreams \in Nat \ {0}
    /\ NAuto \in 0..NUpstreams
    /\ InitialBackoff \in Nat \ {0}
    /\ MaxBackoff \in Nat
    /\ InitialBackoff <= MaxBackoff
    /\ StepCap \in Nat \ {0}

\* Saturating backoffStep at StepCap changes no delay.
ASSUME StepCapAssumption ==
    ExponentialDelay(InitialBackoff, MaxBackoff, StepCap) = MaxBackoff

Upstreams == 1..NUpstreams

dohFailureThreshold == 2

VARIABLES
    failures, backoffStep, probing,
    retryIn,        \* per upstream: time left until retryAt
    exported,       \* RetryAtUnixMilli # 0 in the runtime state
    probed,         \* upstreams probed at startup so far
    pc, cur,        \* per request: where it is, the upstream it is at
    probe,          \* permit.probe
    seen,           \* the retryAt record has read is not zero
    got,            \* the exchange returned an answer
    tried,          \* an exchange of this request has failed before
    ctxDone,        \* the five seconds of ServeDNS are over
    up,             \* per upstream: the provider answers (environment)
    available       \* history: upstreams up and closed ever since the request came

breakerVars == <<failures, backoffStep, probing, retryIn>>
requestVars == <<pc, cur, probe, seen, got, tried, ctxDone>>
vars == <<breakerVars, exported, probed, requestVars, up, available>>

Returned == {"idle", "answered", "servfail"}

\* "acquire", "succeed", "fail", "record", "observe": about to take that step;
\* "exchange": exchangeOnce runs.
Running == {"acquire", "exchange", "succeed", "fail", "record", "observe"}

TypeOK ==
    /\ failures \in [Upstreams -> 0..dohFailureThreshold]
    /\ backoffStep \in [Upstreams -> 0..StepCap]
    /\ probing \in [Upstreams -> BOOLEAN]
    /\ retryIn \in [Upstreams -> 0..MaxBackoff]
    /\ exported \in [Upstreams -> BOOLEAN]
    /\ probed \in 0..NAuto
    /\ pc \in [Requests -> Returned \cup Running]
    /\ cur \in [Requests -> Upstreams]
    /\ probe \in [Requests -> BOOLEAN]
    /\ seen \in [Requests -> BOOLEAN]
    /\ got \in [Requests -> BOOLEAN]
    /\ tried \in [Requests -> BOOLEAN]
    /\ ctxDone \in [Requests -> BOOLEAN]
    /\ up \in [Upstreams -> BOOLEAN]
    /\ available \in [Requests -> SUBSET Upstreams]

Init ==
    /\ failures = [u \in Upstreams |-> 0]
    /\ backoffStep = [u \in Upstreams |-> 0]
    /\ probing = [u \in Upstreams |-> FALSE]
    /\ retryIn = [u \in Upstreams |-> 0]
    /\ exported = [u \in Upstreams |-> FALSE]
    /\ probed = 0
    /\ pc = [r \in Requests |-> "idle"]
    /\ cur = [r \in Requests |-> 1]
    /\ probe = [r \in Requests |-> FALSE]
    /\ seen = [r \in Requests |-> FALSE]
    /\ got = [r \in Requests |-> FALSE]
    /\ tried = [r \in Requests |-> FALSE]
    /\ ctxDone = [r \in Requests |-> FALSE]
    /\ up \in [Upstreams -> BOOLEAN]
    /\ available = [r \in Requests |-> {}]
-----------------------------------------------------------------------------
(***************************************************************************)
(* probeDoHUpstream: before the bridge listens, every AUTO_FORWARD upstream*)
(* is exchanged with once.  Nothing runs beside it, so the whole exchange  *)
(* is one step.  The upstream is kept whatever the result, but a failure   *)
(* is the first of the two that park it.                                   *)
(***************************************************************************)
StartupProbe ==
    /\ probed < NAuto
    /\ probed' = probed + 1
    /\ \E answered \in BOOLEAN :
           /\ answered => up[probed + 1]
           /\ failures' = [failures EXCEPT ![probed + 1] = IF answered THEN 0 ELSE 1]
    /\ UNCHANGED <<backoffStep, probing, retryIn, exported, requestVars, up, available>>

\* A request arrives at ServeDNS.
Serve(r) ==
    /\ probed = NAuto
    /\ pc[r] \in Returned
    /\ pc' = [pc EXCEPT ![r] = "acquire"]
    /\ ctxDone' = [ctxDone EXCEPT ![r] = FALSE]
    /\ available' = [available EXCEPT ![r] = {u \in Upstreams : up[u] /\ backoffStep[u] = 0}]
    /\ UNCHANGED <<breakerVars, exported, probed, cur, probe, seen, got, tried, up>>
-----------------------------------------------------------------------------
\* Mutant of ProbeDue: retryAt is not looked at.
ProbeDueEarly(u) == backoffStep[u] > 0 /\ ~probing[u]

\* acquire on the upstream of the request.
ProbeDue(u) == backoffStep[u] > 0 /\ retryIn[u] = 0 /\ ~probing[u]

Refused(u) == backoffStep[u] > 0 /\ (retryIn[u] > 0 \/ probing[u])

\* The permit p is granted and exchangeOnce begins.
Begin(r, p) ==
    /\ pc' = [pc EXCEPT ![r] = "exchange"]
    /\ probe' = [probe EXCEPT ![r] = p]
    /\ UNCHANGED <<failures, backoffStep, retryIn, exported, probed, cur, seen,
                   got, tried, ctxDone, up, available>>

Acquire(r) ==
    /\ pc[r] = "acquire" /\ backoffStep[cur[r]] = 0
    /\ Begin(r, FALSE)
    /\ UNCHANGED probing

AcquireProbe(r) ==
    /\ pc[r] = "acquire" /\ ProbeDue(cur[r])
    /\ probing' = [probing EXCEPT ![cur[r]] = TRUE]
    /\ Begin(r, TRUE)

AcquireRefused(r) ==
    /\ pc[r] = "acquire" /\ Refused(cur[r])
    /\ pc' = [pc EXCEPT ![r] = "record"]
    /\ UNCHANGED <<breakerVars, exported, probed, cur, probe, seen, got, tried, ctxDone, up, available>>

(***************************************************************************)
(* exchangeOnce.  A provider that is up answers well within the client's   *)
(* three seconds; the exchange fails when the provider is down or the      *)
(* context of ServeDNS has ended.  The result is applied later.            *)
(***************************************************************************)
ExchangeAnswers(r) ==
    /\ pc[r] = "exchange" /\ up[cur[r]]
    /\ pc' = [pc EXCEPT ![r] = "succeed"]
    /\ got' = [got EXCEPT ![r] = TRUE]
    /\ UNCHANGED <<breakerVars, exported, probed, cur, probe, seen, tried, ctxDone, up, available>>

ExchangeFails(r) ==
    /\ pc[r] = "exchange" /\ (~up[cur[r]] \/ ctxDone[r])
    /\ pc' = [pc EXCEPT ![r] = "fail"]
    /\ tried' = [tried EXCEPT ![r] = TRUE]
    /\ UNCHANGED <<breakerVars, exported, probed, cur, probe, seen, got, ctxDone, up, available>>

\* The five-second context ends.  The first exchange cannot outlast it: the
\* HTTP client gives up after three.
CtxEnds(r) ==
    /\ pc[r] = "exchange" /\ tried[r] /\ ~ctxDone[r]
    /\ ctxDone' = [ctxDone EXCEPT ![r] = TRUE]
    /\ UNCHANGED <<breakerVars, exported, probed, pc, cur, probe, seen, got, tried, up, available>>
-----------------------------------------------------------------------------
\* fail or succeed has released the mutex; record is next, and the permit
\* is used up.
Settle(r) ==
    /\ pc' = [pc EXCEPT ![r] = "record"]
    /\ probe' = [probe EXCEPT ![r] = FALSE]
    /\ UNCHANGED <<exported, probed, cur, seen, got, tried, ctxDone, up>>

Succeed(r) ==
    /\ pc[r] = "succeed"
    /\ failures' = [failures EXCEPT ![cur[r]] = 0]
    /\ backoffStep' = [backoffStep EXCEPT ![cur[r]] = 0]
    /\ retryIn' = [retryIn EXCEPT ![cur[r]] = 0]
    /\ probing' = [probing EXCEPT ![cur[r]] = FALSE]
    /\ Settle(r)
    /\ UNCHANGED available

\* An open upstream's failure counts only for a probe.
FailIgnored(r) ==
    /\ pc[r] = "fail" /\ backoffStep[cur[r]] > 0
    /\ ~probe[r] \/ ~probing[cur[r]]
    /\ Settle(r)
    /\ UNCHANGED <<breakerVars, available>>

\* The first of two consecutive failures.
FailCounted(r) ==
    /\ pc[r] = "fail" /\ backoffStep[cur[r]] = 0
    /\ failures[cur[r]] + 1 < dohFailureThreshold
    /\ failures' = [failures EXCEPT ![cur[r]] = @ + 1]
    /\ Settle(r)
    /\ UNCHANGED <<backoffStep, probing, retryIn, available>>

NextStep(n) == IF n < StepCap THEN n + 1 ELSE StepCap

\* Mutant of Park: a failed probe is not given back.
ParkKeepsProbe(u, step) ==
    /\ backoffStep' = [backoffStep EXCEPT ![u] = step]
    /\ \E delay \in RetryDelays(InitialBackoff, MaxBackoff, step) :
           retryIn' = [retryIn EXCEPT ![u] = delay]
    /\ available' = [r \in Requests |-> available[r] \ {u}]
    /\ UNCHANGED probing

\* The upstream is parked.
Park(u, step) ==
    /\ backoffStep' = [backoffStep EXCEPT ![u] = step]
    /\ probing' = [probing EXCEPT ![u] = FALSE]
    /\ \E delay \in RetryDelays(InitialBackoff, MaxBackoff, step) :
           retryIn' = [retryIn EXCEPT ![u] = delay]
    /\ available' = [r \in Requests |-> available[r] \ {u}]

FailTrips(r) ==
    /\ pc[r] = "fail" /\ backoffStep[cur[r]] = 0
    /\ failures[cur[r]] + 1 >= dohFailureThreshold
    /\ failures' = [failures EXCEPT ![cur[r]] = @ + 1]
    /\ Park(cur[r], 1)
    /\ Settle(r)

FailEscalates(r) ==
    /\ pc[r] = "fail" /\ backoffStep[cur[r]] > 0
    /\ probe[r] /\ probing[cur[r]]
    /\ Park(cur[r], NextStep(backoffStep[cur[r]]))
    /\ Settle(r)
    /\ UNCHANGED failures
-----------------------------------------------------------------------------
\* record, first critical section: retryAt, zero exactly when it is not set.
Record(r) ==
    /\ pc[r] = "record"
    /\ seen' = [seen EXCEPT ![r] = backoffStep[cur[r]] > 0]
    /\ pc' = [pc EXCEPT ![r] = "observe"]
    /\ UNCHANGED <<breakerVars, exported, probed, cur, probe, got, tried, ctxDone, up, available>>

\* ServeDNS writes its message and returns: its local variables are gone.
Return(r, result) ==
    /\ pc' = [pc EXCEPT ![r] = result]
    /\ cur' = [cur EXCEPT ![r] = 1]
    /\ tried' = [tried EXCEPT ![r] = FALSE]

\* Mutants of Continue: the loop ends one upstream early, or does not advance.
ContinueButLast(r) ==
    IF ~got[r] /\ ~ctxDone[r] /\ cur[r] + 1 < NUpstreams
    THEN /\ pc' = [pc EXCEPT ![r] = "acquire"]
         /\ cur' = [cur EXCEPT ![r] = @ + 1]
         /\ UNCHANGED tried
    ELSE Return(r, IF got[r] THEN "answered" ELSE "servfail")

ContinueInPlace(r) ==
    IF ~got[r] /\ ~ctxDone[r]
    THEN pc' = [pc EXCEPT ![r] = "acquire"] /\ UNCHANGED <<cur, tried>>
    ELSE Return(r, IF got[r] THEN "answered" ELSE "servfail")

\* The loop of ServeDNS after an exchange: answer, next upstream or SERVFAIL.
Continue(r) ==
    IF got[r]
    THEN Return(r, "answered")
    ELSE IF ~ctxDone[r] /\ cur[r] < NUpstreams
    THEN /\ pc' = [pc EXCEPT ![r] = "acquire"]
         /\ cur' = [cur EXCEPT ![r] = @ + 1]
         /\ UNCHANGED tried
    ELSE Return(r, "servfail")

\* record, second critical section (observeDoHUpstream), and the way on.
Observe(r) ==
    /\ pc[r] = "observe"
    /\ exported' = [exported EXCEPT ![cur[r]] = seen[r]]
    /\ seen' = [seen EXCEPT ![r] = FALSE]
    /\ got' = [got EXCEPT ![r] = FALSE]
    /\ Continue(r)
    /\ UNCHANGED <<breakerVars, probed, probe, ctxDone, up, available>>
-----------------------------------------------------------------------------
\* The delay of a parked upstream is over.
Elapse(u) ==
    /\ retryIn[u] > 0
    /\ retryIn' = [retryIn EXCEPT ![u] = 0]
    /\ UNCHANGED <<failures, backoffStep, probing, exported, probed, requestVars, up, available>>

\* A provider goes away or comes back.
ProviderChanges(u) ==
    /\ up' = [up EXCEPT ![u] = ~@]
    /\ available' = [r \in Requests |-> available[r] \ {u}]
    /\ UNCHANGED <<breakerVars, exported, probed, requestVars>>

\* The goroutine of a request moves on.
Proceed(r) ==
    \/ Acquire(r) \/ AcquireProbe(r) \/ AcquireRefused(r)
    \/ ExchangeAnswers(r) \/ ExchangeFails(r)
    \/ Succeed(r)
    \/ FailIgnored(r) \/ FailCounted(r) \/ FailTrips(r) \/ FailEscalates(r)
    \/ Record(r) \/ Observe(r)

Next ==
    \/ StartupProbe
    \/ \E r \in Requests : Serve(r) \/ Proceed(r) \/ CtxEnds(r)
    \/ \E u \in Upstreams : Elapse(u) \/ ProviderChanges(u)

Spec == Init /\ [][Next]_vars

(***************************************************************************)
(* Goroutines are scheduled, delays pass, Unbound keeps asking.  Nothing   *)
(* is assumed of the providers or of the contexts.                         *)
(***************************************************************************)
Fairness ==
    /\ WF_vars(StartupProbe)
    /\ \A r \in Requests : WF_vars(Serve(r)) /\ WF_vars(Proceed(r))
    /\ \A u \in Upstreams : WF_vars(Elapse(u))

FairSpec == Spec /\ Fairness
-----------------------------------------------------------------------------
(***************************************************************************)
(* The fields of an upstream agree with each other, however the results of *)
(* concurrent requests are interleaved.                                    *)
(***************************************************************************)
BreakersConsistent ==
    \A u \in Upstreams :
        IF backoffStep[u] = 0
        THEN ~probing[u] /\ retryIn[u] = 0 /\ failures[u] < dohFailureThreshold
        ELSE failures[u] = dohFailureThreshold /\ (probing[u] => retryIn[u] = 0)

\* The request holds the probe permit of upstream u.
Holds(r, u) ==
    cur[r] = u /\ probe[r] /\ pc[r] \in {"exchange", "succeed", "fail"}

(***************************************************************************)
(* A half-open upstream always has a probe on its way: every path out of   *)
(* exchange settles the permit, so the upstream cannot be refused for good.*)
(***************************************************************************)
ProbeIsHeld ==
    \A u \in Upstreams : probing[u] => \E r \in Requests : Holds(r, u)

(***************************************************************************)
(* SERVFAIL is the last resort: while some provider is reachable and its   *)
(* upstream not parked from the arrival of a request on, that request is   *)
(* answered, unless the five seconds of ServeDNS ran out on the others.    *)
(***************************************************************************)
AvailableProviderAnswers ==
    \A r \in Requests : pc[r] = "servfail" /\ ~ctxDone[r] => available[r] = {}

\* The breaker of one upstream.
Mode(u) == IF backoffStep[u] = 0 THEN 0 ELSE IF probing[u] THEN 2 ELSE 1

Abstract(u) == INSTANCE Breaker WITH
    Threshold <- dohFailureThreshold,
    mode <- Mode(u),
    failures <- failures[u],
    level <- backoffStep[u],
    cooling <- retryIn[u] > 0

(***************************************************************************)
(* Every upstream is a breaker of its own, with the same promises as the   *)
(* AUTO_FORWARD circuit: Abstract(u)!Spec for every u, with the quantifier *)
(* moved inside the box.                                                   *)
(***************************************************************************)
ImplementsBreakers ==
    /\ \A u \in Upstreams : Abstract(u)!Init
    /\ [][\A u \in Upstreams : [Abstract(u)!Next]_(Abstract(u)!vars)]_vars

(***************************************************************************)
(* Every request gets a response.                                          *)
(***************************************************************************)
EveryRequestReturns ==
    \A r \in Requests : pc[r] \in Running ~> pc[r] \in Returned

(***************************************************************************)
(* The preferred provider is never stranded: once it is up for good, its   *)
(* upstream closes for good, and "Seconds until a DoH upstream can be      *)
(* retried" settles at none.  record reads retryAt in one critical section *)
(* and stores it in another, so an older reading may be stored last; it is *)
(* not what stays there.                                                   *)
(***************************************************************************)
PreferredRecovers ==
    <>[](up[1]) => <>[](backoffStep[1] = 0 /\ ~exported[1])
=============================================================================
