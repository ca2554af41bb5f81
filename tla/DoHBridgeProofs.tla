--------------------------- MODULE DoHBridgeProofs ---------------------------
(***************************************************************************)
(* The safety of DoHBridge, for any number of requests and upstreams and   *)
(* any delays, and the types of the dial cache behind an upstream, which   *)
(* shares no state with it.                                                *)
(***************************************************************************)
EXTENDS DoHBridge, DialCache, BackoffTheorems

\* What is left of the upstreams available to a request: those it has passed
\* were not available, and the one it is at is not either once its exchange
\* has failed with time left.
AvailabilityInv ==
    \A r \in Requests :
        /\ \A u \in available[r] : up[u] /\ backoffStep[u] = 0 /\ u >= cur[r]
        /\ pc[r] \in Returned => cur[r] = 1
        /\ pc[r] = "succeed" => got[r]
        /\ pc[r] = "fail" \/ (pc[r] \in {"record", "observe"} /\ ~got[r])
               => cur[r] \notin available[r] \/ ctxDone[r]

\* Until the startup probes are over nothing is served and nothing parked.
StartupInv ==
    probed < NAuto => /\ \A r \in Requests : pc[r] = "idle"
                      /\ \A u \in Upstreams : backoffStep[u] = 0

IInv ==
    /\ TypeOK /\ StartupInv /\ BreakersConsistent
    /\ ProbeIsHeld /\ AvailabilityInv /\ AvailableProviderAnswers

\* The invariant holds when the bridge is created.
LEMMA InitInvariant == Init => IInv
<1> SUFFICES ASSUME Init PROVE IInv
  OBVIOUS
<1> USE BridgeAssumption DEF Init
<1>1. TypeOK
  <2>1. /\ failures \in [Upstreams -> 0..dohFailureThreshold]
        /\ backoffStep \in [Upstreams -> 0..StepCap]
        /\ retryIn \in [Upstreams -> 0..MaxBackoff]
        /\ probed \in 0..NAuto
        /\ cur \in [Requests -> Upstreams]
    BY DEF Upstreams, dohFailureThreshold
  <2>2. /\ probing \in [Upstreams -> BOOLEAN]
        /\ exported \in [Upstreams -> BOOLEAN]
        /\ pc \in [Requests -> Returned \cup Running]
        /\ probe \in [Requests -> BOOLEAN]
        /\ seen \in [Requests -> BOOLEAN]
        /\ got \in [Requests -> BOOLEAN]
        /\ tried \in [Requests -> BOOLEAN]
        /\ ctxDone \in [Requests -> BOOLEAN]
        /\ up \in [Upstreams -> BOOLEAN]
        /\ available \in [Requests -> SUBSET Upstreams]
    BY DEF Returned, Running
  <2> QED BY <2>1, <2>2 DEF TypeOK
<1>2. BreakersConsistent /\ ProbeIsHeld
  BY DEF BreakersConsistent, ProbeIsHeld, dohFailureThreshold
<1>3. AvailabilityInv /\ AvailableProviderAnswers
  BY DEF AvailabilityInv, AvailableProviderAnswers
<1>4. StartupInv
  BY DEF StartupInv
<1> QED BY <1>1, <1>2, <1>3, <1>4 DEF IInv

\* The delays a failure may set.
LEMMA ParkTyped ==
    ASSUME TypeOK, NEW u \in Upstreams, NEW step \in 1..StepCap, Park(u, step)
    PROVE  /\ backoffStep' = [backoffStep EXCEPT ![u] = step]
           /\ probing' = [probing EXCEPT ![u] = FALSE]
           /\ \E delay \in 1..MaxBackoff : retryIn' = [retryIn EXCEPT ![u] = delay]
           /\ available' = [r \in Requests |-> available[r] \ {u}]
<1>1. RetryDelays(InitialBackoff, MaxBackoff, step) \subseteq 1..MaxBackoff
  BY RetryDelaysBounded, BridgeAssumption
<1> QED BY <1>1 DEF Park

\* The step after a step is a positive one.
LEMMA NextStepTyped ==
    ASSUME NEW n \in 0..StepCap, n > 0
    PROVE  NextStep(n) \in 1..StepCap
  BY BridgeAssumption DEF NextStep

\* What opens a breaker, at the first step or at a later one.
Opens(r) ==
    \E step \in 1..StepCap :
        /\ Park(cur[r], step)
        /\ failures' = [failures EXCEPT ![cur[r]] = dohFailureThreshold]

\* A failure that opens a breaker leaves it with exactly the threshold.
LEMMA FailOpens ==
    ASSUME TypeOK, BreakersConsistent, NEW r \in Requests,
           FailTrips(r) \/ FailEscalates(r)
    PROVE  Opens(r)
<1> USE BridgeAssumption
<1>0. cur[r] \in Upstreams
  BY DEF TypeOK
<1>1. CASE FailTrips(r)
  <2>1. /\ backoffStep[cur[r]] = 0
        /\ failures[cur[r]] + 1 >= dohFailureThreshold
        /\ failures' = [failures EXCEPT ![cur[r]] = failures[cur[r]] + 1]
        /\ Park(cur[r], 1)
    BY <1>1 DEF FailTrips
  <2>2. failures[cur[r]] + 1 = dohFailureThreshold
    BY <1>0, <2>1 DEF TypeOK, BreakersConsistent, dohFailureThreshold
  <2>3. 1 \in 1..StepCap
    OBVIOUS
  <2>4. failures' = [failures EXCEPT ![cur[r]] = dohFailureThreshold]
    BY <2>1, <2>2
  <2> QED BY <2>1, <2>3, <2>4 DEF Opens
<1>2. CASE FailEscalates(r)
  <2>1. /\ backoffStep[cur[r]] > 0
        /\ failures' = failures
        /\ Park(cur[r], NextStep(backoffStep[cur[r]]))
    BY <1>2 DEF FailEscalates
  <2>2. failures[cur[r]] = dohFailureThreshold
    BY <1>0, <2>1 DEF TypeOK, BreakersConsistent
  <2>3. NextStep(backoffStep[cur[r]]) \in 1..StepCap
    BY <1>0, <2>1, NextStepTyped DEF TypeOK
  <2>4. failures' = [failures EXCEPT ![cur[r]] = dohFailureThreshold]
    BY <1>0, <2>1, <2>2 DEF TypeOK
  <2> QED BY <2>1, <2>3, <2>4 DEF Opens
<1> QED BY <1>1, <1>2

(***************************************************************************)
(* The breakers' fields keep their types and their agreement.              *)
(***************************************************************************)
BreakersTyped ==
    /\ failures \in [Upstreams -> 0..dohFailureThreshold]
    /\ backoffStep \in [Upstreams -> 0..StepCap]
    /\ probing \in [Upstreams -> BOOLEAN]
    /\ retryIn \in [Upstreams -> 0..MaxBackoff]

\* Every step keeps the fields of the breakers consistent.
LEMMA BreakersStep ==
    ASSUME TypeOK, StartupInv, BreakersConsistent, [Next]_vars
    PROVE  BreakersTyped' /\ BreakersConsistent'
<1> USE BridgeAssumption DEF dohFailureThreshold
<1>0. BreakersTyped /\ \A r \in Requests : cur[r] \in Upstreams
  BY DEF TypeOK, BreakersTyped
<1>1. ASSUME UNCHANGED breakerVars PROVE BreakersTyped' /\ BreakersConsistent'
  BY <1>0, <1>1 DEF breakerVars, BreakersTyped, BreakersConsistent
<1>2. CASE StartupProbe
  <2>1. probed + 1 \in Upstreams
    BY <1>2 DEF StartupProbe, TypeOK, Upstreams
  <2>2. PICK n \in {0, 1} : failures' = [failures EXCEPT ![probed + 1] = n]
    BY <1>2 DEF StartupProbe
  <2>3. UNCHANGED <<backoffStep, probing, retryIn>> /\ \A u \in Upstreams : backoffStep[u] = 0
    BY <1>2 DEF StartupProbe, StartupInv
  <2> QED BY <1>0, <2>1, <2>2, <2>3 DEF BreakersTyped, BreakersConsistent
<1>3. ASSUME NEW r \in Requests, Serve(r) \/ Proceed(r) \/ CtxEnds(r)
      PROVE  BreakersTyped' /\ BreakersConsistent'
  <2>1. CASE Serve(r) \/ CtxEnds(r) \/ Acquire(r) \/ AcquireRefused(r)
             \/ ExchangeAnswers(r) \/ ExchangeFails(r) \/ FailIgnored(r)
             \/ Record(r) \/ Observe(r)
    BY <1>1, <2>1
    DEF Serve, CtxEnds, Acquire, Begin, AcquireRefused, ExchangeAnswers, ExchangeFails,
        FailIgnored, Record, Observe, breakerVars
  <2>2. CASE AcquireProbe(r)
    BY <1>0, <2>2
    DEF AcquireProbe, Begin, ProbeDue, BreakersTyped, BreakersConsistent
  <2>3. CASE Succeed(r)
    BY <1>0, <2>3 DEF Succeed, BreakersTyped, BreakersConsistent
  <2>4. CASE FailCounted(r)
    BY <1>0, <2>4 DEF FailCounted, BreakersTyped, BreakersConsistent
  <2>5. CASE FailTrips(r) \/ FailEscalates(r)
    <3>1. PICK step \in 1..StepCap :
              /\ Park(cur[r], step)
              /\ failures' = [failures EXCEPT ![cur[r]] = dohFailureThreshold]
      BY <2>5, FailOpens DEF Opens
    <3>2. /\ backoffStep' = [backoffStep EXCEPT ![cur[r]] = step]
          /\ probing' = [probing EXCEPT ![cur[r]] = FALSE]
          /\ \E delay \in 1..MaxBackoff : retryIn' = [retryIn EXCEPT ![cur[r]] = delay]
      BY <1>0, <3>1, ParkTyped
    <3> QED BY <1>0, <3>1, <3>2 DEF BreakersTyped, BreakersConsistent
  <2> QED BY <1>3, <2>1, <2>2, <2>3, <2>4, <2>5 DEF Proceed
<1>4. ASSUME NEW u \in Upstreams, Elapse(u) PROVE BreakersTyped' /\ BreakersConsistent'
  BY <1>0, <1>4 DEF Elapse, BreakersTyped, BreakersConsistent
<1>5. ASSUME NEW u \in Upstreams, ProviderChanges(u)
      PROVE  BreakersTyped' /\ BreakersConsistent'
  BY <1>1, <1>5 DEF ProviderChanges
<1>6. CASE UNCHANGED vars
  BY <1>1, <1>6 DEF vars
<1> QED BY <1>2, <1>3, <1>4, <1>5, <1>6 DEF Next

(***************************************************************************)
(* The requests' variables and the environment keep their types, and the   *)
(* bridge serves only after its startup probes.                            *)
(***************************************************************************)
LEMMA RequestsStep ==
    ASSUME TypeOK, StartupInv, [Next]_vars
    PROVE  /\ exported' \in [Upstreams -> BOOLEAN]
           /\ probed' \in 0..NAuto
           /\ pc' \in [Requests -> Returned \cup Running]
           /\ cur' \in [Requests -> Upstreams]
           /\ probe' \in [Requests -> BOOLEAN]
           /\ seen' \in [Requests -> BOOLEAN]
           /\ got' \in [Requests -> BOOLEAN]
           /\ tried' \in [Requests -> BOOLEAN]
           /\ ctxDone' \in [Requests -> BOOLEAN]
           /\ up' \in [Upstreams -> BOOLEAN]
           /\ available' \in [Requests -> SUBSET Upstreams]
           /\ StartupInv'
<1> DEFINE Goal ==
           /\ exported' \in [Upstreams -> BOOLEAN]
           /\ probed' \in 0..NAuto
           /\ pc' \in [Requests -> Returned \cup Running]
           /\ cur' \in [Requests -> Upstreams]
           /\ probe' \in [Requests -> BOOLEAN]
           /\ seen' \in [Requests -> BOOLEAN]
           /\ got' \in [Requests -> BOOLEAN]
           /\ tried' \in [Requests -> BOOLEAN]
           /\ ctxDone' \in [Requests -> BOOLEAN]
           /\ up' \in [Upstreams -> BOOLEAN]
           /\ available' \in [Requests -> SUBSET Upstreams]
           /\ StartupInv'
<1> USE BridgeAssumption DEF TypeOK, Returned, Running
<1>1. CASE StartupProbe
  BY <1>1 DEF StartupProbe, StartupInv, requestVars
<1>2. ASSUME NEW r \in Requests, Serve(r) \/ Proceed(r) \/ CtxEnds(r) PROVE Goal
  <2>0. probed = NAuto /\ probed' = probed
    <3>1. probed' = probed
      BY <1>2 DEF Serve, Proceed, CtxEnds, Acquire, AcquireProbe, Begin, AcquireRefused,
                  ExchangeAnswers, ExchangeFails, Succeed, FailIgnored, FailCounted,
                  FailTrips, FailEscalates, Settle, Record, Observe
    <3>2. Serve(r) \/ pc[r] # "idle"
      BY <1>2 DEF Proceed, CtxEnds, Acquire, AcquireProbe, AcquireRefused,
                  ExchangeAnswers, ExchangeFails, Succeed, FailIgnored, FailCounted,
                  FailTrips, FailEscalates, Record, Observe
    <3> QED BY <3>1, <3>2 DEF Serve, StartupInv
  <2>00. StartupInv'
    BY <2>0 DEF StartupInv
  <2>1. CASE Serve(r)
    BY <2>00, <2>1 DEF Serve
  <2>2. CASE CtxEnds(r)
    BY <2>00, <2>2 DEF CtxEnds
  <2>3. CASE Acquire(r) \/ AcquireProbe(r)
    BY <2>00, <2>3 DEF Acquire, AcquireProbe, Begin
  <2>4. CASE AcquireRefused(r)
    BY <2>00, <2>4 DEF AcquireRefused
  <2>5. CASE ExchangeAnswers(r) \/ ExchangeFails(r)
    BY <2>00, <2>5 DEF ExchangeAnswers, ExchangeFails
  <2>6. CASE Succeed(r) \/ FailIgnored(r) \/ FailCounted(r)
    BY <2>00, <2>6 DEF Succeed, FailIgnored, FailCounted, Settle
  <2>7. CASE FailTrips(r) \/ FailEscalates(r)
    <3>1. Settle(r) /\ available' = [s \in Requests |-> available[s] \ {cur[r]}]
      BY <2>7 DEF FailTrips, FailEscalates, Park
    <3> QED BY <2>00, <2>0, <3>1 DEF Settle
  <2>8. CASE Record(r)
    BY <2>00, <2>8 DEF Record
  <2>9. CASE Observe(r)
    <3>1. /\ pc' \in [Requests -> Returned \cup Running]
          /\ cur' \in [Requests -> Upstreams]
          /\ tried' \in [Requests -> BOOLEAN]
      <4>1. \/ \E result \in {"answered", "servfail"} : Return(r, result)
            \/ /\ cur[r] < NUpstreams
               /\ pc' = [pc EXCEPT ![r] = "acquire"]
               /\ cur' = [cur EXCEPT ![r] = @ + 1]
               /\ UNCHANGED tried
        BY <2>9, Zenon DEF Observe, Continue
      <4>2. CASE \E result \in {"answered", "servfail"} : Return(r, result)
        BY <4>2 DEF Return, Upstreams
      <4>3. CASE /\ cur[r] < NUpstreams
                 /\ pc' = [pc EXCEPT ![r] = "acquire"]
                 /\ cur' = [cur EXCEPT ![r] = @ + 1]
                 /\ UNCHANGED tried
        <5>1. cur[r] + 1 \in Upstreams
          BY <4>3 DEF Upstreams
        <5> QED BY <4>3, <5>1
      <4> QED BY <4>1, <4>2, <4>3
    <3> QED BY <2>00, <2>9, <3>1 DEF Observe
  <2> QED BY <1>2, <2>1, <2>2, <2>3, <2>4, <2>5, <2>6, <2>7, <2>8, <2>9 DEF Proceed
<1>3. ASSUME NEW u \in Upstreams, Elapse(u) PROVE Goal
  BY <1>3 DEF Elapse, requestVars, StartupInv
<1>4. ASSUME NEW u \in Upstreams, ProviderChanges(u) PROVE Goal
  BY <1>4 DEF ProviderChanges, requestVars, breakerVars, StartupInv
<1>5. CASE UNCHANGED vars
  BY <1>5 DEF vars, requestVars, breakerVars, StartupInv
<1> QED BY <1>1, <1>2, <1>3, <1>4, <1>5 DEF Next

(***************************************************************************)
(* ProbeIsHeld is kept.  The only steps after which an upstream is probing *)
(* and its holder may have changed are the grant itself, where the request *)
(* becomes the holder, and a settled permit: a success or a probe's failure*)
(* clears probing, and an ignored failure is not the holder's.             *)
(***************************************************************************)
LEMMA ProbeStep ==
    ASSUME TypeOK, BreakersConsistent, ProbeIsHeld, [Next]_vars
    PROVE  ProbeIsHeld'
<1> SUFFICES ASSUME NEW u \in Upstreams, probing'[u]
             PROVE  \E r \in Requests : Holds(r, u)'
  BY DEF ProbeIsHeld
<1> USE BridgeAssumption
<1>1. ASSUME UNCHANGED <<probing, requestVars>> PROVE \E r \in Requests : Holds(r, u)'
  BY <1>1 DEF ProbeIsHeld, Holds, requestVars
<1>2. ASSUME NEW r \in Requests, Serve(r) \/ Proceed(r) \/ CtxEnds(r)
      PROVE  \E s \in Requests : Holds(s, u)'
  <2>1. ASSUME probing' = probing, probing[u] => ~Holds(r, u) \/ Holds(r, u)',
               \A s \in Requests : s # r => (Holds(s, u) => Holds(s, u)')
        PROVE  \E s \in Requests : Holds(s, u)'
    BY <2>1 DEF ProbeIsHeld
  <2>2. CASE Serve(r) \/ AcquireRefused(r) \/ Record(r)
    BY <2>1, <2>2 DEF Serve, AcquireRefused, Record, breakerVars, Holds, TypeOK, Returned
  <2>3. CASE Observe(r)
    BY <2>1, <2>3 DEF Observe, Continue, Return, breakerVars, Holds, TypeOK
  <2>4. CASE CtxEnds(r) \/ ExchangeAnswers(r) \/ ExchangeFails(r)
    BY <2>1, <2>4 DEF CtxEnds, ExchangeAnswers, ExchangeFails, breakerVars, Holds, TypeOK
  <2>5. CASE Acquire(r)
    BY <2>1, <2>5 DEF Acquire, Begin, Holds, TypeOK
  <2>6. CASE AcquireProbe(r)
    <3>1. CASE cur[r] = u
      BY <2>6, <3>1 DEF AcquireProbe, Begin, Holds, TypeOK
    <3>2. CASE cur[r] # u
      <4>1. probing[u]
        BY <2>6, <3>2 DEF AcquireProbe, TypeOK
      <4>2. PICK s \in Requests : Holds(s, u)
        BY <4>1 DEF ProbeIsHeld
      <4>3. Holds(s, u)'
        BY <2>6, <3>2, <4>2 DEF AcquireProbe, Begin, Holds, TypeOK
      <4> QED BY <4>3
    <3> QED BY <3>1, <3>2
  <2>7. CASE FailIgnored(r) \/ FailCounted(r)
    <3>1. probing' = probing /\ Settle(r)
      BY <2>7 DEF FailIgnored, FailCounted, breakerVars
    <3>2. ~Holds(r, u)
      <4>1. CASE cur[r] = u /\ FailIgnored(r)
        <5>1. probing[u]
          BY <3>1
        <5> QED BY <4>1, <5>1, Zenon DEF FailIgnored, Holds
      <4>2. CASE cur[r] = u /\ FailCounted(r)
        <5>1. ~probing[u]
          BY <4>2 DEF FailCounted, BreakersConsistent
        <5> QED BY <3>1, <5>1
      <4>3. CASE cur[r] # u
        BY <4>3 DEF Holds
      <4> QED BY <2>7, <4>1, <4>2, <4>3
    <3> QED BY <2>1, <3>1, <3>2 DEF Settle, Holds, TypeOK
  <2>8. CASE Succeed(r) \/ FailTrips(r) \/ FailEscalates(r)
    <3>1. probing' = [probing EXCEPT ![cur[r]] = FALSE] /\ Settle(r)
      BY <2>8 DEF Succeed, FailTrips, FailEscalates, Park
    <3>2. cur[r] # u /\ probing[u]
      BY <3>1 DEF TypeOK
    <3>3. PICK s \in Requests : Holds(s, u)
      BY <3>2 DEF ProbeIsHeld
    <3>4. Holds(s, u)'
      BY <3>1, <3>2, <3>3 DEF Settle, Holds, TypeOK
    <3> QED BY <3>4
  <2> QED BY <1>2, <2>2, <2>3, <2>4, <2>5, <2>6, <2>7, <2>8 DEF Proceed
<1>3. CASE StartupProbe
  BY <1>1, <1>3 DEF StartupProbe
<1>4. ASSUME NEW v \in Upstreams, Elapse(v) \/ ProviderChanges(v)
      PROVE  \E r \in Requests : Holds(r, u)'
  BY <1>1, <1>4 DEF Elapse, ProviderChanges, breakerVars
<1>5. CASE UNCHANGED vars
  BY <1>1, <1>5 DEF vars, breakerVars
<1> QED BY <1>2, <1>3, <1>4, <1>5 DEF Next

(***************************************************************************)
(* AvailabilityInv is kept: an upstream leaves the available set of every  *)
(* request when its provider goes away or its breaker opens, so what a     *)
(* request passes by was not available to it.                              *)
(***************************************************************************)
LEMMA AvailabilityStep ==
    ASSUME TypeOK, AvailabilityInv, AvailableProviderAnswers, [Next]_vars
    PROVE  AvailabilityInv' /\ AvailableProviderAnswers'
<1> DEFINE Good(s) ==
        /\ \A u \in available[s] : up[u] /\ backoffStep[u] = 0 /\ u >= cur[s]
        /\ pc[s] \in Returned => cur[s] = 1
        /\ pc[s] = "succeed" => got[s]
        /\ pc[s] = "fail" \/ (pc[s] \in {"record", "observe"} /\ ~got[s])
               => cur[s] \notin available[s] \/ ctxDone[s]
        /\ pc[s] = "servfail" /\ ~ctxDone[s] => available[s] = {}
<1>0. \A s \in Requests : Good(s)
  BY DEF AvailabilityInv, AvailableProviderAnswers
<1> SUFFICES ASSUME NEW s \in Requests PROVE Good(s)'
  BY DEF AvailabilityInv, AvailableProviderAnswers
<1> USE BridgeAssumption
<1>1. ASSUME UNCHANGED <<up, requestVars>>, available'[s] \subseteq available[s],
             \A u \in available'[s] : backoffStep'[u] = backoffStep[u]
      PROVE  Good(s)'
  BY <1>0, <1>1 DEF requestVars
<1>2. ASSUME NEW r \in Requests, Serve(r) \/ Proceed(r) \/ CtxEnds(r)
      PROVE  Good(s)'
  <2>1. ASSUME r # s, up' = up, available'[s] \subseteq available[s],
               \A u \in available'[s] : backoffStep'[u] = 0,
               pc'[s] = pc[s], cur'[s] = cur[s], got'[s] = got[s], ctxDone'[s] = ctxDone[s]
        PROVE  Good(s)'
    BY <1>0, <2>1
  <2>2. CASE Serve(r)
    <3>1. CASE r = s
      BY <1>0, <2>2, <3>1 DEF Serve, TypeOK, Returned, Upstreams, breakerVars
    <3>2. CASE r # s
      BY <1>0, <2>1, <2>2, <3>2 DEF Serve, TypeOK, breakerVars
    <3> QED BY <3>1, <3>2
  <2>3. CASE CtxEnds(r)
    BY <1>0, <2>3 DEF CtxEnds, TypeOK, breakerVars, Returned
  <2>4. CASE Acquire(r) \/ AcquireProbe(r)
    BY <1>0, <2>4 DEF Acquire, AcquireProbe, Begin, TypeOK, Returned
  <2>5. CASE AcquireRefused(r)
    <3>1. backoffStep[cur[r]] # 0
      BY <2>5 DEF AcquireRefused, Refused, TypeOK, Upstreams
    <3> QED BY <1>0, <2>5, <3>1 DEF AcquireRefused, TypeOK, breakerVars, Returned
  <2>6. CASE ExchangeAnswers(r)
    BY <1>0, <2>6 DEF ExchangeAnswers, TypeOK, breakerVars, Returned
  <2>7. CASE ExchangeFails(r)
    <3>1. CASE r = s
      BY <1>0, <2>7, <3>1 DEF ExchangeFails, TypeOK, breakerVars, Returned
    <3>2. CASE r # s
      BY <1>0, <2>1, <2>7, <3>2 DEF ExchangeFails, TypeOK, breakerVars
    <3> QED BY <3>1, <3>2
  <2>8. CASE Succeed(r) \/ FailIgnored(r) \/ FailCounted(r) \/ FailTrips(r) \/ FailEscalates(r)
    <3>1. Settle(r) /\ pc[r] \in {"succeed", "fail"}
      BY <2>8 DEF Succeed, FailIgnored, FailCounted, FailTrips, FailEscalates
    <3>2. /\ available'[s] \subseteq available[s]
          /\ \A u \in available'[s] : backoffStep'[u] = 0
      <4>1. CASE FailIgnored(r) \/ FailCounted(r)
        BY <1>0, <4>1 DEF FailIgnored, FailCounted, breakerVars
      <4>2. CASE Succeed(r)
        BY <1>0, <4>2 DEF Succeed, TypeOK
      <4>3. ASSUME NEW step, Park(cur[r], step)
            PROVE  /\ available'[s] \subseteq available[s]
                   /\ \A u \in available'[s] : backoffStep'[u] = 0
        <5>1. available'[s] = available[s] \ {cur[r]}
          BY <4>3 DEF Park
        <5>2. \A u \in Upstreams \ {cur[r]} : backoffStep'[u] = backoffStep[u]
          BY <4>3 DEF Park, TypeOK
        <5> QED BY <1>0, <5>1, <5>2 DEF TypeOK
      <4>4. CASE FailTrips(r) \/ FailEscalates(r)
        BY <4>3, <4>4 DEF FailTrips, FailEscalates
      <4> QED BY <2>8, <4>1, <4>2, <4>4
    <3>3. CASE r # s
      BY <2>1, <3>1, <3>2, <3>3 DEF Settle, TypeOK
    <3>4. CASE r = s
      <4>1. /\ pc'[s] = "record" /\ cur'[s] = cur[s] /\ got'[s] = got[s]
            /\ ctxDone'[s] = ctxDone[s] /\ up' = up
        BY <3>1, <3>4 DEF Settle, TypeOK
      <4>2. ~got[s] => cur[s] \notin available[s] \/ ctxDone[s]
        BY <1>0, <3>1, <3>4
      <4> QED BY <1>0, <3>2, <4>1, <4>2 DEF Returned
    <3> QED BY <3>3, <3>4
  <2>9. CASE Record(r)
    BY <1>0, <2>9 DEF Record, TypeOK, breakerVars, Returned
  <2>10. CASE Observe(r)
    <3>1. /\ UNCHANGED <<backoffStep, ctxDone, up, available>>
          /\ pc[r] = "observe"
          /\ got' = [got EXCEPT ![r] = FALSE]
      BY <2>10 DEF Observe, breakerVars
    <3>2. \/ got[r] /\ Return(r, "answered")
          \/ /\ ~got[r] /\ ~ctxDone[r] /\ cur[r] < NUpstreams
             /\ pc' = [pc EXCEPT ![r] = "acquire"]
             /\ cur' = [cur EXCEPT ![r] = cur[r] + 1]
          \/ ~got[r] /\ ~(~ctxDone[r] /\ cur[r] < NUpstreams) /\ Return(r, "servfail")
      BY <2>10, Zenon DEF Observe, Continue
    <3>3. CASE r # s
      <4>1. pc'[s] = pc[s] /\ cur'[s] = cur[s] /\ got'[s] = got[s] /\ ctxDone'[s] = ctxDone[s]
        BY <3>1, <3>2, <3>3 DEF Return, TypeOK
      <4> QED BY <1>0, <2>1, <3>1, <3>3, <4>1
    <3>4. CASE r = s /\ got[r]
      <4>1. pc'[s] = "answered" /\ cur'[s] = 1
        BY <3>2, <3>4 DEF Return, TypeOK
      <4>2. \A u \in available[s] : u >= 1
        BY DEF TypeOK, Upstreams
      <4> QED BY <1>0, <3>1, <4>1, <4>2 DEF Returned
    <3>5. CASE r = s /\ ~got[r] /\ ~ctxDone[r] /\ cur[r] < NUpstreams
      <4>1. pc'[s] = "acquire" /\ cur'[s] = cur[s] + 1
        BY <3>2, <3>5 DEF Return, TypeOK
      <4>2. cur[s] \notin available[s]
        BY <1>0, <3>1, <3>5
      <4>3. \A u \in available[s] : u >= cur[s] + 1
        BY <1>0, <4>2 DEF TypeOK, Upstreams
      <4> QED BY <1>0, <3>1, <4>1, <4>3 DEF Returned
    <3>6. CASE r = s /\ ~got[r] /\ ~(~ctxDone[r] /\ cur[r] < NUpstreams)
      <4>1. pc'[s] = "servfail" /\ cur'[s] = 1
        BY <3>2, <3>6 DEF Return, TypeOK
      <4>2. \A u \in available[s] : u >= 1
        BY DEF TypeOK, Upstreams
      <4>3. ~ctxDone[s] => available[s] = {}
        <5>1. SUFFICES ASSUME ~ctxDone[s], NEW u \in available[s] PROVE FALSE
          OBVIOUS
        <5>2. cur[s] \notin available[s]
          BY <1>0, <3>1, <3>6, <5>1
        <5>3. u >= cur[s] /\ u \in Upstreams /\ cur[s] \in Upstreams /\ ~(cur[s] < NUpstreams)
          BY <1>0, <3>6, <5>1 DEF TypeOK
        <5> QED BY <5>1, <5>2, <5>3 DEF Upstreams
      <4> QED BY <1>0, <3>1, <4>1, <4>2, <4>3 DEF Returned
    <3> QED BY <3>3, <3>4, <3>5, <3>6
  <2> QED BY <1>2, <2>2, <2>3, <2>4, <2>5, <2>6, <2>7, <2>8, <2>9, <2>10 DEF Proceed
<1>3. CASE StartupProbe
  BY <1>1, <1>3 DEF StartupProbe
<1>4. ASSUME NEW v \in Upstreams, Elapse(v) PROVE Good(s)'
  BY <1>1, <1>4 DEF Elapse
<1>5. ASSUME NEW v \in Upstreams, ProviderChanges(v) PROVE Good(s)'
  BY <1>0, <1>5 DEF ProviderChanges, requestVars, breakerVars, TypeOK
<1>6. CASE UNCHANGED vars
  BY <1>1, <1>6 DEF vars, breakerVars
<1> QED BY <1>2, <1>3, <1>4, <1>5, <1>6 DEF Next

\* Every step keeps the invariant.
LEMMA StepInvariant == IInv /\ [Next]_vars => IInv'
<1> SUFFICES ASSUME IInv, [Next]_vars PROVE IInv'
  OBVIOUS
<1>1. TypeOK' /\ StartupInv' /\ BreakersConsistent'
  BY BreakersStep, RequestsStep DEF IInv, TypeOK, BreakersTyped
<1>2. ProbeIsHeld'
  BY ProbeStep DEF IInv
<1>3. AvailabilityInv' /\ AvailableProviderAnswers'
  BY AvailabilityStep DEF IInv
<1> QED BY <1>1, <1>2, <1>3 DEF IInv

\* The inductive invariant holds of every behaviour.
LEMMA Invariance == Spec => []IInv
  BY InitInvariant, StepInvariant, PTL DEF Spec

(***************************************************************************)
(* Every variable keeps its type; no delay exceeds the five minutes.       *)
(***************************************************************************)
THEOREM TypeCorrect == Spec => []TypeOK
<1>1. IInv => TypeOK
  BY DEF IInv
<1> QED BY <1>1, Invariance, PTL

(***************************************************************************)
(* The fields acquire, fail and succeed keep by hand never disagree.       *)
(***************************************************************************)
THEOREM Consistency == Spec => []BreakersConsistent
<1>1. IInv => BreakersConsistent
  BY DEF IInv
<1> QED BY <1>1, Invariance, PTL

(***************************************************************************)
(* The permit of a half-open upstream is never lost, with any number of    *)
(* requests: what the AUTO_FORWARD circuit cannot promise.                 *)
(***************************************************************************)
THEOREM ProbeNeverLost == Spec => []ProbeIsHeld
<1>1. IInv => ProbeIsHeld
  BY DEF IInv
<1> QED BY <1>1, Invariance, PTL

(***************************************************************************)
(* SERVFAIL only when no provider was available throughout the request or  *)
(* its time ran out, for any number of upstreams.                          *)
(***************************************************************************)
THEOREM ServfailIsLastResort == Spec => []AvailableProviderAnswers
<1>1. IInv => AvailableProviderAnswers
  BY DEF IInv
<1> QED BY <1>1, Invariance, PTL
-----------------------------------------------------------------------------
(***************************************************************************)
(* The refinement, for one upstream: a step of a request at another        *)
(* upstream changes nothing of it.                                         *)
(***************************************************************************)
LEMMA StepRefines ==
    ASSUME IInv, [Next]_vars, NEW u \in Upstreams
    PROVE  [Abstract(u)!Next]_(Abstract(u)!vars)
<1> USE BridgeAssumption
<1> DEFINE Unchanged ==
        /\ failures'[u] = failures[u] /\ backoffStep'[u] = backoffStep[u]
        /\ probing'[u] = probing[u] /\ retryIn'[u] = retryIn[u]
<1>0. TypeOK /\ BreakersConsistent /\ StartupInv
  BY DEF IInv
<1>1. ASSUME Unchanged PROVE UNCHANGED Abstract(u)!vars
  <2>1. Mode(u)' = Mode(u)
    BY <1>1 DEF Mode
  <2> QED BY <1>1, <2>1 DEF Abstract!vars
<1>2. ASSUME NEW r \in Requests, Serve(r) \/ Proceed(r) \/ CtxEnds(r)
      PROVE  [Abstract(u)!Next]_(Abstract(u)!vars)
  <2>1. CASE Serve(r) \/ CtxEnds(r) \/ Acquire(r) \/ AcquireRefused(r)
             \/ ExchangeAnswers(r) \/ ExchangeFails(r) \/ FailIgnored(r)
             \/ Record(r) \/ Observe(r)
    BY <1>1, <2>1
    DEF Serve, CtxEnds, Acquire, Begin, AcquireRefused, ExchangeAnswers, ExchangeFails,
        FailIgnored, Record, Observe, breakerVars
  <2>2. CASE AcquireProbe(r) /\ cur[r] = u
    <3>1. Abstract(u)!Probe
      BY <1>0, <2>2
      DEF AcquireProbe, Begin, ProbeDue, TypeOK, Mode, Abstract!Probe, Abstract!Open, Abstract!HalfOpen
    <3> QED BY <3>1 DEF Abstract!Next
  <2>3. CASE Succeed(r) /\ cur[r] = u
    <3>1. Abstract(u)!Close
      BY <1>0, <2>3 DEF Succeed, TypeOK, Mode, Abstract!Close, Abstract!Closed
    <3> QED BY <3>1 DEF Abstract!Next
  <2>4. CASE FailCounted(r) /\ cur[r] = u
    <3>1. Abstract(u)!Count
      BY <1>0, <2>4 DEF FailCounted, TypeOK, Mode, Abstract!Count, Abstract!Closed
    <3> QED BY <3>1 DEF Abstract!Next
  <2>5. CASE FailTrips(r) /\ cur[r] = u
    <3>1. /\ backoffStep[u] = 0
          /\ failures[u] + 1 >= dohFailureThreshold
          /\ failures' = [failures EXCEPT ![u] = failures[u] + 1]
          /\ Park(u, 1)
      BY <2>5 DEF FailTrips
    <3>2. 1 \in 1..StepCap
      OBVIOUS
    <3>3. /\ backoffStep'[u] = 1 /\ probing'[u] = FALSE /\ retryIn'[u] \in 1..MaxBackoff
      BY <1>0, <3>1, <3>2, ParkTyped DEF TypeOK
    <3>4. failures'[u] = failures[u] + 1
      BY <1>0, <3>1 DEF TypeOK
    <3>5. Mode(u) = 0 /\ Mode(u)' = 1
      BY <3>1, <3>3 DEF Mode
    <3>6. (retryIn[u] > 0)' = TRUE
      BY <3>3
    <3>7. Abstract(u)!Trip
      BY <3>1, <3>3, <3>4, <3>5, <3>6 DEF Abstract!Trip, Abstract!Closed, Abstract!Open
    <3> QED BY <3>7 DEF Abstract!Next
  <2>6. CASE FailEscalates(r) /\ cur[r] = u
    <3>1. /\ backoffStep[u] > 0 /\ probing[u] /\ failures' = failures
          /\ Park(u, NextStep(backoffStep[u]))
      BY <2>6 DEF FailEscalates
    <3>2. NextStep(backoffStep[u]) \in 1..StepCap
      BY <1>0, <3>1, NextStepTyped DEF TypeOK
    <3>3. /\ backoffStep'[u] = NextStep(backoffStep[u]) /\ probing'[u] = FALSE
          /\ retryIn'[u] \in 1..MaxBackoff
      BY <1>0, <3>1, <3>2, ParkTyped DEF TypeOK
    <3>4. Mode(u) = 2 /\ Mode(u)' = 1
      BY <1>0, <3>1, <3>2, <3>3 DEF Mode, TypeOK
    <3>5. (retryIn[u] > 0)' = TRUE
      BY <3>3
    <3>6. Abstract(u)!Escalate
      BY <3>1, <3>3, <3>4, <3>5
      DEF NextStep, Abstract!Escalate, Abstract!NextLevel, Abstract!Open, Abstract!HalfOpen
    <3> QED BY <3>6 DEF Abstract!Next
  <2>7. CASE cur[r] # u /\ (AcquireProbe(r) \/ Succeed(r) \/ FailCounted(r)
                            \/ FailTrips(r) \/ FailEscalates(r))
    <3>1. Unchanged
      BY <1>0, <2>7
      DEF AcquireProbe, Begin, Succeed, FailCounted, FailTrips, FailEscalates, Park, TypeOK
    <3> QED BY <1>1, <3>1
  <2> QED BY <1>2, <2>1, <2>2, <2>3, <2>4, <2>5, <2>6, <2>7 DEF Proceed
<1>3. CASE StartupProbe
  <2>1. CASE probed + 1 = u
    <3>1. PICK answered \in BOOLEAN :
              failures' = [failures EXCEPT ![u] = IF answered THEN 0 ELSE 1]
      BY <1>3, <2>1 DEF StartupProbe
    <3>2. /\ backoffStep[u] = 0 /\ UNCHANGED <<backoffStep, probing, retryIn>>
      BY <1>0, <1>3 DEF StartupProbe, StartupInv
    <3>3. failures[u] \in {0, 1} /\ retryIn[u] = 0 /\ ~probing[u]
      BY <1>0, <3>2 DEF BreakersConsistent, TypeOK, dohFailureThreshold
    <3>4. Mode(u) = 0 /\ Mode(u)' = 0
      BY <3>2 DEF Mode
    <3>5. CASE failures'[u] = failures[u]
      BY <1>1, <3>2, <3>5
    <3>6. CASE failures'[u] = 0
      <4>1. Abstract(u)!Close
        BY <3>2, <3>3, <3>4, <3>6 DEF Abstract!Close, Abstract!Closed
      <4> QED BY <4>1 DEF Abstract!Next
    <3>7. CASE failures'[u] = 1 /\ failures[u] = 0
      <4>1. Abstract(u)!Count
        BY <3>2, <3>4, <3>7 DEF Abstract!Count, Abstract!Closed, dohFailureThreshold
      <4> QED BY <4>1 DEF Abstract!Next
    <3> QED BY <1>0, <3>1, <3>3, <3>5, <3>6, <3>7 DEF TypeOK
  <2>2. CASE probed + 1 # u
    BY <1>0, <1>1, <1>3, <2>2 DEF StartupProbe, TypeOK
  <2> QED BY <2>1, <2>2
<1>4. ASSUME NEW v \in Upstreams, Elapse(v) PROVE [Abstract(u)!Next]_(Abstract(u)!vars)
  <2>1. CASE v = u
    <3>1. /\ retryIn[u] > 0 /\ retryIn'[u] = 0
          /\ UNCHANGED <<failures, backoffStep, probing>>
      BY <1>0, <1>4, <2>1 DEF Elapse, TypeOK
    <3>2. backoffStep[u] # 0 /\ ~probing[u]
      BY <1>0, <3>1 DEF BreakersConsistent, TypeOK
    <3>3. Mode(u) = 1 /\ Mode(u)' = Mode(u)
      BY <3>1, <3>2 DEF Mode
    <3>4. Abstract(u)!Cool
      BY <3>1, <3>3 DEF Abstract!Cool, Abstract!Open
    <3> QED BY <3>4 DEF Abstract!Next
  <2>2. CASE v # u
    BY <1>0, <1>1, <1>4, <2>2 DEF Elapse, TypeOK
  <2> QED BY <2>1, <2>2
<1>5. ASSUME NEW v \in Upstreams, ProviderChanges(v)
      PROVE  [Abstract(u)!Next]_(Abstract(u)!vars)
  BY <1>1, <1>5 DEF ProviderChanges, breakerVars
<1>6. CASE UNCHANGED vars
  BY <1>1, <1>6 DEF vars, breakerVars
<1> QED BY <1>2, <1>3, <1>4, <1>5, <1>6 DEF Next

(***************************************************************************)
(* Every upstream, with all the requests that use it at once, implements   *)
(* the abstract breaker.                                                   *)
(***************************************************************************)
THEOREM Refinement == Spec => ImplementsBreakers
<1>1. Init => \A u \in Upstreams : Abstract(u)!Init
  BY DEF Init, Mode, Abstract!Init, Abstract!Closed
<1> DEFINE A == \A u \in Upstreams : [Abstract(u)!Next]_(Abstract(u)!vars)
<1>2. IInv /\ [Next]_vars => [A]_vars
  BY StepRefines
<1> QED BY <1>1, <1>2, Invariance, PTL DEF Spec, ImplementsBreakers
-----------------------------------------------------------------------------
(***************************************************************************)
(* How long a request can stay in ServeDNS: the safety half of             *)
(* EveryRequestReturns.                                                    *)
(***************************************************************************)
\* The steps of a request at one upstream.
Place(r) ==
    CASE pc[r] = "acquire"             -> 5
      [] pc[r] = "exchange"            -> 4
      [] pc[r] \in {"succeed", "fail"} -> 3
      [] pc[r] = "record"              -> 2
      [] pc[r] = "observe"             -> 1
      [] pc[r] \in Returned            -> 0

\* The steps that a request has left at most: five for every upstream after
\* the one it is at.
RequestSteps(r) ==
    IF pc[r] \in Returned THEN 0 ELSE 5 * (NUpstreams - cur[r]) + Place(r)

\* A step of a request uses one of them up; nothing that other requests, the
\* upstreams or the providers do gives it another.
RequestsAdvance ==
    \A r \in Requests :
        /\ Proceed(r) => RequestSteps(r)' < RequestSteps(r)
        /\ ~Serve(r) => RequestSteps(r)' <= RequestSteps(r)

\* A request has a bounded number of steps left, none once it has returned.
RequestBound ==
    \A r \in Requests :
        /\ RequestSteps(r) \in 0..5 * NUpstreams
        /\ RequestSteps(r) = 0 <=> pc[r] \in Returned

\* The bound is one of the types alone.
LEMMA RequestStepsBounded ==
    ASSUME TypeOK, NEW r \in Requests
    PROVE  /\ RequestSteps(r) \in 0..5 * NUpstreams
           /\ RequestSteps(r) = 0 <=> pc[r] \in Returned
<1>1. /\ pc[r] \in Returned \cup Running
      /\ NUpstreams \in Nat /\ cur[r] \in 1..NUpstreams
  BY BridgeAssumption DEF TypeOK, Upstreams
<1>2. pc[r] \in Running => Place(r) \in 1..5 /\ pc[r] \notin Returned
  BY DEF Place, Running, Returned
<1> QED BY <1>1, <1>2 DEF RequestSteps

\* A request's step is its own.
LEMMA RequestLocal ==
    ASSUME TypeOK, NEW q \in Requests, Serve(q) \/ Proceed(q) \/ CtxEnds(q),
           NEW r \in Requests, r # q
    PROVE  pc'[r] = pc[r] /\ cur'[r] = cur[r] /\ seen'[r] = seen[r]
<1> USE DEF TypeOK
<1>1. CASE Serve(q) \/ CtxEnds(q)
  BY <1>1 DEF Serve, CtxEnds
<1>2. CASE Acquire(q) \/ AcquireProbe(q) \/ AcquireRefused(q)
  BY <1>2 DEF Acquire, AcquireProbe, AcquireRefused, Begin
<1>3. CASE ExchangeAnswers(q) \/ ExchangeFails(q) \/ Record(q)
  BY <1>3 DEF ExchangeAnswers, ExchangeFails, Record
<1>4. CASE Succeed(q) \/ FailIgnored(q) \/ FailCounted(q) \/ FailTrips(q) \/ FailEscalates(q)
  BY <1>4 DEF Succeed, FailIgnored, FailCounted, FailTrips, FailEscalates, Settle
<1>5. CASE Observe(q)
  BY <1>5 DEF Observe, Continue, Return
<1> QED BY <1>1, <1>2, <1>3, <1>4, <1>5 DEF Proceed

\* What every part of Proceed does to the request's own place in ServeDNS.
LEMMA ProceedMoves ==
    ASSUME TypeOK, NEW r \in Requests, Proceed(r)
    PROVE  \/ /\ cur'[r] = cur[r]
              /\ \/ pc[r] = "acquire" /\ pc'[r] \in {"exchange", "record"}
                 \/ pc[r] = "exchange" /\ pc'[r] \in {"succeed", "fail"}
                 \/ pc[r] \in {"succeed", "fail"} /\ pc'[r] = "record"
                 \/ pc[r] = "record" /\ pc'[r] = "observe"
           \/ /\ pc[r] = "observe" /\ pc'[r] = "acquire"
              /\ cur[r] < NUpstreams /\ cur'[r] = cur[r] + 1
           \/ pc[r] = "observe" /\ pc'[r] \in Returned
<1> USE DEF TypeOK
<1>1. CASE Acquire(r) \/ AcquireProbe(r) \/ AcquireRefused(r)
  BY <1>1 DEF Acquire, AcquireProbe, AcquireRefused, Begin
<1>2. CASE ExchangeAnswers(r) \/ ExchangeFails(r) \/ Record(r)
  BY <1>2 DEF ExchangeAnswers, ExchangeFails, Record
<1>3. CASE Succeed(r) \/ FailIgnored(r) \/ FailCounted(r) \/ FailTrips(r) \/ FailEscalates(r)
  BY <1>3 DEF Succeed, FailIgnored, FailCounted, FailTrips, FailEscalates, Settle
<1>4. CASE Observe(r)
  BY <1>4 DEF Observe, Continue, Return, Returned
<1> QED BY <1>1, <1>2, <1>3, <1>4 DEF Proceed

(***************************************************************************)
(* No request is kept in the bridge: it goes through the upstreams once,   *)
(* in their order, and is answered within five steps for each of them,     *)
(* however they are parked, probed and recovered meanwhile.                *)
(***************************************************************************)
THEOREM RequestIsBounded == Spec => []RequestBound /\ [][RequestsAdvance]_vars
<1>1. IInv => RequestBound
  BY RequestStepsBounded DEF IInv, RequestBound
<1>2. IInv /\ RequestBound /\ RequestBound' /\ [Next]_vars => [RequestsAdvance]_vars
  <2> SUFFICES ASSUME IInv, RequestBound, RequestBound', Next, NEW r \in Requests
               PROVE  /\ Proceed(r) => RequestSteps(r)' < RequestSteps(r)
                      /\ ~Serve(r) => RequestSteps(r)' <= RequestSteps(r)
    BY DEF RequestsAdvance
  <2>0. RequestSteps(r) \in Int /\ RequestSteps(r)' \in Int
    BY DEF RequestBound
  <2>1. ASSUME Proceed(r) PROVE RequestSteps(r)' < RequestSteps(r)
    <3>1. NUpstreams \in Nat /\ cur[r] \in 1..NUpstreams
      BY BridgeAssumption DEF IInv, TypeOK, Upstreams
    <3>2. CASE /\ cur'[r] = cur[r]
               /\ \/ pc[r] = "acquire" /\ pc'[r] \in {"exchange", "record"}
                  \/ pc[r] = "exchange" /\ pc'[r] \in {"succeed", "fail"}
                  \/ pc[r] \in {"succeed", "fail"} /\ pc'[r] = "record"
                  \/ pc[r] = "record" /\ pc'[r] = "observe"
      <4>1. /\ Place(r) \in 0..5 /\ Place(r)' \in 0..5 /\ Place(r)' < Place(r)
            /\ pc[r] \notin Returned /\ pc'[r] \notin Returned
        BY <3>2 DEF Place, Returned
      <4> QED BY <3>1, <3>2, <4>1 DEF RequestSteps
    <3>3. CASE /\ pc[r] = "observe" /\ pc'[r] = "acquire"
               /\ cur[r] < NUpstreams /\ cur'[r] = cur[r] + 1
      <4>1. /\ Place(r) = 1 /\ Place(r)' = 5
            /\ pc[r] \notin Returned /\ pc'[r] \notin Returned
        BY <3>3 DEF Place, Returned
      <4> QED BY <3>1, <3>3, <4>1 DEF RequestSteps
    <3>4. CASE pc[r] = "observe" /\ pc'[r] \in Returned
      <4>1. Place(r) = 1 /\ pc[r] \notin Returned
        BY <3>4 DEF Place, Returned
      <4> QED BY <3>1, <3>4, <4>1 DEF RequestSteps
    <3> QED BY <2>1, <3>2, <3>3, <3>4, ProceedMoves DEF IInv
  <2>2. ASSUME ~Serve(r), ~Proceed(r) PROVE RequestSteps(r)' <= RequestSteps(r)
    <3>1. pc'[r] = pc[r] /\ cur'[r] = cur[r]
      <4>1. CASE StartupProbe \/ \E u \in Upstreams : Elapse(u) \/ ProviderChanges(u)
        BY <4>1 DEF StartupProbe, Elapse, ProviderChanges, requestVars
      <4>2. CASE CtxEnds(r)
        BY <4>2 DEF CtxEnds
      <4>3. ASSUME NEW q \in Requests, q # r, Serve(q) \/ Proceed(q) \/ CtxEnds(q)
            PROVE  pc'[r] = pc[r] /\ cur'[r] = cur[r]
        BY <4>3, RequestLocal DEF IInv
      <4> QED BY <2>2, <4>1, <4>2, <4>3 DEF Next
    <3>2. RequestSteps(r)' = RequestSteps(r)
      BY <3>1 DEF RequestSteps, Place
    <3> QED BY <2>0, <3>2
  <2> QED BY <2>0, <2>1, <2>2
<1> QED BY <1>1, <1>2, Invariance, PTL DEF Spec
-----------------------------------------------------------------------------
(***************************************************************************)
(* The two critical sections of record.                                    *)
(***************************************************************************)
\* The breaker of the upstream is open, as record would read it now.
Parked(u) == backoffStep[u] > 0

\* Requests that carry another reading of it to observeDoHUpstream.
StaleReadings(u) ==
    {r \in Requests : pc[r] = "observe" /\ cur[r] = u /\ seen[r] # Parked(u)}

StaleExport(u) == exported[u] # Parked(u)

\* While an upstream is neither parked nor closed, readings of it do not become
\* stale, a stale reading is what a stale export is made of, and an export that
\* is not made of one is right.
ExportSettles ==
    \A u \in Upstreams :
        Parked(u)' = Parked(u) =>
            /\ StaleReadings(u)' \subseteq StaleReadings(u)
            /\ \A r \in Requests :
                   Observe(r) /\ cur[r] = u => (StaleExport(u)' <=> r \in StaleReadings(u))
            /\ ~(StaleExport(u)' <=> StaleExport(u)) =>
                   \E r \in Requests : Observe(r) /\ cur[r] = u

\* Whoever parks or closes an upstream goes on to record it.
ChangeIsRecorded ==
    \A u \in Upstreams :
        Parked(u)' # Parked(u) =>
            \E r \in Requests : cur'[r] = u /\ pc'[r] = "record"

\* Only the report of a verdict parks or closes an upstream.
LEMMA ParkedChanges ==
    ASSUME IInv, Next, NEW u \in Upstreams, Parked(u)' # Parked(u)
    PROVE  \E r \in Requests : cur'[r] = u /\ pc'[r] = "record"
<1>0. backoffStep \in [Upstreams -> 0..StepCap] /\ pc \in [Requests -> Returned \cup Running]
      /\ cur \in [Requests -> Upstreams]
  BY DEF IInv, TypeOK
<1>1. backoffStep'[u] # backoffStep[u]
  BY DEF Parked
<1>2. PICK r \in Requests : Succeed(r) \/ FailTrips(r) \/ FailEscalates(r)
  BY <1>1 DEF Next, StartupProbe, Serve, Proceed, Acquire, AcquireProbe, AcquireRefused, Begin,
     ExchangeAnswers, ExchangeFails, CtxEnds, FailIgnored, FailCounted, Record, Observe, Elapse,
     ProviderChanges, breakerVars
<1>3. cur' = cur /\ pc' = [pc EXCEPT ![r] = "record"]
  BY <1>2 DEF Succeed, FailTrips, FailEscalates, Settle
<1>4. cur[r] = u
  BY <1>0, <1>1, <1>2 DEF Succeed, FailTrips, FailEscalates, Park
<1> QED BY <1>0, <1>3, <1>4

\* A reading is fresh when it is made, and stays so while the upstream does.
LEMMA ReadingsShrink ==
    ASSUME IInv, Next, NEW u \in Upstreams, Parked(u)' = Parked(u)
    PROVE  StaleReadings(u)' \subseteq StaleReadings(u)
<1> SUFFICES ASSUME NEW r \in Requests, pc'[r] = "observe", cur'[r] = u, seen'[r] # Parked(u)
             PROVE  pc[r] = "observe" /\ cur[r] = u /\ seen[r] # Parked(u)
  BY DEF StaleReadings
<1>0. TypeOK
  BY DEF IInv
<1>1. CASE Record(r)
  <2>1. cur[r] = u /\ seen'[r] = (backoffStep[u] > 0)
    BY <1>0, <1>1 DEF Record, TypeOK
  <2> QED BY <2>1, Zenon DEF Parked
<1>2. CASE Proceed(r) /\ ~Record(r)
  <2>1. pc'[r] # "observe"
    BY <1>0, <1>2 DEF TypeOK, Proceed, Acquire, AcquireProbe, AcquireRefused, Begin,
       ExchangeAnswers, ExchangeFails, Succeed, FailIgnored, FailCounted, FailTrips,
       FailEscalates, Settle, Observe, Continue, Return
  <2> QED BY <2>1
<1>3. CASE Serve(r)
  BY <1>0, <1>3 DEF Serve, TypeOK
<1>4. CASE ~Proceed(r) /\ ~Serve(r)
  <2>1. pc'[r] = pc[r] /\ cur'[r] = cur[r] /\ seen'[r] = seen[r]
    <3>1. CASE StartupProbe \/ \E v \in Upstreams : Elapse(v) \/ ProviderChanges(v)
      BY <3>1 DEF StartupProbe, Elapse, ProviderChanges, requestVars
    <3>2. CASE CtxEnds(r)
      BY <3>2 DEF CtxEnds
    <3>3. ASSUME NEW q \in Requests, q # r, Serve(q) \/ Proceed(q) \/ CtxEnds(q)
          PROVE  pc'[r] = pc[r] /\ cur'[r] = cur[r] /\ seen'[r] = seen[r]
      BY <1>0, <3>3, RequestLocal
    <3> QED BY <1>4, <3>1, <3>2, <3>3 DEF Next
  <2> QED BY <2>1
<1> QED BY <1>1, <1>2, <1>3, <1>4

(***************************************************************************)
(* Why "Seconds until a DoH upstream can be retried" settles although      *)
(* record reads retryAt in one critical section and stores it in another.  *)
(* Whoever parks or closes an upstream records it afterwards; as long as   *)
(* the upstream then stays as it is, the readings that could still be      *)
(* stored wrongly only become fewer, each is stored once, and every other  *)
(* one stores the truth.                                                   *)
(***************************************************************************)
THEOREM ExportFollowsBreaker == Spec => [][ExportSettles /\ ChangeIsRecorded]_vars
<1>1. IInv /\ [Next]_vars => [ExportSettles /\ ChangeIsRecorded]_vars
  <2> SUFFICES ASSUME IInv, Next PROVE ExportSettles /\ ChangeIsRecorded
    OBVIOUS
  <2>0. /\ exported \in [Upstreams -> BOOLEAN] /\ seen \in [Requests -> BOOLEAN]
        /\ cur \in [Requests -> Upstreams]
    BY DEF IInv, TypeOK
  <2>1. ChangeIsRecorded
    BY ParkedChanges DEF ChangeIsRecorded
  <2>2. ASSUME NEW u \in Upstreams, Parked(u)' = Parked(u)
        PROVE  /\ StaleReadings(u)' \subseteq StaleReadings(u)
               /\ \A r \in Requests :
                      Observe(r) /\ cur[r] = u => (StaleExport(u)' <=> r \in StaleReadings(u))
               /\ ~(StaleExport(u)' <=> StaleExport(u)) =>
                      \E r \in Requests : Observe(r) /\ cur[r] = u
    <3>1. StaleReadings(u)' \subseteq StaleReadings(u)
      BY <2>2, ReadingsShrink
    <3>2. ASSUME NEW r \in Requests, Observe(r), cur[r] = u
          PROVE  (StaleExport(u)' <=> r \in StaleReadings(u))
      <4>1. exported'[u] = seen[r] /\ pc[r] = "observe"
        BY <2>0, <3>2 DEF Observe
      <4>2. StaleExport(u)' <=> seen[r] # Parked(u)
        BY <2>2, <4>1, Zenon DEF StaleExport
      <4>3. r \in StaleReadings(u) <=> seen[r] # Parked(u)
        BY <3>2, <4>1, Zenon DEF StaleReadings
      <4> QED BY <4>2, <4>3
    <3>3. ASSUME ~\E r \in Requests : Observe(r) /\ cur[r] = u
          PROVE  StaleExport(u)' <=> StaleExport(u)
      <4>1. exported'[u] = exported[u]
        <5>1. CASE \E r \in Requests : Observe(r)
          BY <2>0, <3>3, <5>1 DEF Observe
        <5>2. CASE ~\E r \in Requests : Observe(r)
          <6>1. exported' = exported
            BY <5>2 DEF Next, StartupProbe, Serve, Proceed, Acquire, AcquireProbe,
               AcquireRefused, Begin, ExchangeAnswers, ExchangeFails, CtxEnds, Succeed,
               FailIgnored, FailCounted, FailTrips, FailEscalates, Settle, Record, Elapse,
               ProviderChanges
          <6> QED BY <6>1
        <5> QED BY <5>1, <5>2
      <4> QED BY <2>2, <4>1, Zenon DEF StaleExport
    <3> QED BY <3>1, <3>2, <3>3
  <2> QED BY <2>1, <2>2 DEF ExportSettles
<1> QED BY <1>1, Invariance, PTL DEF Spec
-----------------------------------------------------------------------------
\* Every step of an exchange, of the clock and of Mihomo preserves DialTypeOK.
LEMMA DialTypeStep == DialTypeOK /\ [DialNext]_dialVars => DialTypeOK'
<1> SUFFICES ASSUME DialTypeOK, [DialNext]_dialVars
             PROVE  DialTypeOK'
  OBVIOUS
<1> USE DialCacheAssumption DEF DialTypeOK, Pools, NoAddress
<1>1. ASSUME NEW e \in Exchanges,
             Dial(e) \/ ReuseFails(e) \/ Miss(e) \/ ResolveFails(e) \/ ConnectFails(e)
      PROVE  DialTypeOK'
  BY <1>1 DEF Dial, ReuseFails, Miss, ResolveFails, ConnectFails, Goto
<1>2. ASSUME NEW e \in Exchanges, Hit(e) \/ Resolve(e)
      PROVE  DialTypeOK'
  BY <1>2 DEF Hit, Resolve, Usable, Goto
<1>3. ASSUME NEW e \in Exchanges, Store(e)
      PROVE  DialTypeOK'
  BY <1>3 DEF Store, Goto
<1>4. ASSUME NEW e \in Exchanges, Answer(e) \/ Invalidate(e)
      PROVE  DialTypeOK'
  BY <1>4 DEF Answer, Invalidate, Goto
<1>5. CASE Expire
  BY <1>5 DEF Expire
<1>6. CASE Rebuild
  BY <1>6 DEF Rebuild
<1>7. CASE UNCHANGED dialVars
  BY <1>7 DEF dialVars
<1> QED BY <1>1, <1>2, <1>3, <1>4, <1>5, <1>6, <1>7 DEF DialNext, DialProceed

(***************************************************************************)
(* The cache holds nothing or addresses of one pool, and what get returns  *)
(* to be dialed or stored is never empty.                                  *)
(***************************************************************************)
THEOREM DialTypeCorrect == DialSpec => []DialTypeOK
<1>1. DialInit => DialTypeOK
  <2> SUFFICES ASSUME DialInit PROVE DialTypeOK
    OBVIOUS
  <2>1. unexpired \in BOOLEAN
    BY DEF DialInit
  <2>2. pool \in Pools /\ addresses \in Pools \cup {NoAddress}
    BY DialCacheAssumption DEF DialInit, Pools, NoAddress
  <2>3. /\ at \in [Exchanges -> {"idle", "get", "resolve", "store", "connect", "failed"}]
        /\ dialed \in [Exchanges -> Pools \cup {NoAddress}]
        /\ \A e \in Exchanges : at[e] = "idle"
    BY DEF DialInit
  <2> QED BY <2>1, <2>2, <2>3 DEF DialTypeOK
<1> QED BY <1>1, DialTypeStep, PTL DEF DialSpec

\* The resolutions of an old pool that are still to be stored.
StaleResolutions == {e \in Exchanges : at[e] = "store" /\ dialed[e] # pool}

StaleCache == Usable /\ addresses # pool

\* While Mihomo keeps its pool, resolutions do not become stale, and a cache
\* that becomes stale has used one of them up.
StalenessShrinks ==
    pool' = pool =>
        /\ StaleResolutions' \subseteq StaleResolutions
        /\ StaleCache' => StaleCache \/ StaleResolutions' # StaleResolutions

(***************************************************************************)
(* Why stale addresses go: after a rebuild of the fake-IP pool get stores  *)
(* old addresses at most as often as there were resolutions under way, in  *)
(* whatever order they end and invalidate is called.                       *)
(***************************************************************************)
THEOREM StalenessRunsOut == DialSpec => [][StalenessShrinks]_dialVars
<1>1. DialTypeOK /\ [DialNext]_dialVars => [StalenessShrinks]_dialVars
  <2> SUFFICES ASSUME DialTypeOK, DialNext, pool' = pool
               PROVE  StalenessShrinks
    BY DEF StalenessShrinks
  <2> USE DEF DialTypeOK, StalenessShrinks, StaleResolutions, StaleCache, Usable
  <2>1. ASSUME NEW e \in Exchanges,
               Dial(e) \/ ReuseFails(e) \/ Miss(e) \/ ResolveFails(e) \/ ConnectFails(e)
        PROVE  StalenessShrinks
    BY <2>1 DEF Dial, ReuseFails, Miss, ResolveFails, ConnectFails, Goto
  <2>2. ASSUME NEW e \in Exchanges, Hit(e) \/ Resolve(e) \/ Answer(e)
        PROVE  StalenessShrinks
    BY <2>2 DEF Hit, Resolve, Answer, Goto
  <2>3. ASSUME NEW e \in Exchanges, Store(e)
        PROVE  StalenessShrinks
    <3>1. StaleResolutions' = StaleResolutions \ {e}
      BY <2>3 DEF Store, Goto
    <3>2. StaleCache' => e \in StaleResolutions
      BY <2>3 DEF Store
    <3> QED BY <3>1, <3>2
  <2>4. ASSUME NEW e \in Exchanges, Invalidate(e)
        PROVE  StalenessShrinks
    BY <2>4 DEF Invalidate, Goto
  <2>5. CASE Expire \/ Rebuild
    BY <2>5 DEF Expire, Rebuild
  <2> QED BY <2>1, <2>2, <2>3, <2>4, <2>5 DEF DialNext, DialProceed
<1> QED BY <1>1, DialTypeCorrect, PTL DEF DialSpec
=============================================================================
