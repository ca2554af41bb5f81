------------------------------- MODULE Circuit -------------------------------
(***************************************************************************)
(* The AUTO_FORWARD circuit of internal/circuitplugin: the guarddns_circuit*)
(* plugin that stands between the MosDNS fake-IP path and Mihomo.          *)
(*                                                                         *)
(* Every client query runs Plugin.Exec on a goroutine of its own.  It asks *)
(* the circuit for a permit (acquire), sends the query to Mihomo up to     *)
(* Attempts times, each time on a worker goroutine with a private copy of  *)
(* the query context (attemptOnce), and reports the verdict (succeed or    *)
(* fail).  acquire, succeed and fail each hold circuit.mu and are one step *)
(* each; everything between them interleaves.  The context of a query can  *)
(* end at any moment: its deadline, or the client closing its connection.  *)
(***************************************************************************)
EXTENDS Backoff, FiniteSets

CONSTANTS
    Queries,            \* goroutines executing the plugin
    FailureThreshold,   \* failure_threshold
    Attempts,           \* attempts
    InitialBackoff,     \* initial_backoff_millis, in units of the model
    MaxBackoff,         \* max_backoff_millis
    StepCap             \* bound on backoffStep: from here on every delay is MaxBackoff

ASSUME CircuitAssumption ==
    /\ FailureThreshold \in Nat \ {0}
    /\ Attempts \in Nat \ {0}
    /\ InitialBackoff \in Nat \ {0}
    /\ MaxBackoff \in Nat
    /\ InitialBackoff <= MaxBackoff
    /\ StepCap \in Nat \ {0}

\* Saturating backoffStep at StepCap changes no delay.
ASSUME StepCapAssumption ==
    ExponentialDelay(InitialBackoff, MaxBackoff, StepCap) = MaxBackoff

VARIABLES
    consecutiveFailures, backoffStep, probing,
    retryIn,            \* time left until retryAt
    stateGauge, backoffGauge,
    pc,                 \* where the goroutine of a query is
    probe,              \* permit.probe of a query
    attempt,            \* its current attempt, from 1
    outcome,            \* what the worker of that attempt met
    late,               \* abandoned attempts whose worker still runs
    ctxDone,            \* ctx.Err() # nil
    response,           \* qCtx.R(): the attempt whose answer it is, or NoMsg
    mihomo,             \* whether Mihomo is usable: the environment
    roundProbes         \* history: probes granted since the circuit last
                        \* changed its step

circuitVars == <<consecutiveFailures, backoffStep, probing, retryIn,
                 stateGauge, backoffGauge, roundProbes>>
queryVars == <<pc, probe, attempt, outcome, late, ctxDone, response>>
vars == <<circuitVars, queryVars, mihomo>>

NoMsg == 0

\* Exec has returned (or was never called): nil, errCircuitOpen, the last
\* attempt's error, the cause of the context's end.
Returned == {"idle", "ok", "bypassed", "failed", "canceled"}

\* "select": attemptOnce waits; "succeed", "fail": about to call it.
Running == {"select", "succeed", "fail"}

\* "sent": the worker waits for Mihomo; "slow": it will wait for longer than
\* the attempt timeout; "answer": a usable response; "rcode": SERVFAIL or
\* REFUSED; "error": an error, or no response at all.
Outcomes == {"sent", "slow", "answer", "rcode", "error"}

Working == {"sent", "slow"}

TypeOK ==
    /\ consecutiveFailures \in 0..FailureThreshold
    /\ backoffStep \in 0..StepCap
    /\ probing \in BOOLEAN
    /\ retryIn \in 0..MaxBackoff
    /\ stateGauge \in 0..2
    /\ backoffGauge \in 0..MaxBackoff
    /\ pc \in [Queries -> Returned \cup Running]
    /\ probe \in [Queries -> BOOLEAN]
    /\ attempt \in [Queries -> 1..Attempts]
    /\ outcome \in [Queries -> Outcomes]
    /\ late \in [Queries -> SUBSET (1..Attempts)]
    /\ ctxDone \in [Queries -> BOOLEAN]
    /\ response \in [Queries -> 0..Attempts]
    /\ mihomo \in {"healthy", "faulty"}
    /\ roundProbes \in Nat

Init ==
    /\ consecutiveFailures = 0
    /\ backoffStep = 0
    /\ probing = FALSE
    /\ retryIn = 0
    /\ stateGauge = 0
    /\ backoffGauge = 0
    /\ pc = [q \in Queries |-> "idle"]
    /\ probe = [q \in Queries |-> FALSE]
    /\ attempt = [q \in Queries |-> 1]
    /\ outcome = [q \in Queries |-> "error"]
    /\ late = [q \in Queries |-> {}]
    /\ ctxDone = [q \in Queries |-> FALSE]
    /\ response = [q \in Queries |-> NoMsg]
    /\ mihomo = "healthy"
    /\ roundProbes = 0
-----------------------------------------------------------------------------
(***************************************************************************)
(* acquire, the first statement of Exec.  A query name is used again once  *)
(* nothing of its previous execution is left, which stands for a new query.*)
(* The response of the incoming context is nil: drop_resp runs just before *)
(* the circuit in fakeip_query.                                            *)
(***************************************************************************)
Startable(q) == pc[q] \in Returned /\ late[q] = {}

\* Mutants of ProbeDue: probing, and the delay, are not looked at.
ProbeDueAgain == backoffStep > 0 /\ retryIn = 0
ProbeDueEarly == backoffStep > 0 /\ ~probing

\* acquire grants the single half-open probe.
ProbeDue == backoffStep > 0 /\ retryIn = 0 /\ ~probing

\* acquire refuses: the delay runs, or another query is the probe.
Refused == backoffStep > 0 /\ (retryIn > 0 \/ probing)

\* The permit p is granted; the first attempt is under way.
Begin(q, p) ==
    /\ pc' = [pc EXCEPT ![q] = "select"]
    /\ probe' = [probe EXCEPT ![q] = p]
    /\ attempt' = [attempt EXCEPT ![q] = 1]
    /\ outcome' = [outcome EXCEPT ![q] = "sent"]
    /\ ctxDone' = [ctxDone EXCEPT ![q] = FALSE]
    /\ response' = [response EXCEPT ![q] = NoMsg]
    /\ UNCHANGED <<late, mihomo>>

Admit(q) ==
    /\ Startable(q) /\ backoffStep = 0
    /\ Begin(q, FALSE)
    /\ UNCHANGED circuitVars

AdmitProbe(q) ==
    /\ Startable(q) /\ ProbeDue
    /\ probing' = TRUE
    /\ stateGauge' = 2
    /\ backoffGauge' = 0
    /\ roundProbes' = roundProbes + 1
    /\ Begin(q, TRUE)
    /\ UNCHANGED <<consecutiveFailures, backoffStep, retryIn>>

Bypass(q) ==
    /\ Startable(q) /\ Refused
    /\ pc' = [pc EXCEPT ![q] = "bypassed"]
    /\ response' = [response EXCEPT ![q] = NoMsg]
    /\ UNCHANGED <<circuitVars, probe, attempt, outcome, late, ctxDone, mihomo>>
-----------------------------------------------------------------------------
\* Exec returns with the result r: its local variables are gone.
Leave(q, r) ==
    /\ pc' = [pc EXCEPT ![q] = r]
    /\ probe' = [probe EXCEPT ![q] = FALSE]
    /\ outcome' = [outcome EXCEPT ![q] = "error"]
    /\ ctxDone' = [ctxDone EXCEPT ![q] = FALSE]

(***************************************************************************)
(* The worker of the current attempt puts Mihomo's verdict in its channel, *)
(* or is going to be too slow.  A healthy Mihomo answers a fake-IP query   *)
(* from its own pool, well within the attempt timeout; the worker has the  *)
(* context of the query and may also return because that has ended.        *)
(***************************************************************************)
Verdicts(q) ==
    {"answer"} \cup (IF mihomo = "faulty" THEN {"slow", "rcode", "error"} ELSE {})
               \cup (IF ctxDone[q] THEN {"error"} ELSE {})

Reply(q) ==
    /\ pc[q] = "select" /\ outcome[q] = "sent"
    /\ \E o \in Verdicts(q) : outcome' = [outcome EXCEPT ![q] = o]
    /\ UNCHANGED <<circuitVars, pc, probe, attempt, late, ctxDone, response, mihomo>>

\* Mutant of LateReply: the attempts share the caller's query context.
LateReplyShared(q) ==
    /\ \E a \in late[q] :
           late' = [late EXCEPT ![q] = @ \ {a}] /\ response' = [response EXCEPT ![q] = a]
    /\ UNCHANGED <<circuitVars, pc, probe, attempt, outcome, ctxDone, mihomo>>

\* The worker of an abandoned attempt ends: its answer, if any, stays in the
\* private copy of the query context and its error in the buffered channel.
LateReply(q) ==
    /\ \E a \in late[q] : late' = [late EXCEPT ![q] = @ \ {a}]
    /\ UNCHANGED <<circuitVars, pc, probe, attempt, outcome, ctxDone, response, mihomo>>

\* The query's deadline passes or its client goes away.
CtxEnds(q) ==
    /\ pc[q] = "select" /\ ~ctxDone[q]
    /\ ctxDone' = [ctxDone EXCEPT ![q] = TRUE]
    /\ UNCHANGED <<circuitVars, pc, probe, attempt, outcome, late, response, mihomo>>

\* The attempt leaves a worker behind if that has not put its result yet.
Abandoned(q) == IF outcome[q] \in Working THEN {attempt[q]} ELSE {}

(***************************************************************************)
(* The rest of the loop body of Exec after an attempt that brought no      *)
(* response.  A query whose context has ended returns here, and tells the  *)
(* circuit nothing: neither succeed nor fail is called for its permit.     *)
(***************************************************************************)
NoResponse(q) ==
    /\ late' = [late EXCEPT ![q] = @ \cup Abandoned(q)]
    /\ IF ctxDone[q]
       THEN /\ Leave(q, "canceled")
            /\ response' = [response EXCEPT ![q] = NoMsg]
            /\ UNCHANGED attempt
       ELSE IF attempt[q] < Attempts
       THEN /\ attempt' = [attempt EXCEPT ![q] = @ + 1]
            /\ outcome' = [outcome EXCEPT ![q] = "sent"]
            /\ UNCHANGED <<pc, probe, ctxDone, response>>
       ELSE /\ pc' = [pc EXCEPT ![q] = "fail"]
            /\ response' = [response EXCEPT ![q] = NoMsg]
            /\ UNCHANGED <<probe, attempt, outcome, ctxDone>>
    /\ UNCHANGED <<circuitVars, mihomo>>

\* case err := <-result, with a response of a good rcode.
TakeAnswer(q) ==
    /\ pc[q] = "select" /\ outcome[q] = "answer"
    /\ response' = [response EXCEPT ![q] = attempt[q]]
    /\ pc' = [pc EXCEPT ![q] = "succeed"]
    /\ UNCHANGED <<circuitVars, probe, attempt, outcome, late, ctxDone, mihomo>>

\* case err := <-result, SERVFAIL or REFUSED: no retry.
TakeFailureRCode(q) ==
    /\ pc[q] = "select" /\ outcome[q] = "rcode"
    /\ response' = [response EXCEPT ![q] = NoMsg]
    /\ pc' = [pc EXCEPT ![q] = "fail"]
    /\ UNCHANGED <<circuitVars, probe, attempt, outcome, late, ctxDone, mihomo>>

\* case err := <-result, an error or an empty result.
TakeError(q) ==
    /\ pc[q] = "select" /\ outcome[q] = "error"
    /\ NoResponse(q)

\* Mutant of AttemptTimeout: the last attempt has no timer.
TimeoutExceptLast(q) ==
    /\ pc[q] = "select" /\ attempt[q] < Attempts
    /\ outcome[q] = "slow" \/ mihomo = "faulty"
    /\ NoResponse(q)

\* case <-timer.C: also when a result is ready at the same moment, for select
\* chooses at random; a healthy Mihomo is never that close to the timeout.
AttemptTimeout(q) ==
    /\ pc[q] = "select"
    /\ outcome[q] = "slow" \/ mihomo = "faulty"
    /\ NoResponse(q)

\* case <-ctx.Done().
SelectCtxDone(q) ==
    /\ pc[q] = "select" /\ ctxDone[q]
    /\ NoResponse(q)
-----------------------------------------------------------------------------
\* The call of succeed or fail is the last thing Exec does.
Return(q, r) ==
    /\ Leave(q, r)
    /\ UNCHANGED <<attempt, late, response, mihomo>>

\* Mutants of Succeed: one of the assignments is missing.
SucceedKeepsDelayGauge(q) ==
    /\ pc[q] = "succeed"
    /\ consecutiveFailures' = 0 /\ backoffStep' = 0 /\ retryIn' = 0 /\ probing' = FALSE
    /\ stateGauge' = 0 /\ roundProbes' = 0
    /\ Return(q, "ok")
    /\ UNCHANGED backoffGauge

SucceedKeepsStep(q) ==
    /\ pc[q] = "succeed"
    /\ consecutiveFailures' = 0 /\ retryIn' = 0 /\ probing' = FALSE
    /\ stateGauge' = 0 /\ backoffGauge' = 0 /\ roundProbes' = 0
    /\ Return(q, "ok")
    /\ UNCHANGED backoffStep

\* succeed: whoever calls it, in whatever state the circuit is.
Succeed(q) ==
    /\ pc[q] = "succeed"
    /\ consecutiveFailures' = 0
    /\ backoffStep' = 0
    /\ retryIn' = 0
    /\ probing' = FALSE
    /\ stateGauge' = 0
    /\ backoffGauge' = 0
    /\ roundProbes' = 0
    /\ Return(q, "ok")

\* Mutant of FailureIgnored: on an open circuit permit.probe is not looked at.
FailureIgnoredUnlessProbing(q) ==
    IF backoffStep = 0 THEN probe[q] ELSE ~probing

\* backoffStep = 0 and the failure of a probe granted before the circuit
\* closed, or backoffStep > 0 and not the failure of a probe: nothing to do.
FailureIgnored(q) ==
    IF backoffStep = 0 THEN probe[q] ELSE ~probe[q] \/ ~probing

\* fail, up to the early returns.
FailIgnored(q) ==
    /\ pc[q] = "fail" /\ FailureIgnored(q)
    /\ Return(q, "failed")
    /\ UNCHANGED circuitVars

\* A failure below the threshold.
FailCounted(q) ==
    /\ pc[q] = "fail" /\ ~FailureIgnored(q)
    /\ backoffStep = 0 /\ consecutiveFailures + 1 < FailureThreshold
    /\ consecutiveFailures' = consecutiveFailures + 1
    /\ Return(q, "failed")
    /\ UNCHANGED <<backoffStep, probing, retryIn, stateGauge, backoffGauge, roundProbes>>

NextStep(n) == IF n < StepCap THEN n + 1 ELSE StepCap

\* The circuit opens, or opens again one step further.
Reopen(step) ==
    /\ backoffStep' = step
    /\ probing' = FALSE
    /\ \E delay \in RetryDelays(InitialBackoff, MaxBackoff, step) :
           /\ retryIn' = delay
           /\ backoffGauge' = delay
    /\ stateGauge' = 1
    /\ roundProbes' = 0

FailTrips(q) ==
    /\ pc[q] = "fail" /\ ~FailureIgnored(q)
    /\ backoffStep = 0 /\ consecutiveFailures + 1 >= FailureThreshold
    /\ consecutiveFailures' = consecutiveFailures + 1
    /\ Reopen(1)
    /\ Return(q, "failed")

FailEscalates(q) ==
    /\ pc[q] = "fail" /\ ~FailureIgnored(q)
    /\ backoffStep > 0
    /\ Reopen(NextStep(backoffStep))
    /\ Return(q, "failed")
    /\ UNCHANGED consecutiveFailures
-----------------------------------------------------------------------------
\* The delay runs out: only whether retryAt has passed is ever read.
Elapse ==
    /\ retryIn > 0
    /\ retryIn' = 0
    /\ UNCHANGED <<consecutiveFailures, backoffStep, probing, stateGauge,
                   backoffGauge, roundProbes, queryVars, mihomo>>

\* Mihomo breaks, or is repaired.
MihomoChanges ==
    /\ mihomo' \in {"healthy", "faulty"} \ {mihomo}
    /\ UNCHANGED <<circuitVars, queryVars>>

\* acquire, at the head of Exec.
Exec(q) == Admit(q) \/ AdmitProbe(q) \/ Bypass(q)

\* The goroutine of Exec moves on, or the worker it waits for does.
Proceed(q) ==
    \/ Reply(q)
    \/ TakeAnswer(q) \/ TakeFailureRCode(q) \/ TakeError(q)
    \/ AttemptTimeout(q) \/ SelectCtxDone(q)
    \/ Succeed(q)
    \/ FailIgnored(q) \/ FailCounted(q) \/ FailTrips(q) \/ FailEscalates(q)

Next ==
    \/ \E q \in Queries : Exec(q) \/ Proceed(q) \/ LateReply(q) \/ CtxEnds(q)
    \/ Elapse
    \/ MihomoChanges

Spec == Init /\ [][Next]_vars

(***************************************************************************)
(* Goroutines are scheduled, timers fire, the forward plugin gives up after*)
(* its own deadline, and clients keep asking.  Nothing is assumed of       *)
(* contexts ending or of Mihomo.                                           *)
(***************************************************************************)
Fairness ==
    /\ WF_vars(Elapse)
    /\ \A q \in Queries :
           WF_vars(Exec(q)) /\ WF_vars(Proceed(q)) /\ WF_vars(LateReply(q))

FairSpec == Spec /\ Fairness
-----------------------------------------------------------------------------
(***************************************************************************)
(* The circuit's fields agree with each other whatever stale query reports *)
(* last: a closed circuit has no delay, no probe and fewer failures than   *)
(* the threshold; an open one has exactly the threshold (acquire tests     *)
(* backoffStep alone, so a stray probing or retryAt would surface only at  *)
(* the next opening).                                                      *)
(***************************************************************************)
CircuitConsistent ==
    IF backoffStep = 0
    THEN ~probing /\ retryIn = 0 /\ consecutiveFailures < FailureThreshold
    ELSE /\ consecutiveFailures = FailureThreshold
         /\ probing => retryIn = 0

(***************************************************************************)
(* guarddns_circuit_state and guarddns_circuit_backoff_seconds, which every*)
(* path of acquire, succeed and fail sets by hand, never lie about the     *)
(* circuit, and the delay announced is within the configured cap and not   *)
(* shorter than the one enforced.                                          *)
(***************************************************************************)
GaugesTruthful ==
    /\ stateGauge = IF backoffStep = 0 THEN 0 ELSE IF probing THEN 2 ELSE 1
    /\ IF stateGauge = 1
       THEN backoffGauge \in 1..MaxBackoff /\ retryIn <= backoffGauge
       ELSE backoffGauge = 0

(***************************************************************************)
(* An open circuit lets one query through and no more before it is closed  *)
(* or opened again, however many arrive when the delay ends and however    *)
(* many stale queries report meanwhile.                                    *)
(***************************************************************************)
OneProbePerRound ==
    /\ roundProbes <= 1
    /\ (backoffStep > 0 /\ ~probing) => roundProbes = 0

(***************************************************************************)
(* What Exec returns with: success carries the answer of the last attempt, *)
(* not of one abandoned before it; every error leaves the caller's context *)
(* without a response (keep_real_response and the fallback rely on that),  *)
(* although workers of abandoned attempts may still be writing.            *)
(***************************************************************************)
ResponseIsOwn ==
    \A q \in Queries :
        /\ pc[q] \in {"ok", "succeed"} => response[q] = attempt[q]
        /\ pc[q] \in {"idle", "bypassed", "fail", "failed", "canceled"} => response[q] = NoMsg

(***************************************************************************)
(* Queries that were admitted before the circuit opened and fail after it  *)
(* do not prolong the outage: only the failure of a query holding a probe  *)
(* permit sets a new delay on an open circuit.                             *)
(***************************************************************************)
OutageProlongedOnlyByProbe ==
    [][ backoffStep > 0 /\ retryIn' > retryIn
        => \E q \in Queries : pc[q] = "fail" /\ probe[q] /\ pc'[q] = "failed" ]_vars

\* The circuit implements the breaker both of GuardDNS's backoffs promise.
Abstract == INSTANCE Breaker WITH
    Threshold <- FailureThreshold,
    mode <- stateGauge,
    failures <- consecutiveFailures,
    level <- backoffStep,
    cooling <- retryIn > 0

(***************************************************************************)
(* Every state change of the concurrent circuit is one of the breaker's.   *)
(***************************************************************************)
ImplementsBreaker == Abstract!Spec

(***************************************************************************)
(* A query is never stuck in the plugin: every Exec returns, whatever      *)
(* Mihomo does (a lost query is ended by the attempt timer).               *)
(***************************************************************************)
ExecReturns ==
    \A q \in Queries : pc[q] \in Running ~> pc[q] \in Returned

\* The circuit is half-open and nobody holds the probe: its query's context
\* ended before Mihomo answered.
ProbeAbandoned ==
    probing /\ ~\E q \in Queries : pc[q] \in Running /\ probe[q]

(***************************************************************************)
(* When Mihomo works again the circuit closes, unless the context of the   *)
(* probe ended before its answer.                                          *)
(***************************************************************************)
ClosesUnlessProbeAbandoned ==
    <>[](mihomo = "healthy")
        => (backoffStep > 0 ~> (backoffStep = 0 \/ ProbeAbandoned))

(***************************************************************************)
(* README.md: "a half-open probe restores forwarding automatically."  Once *)
(* Mihomo is healthy for good, the circuit does not stay open for good.    *)
(* It can: a probe whose context ends returns from Exec without calling    *)
(* succeed or fail, probing stays TRUE and acquire refuses every query.    *)
(***************************************************************************)
HalfOpenProbeRestores ==
    <>[](mihomo = "healthy") => []<>(backoffStep = 0)
=============================================================================
