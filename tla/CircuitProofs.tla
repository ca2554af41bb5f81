---------------------------- MODULE CircuitProofs ----------------------------
(***************************************************************************)
(* The safety of Circuit, for any number of queries, any threshold, any    *)
(* number of attempts and any delays.                                      *)
(***************************************************************************)
EXTENDS Circuit, BackoffTheorems

\* The part of the invariant that is about the circuit's own fields.  It is
\* inductive: TypeOK alone is not, for it is CircuitConsistent that keeps
\* consecutiveFailures from passing the threshold.
CircuitInv == CircuitConsistent /\ GaugesTruthful /\ OneProbePerRound

IInv == TypeOK /\ CircuitInv /\ ResponseIsOwn

\* The invariant holds of a new circuit.
LEMMA InitInvariant == Init => IInv
<1> SUFFICES ASSUME Init PROVE IInv
  OBVIOUS
<1> USE CircuitAssumption DEF Init
<1>1. TypeOK
  <2>1. /\ consecutiveFailures \in 0..FailureThreshold
        /\ backoffStep \in 0..StepCap
        /\ retryIn \in 0..MaxBackoff
        /\ stateGauge \in 0..2
        /\ backoffGauge \in 0..MaxBackoff
        /\ attempt \in [Queries -> 1..Attempts]
        /\ response \in [Queries -> 0..Attempts]
        /\ roundProbes \in Nat
    BY DEF NoMsg
  <2>2. /\ probing \in BOOLEAN
        /\ pc \in [Queries -> Returned \cup Running]
        /\ probe \in [Queries -> BOOLEAN]
        /\ outcome \in [Queries -> Outcomes]
        /\ late \in [Queries -> SUBSET (1..Attempts)]
        /\ ctxDone \in [Queries -> BOOLEAN]
        /\ mihomo \in {"healthy", "faulty"}
    BY DEF Returned, Running, Outcomes
  <2> QED BY <2>1, <2>2 DEF TypeOK
<1>2. CircuitInv
  BY DEF CircuitInv, CircuitConsistent, GaugesTruthful, OneProbePerRound
<1>3. ResponseIsOwn
  BY DEF ResponseIsOwn, NoMsg
<1> QED BY <1>1, <1>2, <1>3 DEF IInv

\* The delays a failing query may set.
LEMMA DelayBounded ==
    ASSUME NEW step \in Nat
    PROVE  RetryDelays(InitialBackoff, MaxBackoff, step) \subseteq 1..MaxBackoff
  BY RetryDelaysBounded, CircuitAssumption

\* The state after the circuit has been opened at some step.
LEMMA ReopenTyped ==
    ASSUME NEW step \in 1..StepCap, Reopen(step)
    PROVE  /\ backoffStep' = step /\ probing' = FALSE /\ stateGauge' = 1
           /\ roundProbes' = 0
           /\ retryIn' \in 1..MaxBackoff /\ backoffGauge' = retryIn'
<1>1. RetryDelays(InitialBackoff, MaxBackoff, step) \subseteq 1..MaxBackoff
  BY DelayBounded, CircuitAssumption
<1> QED BY <1>1 DEF Reopen

\* The next step of an open circuit is a step.
LEMMA NextStepTyped ==
    ASSUME NEW n \in 0..StepCap, n > 0
    PROVE  NextStep(n) \in 1..StepCap
  BY CircuitAssumption DEF NextStep

(***************************************************************************)
(* Actions that leave the circuit's fields alone keep CircuitInv.          *)
(***************************************************************************)
LEMMA CircuitInvStutter ==
    ASSUME CircuitInv, UNCHANGED circuitVars
    PROVE  CircuitInv'
  BY DEF CircuitInv, CircuitConsistent, GaugesTruthful, OneProbePerRound, circuitVars

(***************************************************************************)
(* What every step of a query does to the variables of the queries: they   *)
(* keep their types, and a response is set only with the verdict.          *)
(***************************************************************************)
LEMMA QueryStep ==
    ASSUME TypeOK, ResponseIsOwn, NEW q \in Queries,
           Exec(q) \/ Proceed(q) \/ LateReply(q) \/ CtxEnds(q)
    PROVE  /\ pc' \in [Queries -> Returned \cup Running]
           /\ probe' \in [Queries -> BOOLEAN]
           /\ attempt' \in [Queries -> 1..Attempts]
           /\ outcome' \in [Queries -> Outcomes]
           /\ late' \in [Queries -> SUBSET (1..Attempts)]
           /\ ctxDone' \in [Queries -> BOOLEAN]
           /\ response' \in [Queries -> 0..Attempts]
           /\ mihomo' = mihomo
           /\ ResponseIsOwn'
<1> DEFINE Goal ==
           /\ pc' \in [Queries -> Returned \cup Running]
           /\ probe' \in [Queries -> BOOLEAN]
           /\ attempt' \in [Queries -> 1..Attempts]
           /\ outcome' \in [Queries -> Outcomes]
           /\ late' \in [Queries -> SUBSET (1..Attempts)]
           /\ ctxDone' \in [Queries -> BOOLEAN]
           /\ response' \in [Queries -> 0..Attempts]
           /\ mihomo' = mihomo
           /\ ResponseIsOwn'
<1> USE CircuitAssumption DEF TypeOK, ResponseIsOwn, Returned, Running, Outcomes, NoMsg
<1>1. ASSUME NEW p \in BOOLEAN, Begin(q, p) PROVE Goal
  BY <1>1 DEF Begin
<1>2. CASE Admit(q)
  BY <1>1, <1>2 DEF Admit
<1>3. CASE AdmitProbe(q)
  BY <1>1, <1>3 DEF AdmitProbe
<1>4. CASE Bypass(q)
  BY <1>4 DEF Bypass
<1>5. CASE Reply(q)
  BY <1>5 DEF Reply, Verdicts
<1>6. CASE LateReply(q)
  BY <1>6 DEF LateReply
<1>7. CASE CtxEnds(q)
  BY <1>7 DEF CtxEnds
<1>8. ASSUME NoResponse(q), pc[q] = "select" PROVE Goal
  <2>1. late' \in [Queries -> SUBSET (1..Attempts)] /\ mihomo' = mihomo
    BY <1>8 DEF NoResponse, Abandoned
  <2>2. CASE ctxDone[q]
    <3>1. /\ Leave(q, "canceled")
          /\ response' = [response EXCEPT ![q] = NoMsg]
          /\ UNCHANGED attempt
      BY <1>8, <2>2, Zenon DEF NoResponse
    <3> QED BY <2>1, <3>1 DEF Leave
  <2>3. CASE ~ctxDone[q] /\ attempt[q] < Attempts
    BY <1>8, <2>1, <2>3 DEF NoResponse
  <2>4. CASE ~ctxDone[q] /\ ~(attempt[q] < Attempts)
    BY <1>8, <2>1, <2>4 DEF NoResponse
  <2> QED BY <2>2, <2>3, <2>4
<1>9. CASE TakeAnswer(q)
  BY <1>9 DEF TakeAnswer
<1>10. CASE TakeFailureRCode(q)
  BY <1>10 DEF TakeFailureRCode
<1>11. CASE TakeError(q) \/ AttemptTimeout(q) \/ SelectCtxDone(q)
  BY <1>8, <1>11 DEF TakeError, AttemptTimeout, SelectCtxDone
<1>12. ASSUME NEW r \in {"ok", "failed"}, Return(q, r),
              pc[q] = (IF r = "ok" THEN "succeed" ELSE "fail")
       PROVE  Goal
  BY <1>12 DEF Return, Leave
<1>13. CASE Succeed(q)
  BY <1>12, <1>13 DEF Succeed
<1>14. CASE FailIgnored(q) \/ FailCounted(q) \/ FailTrips(q) \/ FailEscalates(q)
  BY <1>12, <1>14 DEF FailIgnored, FailCounted, FailTrips, FailEscalates
<1> QED
  BY <1>2, <1>3, <1>4, <1>5, <1>6, <1>7, <1>9, <1>10, <1>11, <1>13, <1>14
  DEF Exec, Proceed

(***************************************************************************)
(* Type correctness and the circuit's own invariant are preserved by every *)
(* step, one case per action that touches the circuit.                     *)
(***************************************************************************)
LEMMA StepInvariant == IInv /\ [Next]_vars => IInv'
<1> SUFFICES ASSUME IInv, [Next]_vars PROVE IInv'
  OBVIOUS
<1> USE CircuitAssumption
<1> DEFINE CircuitTyped ==
        /\ consecutiveFailures \in 0..FailureThreshold
        /\ backoffStep \in 0..StepCap
        /\ probing \in BOOLEAN
        /\ retryIn \in 0..MaxBackoff
        /\ stateGauge \in 0..2
        /\ backoffGauge \in 0..MaxBackoff
        /\ roundProbes \in Nat
<1>0. CircuitTyped /\ CircuitInv
  BY DEF IInv, TypeOK
<1>1. ASSUME UNCHANGED circuitVars PROVE CircuitTyped' /\ CircuitInv'
  BY <1>0, <1>1, CircuitInvStutter DEF circuitVars
<1>2. ASSUME NEW q \in Queries, Exec(q) \/ Proceed(q) \/ LateReply(q) \/ CtxEnds(q)
      PROVE  CircuitTyped' /\ CircuitInv'
  <2>1. CASE Admit(q) \/ Bypass(q) \/ LateReply(q) \/ CtxEnds(q)
    BY <1>1, <2>1 DEF Admit, Bypass, LateReply, CtxEnds
  <2>2. CASE Reply(q) \/ TakeAnswer(q) \/ TakeFailureRCode(q) \/ FailIgnored(q)
    BY <1>1, <2>2 DEF Reply, TakeAnswer, TakeFailureRCode, FailIgnored
  <2>3. CASE TakeError(q) \/ AttemptTimeout(q) \/ SelectCtxDone(q)
    BY <1>1, <2>3 DEF TakeError, AttemptTimeout, SelectCtxDone, NoResponse
  <2>4. CASE AdmitProbe(q)
    BY <1>0, <2>4
    DEF AdmitProbe, ProbeDue, CircuitInv, CircuitConsistent, GaugesTruthful, OneProbePerRound
  <2>5. CASE Succeed(q)
    <3>1. CircuitTyped'
      <4>1. probing' \in BOOLEAN
        BY <2>5, Zenon DEF Succeed
      <4> QED BY <2>5, <4>1 DEF Succeed
    <3>2. CircuitConsistent' /\ OneProbePerRound'
      BY <2>5 DEF Succeed, CircuitConsistent, OneProbePerRound
    <3>3. GaugesTruthful'
      BY <2>5 DEF Succeed, GaugesTruthful
    <3> QED BY <3>1, <3>2, <3>3 DEF CircuitInv
  <2>6. CASE FailCounted(q)
    BY <1>0, <2>6
    DEF FailCounted, CircuitInv, CircuitConsistent, GaugesTruthful, OneProbePerRound
  <2>7. CASE FailTrips(q)
    <3>1. Reopen(1) /\ backoffStep = 0 /\ consecutiveFailures' = consecutiveFailures + 1
          /\ consecutiveFailures + 1 >= FailureThreshold
      BY <2>7 DEF FailTrips
    <3>2. consecutiveFailures' = FailureThreshold
      BY <1>0, <3>1 DEF CircuitInv, CircuitConsistent
    <3>3. /\ backoffStep' = 1 /\ probing' = FALSE /\ stateGauge' = 1
          /\ roundProbes' = 0
          /\ retryIn' \in 1..MaxBackoff /\ backoffGauge' = retryIn'
      <4>1. 1 \in 1..StepCap
        OBVIOUS
      <4> QED BY <3>1, <4>1, ReopenTyped
    <3>4. CircuitTyped'
      <4>1. probing' \in BOOLEAN
        BY <3>3, Zenon
      <4> QED BY <3>2, <3>3, <4>1
    <3>5. CircuitConsistent' /\ OneProbePerRound'
      BY <3>2, <3>3 DEF CircuitConsistent, OneProbePerRound
    <3>6. GaugesTruthful'
      BY <3>3 DEF GaugesTruthful
    <3> QED BY <3>4, <3>5, <3>6 DEF CircuitInv
  <2>8. CASE FailEscalates(q)
    <3>1. Reopen(NextStep(backoffStep)) /\ backoffStep > 0 /\ UNCHANGED consecutiveFailures
      BY <2>8 DEF FailEscalates
    <3>2. NextStep(backoffStep) \in 1..StepCap
      BY <1>0, <3>1, NextStepTyped
    <3>3. consecutiveFailures' = FailureThreshold
      BY <1>0, <3>1 DEF CircuitInv, CircuitConsistent
    <3>4. /\ backoffStep' \in 1..StepCap /\ probing' = FALSE /\ stateGauge' = 1
          /\ roundProbes' = 0
          /\ retryIn' \in 1..MaxBackoff /\ backoffGauge' = retryIn'
      BY <3>1, <3>2, ReopenTyped
    <3>5. CircuitTyped'
      <4>1. probing' \in BOOLEAN
        BY <3>4, Zenon
      <4> QED BY <3>3, <3>4, <4>1
    <3>6. CircuitConsistent' /\ OneProbePerRound'
      BY <3>3, <3>4 DEF CircuitConsistent, OneProbePerRound
    <3>7. GaugesTruthful'
      BY <3>4 DEF GaugesTruthful
    <3> QED BY <3>5, <3>6, <3>7 DEF CircuitInv
  <2> QED
    BY <1>2, <2>1, <2>2, <2>3, <2>4, <2>5, <2>6, <2>7, <2>8 DEF Exec, Proceed
<1>3. ASSUME NEW q \in Queries, Exec(q) \/ Proceed(q) \/ LateReply(q) \/ CtxEnds(q)
      PROVE  IInv'
  BY <1>2, <1>3, QueryStep DEF IInv, TypeOK
<1>4. CASE Elapse
  <2>1. CircuitTyped' /\ CircuitInv'
    BY <1>0, <1>4
    DEF Elapse, CircuitInv, CircuitConsistent, GaugesTruthful, OneProbePerRound
  <2> QED BY <1>4, <2>1 DEF Elapse, queryVars, IInv, TypeOK, ResponseIsOwn
<1>5. CASE MihomoChanges
  <2>1. CircuitTyped' /\ CircuitInv'
    BY <1>1, <1>5 DEF MihomoChanges
  <2> QED BY <1>5, <2>1 DEF MihomoChanges, queryVars, IInv, TypeOK, ResponseIsOwn
<1>6. CASE UNCHANGED vars
  <2>1. CircuitTyped' /\ CircuitInv'
    BY <1>1, <1>6 DEF vars
  <2> QED BY <1>6, <2>1 DEF vars, queryVars, IInv, TypeOK, ResponseIsOwn
<1> QED BY <1>3, <1>4, <1>5, <1>6 DEF Next

\* The inductive invariant holds of every behaviour.
LEMMA Invariance == Spec => []IInv
  BY InitInvariant, StepInvariant, PTL DEF Spec

(***************************************************************************)
(* Every variable of the circuit and of its queries keeps its type; in     *)
(* particular no delay exceeds the configured maximum.                     *)
(***************************************************************************)
THEOREM TypeCorrect == Spec => []TypeOK
<1>1. IInv => TypeOK
  BY DEF IInv
<1> QED BY <1>1, Invariance, PTL

(***************************************************************************)
(* The fields that acquire, succeed and fail keep by hand never disagree.  *)
(***************************************************************************)
THEOREM Consistency == Spec => []CircuitConsistent
<1>1. IInv => CircuitConsistent
  BY DEF IInv, CircuitInv
<1> QED BY <1>1, Invariance, PTL

(***************************************************************************)
(* The exported gauges always describe the circuit.                        *)
(***************************************************************************)
THEOREM Truthfulness == Spec => []GaugesTruthful
<1>1. IInv => GaugesTruthful
  BY DEF IInv, CircuitInv
<1> QED BY <1>1, Invariance, PTL

(***************************************************************************)
(* At most one probe between two changes of the circuit.                   *)
(***************************************************************************)
THEOREM SingleProbe == Spec => []OneProbePerRound
<1>1. IInv => OneProbePerRound
  BY DEF IInv, CircuitInv
<1> QED BY <1>1, Invariance, PTL

(***************************************************************************)
(* Exec returns the answer of its last attempt, or no response.            *)
(***************************************************************************)
THEOREM OwnResponse == Spec => []ResponseIsOwn
<1>1. IInv => ResponseIsOwn
  BY DEF IInv
<1> QED BY <1>1, Invariance, PTL
-----------------------------------------------------------------------------
(***************************************************************************)
(* The refinement.  One case per action that touches the circuit: it is    *)
(* the breaker's action of the same purpose, or changes nothing of it.     *)
(***************************************************************************)
LEMMA StepRefines == IInv /\ IInv' /\ [Next]_vars => [Abstract!Next]_(Abstract!vars)
<1> SUFFICES ASSUME IInv, IInv', [Next]_vars
             PROVE  Abstract!Next \/ UNCHANGED Abstract!vars
  OBVIOUS
<1> USE CircuitAssumption
<1>0. /\ TypeOK /\ TypeOK'
      /\ CircuitConsistent /\ GaugesTruthful
      /\ CircuitConsistent' /\ GaugesTruthful'
  BY DEF IInv, CircuitInv
<1>1. ASSUME UNCHANGED circuitVars PROVE UNCHANGED Abstract!vars
  BY <1>1 DEF circuitVars, Abstract!vars
<1>2. ASSUME NEW q \in Queries, Exec(q) \/ Proceed(q) \/ LateReply(q) \/ CtxEnds(q)
      PROVE  Abstract!Next \/ UNCHANGED Abstract!vars
  <2>1. CASE Admit(q) \/ Bypass(q) \/ LateReply(q) \/ CtxEnds(q)
    BY <1>1, <2>1 DEF Admit, Bypass, LateReply, CtxEnds
  <2>2. CASE Reply(q) \/ TakeAnswer(q) \/ TakeFailureRCode(q) \/ FailIgnored(q)
    BY <1>1, <2>2 DEF Reply, TakeAnswer, TakeFailureRCode, FailIgnored
  <2>3. CASE TakeError(q) \/ AttemptTimeout(q) \/ SelectCtxDone(q)
    BY <1>1, <2>3 DEF TakeError, AttemptTimeout, SelectCtxDone, NoResponse
  <2>4. CASE AdmitProbe(q)
    <3>1. Abstract!Probe
      BY <1>0, <2>4
      DEF TypeOK, AdmitProbe, ProbeDue, GaugesTruthful, Abstract!Probe,
          Abstract!Open, Abstract!HalfOpen
    <3> QED BY <3>1 DEF Abstract!Next
  <2>5. CASE Succeed(q)
    <3>1. Abstract!Close
      BY <2>5 DEF Succeed, Abstract!Close, Abstract!Closed
    <3> QED BY <3>1 DEF Abstract!Next
  <2>6. CASE FailCounted(q)
    <3>1. Abstract!Count
      BY <1>0, <2>6
      DEF FailCounted, GaugesTruthful, Abstract!Count, Abstract!Closed
    <3> QED BY <3>1 DEF Abstract!Next
  <2>7. CASE FailTrips(q)
    <3>1. /\ stateGauge = 0
          /\ consecutiveFailures + 1 >= FailureThreshold
          /\ consecutiveFailures' = consecutiveFailures + 1
          /\ Reopen(1)
      BY <1>0, <2>7 DEF FailTrips, GaugesTruthful
    <3>2. /\ backoffStep' = 1 /\ stateGauge' = 1
          /\ retryIn' \in 1..MaxBackoff
      <4>1. 1 \in 1..StepCap
        OBVIOUS
      <4> QED BY <3>1, <4>1, ReopenTyped
    <3>3. (retryIn > 0)' = TRUE
      BY <3>2
    <3>4. Abstract!Trip
      BY <3>1, <3>2, <3>3 DEF Abstract!Trip, Abstract!Closed, Abstract!Open
    <3> QED BY <3>4 DEF Abstract!Next
  <2>8. CASE FailEscalates(q)
    <3>1. /\ backoffStep > 0 /\ probing
          /\ Reopen(NextStep(backoffStep))
          /\ UNCHANGED consecutiveFailures
      BY <1>0, <2>8 DEF FailEscalates, FailureIgnored, TypeOK
    <3>2. stateGauge = 2
      BY <1>0, <3>1 DEF GaugesTruthful
    <3>3. NextStep(backoffStep) \in 1..StepCap
      BY <1>0, <3>1, NextStepTyped DEF TypeOK
    <3>4. /\ backoffStep' = NextStep(backoffStep) /\ stateGauge' = 1
          /\ retryIn' \in 1..MaxBackoff
      BY <3>1, <3>3, ReopenTyped
    <3>5. (retryIn > 0)' = TRUE
      BY <3>4
    <3>6. Abstract!Escalate
      BY <3>1, <3>2, <3>4, <3>5
      DEF NextStep, Abstract!Escalate, Abstract!NextLevel, Abstract!Open, Abstract!HalfOpen
    <3> QED BY <3>6 DEF Abstract!Next
  <2> QED
    BY <1>2, <2>1, <2>2, <2>3, <2>4, <2>5, <2>6, <2>7, <2>8 DEF Exec, Proceed
<1>3. CASE Elapse
  <2>1. stateGauge = 1
    BY <1>0, <1>3 DEF Elapse, TypeOK, CircuitConsistent, GaugesTruthful
  <2>2. Abstract!Cool
    BY <1>3, <2>1 DEF Elapse, Abstract!Cool, Abstract!Open
  <2> QED BY <2>2 DEF Abstract!Next
<1>4. CASE MihomoChanges
  BY <1>1, <1>4 DEF MihomoChanges
<1>5. CASE UNCHANGED vars
  BY <1>1, <1>5 DEF vars
<1> QED BY <1>2, <1>3, <1>4, <1>5 DEF Next

(***************************************************************************)
(* The circuit, with all its concurrent and stale queries, implements the  *)
(* abstract breaker.                                                       *)
(***************************************************************************)
THEOREM Refinement == Spec => ImplementsBreaker
<1>1. Init => Abstract!Init
  BY DEF Init, Abstract!Init, Abstract!Closed
<1> QED
  BY <1>1, Invariance, StepRefines, PTL DEF Spec, ImplementsBreaker, Abstract!Spec

(***************************************************************************)
(* A query that does not hold a probe permit never lengthens an outage.    *)
(***************************************************************************)
THEOREM NoStaleProlonging == Spec => OutageProlongedOnlyByProbe
<1> DEFINE A == backoffStep > 0 /\ retryIn' > retryIn
                => \E q \in Queries : pc[q] = "fail" /\ probe[q] /\ pc'[q] = "failed"
<1>1. IInv /\ [Next]_vars => [A]_vars
  <2> SUFFICES ASSUME IInv, Next, backoffStep > 0, retryIn' > retryIn
               PROVE  \E q \in Queries : pc[q] = "fail" /\ probe[q] /\ pc'[q] = "failed"
    OBVIOUS
  <2>0. TypeOK
    BY DEF IInv
  <2>1. retryIn' # retryIn
    BY <2>0 DEF TypeOK
  <2>2. ~Elapse
    BY <2>0 DEF Elapse, TypeOK
  <2>3. ~MihomoChanges
    BY <2>1 DEF MihomoChanges, circuitVars
  <2>4. PICK q \in Queries : Exec(q) \/ Proceed(q) \/ LateReply(q) \/ CtxEnds(q)
    BY <2>2, <2>3 DEF Next
  <2>5. ~Exec(q) /\ ~LateReply(q) /\ ~CtxEnds(q)
    BY <2>1 DEF Exec, Admit, AdmitProbe, Bypass, LateReply, CtxEnds, circuitVars
  <2>6. ~Reply(q) /\ ~TakeAnswer(q) /\ ~TakeFailureRCode(q) /\ ~FailIgnored(q)
    BY <2>1 DEF Reply, TakeAnswer, TakeFailureRCode, FailIgnored, circuitVars
  <2>7. ~TakeError(q) /\ ~AttemptTimeout(q) /\ ~SelectCtxDone(q)
    BY <2>1 DEF TakeError, AttemptTimeout, SelectCtxDone, NoResponse, circuitVars
  <2>8. ~Succeed(q)
    BY <2>0 DEF Succeed, TypeOK
  <2>9. ~FailCounted(q) /\ ~FailTrips(q)
    BY DEF FailCounted, FailTrips
  <2>10. FailEscalates(q)
    BY <2>4, <2>5, <2>6, <2>7, <2>8, <2>9 DEF Proceed
  <2>11. pc[q] = "fail" /\ probe[q]
    <3>1. pc[q] = "fail" /\ ~FailureIgnored(q) /\ backoffStep > 0
      BY <2>10 DEF FailEscalates
    <3>2. backoffStep # 0
      BY <2>0, <3>1 DEF TypeOK
    <3> QED BY <3>1, <3>2, Zenon DEF FailureIgnored
  <2>12. pc'[q] = "failed"
    BY <2>0, <2>10 DEF FailEscalates, Return, Leave, TypeOK
  <2> QED BY <2>11, <2>12
<1> QED BY <1>1, Invariance, PTL DEF Spec, OutageProlongedOnlyByProbe
-----------------------------------------------------------------------------
(***************************************************************************)
(* How long a query can stay in Exec: the safety half of ExecReturns.      *)
(***************************************************************************)
\* The steps that an execution has left at most.
ExecSteps(q) ==
    IF pc[q] = "select"
    THEN 2 * (Attempts - attempt[q]) + (IF outcome[q] = "sent" THEN 3 ELSE 2)
    ELSE IF pc[q] \in {"succeed", "fail"} THEN 1 ELSE 0

\* A step of an execution uses one of them up; nothing that other queries, the
\* circuit, the context or Mihomo do gives it another.
Advancing ==
    \A q \in Queries :
        /\ Proceed(q) => ExecSteps(q)' < ExecSteps(q)
        /\ ~Exec(q) => ExecSteps(q)' <= ExecSteps(q)

\* An execution has a bounded number of steps left, none once it has returned.
ExecBound ==
    \A q \in Queries :
        /\ ExecSteps(q) \in 0..2 * Attempts + 1
        /\ ExecSteps(q) = 0 <=> pc[q] \in Returned

\* A query's step is its own.
LEMMA QueryLocal ==
    ASSUME TypeOK, NEW q \in Queries, Exec(q) \/ Proceed(q) \/ LateReply(q) \/ CtxEnds(q),
           NEW r \in Queries, r # q
    PROVE  /\ pc'[r] = pc[r] /\ probe'[r] = probe[r]
           /\ attempt'[r] = attempt[r] /\ outcome'[r] = outcome[r]
<1> USE DEF TypeOK
<1>1. CASE Exec(q)
  BY <1>1 DEF Exec, Admit, AdmitProbe, Bypass, Begin
<1>2. CASE LateReply(q) \/ CtxEnds(q)
  BY <1>2 DEF LateReply, CtxEnds
<1>3. CASE Reply(q) \/ TakeAnswer(q) \/ TakeFailureRCode(q)
  BY <1>3 DEF Reply, TakeAnswer, TakeFailureRCode
<1>4. CASE TakeError(q) \/ AttemptTimeout(q) \/ SelectCtxDone(q)
  BY <1>4 DEF TakeError, AttemptTimeout, SelectCtxDone, NoResponse, Leave
<1>5. CASE Succeed(q) \/ FailIgnored(q) \/ FailCounted(q) \/ FailTrips(q) \/ FailEscalates(q)
  BY <1>5 DEF Succeed, FailIgnored, FailCounted, FailTrips, FailEscalates, Return, Leave
<1> QED BY <1>1, <1>2, <1>3, <1>4, <1>5 DEF Proceed

\* What every part of Proceed does to the query's own place in Exec.
LEMMA ProceedMoves ==
    ASSUME TypeOK, NEW q \in Queries, Proceed(q)
    PROVE  \/ /\ pc[q] = "select" /\ pc'[q] = "select" /\ outcome[q] = "sent"
              /\ outcome'[q] # "sent" /\ attempt'[q] = attempt[q] /\ probe'[q] = probe[q]
           \/ /\ pc[q] = "select" /\ pc'[q] = "select" /\ attempt[q] < Attempts
              /\ attempt'[q] = attempt[q] + 1 /\ probe'[q] = probe[q]
           \/ pc[q] = "select" /\ pc'[q] \in {"succeed", "fail"} /\ probe'[q] = probe[q]
           \/ pc[q] = "select" /\ pc'[q] = "canceled" /\ ctxDone[q]
           \/ pc[q] = "succeed" /\ pc'[q] = "ok"
           \/ pc[q] = "fail" /\ pc'[q] = "failed"
<1> USE DEF TypeOK
<1>1. CASE Reply(q)
  BY <1>1 DEF Reply, Verdicts
<1>2. CASE TakeAnswer(q) \/ TakeFailureRCode(q)
  BY <1>2 DEF TakeAnswer, TakeFailureRCode
<1>3. CASE TakeError(q) \/ AttemptTimeout(q) \/ SelectCtxDone(q)
  <2>1. pc[q] = "select" /\ NoResponse(q)
    BY <1>3 DEF TakeError, AttemptTimeout, SelectCtxDone
  <2>2. CASE ctxDone[q]
    <3>1. Leave(q, "canceled")
      BY <2>1, <2>2, Zenon DEF NoResponse
    <3>2. pc'[q] = "canceled"
      BY <3>1 DEF Leave
    <3> QED BY <2>1, <2>2, <3>2
  <2>3. CASE ~ctxDone[q]
    BY <2>1, <2>3 DEF NoResponse
  <2> QED BY <2>2, <2>3
<1>4. CASE Succeed(q)
  BY <1>4 DEF Succeed, Return, Leave
<1>5. CASE FailIgnored(q) \/ FailCounted(q) \/ FailTrips(q) \/ FailEscalates(q)
  BY <1>5 DEF FailIgnored, FailCounted, FailTrips, FailEscalates, Return, Leave
<1> QED BY <1>1, <1>2, <1>3, <1>4, <1>5 DEF Proceed

\* The bound is one of the types alone.
LEMMA ExecStepsBounded ==
    ASSUME TypeOK, NEW q \in Queries
    PROVE  /\ ExecSteps(q) \in 0..2 * Attempts + 1
           /\ ExecSteps(q) = 0 <=> pc[q] \in Returned
<1>1. /\ pc[q] \in Returned \cup Running
      /\ Attempts \in Nat /\ attempt[q] \in 1..Attempts
  BY CircuitAssumption DEF TypeOK
<1> QED BY <1>1 DEF ExecSteps, Returned, Running

(***************************************************************************)
(* No execution is kept in the plugin: whatever Mihomo, the other queries  *)
(* and the circuit do, Exec returns within 2 * Attempts + 1 steps of its   *)
(* own and of the worker it waits for.                                     *)
(***************************************************************************)
THEOREM ExecIsBounded == Spec => []ExecBound /\ [][Advancing]_vars
<1>1. IInv => ExecBound
  BY ExecStepsBounded DEF IInv, ExecBound
<1>2. IInv /\ ExecBound /\ ExecBound' /\ [Next]_vars => [Advancing]_vars
  <2> SUFFICES ASSUME IInv, ExecBound, ExecBound', Next, NEW q \in Queries
               PROVE  /\ Proceed(q) => ExecSteps(q)' < ExecSteps(q)
                      /\ ~Exec(q) => ExecSteps(q)' <= ExecSteps(q)
    BY DEF Advancing
  <2>0. ExecSteps(q) \in Int /\ ExecSteps(q)' \in Int
    BY DEF ExecBound
  <2>1. ASSUME Proceed(q) PROVE ExecSteps(q)' < ExecSteps(q)
    <3>1. Attempts \in Nat /\ attempt[q] \in 1..Attempts
      BY CircuitAssumption DEF IInv, TypeOK
    <3>2. \/ /\ pc[q] = "select" /\ pc'[q] = "select" /\ outcome[q] = "sent"
             /\ outcome'[q] # "sent" /\ attempt'[q] = attempt[q]
          \/ /\ pc[q] = "select" /\ pc'[q] = "select" /\ attempt[q] < Attempts
             /\ attempt'[q] = attempt[q] + 1
          \/ pc[q] = "select" /\ pc'[q] \in {"succeed", "fail"}
          \/ pc[q] = "select" /\ pc'[q] = "canceled"
          \/ pc[q] = "succeed" /\ pc'[q] = "ok"
          \/ pc[q] = "fail" /\ pc'[q] = "failed"
      BY <2>1, ProceedMoves DEF IInv
    <3> QED BY <3>1, <3>2 DEF ExecSteps
  <2>2. ASSUME ~Exec(q), ~Proceed(q) PROVE ExecSteps(q)' <= ExecSteps(q)
    <3>1. pc'[q] = pc[q] /\ attempt'[q] = attempt[q] /\ outcome'[q] = outcome[q]
      <4>1. CASE Elapse \/ MihomoChanges
        BY <4>1 DEF Elapse, MihomoChanges, queryVars
      <4>2. CASE LateReply(q) \/ CtxEnds(q)
        BY <4>2 DEF LateReply, CtxEnds
      <4>3. ASSUME NEW r \in Queries, r # q,
                   Exec(r) \/ Proceed(r) \/ LateReply(r) \/ CtxEnds(r)
            PROVE  pc'[q] = pc[q] /\ attempt'[q] = attempt[q] /\ outcome'[q] = outcome[q]
        BY <4>3, QueryLocal DEF IInv
      <4> QED BY <2>2, <4>1, <4>2, <4>3 DEF Next
    <3>2. ExecSteps(q)' = ExecSteps(q)
      BY <3>1 DEF ExecSteps
    <3> QED BY <2>0, <3>2
  <2> QED BY <2>0, <2>1, <2>2
<1> QED BY <1>1, <1>2, Invariance, PTL DEF Spec
-----------------------------------------------------------------------------
(***************************************************************************)
(* The abandoned probe, which HalfOpenProbeRestores fails on and which     *)
(* ClosesUnlessProbeAbandoned excepts: what causes it and what ends it.    *)
(***************************************************************************)
\* The probe is lost only when the context of the query that holds it ends
\* before the answer.
LossIsCancellation ==
    ~ProbeAbandoned /\ ProbeAbandoned' =>
        \E q \in Queries :
            probe[q] /\ ctxDone[q] /\ pc[q] = "select" /\ pc'[q] = "canceled"

\* Nobody is left whose report could change the circuit.
Leaked == ProbeAbandoned /\ \A q \in Queries : pc[q] \notin Running

\* Only a success of a query that was admitted before the circuit opened ends
\* the state; without one it lasts, and every query is refused.
LeakIsForGood ==
    /\ ProbeAbandoned /\ ~ProbeAbandoned' =>
           \E q \in Queries : pc[q] = "succeed" /\ ~probe[q] /\ Succeed(q)
    /\ Leaked => /\ Leaked' /\ backoffStep' = backoffStep /\ backoffStep > 0
                 /\ \A q \in Queries : Exec(q) => Bypass(q)

\* A half-open circuit is an open one.
LEMMA ProbingIsOpen ==
    ASSUME IInv, probing
    PROVE  backoffStep > 0
  BY DEF IInv, TypeOK, CircuitInv, CircuitConsistent

\* While the probe is out no query is admitted.
LEMMA ProbingRefuses ==
    ASSUME IInv, probing, NEW q \in Queries, Exec(q)
    PROVE  Bypass(q) /\ pc'[q] = "bypassed" /\ probing' = probing
<1>1. backoffStep > 0 /\ backoffStep # 0
  BY ProbingIsOpen DEF IInv, TypeOK
<1>2. Bypass(q)
  BY <1>1 DEF Exec, Admit, AdmitProbe, ProbeDue
<1> QED BY <1>2 DEF Bypass, circuitVars, IInv, TypeOK

\* A failure while the probe is out is either ignored, and then not the
\* probe's, or the end of the probe.
LEMMA ProbingFailure ==
    ASSUME IInv, probing, NEW q \in Queries,
           FailIgnored(q) \/ FailCounted(q) \/ FailTrips(q) \/ FailEscalates(q)
    PROVE  IF probe[q] THEN ~probing' ELSE probing' = probing
<1>1. backoffStep > 0 /\ backoffStep # 0
  BY ProbingIsOpen DEF IInv, TypeOK
<1>2. FailIgnored(q) \/ FailEscalates(q)
  BY <1>1 DEF FailCounted, FailTrips
<1>3. CASE FailIgnored(q)
  <2>1. ~probe[q]
    BY <1>1, <1>3, Zenon DEF FailIgnored, FailureIgnored
  <2> QED BY <1>3, <2>1 DEF FailIgnored, circuitVars
<1>4. CASE FailEscalates(q)
  <2>1. probe[q]
    BY <1>1, <1>4, Zenon DEF FailEscalates, FailureIgnored
  <2>2. ~probing'
    BY <1>4, Zenon DEF FailEscalates, Reopen
  <2> QED BY <2>1, <2>2
<1> QED BY <1>2, <1>3, <1>4

\* The steps that leave the circuit to itself leave the probe's state.
LEMMA ProbingKept ==
    ASSUME NEW q \in Queries,
           \/ LateReply(q) \/ CtxEnds(q)
           \/ Reply(q) \/ TakeAnswer(q) \/ TakeFailureRCode(q)
           \/ TakeError(q) \/ AttemptTimeout(q) \/ SelectCtxDone(q)
    PROVE  probing' = probing
<1>1. UNCHANGED circuitVars
  BY DEF LateReply, CtxEnds, Reply, TakeAnswer, TakeFailureRCode, TakeError, AttemptTimeout,
     SelectCtxDone, NoResponse
<1> QED BY <1>1 DEF circuitVars

\* A query that stays in Exec keeps its permit, and nothing but an admission
\* makes one that holds a probe.
LEMMA PermitKept ==
    ASSUME TypeOK, NEW q \in Queries,
           Proceed(q) \/ LateReply(q) \/ CtxEnds(q) \/ Bypass(q), pc'[q] \in Running
    PROVE  pc[q] \in Running /\ probe'[q] = probe[q]
<1>1. CASE LateReply(q) \/ CtxEnds(q)
  BY <1>1 DEF LateReply, CtxEnds
<1>2. CASE Bypass(q)
  BY <1>2 DEF Bypass, TypeOK, Running
<1>3. CASE Proceed(q)
  <2>1. pc[q] \in Running
    BY <1>3, ProceedMoves DEF Running
  <2>2. probe'[q] = probe[q]
    BY <1>3, ProceedMoves DEF Running
  <2> QED BY <2>1, <2>2
<1> QED BY <1>1, <1>2, <1>3

(***************************************************************************)
(* A probe is lost in one way only: its query's context ends while the     *)
(* attempt is under way.  Every other end of a probe, an answer, a failure *)
(* rcode, an error or the last timeout, is reported to the circuit.        *)
(***************************************************************************)
THEOREM ProbeLostOnlyByItsContext == Spec => [][LossIsCancellation]_vars
<1>1. IInv /\ [Next]_vars => [LossIsCancellation]_vars
  <2> SUFFICES ASSUME IInv, Next, ~ProbeAbandoned, ProbeAbandoned'
               PROVE  \E q \in Queries :
                          probe[q] /\ ctxDone[q] /\ pc[q] = "select" /\ pc'[q] = "canceled"
    BY DEF LossIsCancellation
  <2>0. TypeOK
    BY DEF IInv
  <2>1. probing' /\ \A q \in Queries : ~(pc'[q] \in Running /\ probe'[q])
    BY DEF ProbeAbandoned
  <2>2. ~Elapse /\ ~MihomoChanges
    BY <2>1 DEF Elapse, MihomoChanges, queryVars, circuitVars, ProbeAbandoned
  <2>3. PICK q \in Queries : Exec(q) \/ Proceed(q) \/ LateReply(q) \/ CtxEnds(q)
    BY <2>2 DEF Next
  <2>4. ASSUME ~probing PROVE FALSE
    <3>1. ~AdmitProbe(q)
      BY <2>0, <2>1 DEF AdmitProbe, Begin, TypeOK, Running
    <3>2. ~Exec(q)
      BY <2>1, <2>4, <3>1 DEF Exec, Admit, Bypass, circuitVars
    <3>3. ~(\/ LateReply(q) \/ CtxEnds(q)
            \/ Reply(q) \/ TakeAnswer(q) \/ TakeFailureRCode(q)
            \/ TakeError(q) \/ AttemptTimeout(q) \/ SelectCtxDone(q))
      BY <2>1, <2>4, ProbingKept
    <3>4. ~Succeed(q) /\ ~FailIgnored(q) /\ ~FailCounted(q) /\ ~FailTrips(q) /\ ~FailEscalates(q)
      BY <2>1, <2>4 DEF Succeed, FailIgnored, FailCounted, FailTrips, FailEscalates, Reopen,
         circuitVars
    <3> QED BY <2>3, <3>2, <3>3, <3>4 DEF Proceed
  <2>5. PICK h \in Queries : pc[h] \in Running /\ probe[h]
    BY <2>4 DEF ProbeAbandoned
  <2>6. h = q
    BY <2>0, <2>1, <2>3, <2>5, QueryLocal
  <2>7. Proceed(q)
    <3>1. ~Exec(q)
      BY <2>5, <2>6 DEF Exec, Admit, AdmitProbe, Bypass, Startable, Running, Returned
    <3>2. ~LateReply(q) /\ ~CtxEnds(q)
      BY <2>1, <2>5, <2>6 DEF LateReply, CtxEnds
    <3> QED BY <2>3, <3>1, <3>2
  <2>8. ~Succeed(q)
    BY <2>1 DEF Succeed
  <2>9. ~(FailIgnored(q) \/ FailCounted(q) \/ FailTrips(q) \/ FailEscalates(q))
    BY <2>1, <2>4, <2>5, <2>6, ProbingFailure
  <2>10. pc[q] = "select"
    BY <2>7, <2>8, <2>9 DEF Proceed, Reply, TakeAnswer, TakeFailureRCode, TakeError,
       AttemptTimeout, SelectCtxDone
  <2>11. pc'[q] \notin Running
    BY <2>0, <2>1, <2>5, <2>6, <2>7, PermitKept
  <2>12. pc'[q] = "canceled" /\ ctxDone[q]
    BY <2>0, <2>7, <2>10, <2>11, ProceedMoves DEF Running
  <2> QED BY <2>5, <2>6, <2>10, <2>12
<1> QED BY <1>1, Invariance, PTL DEF Spec

(***************************************************************************)
(* A lost probe closes the path to Mihomo for good.  Only the success of a *)
(* query admitted before the circuit opened can still close the circuit;   *)
(* once no such query is left, the state never ends, whatever the delay    *)
(* and however healthy Mihomo is, and acquire refuses every query.  It is  *)
(* the proof, for any number of queries, of the finding that the run of    *)
(* HalfOpenProbeRestores shows on two.                                     *)
(***************************************************************************)
THEOREM AbandonedProbeIsForGood == Spec => [][LeakIsForGood]_vars
<1>1. ASSUME IInv, Next, ProbeAbandoned, ~ProbeAbandoned'
      PROVE  \E q \in Queries : pc[q] = "succeed" /\ ~probe[q] /\ Succeed(q)
  <2>0. TypeOK /\ probing /\ \A r \in Queries : ~(pc[r] \in Running /\ probe[r])
    BY <1>1 DEF IInv, ProbeAbandoned
  <2>1. ~Elapse /\ ~MihomoChanges
    BY <1>1 DEF Elapse, MihomoChanges, queryVars, circuitVars, ProbeAbandoned
  <2>2. PICK q \in Queries : Exec(q) \/ Proceed(q) \/ LateReply(q) \/ CtxEnds(q)
    BY <1>1, <2>1 DEF Next
  <2>3. Exec(q) => Bypass(q)
    BY <1>1, <2>0, ProbingRefuses
  <2>4. \A r \in Queries : ~(pc'[r] \in Running /\ probe'[r])
    <3>1. ~(pc'[q] \in Running /\ probe'[q])
      BY <2>0, <2>2, <2>3, PermitKept
    <3>2. \A r \in Queries \ {q} : pc'[r] = pc[r] /\ probe'[r] = probe[r]
      BY <2>0, <2>2, QueryLocal
    <3> QED BY <2>0, <3>1, <3>2
  <2>5. ~probing'
    BY <1>1, <2>4 DEF ProbeAbandoned
  <2>6. ~Exec(q)
    BY <1>1, <2>0, <2>5, ProbingRefuses
  <2>7. ~(\/ LateReply(q) \/ CtxEnds(q)
          \/ Reply(q) \/ TakeAnswer(q) \/ TakeFailureRCode(q)
          \/ TakeError(q) \/ AttemptTimeout(q) \/ SelectCtxDone(q))
    BY <2>0, <2>5, ProbingKept
  <2>8. ~(FailIgnored(q) \/ FailCounted(q) \/ FailTrips(q) \/ FailEscalates(q))
    <3>1. ASSUME FailIgnored(q) \/ FailCounted(q) \/ FailTrips(q) \/ FailEscalates(q)
          PROVE  FALSE
      <4>1. pc[q] \in Running
        BY <3>1 DEF FailIgnored, FailCounted, FailTrips, FailEscalates, Running
      <4> QED BY <1>1, <2>0, <2>5, <3>1, <4>1, ProbingFailure
    <3> QED BY <3>1
  <2>9. Succeed(q)
    BY <2>2, <2>6, <2>7, <2>8 DEF Proceed
  <2>10. pc[q] = "succeed"
    BY <2>9 DEF Succeed
  <2> QED BY <2>0, <2>9, <2>10 DEF Running
<1>2. ASSUME IInv, Next, Leaked
      PROVE  /\ Leaked' /\ backoffStep' = backoffStep /\ backoffStep > 0
             /\ \A q \in Queries : Exec(q) => Bypass(q)
  <2>0. TypeOK /\ probing /\ \A r \in Queries : pc[r] \notin Running
    BY <1>2 DEF IInv, Leaked, ProbeAbandoned
  <2>1. ProbeAbandoned'
    BY <1>1, <1>2 DEF Leaked, Running
  <2>2. \A q \in Queries : Exec(q) => Bypass(q)
    BY <1>2, <2>0, ProbingRefuses
  <2>3. \A q \in Queries : ~Proceed(q) /\ ~CtxEnds(q)
    BY <2>0, ProceedMoves DEF CtxEnds, Running
  <2>4. backoffStep' = backoffStep
    BY <1>2, <2>2, <2>3 DEF Next, Bypass, LateReply, Elapse, MihomoChanges, circuitVars
  <2>5. \A r \in Queries : pc'[r] \notin Running
    <3>1. CASE Elapse \/ MihomoChanges
      BY <2>0, <3>1 DEF Elapse, MihomoChanges, queryVars
    <3>2. ASSUME NEW q \in Queries, Bypass(q) \/ LateReply(q)
          PROVE  \A r \in Queries : pc'[r] \notin Running
      <4>1. pc'[q] \notin Running
        BY <2>0, <3>2, PermitKept
      <4>2. \A r \in Queries \ {q} : pc'[r] = pc[r]
        BY <2>0, <3>2, QueryLocal DEF Exec
      <4> QED BY <2>0, <4>1, <4>2
    <3> QED BY <1>2, <2>2, <2>3, <3>1, <3>2 DEF Next
  <2> QED BY <1>2, <2>0, <2>1, <2>2, <2>4, <2>5, ProbingIsOpen DEF Leaked
<1>3. IInv /\ [Next]_vars => [LeakIsForGood]_vars
  BY <1>1, <1>2 DEF LeakIsForGood
<1> QED BY <1>3, Invariance, PTL DEF Spec
=============================================================================
