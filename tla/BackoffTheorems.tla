--------------------------- MODULE BackoffTheorems ---------------------------
(***************************************************************************)
(* Facts about the retry delays, for every initial and maximum delay.      *)
(***************************************************************************)
EXTENDS Backoff, TLAPS

(***************************************************************************)
(* exponentialDelay never leaves initial..maximum, whatever the step.      *)
(***************************************************************************)
LEMMA ExponentialDelayBounded ==
    ASSUME NEW initial \in Nat \ {0}, NEW maximum \in Nat, NEW step \in Nat,
           initial <= maximum
    PROVE  ExponentialDelay(initial, maximum, step) \in initial..maximum
<1> DEFINE doubled == initial * 2^(step - 1)
<1>1. CASE step <= 1 \/ initial >= maximum
  BY <1>1 DEF ExponentialDelay
<1>2. CASE ~(step <= 1 \/ initial >= maximum)
  <2> HIDE DEF doubled
  <2>1. (IF doubled \in initial..maximum THEN doubled ELSE maximum) \in initial..maximum
    OBVIOUS
  <2> QED BY <1>2, <2>1 DEF ExponentialDelay, doubled
<1> QED BY <1>1, <1>2

(***************************************************************************)
(* Every delay jitterDelay can draw is positive and at most the maximum:   *)
(* an open circuit is always open for some time and never for longer than  *)
(* configured, and a crashed child is never restarted in a busy loop.      *)
(***************************************************************************)
THEOREM RetryDelaysBounded ==
    ASSUME NEW initial \in Nat \ {0}, NEW maximum \in Nat, NEW step \in Nat,
           initial <= maximum
    PROVE  RetryDelays(initial, maximum, step) \subseteq 1..maximum
<1> DEFINE nominal == ExponentialDelay(initial, maximum, step)
<1>1. nominal \in initial..maximum
  BY ExponentialDelayBounded
<1> HIDE DEF nominal
<1>2. \A d \in Spread(nominal) : d \in Int /\ d >= 1
  BY <1>1 DEF Spread
<1>3. JitterDelay(nominal, maximum) \subseteq 1..maximum
  BY <1>1, <1>2 DEF JitterDelay
<1> QED BY <1>3 DEF RetryDelays, nominal
=============================================================================
