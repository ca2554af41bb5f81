----------------------------- MODULE BackoffLoop -----------------------------
(***************************************************************************)
(* The loop of exponentialDelay, one statement per step, for every input   *)
(* of a small range:                                                       *)
(*                                                                         *)
(*     delay := initial                                                    *)
(*     for i := uint(1); i < step && delay < maximum; i++ {                *)
(*         delay *= 2                                                      *)
(*         if delay >= maximum { return maximum }                          *)
(*     }                                                                   *)
(*     return delay                                                        *)
(*                                                                         *)
(* followed by the random draw of jitterDelay.  The machine wraps at       *)
(* Width bits as time.Duration wraps at 64, so that a doubling past the    *)
(* range would show.                                                       *)
(***************************************************************************)
EXTENDS Backoff

CONSTANTS
    MaxDelay,   \* largest maximum tried
    MaxStep,    \* largest step tried
    Width       \* bits of the signed integer holding the delay

ASSUME LoopAssumption ==
    /\ MaxDelay \in Nat \ {0}
    /\ MaxStep \in Nat
    /\ Width \in Nat \ {0}
    /\ 2 * MaxDelay < 2^(Width - 1)

VARIABLES initial, maximum, step, i, delay, pc

vars == <<initial, maximum, step, i, delay, pc>>

\* n as a signed integer of Width bits.
Wrap(n) == ((n + 2^(Width - 1)) % 2^Width) - 2^(Width - 1)

Init ==
    /\ maximum \in 1..MaxDelay
    /\ initial \in 1..maximum
    /\ step \in 0..MaxStep
    /\ i = 1
    /\ delay = initial
    /\ pc = "loop"

\* Mutant of Double: the condition is i <= step.
DoubleOnceMore ==
    /\ pc = "loop" /\ i <= step /\ delay < maximum
    /\ delay' = IF Wrap(delay * 2) >= maximum THEN maximum ELSE Wrap(delay * 2)
    /\ i' = i + 1
    /\ UNCHANGED <<initial, maximum, step, pc>>

\* The body once: double, and return the maximum when it has been reached.
Double ==
    /\ pc = "loop" /\ i < step /\ delay < maximum
    /\ LET doubled == Wrap(delay * 2)
       IN  IF doubled >= maximum
           THEN /\ delay' = maximum
                /\ pc' = "jitter"
                /\ UNCHANGED i
           ELSE /\ delay' = doubled
                /\ i' = i + 1
                /\ UNCHANGED pc
    /\ UNCHANGED <<initial, maximum, step>>

\* The loop condition is false.
Leave ==
    /\ pc = "loop" /\ ~(i < step /\ delay < maximum)
    /\ pc' = "jitter"
    /\ UNCHANGED <<initial, maximum, step, i, delay>>

\* jitterDelay: nominal - spread + rand.Int63n(2*spread + 1), capped.
Jitter ==
    /\ pc = "jitter"
    /\ LET spread == delay \div 5
       IN  IF spread = 0
           THEN UNCHANGED delay
           ELSE \E r \in 0..(2 * spread) :
                    LET jittered == Wrap(delay - spread + r)
                    IN  delay' = IF jittered > maximum THEN maximum ELSE jittered
    /\ pc' = "done"
    /\ UNCHANGED <<initial, maximum, step, i>>

Next == Double \/ Leave \/ Jitter

Spec == Init /\ [][Next]_vars

(***************************************************************************)
(* What exponentialDelay returns is the closed form the other modules use, *)
(* and what jitterDelay then draws is one of RetryDelays.                  *)
(***************************************************************************)
LoopMeetsClosedForm ==
    /\ pc = "jitter" => delay = ExponentialDelay(initial, maximum, step)
    /\ pc = "done" => delay \in RetryDelays(initial, maximum, step)
=============================================================================
