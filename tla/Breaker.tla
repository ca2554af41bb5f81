------------------------------- MODULE Breaker -------------------------------
(***************************************************************************)
(* What both circuit breakers of GuardDNS promise, with no trace of the    *)
(* queries that drive them: the AUTO_FORWARD circuit of the MosDNS plugin  *)
(* (module Circuit) and the per-provider backoff of the DoH bridge (module *)
(* DoHBridge) are both shown to implement this specification.              *)
(*                                                                         *)
(*   - a closed breaker opens only when Threshold failures have been       *)
(*     counted with no success in between, never earlier;                  *)
(*   - an open breaker lets a probe through only after its delay is over,  *)
(*     and exactly one before its next change of state;                    *)
(*   - only a failure met while a probe is out prolongs the outage, by one *)
(*     level at a time;                                                    *)
(*   - a success, of the probe or of a query admitted before the breaker   *)
(*     opened, closes it and forgets every failure.                        *)
(***************************************************************************)
EXTENDS Integers

CONSTANTS
    Threshold,  \* consecutive failures that open the breaker, at least 1
    StepCap     \* bound: backoff levels from here on are not told apart

VARIABLES
    mode,       \* 0 closed, 1 open, 2 half-open: the values the metric exports
    failures,   \* consecutive failures counted while closed
    level,      \* consecutive openings, the exponent of the delay
    cooling     \* the delay of the current level is not over

vars == <<mode, failures, level, cooling>>

Closed == 0
Open == 1
HalfOpen == 2

NextLevel(n) == IF n < StepCap THEN n + 1 ELSE StepCap

Init ==
    /\ mode = Closed
    /\ failures = 0
    /\ level = 0
    /\ cooling = FALSE

Count ==
    /\ mode = Closed
    /\ failures + 1 < Threshold
    /\ failures' = failures + 1
    /\ UNCHANGED <<mode, level, cooling>>

Trip ==
    /\ mode = Closed
    /\ failures + 1 >= Threshold
    /\ failures' = failures + 1
    /\ mode' = Open
    /\ level' = 1
    /\ cooling' = TRUE

Cool ==
    /\ mode = Open
    /\ cooling
    /\ cooling' = FALSE
    /\ UNCHANGED <<mode, failures, level>>

Probe ==
    /\ mode = Open
    /\ ~cooling
    /\ mode' = HalfOpen
    /\ UNCHANGED <<failures, level, cooling>>

Escalate ==
    /\ mode = HalfOpen
    /\ mode' = Open
    /\ level' = NextLevel(level)
    /\ cooling' = TRUE
    /\ UNCHANGED failures

Close ==
    /\ mode' = Closed
    /\ failures' = 0
    /\ level' = 0
    /\ cooling' = FALSE

Next == Count \/ Trip \/ Cool \/ Probe \/ Escalate \/ Close

Spec == Init /\ [][Next]_vars
=============================================================================
