------------------------------- MODULE Backoff -------------------------------
(***************************************************************************)
(* The retry delay shared by the circuit plugin (exponentialDelay and      *)
(* jitterDelay), the DoH upstreams (jitterDoHBackoff) and the process      *)
(* supervisor (restartDelay): an exponential nominal delay that stops at a *)
(* maximum, spread by plus or minus a fifth of it at random.               *)
(*                                                                         *)
(* The three loops are the same code with different constants.  BackoffLoop*)
(* runs that loop statement by statement against ExponentialDelay.         *)
(***************************************************************************)
EXTENDS Integers

(***************************************************************************)
(* initial doubled step-1 times, held at maximum.  Under the loop's        *)
(* precondition initial \in 1..maximum, "doubled is still in               *)
(* initial..maximum" says that no doubling reached the maximum.            *)
(***************************************************************************)
ExponentialDelay(initial, maximum, step) ==
    IF step <= 1 \/ initial >= maximum
    THEN initial
    ELSE LET doubled == initial * 2^(step - 1)
         IN  IF doubled \in initial..maximum THEN doubled ELSE maximum

\* What rand.Int63n(2*spread+1) can make of a nominal delay, before the cap.
Spread(nominal) == (nominal - nominal \div 5)..(nominal + nominal \div 5)

(***************************************************************************)
(* The delays one call may return: the random draw is a set.  A nominal    *)
(* delay below five units has no spread and is returned as it is; no       *)
(* caller passes one below 1 (the initial delays are all positive).        *)
(***************************************************************************)
JitterDelay(nominal, maximum) ==
    { IF d > maximum THEN maximum ELSE d : d \in Spread(nominal) }

\* The delays of the step-th consecutive retry.
RetryDelays(initial, maximum, step) ==
    JitterDelay(ExponentialDelay(initial, maximum, step), maximum)
=============================================================================
