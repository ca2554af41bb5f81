----------------------------- MODULE Supervision -----------------------------
(***************************************************************************)
(* The Go entrypoint of cmd/guarddns: main starts the DoH bridge, then one *)
(* superviseChild goroutine per child process (unbound, unbound_recursive, *)
(* mosdns, in that order) and, once a signal ends the context, waits for   *)
(* all of them before it exits.                                            *)
(*                                                                         *)
(* A supervisor starts its child, restarts it after a jittered exponential *)
(* delay whenever it exits, and on shutdown terminates it, kills it if it  *)
(* is not gone within the grace period, and returns.  Signals, child exits *)
(* and the supervisors interleave in every order.                          *)
(***************************************************************************)
EXTENDS Backoff, FiniteSets

CONSTANTS
    NChildren,      \* children, spawned in the order 1, 2, ...
    InitialDelay,   \* restartInitial, in units of the model
    MaximumDelay,   \* restartMaximum
    StepCap         \* bound on step: from here on every delay is MaximumDelay

ASSUME SupervisionAssumption ==
    /\ NChildren \in Nat \ {0}
    /\ InitialDelay \in Nat \ {0}
    /\ MaximumDelay \in Nat
    /\ InitialDelay <= MaximumDelay
    /\ StepCap \in Nat \ {0}

\* Saturating step at StepCap changes no delay.
ASSUME StepCapAssumption ==
    ExponentialDelay(InitialDelay, MaximumDelay, StepCap) = MaximumDelay

Children == 1..NChildren

VARIABLES
    main,           \* where main is
    spawned,        \* supervisors started so far
    managers,       \* the counter of the WaitGroup
    ctxDone,        \* a termination signal has arrived
    bridgeUp,       \* component doh_bridge is Up
    sup,            \* where the supervisor of a child is
    alive,          \* processes of a child that are running
    waited,         \* cmd.Wait has put its result in the channel
    stable,         \* the last process ran for stableRuntime or longer
    step,           \* local step of superviseChild
    compUp,         \* component.Up
    compBackoff     \* component.BackoffSeconds

mainVars == <<main, spawned, bridgeUp>>
childVars == <<sup, alive, waited, stable, step, compUp, compBackoff>>
vars == <<mainVars, managers, ctxDone, childVars>>

MainStates == {"bridge", "spawning", "running", "waiting", "exited"}

\* "check", "start", "schedule": about to do that; "started": about to mark the
\* component; "watch": both channels of the select; "grace", "killed": the two
\* waits of the shutdown; "backoff": the timer or the context.
Supervising == {"check", "start", "started", "watch", "grace", "killed", "schedule", "backoff"}
SupStates == Supervising \cup {"unborn", "returned"}

\* The supervisor has a started process it has not been told the end of.
Holding == {"started", "watch", "grace", "killed"}

TypeOK ==
    /\ main \in MainStates
    /\ spawned \in 0..NChildren
    /\ managers \in 0..NChildren
    /\ ctxDone \in BOOLEAN
    /\ bridgeUp \in BOOLEAN
    /\ sup \in [Children -> SupStates]
    /\ alive \in [Children -> Nat]
    /\ waited \in [Children -> BOOLEAN]
    /\ stable \in [Children -> BOOLEAN]
    /\ step \in [Children -> 0..StepCap]
    /\ compUp \in [Children -> BOOLEAN]
    /\ compBackoff \in [Children -> 0..MaximumDelay]

Init ==
    /\ main = "bridge"
    /\ spawned = 0
    /\ managers = 0
    /\ ctxDone = FALSE
    /\ bridgeUp = FALSE
    /\ sup = [c \in Children |-> "unborn"]
    /\ alive = [c \in Children |-> 0]
    /\ waited = [c \in Children |-> FALSE]
    /\ stable = [c \in Children |-> FALSE]
    /\ step = [c \in Children |-> 0]
    /\ compUp = [c \in Children |-> FALSE]
    /\ compBackoff = [c \in Children |-> 0]
-----------------------------------------------------------------------------
\* startDoHBridge: the component is Up before the listeners are served.
StartBridge ==
    /\ main = "bridge"
    /\ main' = "spawning"
    /\ bridgeUp' = TRUE
    /\ UNCHANGED <<spawned, managers, ctxDone, childVars>>

\* The bridge cannot listen: os.Exit(1), before any child is started.
BridgeFailsToStart ==
    /\ main = "bridge"
    /\ main' = "exited"
    /\ UNCHANGED <<spawned, bridgeUp, managers, ctxDone, childVars>>

\* A listener of the bridge stops, or the context has ended: nothing brings
\* the component up again.
BridgeStops ==
    /\ bridgeUp /\ main # "exited"
    /\ bridgeUp' = FALSE
    /\ UNCHANGED <<main, spawned, managers, ctxDone, childVars>>

(***************************************************************************)
(* managers.Add(1) and the go statement.  Between two of them main waits   *)
(* for ports to open, for a bounded time, and goes on whatever happened,   *)
(* the end of the context included.                                        *)
(***************************************************************************)
Spawn ==
    /\ main = "spawning"
    /\ spawned' = spawned + 1
    /\ managers' = managers + 1
    /\ sup' = [sup EXCEPT ![spawned + 1] = "check"]
    /\ main' = IF spawned + 1 = NChildren THEN "running" ELSE "spawning"
    /\ UNCHANGED <<bridgeUp, ctxDone, alive, waited, stable, step, compUp, compBackoff>>

\* <-ctx.Done() in main.
ShutdownRequested ==
    /\ main = "running" /\ ctxDone
    /\ main' = "waiting"
    /\ UNCHANGED <<spawned, bridgeUp, managers, ctxDone, childVars>>

\* Mutant of Exit: managers.Wait is missing.
ExitWithoutWait ==
    /\ main = "waiting"
    /\ main' = "exited"
    /\ UNCHANGED <<spawned, bridgeUp, managers, ctxDone, childVars>>

\* managers.Wait returns.
Exit ==
    /\ main = "waiting" /\ managers = 0
    /\ main' = "exited"
    /\ UNCHANGED <<spawned, bridgeUp, managers, ctxDone, childVars>>

\* SIGINT or SIGTERM.
Signal ==
    /\ ~ctxDone /\ main # "exited"
    /\ ctxDone' = TRUE
    /\ UNCHANGED <<mainVars, managers, childVars>>
-----------------------------------------------------------------------------
\* superviseChild returns: defer wg.Done().
Return(c) ==
    /\ sup' = [sup EXCEPT ![c] = "returned"]
    /\ managers' = managers - 1

Goto(c, where) ==
    /\ sup' = [sup EXCEPT ![c] = where]
    /\ UNCHANGED managers

\* The head of the loop.
Check(c) ==
    /\ sup[c] = "check"
    /\ IF ctxDone THEN Return(c) ELSE Goto(c, "start")
    /\ UNCHANGED <<mainVars, ctxDone, alive, waited, stable, step, compUp, compBackoff>>

\* Mutant of Start: a start that succeeded is tried again.
StartTwice(c) ==
    /\ sup[c] = "start"
    /\ alive' = [alive EXCEPT ![c] = @ + 2]
    /\ waited' = [waited EXCEPT ![c] = FALSE]
    /\ Goto(c, "started")
    /\ UNCHANGED <<mainVars, ctxDone, stable, step, compUp, compBackoff>>

\* cmd.Start succeeds.
Start(c) ==
    /\ sup[c] = "start"
    /\ alive' = [alive EXCEPT ![c] = @ + 1]
    /\ waited' = [waited EXCEPT ![c] = FALSE]
    /\ Goto(c, "started")
    /\ UNCHANGED <<mainVars, ctxDone, stable, step, compUp, compBackoff>>

\* state.update, with the process running or already gone; then the goroutine
\* that waits for it.
MarkUp(c) ==
    /\ sup[c] = "started"
    /\ compUp' = [compUp EXCEPT ![c] = TRUE]
    /\ compBackoff' = [compBackoff EXCEPT ![c] = 0]
    /\ Goto(c, "watch")
    /\ UNCHANGED <<mainVars, ctxDone, alive, waited, stable, step>>

\* cmd.Start fails; no time has passed since startedAt.
StartFails(c) ==
    /\ sup[c] = "start"
    /\ compUp' = [compUp EXCEPT ![c] = FALSE]
    /\ stable' = [stable EXCEPT ![c] = FALSE]
    /\ Goto(c, "schedule")
    /\ UNCHANGED <<mainVars, ctxDone, alive, waited, step, compBackoff>>

\* The process ends, by itself or because of a signal, after a short or a
\* long life, and cmd.Wait reports it, at once or as soon as it is called.
ChildExits(c) ==
    /\ alive[c] > 0
    /\ alive' = [alive EXCEPT ![c] = @ - 1]
    /\ waited' = [waited EXCEPT ![c] = TRUE]
    /\ \E long \in BOOLEAN : stable' = [stable EXCEPT ![c] = long]
    /\ UNCHANGED <<mainVars, managers, ctxDone, sup, step, compUp, compBackoff>>

\* Mutant of TakeExit: Up is left as it is.
TakeExitKeepsUp(c) ==
    /\ sup[c] = "watch" /\ waited[c]
    /\ waited' = [waited EXCEPT ![c] = FALSE]
    /\ IF ctxDone THEN Return(c) ELSE Goto(c, "schedule")
    /\ UNCHANGED <<mainVars, ctxDone, alive, stable, step, compUp, compBackoff>>

\* case err := <-waited.
TakeExit(c) ==
    /\ sup[c] = "watch" /\ waited[c]
    /\ waited' = [waited EXCEPT ![c] = FALSE]
    /\ compUp' = [compUp EXCEPT ![c] = FALSE]
    /\ IF ctxDone THEN Return(c) ELSE Goto(c, "schedule")
    /\ UNCHANGED <<mainVars, ctxDone, alive, stable, step, compBackoff>>

\* case <-ctx.Done(): SIGTERM to the process group.
Terminate(c) ==
    /\ sup[c] = "watch" /\ ctxDone
    /\ Goto(c, "grace")
    /\ UNCHANGED <<mainVars, ctxDone, alive, waited, stable, step, compUp, compBackoff>>

\* Mutant of Kill: SIGKILL is sent only to a process that has ended.
KillExited(c) ==
    /\ sup[c] = "grace" /\ alive[c] = 0
    /\ Goto(c, "killed")
    /\ UNCHANGED <<mainVars, ctxDone, alive, waited, stable, step, compUp, compBackoff>>

\* The grace period is over: SIGKILL to the process group.
Kill(c) ==
    /\ sup[c] = "grace"
    /\ Goto(c, "killed")
    /\ UNCHANGED <<mainVars, ctxDone, alive, waited, stable, step, compUp, compBackoff>>

\* <-waited, within the grace period or after the kill.
Reap(c) ==
    /\ sup[c] \in {"grace", "killed"} /\ waited[c]
    /\ waited' = [waited EXCEPT ![c] = FALSE]
    /\ compUp' = [compUp EXCEPT ![c] = FALSE]
    /\ Return(c)
    /\ UNCHANGED <<mainVars, ctxDone, alive, stable, step, compBackoff>>

NextStep(c) ==
    LET n == IF stable[c] THEN 0 ELSE step[c]
    IN  IF n < StepCap THEN n + 1 ELSE StepCap

\* The next delay, a long life having reset the step.
Schedule(c) ==
    /\ sup[c] = "schedule"
    /\ step' = [step EXCEPT ![c] = NextStep(c)]
    /\ \E delay \in RetryDelays(InitialDelay, MaximumDelay, NextStep(c)) :
           compBackoff' = [compBackoff EXCEPT ![c] = delay]
    /\ compUp' = [compUp EXCEPT ![c] = FALSE]
    /\ Goto(c, "backoff")
    /\ UNCHANGED <<mainVars, ctxDone, alive, waited, stable>>

\* Mutant of TimerFires: the loop computes a delay again instead of starting.
TimerReschedules(c) ==
    /\ sup[c] = "backoff"
    /\ Goto(c, "schedule")
    /\ UNCHANGED <<mainVars, ctxDone, alive, waited, stable, step, compUp, compBackoff>>

\* case <-timer.C.
TimerFires(c) ==
    /\ sup[c] = "backoff"
    /\ Goto(c, "check")
    /\ UNCHANGED <<mainVars, ctxDone, alive, waited, stable, step, compUp, compBackoff>>

\* case <-ctx.Done() instead.
TimerStopped(c) ==
    /\ sup[c] = "backoff" /\ ctxDone
    /\ Return(c)
    /\ UNCHANGED <<mainVars, ctxDone, alive, waited, stable, step, compUp, compBackoff>>
-----------------------------------------------------------------------------
Supervise(c) ==
    \/ Check(c) \/ Start(c) \/ MarkUp(c) \/ StartFails(c)
    \/ TakeExit(c) \/ Terminate(c) \/ Kill(c) \/ Reap(c)
    \/ Schedule(c) \/ TimerFires(c) \/ TimerStopped(c)

MainStep == StartBridge \/ BridgeFailsToStart \/ Spawn \/ ShutdownRequested \/ Exit

\* Everything is over.
Done == main = "exited" /\ UNCHANGED vars

Next ==
    \/ MainStep
    \/ BridgeStops
    \/ Signal
    \/ \E c \in Children : Supervise(c) \/ ChildExits(c)
    \/ Done

Spec == Init /\ [][Next]_vars

(***************************************************************************)
(* The goroutines are scheduled and their timers fire.  A killed process   *)
(* dies; nothing else is assumed of the children, which may ignore SIGTERM.*)
(***************************************************************************)
Fairness ==
    /\ WF_vars(MainStep)
    /\ \A c \in Children :
           WF_vars(Supervise(c)) /\ WF_vars(sup[c] = "killed" /\ ChildExits(c))

FairSpec == Spec /\ Fairness
-----------------------------------------------------------------------------
(***************************************************************************)
(* A child never runs twice: its supervisor starts a process only when the *)
(* one before has been waited for, so that two instances never fight for   *)
(* the same ports and cache files.                                         *)
(***************************************************************************)
OneInstance == \A c \in Children : alive[c] <= 1

(***************************************************************************)
(* main does not return while a child runs or a supervisor could still     *)
(* start one, at whatever point of the startup the signal came.            *)
(***************************************************************************)
NoOrphans ==
    main = "exited" =>
        \A c \in Children : alive[c] = 0 /\ sup[c] \in {"unborn", "returned"}

(***************************************************************************)
(* The component state sent to the health endpoints is the supervisor's    *)
(* own: Up from the step after the start of the process until its end is   *)
(* known, and a positive, capped delay exactly while a restart is pending. *)
(***************************************************************************)
ComponentsTruthful ==
    \A c \in Children :
        /\ compUp[c] <=> sup[c] \in Holding \ {"started"}
        /\ sup[c] = "backoff" => compBackoff[c] \in 1..MaximumDelay
        /\ compUp[c] => compBackoff[c] = 0

\* The bridge as a reader of the component state sees it.
Bridge == IF main = "bridge" THEN "starting" ELSE IF bridgeUp THEN "up" ELSE "down"

Abstract == INSTANCE Components WITH
    exited <- main = "exited",
    bridge <- Bridge,
    running <- [c \in Children |-> alive[c] > 0],
    unmarked <- [c \in Children |-> sup[c] = "started"]

(***************************************************************************)
(* The supervisors, main and the bridge implement what module Health takes *)
(* for granted: a component is marked Up once for every start, even of a   *)
(* process that has ended by then, and down once it was waited for, in     *)
(* every interleaving of starts, exits, kills and the shutdown, and main   *)
(* returns only after every component has been marked down.                *)
(***************************************************************************)
ImplementsComponents == Abstract!Spec

(***************************************************************************)
(* Shutdown completes: no supervisor waits for ever, even for a child that *)
(* ignores SIGTERM, and main returns.                                      *)
(***************************************************************************)
ShutdownCompletes == ctxDone ~> main = "exited"

(***************************************************************************)
(* A child that exits is started again unless shutdown came first.         *)
(***************************************************************************)
ExitedChildIsRestarted ==
    \A c \in Children :
        (sup[c] = "watch" /\ waited[c]) ~> (sup[c] = "start" \/ ctxDone)
=============================================================================
