----------------------------- MODULE Components -----------------------------
(***************************************************************************)
(* What the entrypoint promises to whoever reads its component state: an   *)
(* abstract specification that module Supervision implements and module    *)
(* Health builds on.  A component is Up from soon after the start of its   *)
(* process until the supervisor has seen it end, both of which may be      *)
(* later than its end; the bridge comes up once, and once gone never       *)
(* again; the entrypoint exits when every child is gone.                   *)
(***************************************************************************)
EXTENDS Integers

CONSTANT NChildren      \* children of the entrypoint, mosdns being the last

ASSUME ComponentsAssumption == NChildren \in Nat \ {0}

Children == 1..NChildren

VARIABLES
    exited,         \* the entrypoint has returned
    ctxDone,        \* a termination signal has arrived
    bridge,         \* the DoH bridge: "starting", "up" or "down"
    running,        \* per child: its process runs
    unmarked,       \* per child: it was started and is not marked Up yet
    compUp          \* per child: component.Up

children == <<running, unmarked, compUp>>
vars == <<exited, ctxDone, bridge, children>>

Init ==
    /\ exited = FALSE
    /\ ctxDone = FALSE
    /\ bridge = "starting"
    /\ running = [c \in Children |-> FALSE]
    /\ unmarked = [c \in Children |-> FALSE]
    /\ compUp = [c \in Children |-> FALSE]

\* startDoHBridge succeeds, a listener stops, or it fails and main exits.
BridgeStarts ==
    /\ bridge = "starting"
    /\ bridge' = "up"
    /\ UNCHANGED <<exited, ctxDone, children>>

BridgeStops ==
    /\ bridge = "up" /\ ~exited
    /\ bridge' = "down"
    /\ UNCHANGED <<exited, ctxDone, children>>

BridgeFailsToStart ==
    /\ bridge = "starting"
    /\ bridge' = "down"
    /\ exited' = TRUE
    /\ UNCHANGED <<ctxDone, children>>

\* SIGINT or SIGTERM.
Signal ==
    /\ ~ctxDone /\ ~exited
    /\ ctxDone' = TRUE
    /\ UNCHANGED <<exited, bridge, children>>

\* superviseChild starts the process.
Starts(c) ==
    /\ bridge # "starting" /\ ~exited
    /\ ~running[c] /\ ~unmarked[c] /\ ~compUp[c]
    /\ running' = [running EXCEPT ![c] = TRUE]
    /\ unmarked' = [unmarked EXCEPT ![c] = TRUE]
    /\ UNCHANGED <<exited, ctxDone, bridge, compUp>>

\* It marks the component Up, even if the process has ended in between.
MarksUp(c) ==
    /\ unmarked[c]
    /\ unmarked' = [unmarked EXCEPT ![c] = FALSE]
    /\ compUp' = [compUp EXCEPT ![c] = TRUE]
    /\ UNCHANGED <<exited, ctxDone, bridge, running>>

\* The process ends.
Ends(c) ==
    /\ running[c]
    /\ running' = [running EXCEPT ![c] = FALSE]
    /\ UNCHANGED <<exited, ctxDone, bridge, unmarked, compUp>>

\* superviseChild has waited for it.
EndIsSeen(c) ==
    /\ compUp[c] /\ ~running[c]
    /\ compUp' = [compUp EXCEPT ![c] = FALSE]
    /\ UNCHANGED <<exited, ctxDone, bridge, running, unmarked>>

\* managers.Wait returns, and main after it.
Exits ==
    /\ ctxDone /\ ~exited /\ bridge # "starting"
    /\ \A c \in Children : ~running[c] /\ ~unmarked[c] /\ ~compUp[c]
    /\ exited' = TRUE
    /\ UNCHANGED <<ctxDone, bridge, children>>

Next ==
    \/ BridgeStarts \/ BridgeStops \/ BridgeFailsToStart \/ Signal \/ Exits
    \/ \E c \in Children : Starts(c) \/ MarksUp(c) \/ Ends(c) \/ EndIsSeen(c)

Spec == Init /\ [][Next]_vars
=============================================================================
