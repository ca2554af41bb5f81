------------------------------- MODULE Health -------------------------------
(***************************************************************************)
(* The health endpoints.  Once a second sendStateLoop of cmd/guarddns      *)
(* sends a snapshot of the component state as one datagram to the Unix     *)
(* socket of the guarddns_supervisor plugin, which runs inside MosDNS and  *)
(* answers livez, readyz and dependencies from the last one it received.   *)
(*                                                                         *)
(* The module composes both with the entrypoint as Components specifies    *)
(* and Supervision implements it: MosDNS, one of the children, comes and   *)
(* goes with the socket, the datagrams in it and the snapshot, and every   *)
(* component may change between any two steps of a send.                   *)
(***************************************************************************)
EXTENDS Components, Sequences

CONSTANTS
    StaleAfter,     \* the five seconds of liveStatus
    MaxDelay,       \* bound: seconds from taking a snapshot to its receipt
    QueueLimit,     \* bound: datagrams the socket buffers
    NoSnapshot      \* no snapshot: a Timestamp of zero

\* Delays that leave a second for the next snapshot do not make it stale.
ASSUME HealthAssumption ==
    /\ MaxDelay \in Nat
    /\ StaleAfter \in Nat /\ StaleAfter > MaxDelay
    /\ QueueLimit \in Nat \ {0}

VARIABLES
    sender,         \* where sendStateLoop is
    hand,           \* the snapshot it is sending
    tick,           \* ticker.C is ready
    connected,      \* conn leads to the socket of the running MosDNS
    plugin,         \* the plugin of the running MosDNS
    queue,          \* datagrams in its socket
    held,           \* p.snapshot; its age counts from receivedAt
    downFor         \* history: seconds since doh_bridge was Up, capped

mosdnsVars == <<connected, plugin, queue, held>>
senderVars == <<sender, hand, tick>>
allVars == <<vars, senderVars, mosdnsVars, downFor>>

Mosdns == NChildren

\* The age past which readyz may not answer from a snapshot.
Limit == StaleAfter + MaxDelay

Snapshots(maxAge) == [bridge : BOOLEAN, up : [Children -> BOOLEAN], age : 0..maxAge]

ASSUME NoSnapshotAssumption == NoSnapshot \notin Snapshots(Limit + 1)

HealthTypeOK ==
    /\ sender \in {"snapshot", "dial", "write", "wait", "off"}
    /\ hand \in {NoSnapshot} \cup Snapshots(MaxDelay)
    /\ hand # NoSnapshot <=> sender \in {"dial", "write"}
    /\ tick \in BOOLEAN
    /\ connected \in BOOLEAN
    /\ plugin \in {"none", "bound", "closed"}
    /\ queue \in Seq(Snapshots(MaxDelay)) /\ Len(queue) <= QueueLimit
    /\ held \in {NoSnapshot} \cup Snapshots(StaleAfter + 1)
    /\ connected \/ queue # <<>> => plugin = "bound"
    /\ plugin # "none" => running[Mosdns]
    /\ downFor \in 0..Limit + 1

HealthInit ==
    /\ Init
    /\ sender = "snapshot"
    /\ hand = NoSnapshot
    /\ tick = FALSE
    /\ connected = FALSE
    /\ plugin = "none"
    /\ queue = <<>>
    /\ held = NoSnapshot
    /\ downFor = Limit + 1
-----------------------------------------------------------------------------
\* The sender runs inside the entrypoint.
Send(from) == sender = from /\ ~exited /\ UNCHANGED <<vars, plugin, held, downFor>>

\* state.snapshot, under the read lock.
TakeSnapshot ==
    /\ Send("snapshot")
    /\ hand' = [bridge |-> (bridge = "up"), up |-> compUp, age |-> 0]
    /\ sender' = "dial"
    /\ UNCHANGED <<tick, connected, queue>>

\* sendState returns.
Sent == sender' = "wait" /\ hand' = NoSnapshot /\ connected' = FALSE

\* Mutant of Dial: an error ends the loop.
DialOrGiveUp ==
    /\ Send("dial")
    /\ IF plugin = "bound"
       THEN sender' = "write" /\ connected' = TRUE /\ UNCHANGED hand
       ELSE sender' = "off" /\ hand' = NoSnapshot /\ UNCHANGED connected
    /\ UNCHANGED <<tick, queue>>

\* net.DialUnix, which fails when nothing is bound to the path.
Dial ==
    /\ Send("dial")
    /\ IF plugin = "bound"
       THEN sender' = "write" /\ connected' = TRUE /\ UNCHANGED hand
       ELSE Sent
    /\ UNCHANGED <<tick, queue>>

\* conn.Write: it waits for room in the buffer, and fails when the MosDNS it
\* was dialed to has gone, even if another one is bound to the path by then.
Write ==
    /\ Send("write")
    /\ connected => Len(queue) < QueueLimit
    /\ queue' = IF connected THEN Append(queue, hand) ELSE queue
    /\ Sent
    /\ UNCHANGED tick

\* The select of sendStateLoop.
Wake ==
    /\ Send("wait")
    /\ \/ tick /\ tick' = FALSE /\ sender' = "snapshot"
       \/ ctxDone /\ sender' = "off" /\ UNCHANGED tick
    /\ UNCHANGED <<hand, connected, queue>>
-----------------------------------------------------------------------------
\* initPlugin: a socket left by an earlier MosDNS is replaced.
Bind ==
    /\ running[Mosdns] /\ plugin = "none"
    /\ plugin' = "bound"
    /\ UNCHANGED <<vars, senderVars, connected, queue, held, downFor>>

\* readLoop: the snapshot is as old as its receipt, whatever its Timestamp.
Receive ==
    /\ plugin = "bound" /\ queue # <<>>
    /\ held' = [Head(queue) EXCEPT !.age = 0]
    /\ queue' = Tail(queue)
    /\ UNCHANGED <<vars, senderVars, connected, plugin, downFor>>

\* Close, when MosDNS has been told to terminate; the endpoints last longer.
ClosePlugin ==
    /\ plugin = "bound" /\ ctxDone
    /\ plugin' = "closed"
    /\ connected' = FALSE
    /\ queue' = <<>>
    /\ UNCHANGED <<vars, senderVars, held, downFor>>

\* A step of the entrypoint or of a child.  With MosDNS its plugin ends.
EntrypointStep ==
    /\ Next
    /\ downFor' = IF bridge' = "up" THEN 0 ELSE downFor
    /\ IF Ends(Mosdns)
       THEN /\ connected' = FALSE
            /\ plugin' = "none"
            /\ queue' = <<>>
            /\ held' = NoSnapshot
       ELSE UNCHANGED mosdnsVars
    /\ UNCHANGED senderVars

Capped(n, bound) == IF n < bound THEN n + 1 ELSE bound

Older(snapshot, bound) ==
    IF snapshot = NoSnapshot THEN NoSnapshot
    ELSE [snapshot EXCEPT !.age = Capped(@, bound)]

\* The sender wakes and datagrams arrive before they are too late.
Overdue ==
    \/ sender = "snapshot"
    \/ sender = "wait" /\ (tick \/ ctxDone)
    \/ hand # NoSnapshot /\ hand.age = MaxDelay
    \/ \E i \in DOMAIN queue : queue[i].age = MaxDelay

\* A second passes.
Second ==
    /\ ~exited /\ ~Overdue
    /\ tick' = TRUE
    /\ hand' = Older(hand, MaxDelay)
    /\ queue' = [i \in DOMAIN queue |-> Older(queue[i], MaxDelay)]
    /\ held' = Older(held, StaleAfter + 1)
    /\ downFor' = IF bridge = "up" THEN 0 ELSE Capped(downFor, Limit + 1)
    /\ UNCHANGED <<vars, sender, connected, plugin>>

SendState == TakeSnapshot \/ Dial \/ Write \/ Wake

\* The container is gone.
Done == exited /\ UNCHANGED allVars

HealthNext == SendState \/ Bind \/ Receive \/ ClosePlugin \/ EntrypointStep \/ Second \/ Done

HealthSpec == HealthInit /\ [][HealthNext]_allVars

(***************************************************************************)
(* Time passes and both goroutines are scheduled.  Nothing is assumed of   *)
(* the children or of the bridge.                                          *)
(***************************************************************************)
HealthFairSpec ==
    HealthSpec /\ WF_allVars(SendState) /\ WF_allVars(Receive) /\ WF_allVars(Second)
-----------------------------------------------------------------------------
\* Mutant of liveStatus: the age is not looked at.
liveStatusAgeless(snapshot) ==
    IF snapshot = NoSnapshot THEN "stale"
    ELSE IF ~snapshot.up[Mosdns] THEN "mosdns" ELSE "ok"

liveStatus(snapshot) ==
    IF snapshot = NoSnapshot THEN "stale"
    ELSE IF snapshot.age > StaleAfter THEN "stale"
    ELSE IF ~snapshot.up[Mosdns] THEN "mosdns" ELSE "ok"

readyStatus(snapshot) ==
    IF liveStatus(snapshot) # "ok" THEN liveStatus(snapshot)
    ELSE IF ~snapshot.bridge THEN "bridge"
    ELSE IF \E c \in Children : ~snapshot.up[c] THEN "degraded" ELSE "ok"

\* The status field of /dependencies.
dependencies(snapshot) ==
    CASE readyStatus(snapshot) = "ok" -> "ready"
      [] readyStatus(snapshot) = "degraded" -> "degraded"
      [] OTHER -> "unhealthy"

\* The endpoints answer while MosDNS runs its plugins.
Serving == plugin # "none"

\* The first half of the container's health check.
checkSupervisorHealth == Serving /\ readyStatus(held) \in {"ok", "degraded"}

(***************************************************************************)
(* "unavailable DoH bridge reports unhealthy", bounded: the container is   *)
(* not reported ready on the word of a snapshot taken too long ago.  The   *)
(* plugin counts the age from the receipt, so that the time a datagram has *)
(* spent in the sender and in the socket adds to the five seconds, and     *)
(* after a signal no newer snapshot comes while MosDNS still serves.       *)
(***************************************************************************)
ReadyIsRecent == checkSupervisorHealth => downFor <= Limit

\* What the component state would have the endpoints say now.
TrueReport == dependencies([bridge |-> (bridge = "up"), up |-> compUp, age |-> 0])

(***************************************************************************)
(* The endpoints settle at the truth.  Datagrams are lost while MosDNS has *)
(* no socket, or when it is restarted between dial and write, and a new    *)
(* MosDNS knows nothing; but once the component state, MosDNS and its      *)
(* socket stay as they are, readiness, degradation and loss of the bridge  *)
(* are reported for good.                                                  *)
(***************************************************************************)
ReportSettles ==
    \A status \in {"ready", "degraded", "unhealthy"} :
        <>[](plugin = "bound" /\ ~ctxDone /\ TrueReport = status)
            => <>[](dependencies(held) = status)
=============================================================================
