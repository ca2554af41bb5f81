---------------------------- MODULE HealthProofs ----------------------------
(***************************************************************************)
(* The safety of Health, for any number of children, any size of the       *)
(* socket buffer and any delays.                                           *)
(***************************************************************************)
EXTENDS Health, TLAPS

ComponentsTypeOK ==
    /\ exited \in BOOLEAN
    /\ ctxDone \in BOOLEAN
    /\ bridge \in {"starting", "up", "down"}
    /\ running \in [Children -> BOOLEAN]
    /\ unmarked \in [Children -> BOOLEAN]
    /\ compUp \in [Children -> BOOLEAN]

\* A snapshot that has the bridge Up was taken when it was, at most as long ago
\* as the snapshot has been on its way.
Fresh(snapshot) == snapshot.bridge => downFor <= snapshot.age

\* The same of what the plugin holds.  It counts from the receipt, so that the
\* delay comes on top, and stops counting when the snapshot is stale.
HeldInv ==
    held # NoSnapshot /\ held.bridge /\ held.age <= StaleAfter => downFor <= held.age + MaxDelay

AgeInv ==
    /\ bridge = "up" => downFor = 0
    /\ hand # NoSnapshot => Fresh(hand)
    /\ \A i \in DOMAIN queue : Fresh(queue[i])
    /\ HeldInv

HealthInv == ComponentsTypeOK /\ HealthTypeOK /\ AgeInv
-----------------------------------------------------------------------------
\* Ages are numbers, and mosdns is a child.
LEMMA Bounds ==
    /\ MaxDelay \in Nat /\ StaleAfter \in Nat /\ QueueLimit \in Nat
    /\ QueueLimit > 0
    /\ Limit \in Nat /\ Limit = StaleAfter + MaxDelay
    /\ Mosdns \in Children
  BY HealthAssumption, ComponentsAssumption DEF Limit, Mosdns, Children

\* No snapshot of a socket or of the plugin is taken for none.
LEMMA SnapshotsAreSome ==
    ASSUME NEW bound \in {0, MaxDelay, StaleAfter + 1}, NEW snapshot \in Snapshots(bound)
    PROVE  snapshot # NoSnapshot
<1>1. bound \in Nat /\ bound <= Limit + 1
  BY Bounds
<1>2. snapshot \in Snapshots(Limit + 1)
  BY <1>1, Bounds DEF Snapshots
<1> QED BY <1>2, NoSnapshotAssumption

\* A second makes a snapshot older and changes nothing else in it.
LEMMA OlderSnapshot ==
    ASSUME NEW bound \in {MaxDelay, StaleAfter + 1}, NEW snapshot \in Snapshots(bound)
    PROVE  /\ Older(snapshot, bound) \in Snapshots(bound)
           /\ Older(snapshot, bound).bridge = snapshot.bridge
           /\ Older(snapshot, bound).age = Capped(snapshot.age, bound)
           /\ Older(snapshot, bound) # NoSnapshot
<1>1. snapshot # NoSnapshot
  BY SnapshotsAreSome
<1>2. bound \in Nat
  BY Bounds
<1>3. Older(snapshot, bound) = [snapshot EXCEPT !.age = Capped(@, bound)]
  BY <1>1 DEF Older
<1>4. Older(snapshot, bound) \in Snapshots(bound)
  BY <1>2, <1>3 DEF Snapshots, Capped
<1>5. Older(snapshot, bound) # NoSnapshot
  BY <1>4, SnapshotsAreSome
<1> QED BY <1>3, <1>4, <1>5 DEF Snapshots
-----------------------------------------------------------------------------
\* The sender, the socket and the passing of time leave the entrypoint alone.
LEMMA ComponentStep == HealthNext => [Next]_vars
  BY DEF HealthNext, SendState, TakeSnapshot, Dial, Write, Wake, Send, Bind, Receive, ClosePlugin,
         EntrypointStep, Second, Done, allVars

(***************************************************************************)
(* The composition: whatever the sender and the plugin do, the entrypoint  *)
(* of Health is the one that Components specifies.                         *)
(***************************************************************************)
THEOREM EntrypointIsUndisturbed == HealthSpec => Spec
<1>1. HealthInit => Init
  BY DEF HealthInit
<1>2. [HealthNext]_allVars => [Next]_vars
  BY ComponentStep DEF allVars
<1> QED BY <1>1, <1>2, PTL DEF HealthSpec, Spec

\* Every step of the entrypoint preserves its types.
LEMMA ComponentTypeStep == ComponentsTypeOK /\ [Next]_vars => ComponentsTypeOK'
<1> SUFFICES ASSUME ComponentsTypeOK, [Next]_vars
             PROVE  ComponentsTypeOK'
  OBVIOUS
<1> USE DEF Next, BridgeStarts, BridgeStops, BridgeFailsToStart, Signal, Exits, Starts, MarksUp,
            Ends, EndIsSeen, vars, children, ComponentsTypeOK
<1>1. exited' \in BOOLEAN /\ ctxDone' \in BOOLEAN
  OBVIOUS
<1>2. bridge' \in {"starting", "up", "down"}
  OBVIOUS
<1>3. /\ running' \in [Children -> BOOLEAN] /\ unmarked' \in [Children -> BOOLEAN]
      /\ compUp' \in [Children -> BOOLEAN]
  OBVIOUS
<1> QED BY <1>1, <1>2, <1>3
-----------------------------------------------------------------------------
\* The invariant holds when the entrypoint starts.
LEMMA InitHealthInv == HealthInit => HealthInv
<1> SUFFICES ASSUME HealthInit PROVE HealthInv
  OBVIOUS
<1> USE Bounds DEF HealthInit, Init
<1>1. ComponentsTypeOK
  BY DEF ComponentsTypeOK
<1>2. tick \in BOOLEAN /\ connected \in BOOLEAN
  OBVIOUS
<1>3. queue \in Seq(Snapshots(MaxDelay)) /\ Len(queue) <= QueueLimit
  OBVIOUS
<1>4. HealthTypeOK
  BY <1>2, <1>3 DEF HealthTypeOK
<1>5. AgeInv
  BY DEF AgeInv, HeldInv
<1> QED BY <1>1, <1>4, <1>5 DEF HealthInv

\* sendStateLoop: a snapshot is true when it is taken and only waits after that.
LEMMA SenderStep == HealthInv /\ SendState => HealthTypeOK' /\ AgeInv'
<1> SUFFICES ASSUME HealthInv, SendState
             PROVE  HealthTypeOK' /\ AgeInv'
  OBVIOUS
<1> USE Bounds DEF HealthInv, Send, vars, children
<1>1. CASE TakeSnapshot
  <2>1. /\ hand' \in Snapshots(MaxDelay) /\ hand'.age = 0
        /\ hand'.bridge => bridge = "up"
    BY <1>1 DEF TakeSnapshot, Snapshots, ComponentsTypeOK
  <2>2. hand' # NoSnapshot
    BY <2>1, SnapshotsAreSome
  <2>3. HealthTypeOK'
    BY <1>1, <2>1, <2>2 DEF TakeSnapshot, HealthTypeOK
  <2>4. /\ UNCHANGED <<bridge, queue, held, downFor>>
        /\ hand'.bridge => downFor = 0
    BY <1>1, <2>1 DEF TakeSnapshot, AgeInv
  <2>5. AgeInv'
    BY <2>1, <2>4 DEF AgeInv, HeldInv, Fresh
  <2> QED BY <2>3, <2>5
<1>2. CASE Dial
  <2>1. HealthTypeOK'
    <3>1. CASE plugin = "bound"
      <4>1. connected' \in BOOLEAN
        BY <1>2, <3>1 DEF Dial
      <4> QED BY <1>2, <3>1, <4>1 DEF Dial, HealthTypeOK
    <3>2. CASE plugin # "bound"
      <4>1. connected' \in BOOLEAN
        BY <1>2, <3>2 DEF Dial, Sent
      <4> QED BY <1>2, <3>2, <4>1 DEF Dial, Sent, HealthTypeOK
    <3> QED BY <3>1, <3>2
  <2>2. AgeInv'
    BY <1>2 DEF Dial, Sent, AgeInv, HeldInv, Fresh
  <2> QED BY <2>1, <2>2
<1>3. CASE Write
  <2>1. hand \in Snapshots(MaxDelay) /\ hand # NoSnapshot /\ queue \in Seq(Snapshots(MaxDelay))
    BY <1>3 DEF Write, HealthTypeOK
  <2>2. /\ queue' \in Seq(Snapshots(MaxDelay)) /\ Len(queue') <= QueueLimit
        /\ queue' # <<>> => queue # <<>> \/ connected
        /\ \A i \in DOMAIN queue' : \/ i \in DOMAIN queue /\ queue'[i] = queue[i]
                                    \/ queue'[i] = hand
    <3>1. CASE connected
      BY <1>3, <2>1, <3>1 DEF Write, HealthTypeOK
    <3>2. CASE ~connected
      BY <1>3, <2>1, <3>2 DEF Write, HealthTypeOK
    <3> QED BY <3>1, <3>2
  <2>3. HealthTypeOK'
    BY <1>3, <2>2 DEF Write, Sent, HealthTypeOK
  <2>4. AgeInv'
    BY <1>3, <2>1, <2>2 DEF Write, Sent, AgeInv, HeldInv, Fresh
  <2> QED BY <2>3, <2>4
<1>4. CASE Wake
  <2>1. HealthTypeOK'
    BY <1>4 DEF Wake, HealthTypeOK
  <2>2. AgeInv'
    BY <1>4 DEF Wake, AgeInv, HeldInv, Fresh
  <2> QED BY <2>1, <2>2
<1> QED BY <1>1, <1>2, <1>3, <1>4 DEF SendState

\* The plugin: a snapshot is received at the age it has in the socket.
LEMMA PluginStep == HealthInv /\ (Bind \/ Receive \/ ClosePlugin) => HealthTypeOK' /\ AgeInv'
<1> SUFFICES ASSUME HealthInv, Bind \/ Receive \/ ClosePlugin
             PROVE  HealthTypeOK' /\ AgeInv'
  OBVIOUS
<1> USE Bounds DEF HealthInv, vars, children, senderVars
<1>1. CASE Bind
  BY <1>1 DEF Bind, HealthTypeOK, AgeInv, HeldInv, Fresh
<1>2. CASE Receive
  <2>1. /\ queue \in Seq(Snapshots(MaxDelay)) /\ Len(queue) \in Nat \ {0}
        /\ DOMAIN queue = 1..Len(queue)
    BY <1>2 DEF Receive, HealthTypeOK
  <2>2. /\ Head(queue) \in Snapshots(MaxDelay) /\ Head(queue) = queue[1] /\ 1 \in DOMAIN queue
        /\ Tail(queue) \in Seq(Snapshots(MaxDelay)) /\ Len(Tail(queue)) = Len(queue) - 1
        /\ \A i \in DOMAIN Tail(queue) : i + 1 \in DOMAIN queue /\ Tail(queue)[i] = queue[i + 1]
    BY <2>1
  <2>3. /\ held' \in Snapshots(StaleAfter + 1)
        /\ held'.bridge = Head(queue).bridge /\ held'.age = 0
    <3> DEFINE first == Head(queue)
    <3>1. first \in Snapshots(MaxDelay) /\ held' = [first EXCEPT !.age = 0]
      BY <1>2, <2>2 DEF Receive
    <3> HIDE DEF first
    <3>2. held' \in Snapshots(StaleAfter + 1) /\ held'.bridge = first.bridge /\ held'.age = 0
      BY <3>1 DEF Snapshots
    <3> QED BY <3>2 DEF first
  <2>4. HealthTypeOK'
    BY <1>2, <2>1, <2>2, <2>3 DEF Receive, HealthTypeOK
  <2>5. Head(queue).bridge => downFor <= MaxDelay
    <3>1. Head(queue).age \in 0..MaxDelay
      BY <2>2 DEF Snapshots
    <3>2. Fresh(Head(queue))
      BY <2>2 DEF AgeInv
    <3>3. downFor \in Nat
      BY DEF HealthTypeOK
    <3> QED BY <3>1, <3>2, <3>3 DEF Fresh
  <2>6. HeldInv'
    BY <1>2, <2>3, <2>5 DEF Receive, HeldInv, HealthTypeOK
  <2>7. AgeInv'
    BY <1>2, <2>2, <2>6 DEF Receive, AgeInv, Fresh
  <2> QED BY <2>4, <2>7
<1>3. CASE ClosePlugin
  <2>1. /\ queue' \in Seq(Snapshots(MaxDelay)) /\ Len(queue') <= QueueLimit
        /\ queue' = <<>> /\ DOMAIN queue' = {}
    BY <1>3 DEF ClosePlugin
  <2>2. connected' \in BOOLEAN /\ ~connected'
    BY <1>3 DEF ClosePlugin
  <2>3. HealthTypeOK'
    BY <1>3, <2>1, <2>2 DEF ClosePlugin, HealthTypeOK
  <2>4. AgeInv'
    BY <1>3, <2>1 DEF ClosePlugin, AgeInv, HeldInv, Fresh
  <2> QED BY <2>3, <2>4
<1> QED BY <1>1, <1>2, <1>3

\* The entrypoint: what its steps do to the bridge only makes downFor zero, and
\* MosDNS never ends without its plugin.
LEMMA EntrypointPreserves == HealthInv /\ EntrypointStep => HealthTypeOK' /\ AgeInv'
<1> SUFFICES ASSUME HealthInv, EntrypointStep
             PROVE  HealthTypeOK' /\ AgeInv'
  OBVIOUS
<1> USE Bounds DEF HealthInv, senderVars, mosdnsVars
<1>1. downFor' \in 0..Limit + 1 /\ (downFor' = 0 \/ downFor' = downFor)
  BY DEF EntrypointStep, HealthTypeOK
<1>2. bridge' = "up" => downFor' = 0
  BY DEF EntrypointStep
<1>3. running[Mosdns] => running'[Mosdns] \/ Ends(Mosdns)
  BY DEF EntrypointStep, Next, BridgeStarts, BridgeStops, BridgeFailsToStart, Signal, Exits,
         Starts, MarksUp, Ends, EndIsSeen, ComponentsTypeOK, children
<1>4. CASE Ends(Mosdns)
  <2>1. /\ queue' \in Seq(Snapshots(MaxDelay)) /\ Len(queue') <= QueueLimit
        /\ queue' = <<>> /\ DOMAIN queue' = {}
        /\ plugin' = "none" /\ held' = NoSnapshot /\ UNCHANGED <<sender, hand, tick>>
    BY <1>4 DEF EntrypointStep
  <2>2. connected' \in BOOLEAN /\ ~connected'
    BY <1>4 DEF EntrypointStep
  <2>3. HealthTypeOK'
    BY <1>1, <2>1, <2>2 DEF HealthTypeOK
  <2>4. hand' # NoSnapshot => Fresh(hand)'
    BY <1>1, <2>1 DEF HealthTypeOK, AgeInv, Fresh, Snapshots
  <2> QED BY <1>2, <2>1, <2>3, <2>4 DEF AgeInv, HeldInv
<1>5. CASE ~Ends(Mosdns)
  <2>1. UNCHANGED <<sender, hand, tick, connected, plugin, queue, held>>
    BY <1>5 DEF EntrypointStep
  <2>2. HealthTypeOK'
    BY <1>1, <1>3, <1>5, <2>1 DEF HealthTypeOK
  <2>3. hand' # NoSnapshot => Fresh(hand)'
    BY <1>1, <2>1 DEF HealthTypeOK, AgeInv, Fresh, Snapshots
  <2>4. \A i \in DOMAIN queue' : Fresh(queue[i])'
    <3>1. \A i \in DOMAIN queue : queue[i] \in Snapshots(MaxDelay) /\ Fresh(queue[i])
      BY DEF HealthTypeOK, AgeInv
    <3>2. \A i \in DOMAIN queue : queue[i].age \in Nat
      BY <3>1 DEF Snapshots
    <3> QED BY <1>1, <2>1, <3>1, <3>2 DEF Fresh
  <2>5. HeldInv'
    BY <1>1, <2>1 DEF HealthTypeOK, AgeInv, HeldInv, Snapshots
  <2> QED BY <1>2, <2>2, <2>3, <2>4, <2>5 DEF AgeInv
<1> QED BY <1>4, <1>5

\* A second: everything on its way, what is held and downFor grow together.
LEMMA SecondStep == HealthInv /\ Second => HealthTypeOK' /\ AgeInv'
<1> SUFFICES ASSUME HealthInv, Second
             PROVE  HealthTypeOK' /\ AgeInv'
  OBVIOUS
<1> USE Bounds DEF HealthInv, vars, children
<1>1. /\ downFor \in 0..Limit + 1 /\ downFor' \in 0..Limit + 1 /\ downFor' <= downFor + 1
      /\ bridge' = "up" => downFor' = 0
      /\ UNCHANGED <<sender, connected, plugin>>
  BY DEF Second, Capped, HealthTypeOK
<1>2. tick' \in BOOLEAN
  BY DEF Second
<1>3. /\ hand' \in {NoSnapshot} \cup Snapshots(MaxDelay)
      /\ hand' # NoSnapshot <=> hand # NoSnapshot
      /\ hand' # NoSnapshot => Fresh(hand)'
  <2>1. CASE hand = NoSnapshot
    BY <2>1 DEF Second, Older
  <2>2. CASE hand # NoSnapshot
    <3>1. hand \in Snapshots(MaxDelay) /\ hand' = Older(hand, MaxDelay) /\ hand.age # MaxDelay
      BY <2>2 DEF Second, Overdue, HealthTypeOK
    <3>2. /\ hand' \in Snapshots(MaxDelay) /\ hand' # NoSnapshot
          /\ hand'.bridge = hand.bridge /\ hand'.age = Capped(hand.age, MaxDelay)
      BY <3>1, OlderSnapshot
    <3>3. hand.age \in Nat /\ hand'.age = hand.age + 1
      BY <3>1, <3>2 DEF Snapshots, Capped
    <3>4. Fresh(hand)
      BY <2>2 DEF AgeInv
    <3> QED BY <1>1, <2>2, <3>2, <3>3, <3>4 DEF Fresh
  <2> QED BY <2>1, <2>2
<1>4. /\ queue' \in Seq(Snapshots(MaxDelay)) /\ Len(queue') <= QueueLimit
      /\ queue' # <<>> => queue # <<>>
      /\ \A i \in DOMAIN queue' : Fresh(queue[i])'
  <2>1. /\ queue \in Seq(Snapshots(MaxDelay)) /\ Len(queue) \in Nat /\ Len(queue) <= QueueLimit
        /\ DOMAIN queue = 1..Len(queue)
        /\ queue' = [i \in 1..Len(queue) |-> Older(queue[i], MaxDelay)]
    BY DEF Second, HealthTypeOK
  <2>2. ASSUME NEW i \in 1..Len(queue)
        PROVE  /\ queue'[i] \in Snapshots(MaxDelay)
               /\ queue'[i].bridge => downFor' <= queue'[i].age
    <3> DEFINE old == queue[i]
               new == queue'[i]
    <3>1. old \in Snapshots(MaxDelay) /\ new = Older(old, MaxDelay)
      BY <2>1
    <3>2. old.age # MaxDelay /\ Fresh(old)
      BY <2>1 DEF Second, Overdue, AgeInv
    <3> HIDE DEF old, new
    <3>3. /\ new \in Snapshots(MaxDelay)
          /\ new.bridge = old.bridge /\ new.age = Capped(old.age, MaxDelay)
      BY <3>1, OlderSnapshot
    <3>4. old.age \in Nat /\ new.age = old.age + 1
      BY <3>1, <3>2, <3>3 DEF Snapshots, Capped
    <3>5. new.bridge => downFor' <= new.age
      BY <1>1, <3>2, <3>3, <3>4 DEF Fresh
    <3> QED BY <3>3, <3>5 DEF new
  <2>3. queue' \in [1..Len(queue) -> Snapshots(MaxDelay)]
    BY <2>1, <2>2
  <2>4. queue' \in Seq(Snapshots(MaxDelay)) /\ Len(queue') = Len(queue)
        /\ DOMAIN queue' = 1..Len(queue)
    BY <2>1, <2>3
  <2> QED BY <2>1, <2>2, <2>4 DEF Fresh
<1>5. held' \in {NoSnapshot} \cup Snapshots(StaleAfter + 1) /\ HeldInv'
  <2>1. CASE held = NoSnapshot
    BY <2>1 DEF Second, Older, HeldInv
  <2>2. CASE held # NoSnapshot
    <3>1. held \in Snapshots(StaleAfter + 1) /\ held' = Older(held, StaleAfter + 1)
      BY <2>2 DEF Second, HealthTypeOK
    <3>2. /\ held' \in Snapshots(StaleAfter + 1)
          /\ held'.bridge = held.bridge /\ held'.age = Capped(held.age, StaleAfter + 1)
      BY <3>1, OlderSnapshot
    <3>3. held.age \in Nat /\ (held'.age <= StaleAfter => held'.age = held.age + 1)
      BY <3>1, <3>2 DEF Snapshots, Capped
    <3> QED BY <1>1, <2>2, <3>2, <3>3 DEF AgeInv, HeldInv
  <2> QED BY <2>1, <2>2
<1>6. HealthTypeOK'
  <2>1. running' = running
    BY DEF Second
  <2> QED BY <1>1, <1>2, <1>3, <1>4, <1>5, <2>1 DEF HealthTypeOK
<1> QED BY <1>1, <1>3, <1>4, <1>5, <1>6 DEF AgeInv

\* Every step preserves the invariant.
LEMMA StepHealthInv == HealthInv /\ [HealthNext]_allVars => HealthInv'
<1> SUFFICES ASSUME HealthInv, [HealthNext]_allVars
             PROVE  HealthInv'
  OBVIOUS
<1>1. ComponentsTypeOK'
  BY ComponentStep, ComponentTypeStep DEF HealthInv, allVars
<1>2. CASE UNCHANGED allVars
  BY <1>1, <1>2 DEF allVars, vars, children, senderVars, mosdnsVars, HealthInv, HealthTypeOK,
                    AgeInv, HeldInv, Fresh
<1> QED BY <1>1, <1>2, SenderStep, PluginStep, EntrypointPreserves, SecondStep
        DEF HealthNext, Done, HealthInv

\* The inductive invariant holds in every behaviour.
LEMMA HealthInvariance == HealthSpec => []HealthInv
  BY InitHealthInv, StepHealthInv, PTL DEF HealthSpec

(***************************************************************************)
(* Types, among them that the plugin lives no longer than MosDNS and that  *)
(* a connection or a datagram exists only with a bound socket.             *)
(***************************************************************************)
THEOREM TypeCorrect == HealthSpec => []HealthTypeOK
<1>1. HealthInv => HealthTypeOK
  BY DEF HealthInv
<1> QED BY <1>1, HealthInvariance, PTL

(***************************************************************************)
(* readyz does not answer ready or degraded when the bridge has been down  *)
(* for longer than the five seconds and the delay of a datagram together.  *)
(***************************************************************************)
THEOREM ReadinessIsRecent == HealthSpec => []ReadyIsRecent
<1>1. HealthInv => ReadyIsRecent
  <2> SUFFICES ASSUME HealthInv, checkSupervisorHealth
               PROVE  downFor <= Limit
    BY DEF ReadyIsRecent
  <2>1. liveStatus(held) = "ok" /\ held.bridge
    BY DEF checkSupervisorHealth, readyStatus, liveStatus
  <2>2. held # NoSnapshot /\ ~(held.age > StaleAfter)
    BY <2>1 DEF liveStatus
  <2>3. held.age \in Nat /\ downFor \in Nat
    BY <2>2, Bounds DEF HealthInv, HealthTypeOK, Snapshots
  <2> QED BY <2>1, <2>2, <2>3, Bounds DEF HealthInv, AgeInv, HeldInv
<1> QED BY <1>1, HealthInvariance, PTL
-----------------------------------------------------------------------------
\* A new MosDNS knows nothing; the sender ends with the signal only, and it is
\* connected whenever it writes to a MosDNS that has had a datagram before.
LinkInv ==
    /\ plugin = "none" => held = NoSnapshot
    /\ sender = "off" => ctxDone
    /\ sender = "write" /\ plugin = "bound" /\ (held # NoSnapshot \/ queue # <<>>) => connected

\* What is held is at most a second older than what is next to be received.
NextIsNear ==
    /\ queue # <<>> => held.age <= queue[1].age + 1
    /\ queue = <<>> /\ hand # NoSnapshot => held.age <= hand.age + 1
    /\ queue = <<>> /\ sender = "snapshot" => held.age <= 1
    /\ queue = <<>> /\ sender = "wait" => held.age <= (IF tick THEN 1 ELSE 0)

\* MosDNS has heard from the entrypoint, and no signal has come.
InTouch == plugin = "bound" /\ ~ctxDone /\ held # NoSnapshot

FlightInv == InTouch => NextIsNear

\* What an endpoint says in touch is never stale.
HeldIsYoung == InTouch => held.age <= MaxDelay + 1 /\ liveStatus(held) # "stale"

\* A snapshot that agrees with the component state.
Agrees(snapshot) == snapshot.bridge = (bridge = "up") /\ snapshot.up = compUp

(***************************************************************************)
(* The component state may have been the same for the last k seconds: what *)
(* was taken since then agrees with it.                                    *)
(***************************************************************************)
SettledFor(k) ==
    /\ hand # NoSnapshot /\ hand.age < k => Agrees(hand)
    /\ \A i \in DOMAIN queue : queue[i].age < k => Agrees(queue[i])
    /\ held # NoSnapshot /\ held.age <= StaleAfter /\ held.age + MaxDelay < k => Agrees(held)

\* No component changes.
Quiet == UNCHANGED <<bridge, compUp>>

\* A quiet step keeps what has settled, and a second adds to it.
TruthSpreads ==
    \A k \in Nat : SettledFor(k) /\ Quiet => (SettledFor(k)' /\ (Second => SettledFor(k + 1)'))

\* After two delays and two seconds the endpoints tell the truth.
SettledReport ==
    /\ SettledFor(0)
    /\ InTouch /\ SettledFor(2 * MaxDelay + 2) => dependencies(held) = TrueReport

\* The sender gets its end from the signal and its connection from the socket.
LEMMA LinkStep == HealthInv /\ LinkInv /\ [HealthNext]_allVars => LinkInv'
<1> SUFFICES ASSUME HealthInv, LinkInv, [HealthNext]_allVars
             PROVE  LinkInv'
  OBVIOUS
<1> USE DEF LinkInv, vars, children, senderVars, mosdnsVars
<1>1. CASE SendState
  BY <1>1 DEF SendState, TakeSnapshot, Dial, Write, Wake, Send, Sent
<1>2. CASE Bind \/ ClosePlugin
  BY <1>2 DEF Bind, ClosePlugin, HealthInv, HealthTypeOK
<1>3. CASE Receive
  BY <1>3 DEF Receive
<1>4. CASE EntrypointStep
  <2>1. ctxDone => ctxDone'
    BY <1>4 DEF EntrypointStep, Next, BridgeStarts, BridgeStops, BridgeFailsToStart, Signal, Exits,
                Starts, MarksUp, Ends, EndIsSeen
  <2> QED BY <1>4, <2>1 DEF EntrypointStep
<1>5. CASE Second
  <2>1. held = NoSnapshot => held' = NoSnapshot
    BY <1>5 DEF Second, Older
  <2>2. queue = <<>> => queue' = <<>>
    BY <1>5 DEF Second
  <2> QED BY <1>5, <2>1, <2>2 DEF Second
<1>6. CASE Done \/ UNCHANGED allVars
  BY <1>6 DEF Done, allVars
<1> QED BY <1>1, <1>2, <1>3, <1>4, <1>5, <1>6 DEF HealthNext

\* What is received next stays near: the sender wakes, takes and sends within the
\* second, and what is on its way gets old no faster than what is held.
LEMMA FlightStep == HealthInv /\ LinkInv /\ FlightInv /\ [HealthNext]_allVars => FlightInv'
<1> SUFFICES ASSUME HealthInv, LinkInv, FlightInv, [HealthNext]_allVars, InTouch'
             PROVE  NextIsNear'
  BY DEF FlightInv
<1> USE Bounds DEF vars, children, senderVars, mosdnsVars
<1>0. /\ queue \in Seq(Snapshots(MaxDelay)) /\ queue' \in Seq(Snapshots(MaxDelay))
      /\ hand \in {NoSnapshot} \cup Snapshots(MaxDelay)
      /\ hand' \in {NoSnapshot} \cup Snapshots(MaxDelay)
      /\ held' \in Snapshots(StaleAfter + 1)
      /\ tick \in BOOLEAN
      /\ hand # NoSnapshot <=> sender \in {"dial", "write"}
      /\ hand' # NoSnapshot <=> sender' \in {"dial", "write"}
  BY StepHealthInv DEF HealthInv, HealthTypeOK, InTouch
<1>1. held'.age \in Nat
  BY <1>0 DEF Snapshots
<1>2. CASE Receive
  <2>1. held'.age = 0
    BY <1>2, <1>0 DEF Receive, HealthInv, HealthTypeOK, Snapshots
  <2>2. hand' # NoSnapshot => hand'.age \in Nat
    BY <1>0 DEF Snapshots
  <2>3. queue' # <<>> => queue'[1].age \in Nat
    <3>1. queue' # <<>> => queue'[1] \in Snapshots(MaxDelay)
      BY <1>0
    <3> QED BY <3>1 DEF Snapshots
  <2> QED BY <2>1, <2>2, <2>3 DEF NextIsNear
<1>3. CASE ~Receive /\ ~Second
  <2>1. InTouch /\ held' = held
    BY <1>3 DEF HealthNext, SendState, TakeSnapshot, Dial, Write, Wake, Send, Bind, ClosePlugin,
                EntrypointStep, Done, allVars, InTouch, LinkInv, Next, BridgeStarts, BridgeStops,
                BridgeFailsToStart, Signal, Exits, Starts, MarksUp, Ends, EndIsSeen
  <2>2. NextIsNear
    BY <2>1 DEF FlightInv
  <2>3. sender # "off" /\ plugin = "bound"
    BY <2>1 DEF LinkInv, InTouch
  <2>4. CASE TakeSnapshot
    <3>1. hand'.age = 0 /\ sender = "snapshot" /\ sender' = "dial" /\ UNCHANGED queue
      BY <2>4 DEF TakeSnapshot, Send
    <3> QED BY <1>1, <2>1, <2>2, <3>1 DEF NextIsNear
  <2>5. CASE Dial
    BY <2>1, <2>2, <2>3, <2>5 DEF Dial, Send, NextIsNear
  <2>6. CASE Write
    <3>1. connected /\ hand # NoSnapshot /\ sender' = "wait" /\ hand' = NoSnapshot
      BY <1>0, <2>1, <2>3, <2>6 DEF Write, Send, Sent, LinkInv, InTouch
    <3>2. /\ queue' # <<>>
          /\ queue'[1] = IF queue = <<>> THEN hand ELSE queue[1]
      BY <1>0, <2>6, <3>1 DEF Write
    <3> QED BY <2>1, <2>2, <3>1, <3>2 DEF NextIsNear
  <2>7. CASE Wake
    BY <1>0, <1>1, <2>1, <2>2, <2>3, <2>7 DEF Wake, Send, NextIsNear, InTouch
  <2>8. CASE ~SendState
    <3>1. UNCHANGED <<sender, hand, tick, queue>>
      BY <1>3, <2>1, <2>8 DEF HealthNext, Bind, ClosePlugin, EntrypointStep, Done, allVars, InTouch
    <3> QED BY <2>1, <2>2, <3>1 DEF NextIsNear
  <2> QED BY <2>4, <2>5, <2>6, <2>7, <2>8 DEF SendState
<1>4. CASE Second
  <2>1. InTouch
    BY <1>4 DEF Second, Older, InTouch
  <2>2. NextIsNear
    BY <2>1 DEF FlightInv
  <2>3. held.age \in Nat /\ held'.age <= held.age + 1
    <3>1. held \in Snapshots(StaleAfter + 1) /\ held' = Older(held, StaleAfter + 1)
      BY <1>4, <2>1 DEF Second, InTouch, HealthInv, HealthTypeOK
    <3>2. held'.age = Capped(held.age, StaleAfter + 1)
      BY <3>1, OlderSnapshot
    <3> QED BY <3>1, <3>2 DEF Capped, Snapshots
  <2>4. hand # NoSnapshot => hand.age \in Nat /\ hand'.age = hand.age + 1
    <3> SUFFICES ASSUME hand # NoSnapshot PROVE hand.age \in Nat /\ hand'.age = hand.age + 1
      OBVIOUS
    <3>1. hand \in Snapshots(MaxDelay) /\ hand' = Older(hand, MaxDelay) /\ hand.age # MaxDelay
      BY <1>0, <1>4 DEF Second, Overdue
    <3>2. hand'.age = Capped(hand.age, MaxDelay)
      BY <3>1, OlderSnapshot
    <3> QED BY <3>1, <3>2 DEF Capped, Snapshots
  <2>5. queue # <<>> => queue[1].age \in Nat /\ queue'[1].age = queue[1].age + 1
    <3> SUFFICES ASSUME queue # <<>>
                 PROVE  queue[1].age \in Nat /\ queue'[1].age = queue[1].age + 1
      OBVIOUS
    <3>1. /\ 1 \in DOMAIN queue /\ queue[1] \in Snapshots(MaxDelay)
      BY <1>0
    <3>2. queue'[1] = Older(queue[1], MaxDelay) /\ queue[1].age # MaxDelay
      BY <1>4, <3>1 DEF Second, Overdue
    <3>3. queue'[1].age = Capped(queue[1].age, MaxDelay)
      BY <3>1, <3>2, OlderSnapshot
    <3> QED BY <3>1, <3>2, <3>3 DEF Capped, Snapshots
  <2>6. /\ queue' = <<>> <=> queue = <<>>
        /\ hand' = NoSnapshot <=> hand = NoSnapshot
    <3>1. DOMAIN queue' = DOMAIN queue
      BY <1>4 DEF Second
    <3>2. queue' = <<>> <=> queue = <<>>
      BY <1>0, <3>1
    <3> QED BY <1>0, <1>4, <3>2 DEF Second
  <2>7. sender' = sender /\ sender # "snapshot" /\ (sender = "wait" => ~tick) /\ tick'
    BY <1>4 DEF Second, Overdue
  <2>8. queue' # <<>> => held'.age <= queue'[1].age + 1
    <3> SUFFICES ASSUME queue' # <<>> PROVE held'.age <= queue'[1].age + 1
      OBVIOUS
    <3>1. queue # <<>>
      BY <2>6
    <3>2. held.age <= queue[1].age + 1
      BY <2>2, <3>1 DEF NextIsNear
    <3>3. queue[1].age \in Nat /\ queue'[1].age = queue[1].age + 1
      BY <2>5, <3>1
    <3> QED BY <1>1, <2>3, <3>2, <3>3
  <2>9. queue' = <<>> /\ hand' # NoSnapshot => held'.age <= hand'.age + 1
    BY <1>1, <2>2, <2>3, <2>4, <2>6 DEF NextIsNear
  <2>10. queue' = <<>> /\ sender' = "wait" => held'.age <= 1
    BY <1>1, <2>2, <2>3, <2>6, <2>7 DEF NextIsNear
  <2> QED BY <2>7, <2>8, <2>9, <2>10 DEF NextIsNear
<1> QED BY <1>2, <1>3, <1>4

\* Nothing has been sent when the entrypoint starts.
LEMMA InitFlight == HealthInit => LinkInv /\ FlightInv
  BY DEF HealthInit, LinkInv, FlightInv, InTouch

\* Both hold in every behaviour.
LEMMA FlightInvariance == HealthSpec => [](LinkInv /\ FlightInv)
  BY InitFlight, LinkStep, FlightStep, HealthInvariance, PTL DEF HealthSpec

\* What is next to be received is at most a delay old, wherever it is.
LEMMA YoungEnough == HealthInv /\ LinkInv /\ FlightInv => HeldIsYoung
<1> SUFFICES ASSUME HealthInv, LinkInv, FlightInv, InTouch
             PROVE  held.age <= MaxDelay + 1 /\ liveStatus(held) # "stale"
  BY DEF HeldIsYoung
<1>1. NextIsNear
  BY DEF FlightInv
<1>2. held # NoSnapshot /\ held.age \in Nat
  BY Bounds DEF InTouch, HealthInv, HealthTypeOK, Snapshots
<1>3. held.age <= MaxDelay + 1
  <2>1. queue # <<>> => queue[1].age \in 0..MaxDelay
    <3>1. queue # <<>> => queue[1] \in Snapshots(MaxDelay)
      BY DEF HealthInv, HealthTypeOK
    <3> QED BY <3>1 DEF Snapshots
  <2>2. hand # NoSnapshot => hand.age \in 0..MaxDelay
    BY DEF HealthInv, HealthTypeOK, Snapshots
  <2>3. hand # NoSnapshot \/ sender \in {"snapshot", "wait"}
    BY DEF HealthInv, HealthTypeOK, LinkInv, InTouch
  <2>4. CASE queue # <<>>
    BY <1>1, <1>2, <2>1, <2>4, Bounds DEF NextIsNear
  <2>5. CASE queue = <<>> /\ hand # NoSnapshot
    BY <1>1, <1>2, <2>2, <2>5, Bounds DEF NextIsNear
  <2>6. CASE queue = <<>> /\ sender \in {"snapshot", "wait"}
    <3>1. held.age <= 1
      BY <1>1, <1>2, <2>6 DEF NextIsNear
    <3> QED BY <1>2, <3>1, Bounds
  <2> QED BY <2>3, <2>4, <2>5, <2>6
<1>4. ~(held.age > StaleAfter)
  BY <1>2, <1>3, HealthAssumption
<1>5. liveStatus(held) # "stale"
  BY <1>2, <1>4 DEF liveStatus
<1> QED BY <1>3, <1>5

(***************************************************************************)
(* The safety half of what keeps the endpoints alive: once a MosDNS has    *)
(* heard from the entrypoint, and until the signal, its snapshot is never  *)
(* stale.  The five seconds suffice for the ticker, a sender that is late, *)
(* a full socket and a slow receiver, as long as no datagram takes five    *)
(* seconds; failed dials and writes happen only before the first one.      *)
(***************************************************************************)
THEOREM SnapshotsKeepComing == HealthSpec => []HeldIsYoung
  BY YoungEnough, FlightInvariance, HealthInvariance, PTL

\* Quiet steps that take no time leave the ages of what is on its way alone, and
\* what is taken is true.
LEMMA QuietKeeps ==
    ASSUME HealthInv, HealthNext, ~Second, Quiet, NEW k \in Nat, SettledFor(k)
    PROVE  SettledFor(k)'
<1> USE Bounds DEF vars, children, senderVars, mosdnsVars
<1>0. /\ queue \in Seq(Snapshots(MaxDelay))
      /\ hand \in {NoSnapshot} \cup Snapshots(MaxDelay)
      /\ hand # NoSnapshot <=> sender \in {"dial", "write"}
  BY DEF HealthInv, HealthTypeOK
<1>1. hand' # NoSnapshot /\ hand'.age < k => Agrees(hand)'
  <2>1. CASE TakeSnapshot
    BY <2>1 DEF TakeSnapshot, Send, Agrees
  <2>2. CASE ~TakeSnapshot
    <3>1. hand' = NoSnapshot \/ hand' = hand
      BY <2>2 DEF HealthNext, SendState, Dial, Write, Wake, Sent, Bind, Receive, ClosePlugin,
                  EntrypointStep, Done, allVars
    <3> QED BY <3>1 DEF SettledFor, Agrees, Quiet
  <2> QED BY <2>1, <2>2
<1>2. \A i \in DOMAIN queue' : queue'[i].age < k => Agrees(queue[i])'
  <2>1. \A i \in DOMAIN queue' : \/ \E j \in DOMAIN queue : queue'[i] = queue[j]
                                 \/ hand # NoSnapshot /\ queue'[i] = hand
    <3>1. CASE Write
      <4>1. hand # NoSnapshot /\ hand \in Snapshots(MaxDelay)
        BY <1>0, <3>1 DEF Write, Send
      <4>2. CASE connected
        BY <1>0, <3>1, <4>1, <4>2 DEF Write
      <4>3. CASE ~connected
        BY <3>1, <4>3 DEF Write
      <4> QED BY <4>2, <4>3
    <3>2. CASE Receive
      <4>1. queue # <<>> /\ queue' = Tail(queue)
        BY <3>2 DEF Receive
      <4>2. \A i \in DOMAIN Tail(queue) : i + 1 \in DOMAIN queue /\ Tail(queue)[i] = queue[i + 1]
        BY <1>0, <4>1
      <4> QED BY <4>1, <4>2
    <3>3. CASE ~Write /\ ~Receive
      <4>1. queue' = <<>> \/ queue' = queue
        BY <3>3 DEF HealthNext, SendState, TakeSnapshot, Dial, Wake, Bind, ClosePlugin,
                    EntrypointStep, Done, allVars
      <4> QED BY <4>1
    <3> QED BY <3>1, <3>2, <3>3
  <2>2. \A i \in DOMAIN queue : queue[i].age < k => Agrees(queue[i])
    BY DEF SettledFor
  <2>3. hand # NoSnapshot /\ hand.age < k => Agrees(hand)
    BY DEF SettledFor
  <2> QED BY <2>1, <2>2, <2>3 DEF Agrees, Quiet
<1>3. held' # NoSnapshot /\ held'.age <= StaleAfter /\ held'.age + MaxDelay < k => Agrees(held)'
  <2>1. CASE Receive
    <3> DEFINE first == Head(queue)
    <3>1. first \in Snapshots(MaxDelay) /\ first = queue[1] /\ 1 \in DOMAIN queue
      BY <1>0, <2>1 DEF Receive
    <3>2. first.age < k => Agrees(first)
      BY <3>1 DEF SettledFor
    <3>3. held' = [first EXCEPT !.age = 0]
      BY <2>1 DEF Receive
    <3> HIDE DEF first
    <3>4. first.age \in 0..MaxDelay /\ held'.age = 0
          /\ held'.bridge = first.bridge /\ held'.up = first.up
      BY <3>1, <3>3 DEF Snapshots
    <3>5. held'.age + MaxDelay < k => first.age < k
      BY <3>4
    <3> QED BY <3>2, <3>4, <3>5 DEF Agrees, Quiet
  <2>2. CASE ~Receive
    <3>1. held' = NoSnapshot \/ held' = held
      BY <2>2 DEF HealthNext, SendState, TakeSnapshot, Dial, Write, Wake, Send, Bind, ClosePlugin,
                  EntrypointStep, Done, allVars
    <3> QED BY <3>1 DEF SettledFor, Agrees, Quiet
  <2> QED BY <2>1, <2>2
<1> QED BY <1>1, <1>2, <1>3 DEF SettledFor

\* An older snapshot says the same.
LEMMA OlderSays ==
    ASSUME NEW bound \in {MaxDelay, StaleAfter + 1}, NEW snapshot \in Snapshots(bound)
    PROVE  Older(snapshot, bound).up = snapshot.up
  BY SnapshotsAreSome DEF Older, Snapshots

\* A second makes everything on its way, and what is held, a second older.
LEMMA SecondSettles ==
    ASSUME HealthInv, Second, Quiet, NEW k \in Nat, SettledFor(k)
    PROVE  SettledFor(k + 1)'
<1> USE Bounds DEF vars, children
<1>1. hand' # NoSnapshot /\ hand'.age < k + 1 => Agrees(hand)'
  <2> SUFFICES ASSUME hand' # NoSnapshot, hand'.age < k + 1 PROVE Agrees(hand)'
    OBVIOUS
  <2>1. /\ hand # NoSnapshot /\ hand \in Snapshots(MaxDelay) /\ hand.age # MaxDelay
        /\ hand' = Older(hand, MaxDelay)
    BY DEF Second, Older, Overdue, HealthInv, HealthTypeOK
  <2>2. hand'.bridge = hand.bridge /\ hand'.age = Capped(hand.age, MaxDelay)
    BY <2>1, OlderSnapshot
  <2>3. hand'.up = hand.up
    BY <2>1, OlderSays
  <2>4. hand.age < k
    BY <2>1, <2>2 DEF Capped, Snapshots
  <2>5. Agrees(hand)
    BY <2>1, <2>4 DEF SettledFor
  <2> QED BY <2>2, <2>3, <2>5 DEF Agrees, Quiet
<1>2. \A i \in DOMAIN queue' : queue'[i].age < k + 1 => Agrees(queue[i])'
  <2> SUFFICES ASSUME NEW i \in DOMAIN queue', queue'[i].age < k + 1
               PROVE  Agrees(queue[i])'
    OBVIOUS
  <2> DEFINE old == queue[i]
             new == queue'[i]
  <2>1. i \in DOMAIN queue /\ new = Older(old, MaxDelay)
    BY DEF Second
  <2>2. old.age # MaxDelay
    BY <2>1 DEF Second, Overdue
  <2>3. old \in Snapshots(MaxDelay)
    BY <2>1 DEF HealthInv, HealthTypeOK
  <2>4. old.age < k => Agrees(old)
    BY <2>1 DEF SettledFor
  <2>5. new.age < k + 1
    OBVIOUS
  <2>6. Agrees(queue[i])' <=> new.bridge = (bridge' = "up") /\ new.up = compUp'
    BY DEF Agrees
  <2> HIDE DEF old, new
  <2>7. new.bridge = old.bridge /\ new.age = Capped(old.age, MaxDelay) /\ new.up = old.up
    BY <2>1, <2>3, OlderSnapshot, OlderSays
  <2>8. old.age < k
    BY <2>2, <2>3, <2>5, <2>7 DEF Capped, Snapshots
  <2> QED BY <2>4, <2>6, <2>7, <2>8 DEF Agrees, Quiet
<1>3. held' # NoSnapshot /\ held'.age <= StaleAfter /\ held'.age + MaxDelay < k + 1
        => Agrees(held)'
  <2> SUFFICES ASSUME held' # NoSnapshot, held'.age <= StaleAfter, held'.age + MaxDelay < k + 1
               PROVE  Agrees(held)'
    OBVIOUS
  <2>1. /\ held # NoSnapshot /\ held \in Snapshots(StaleAfter + 1)
        /\ held' = Older(held, StaleAfter + 1)
    BY DEF Second, Older, HealthInv, HealthTypeOK
  <2>2. held'.bridge = held.bridge /\ held'.age = Capped(held.age, StaleAfter + 1)
    BY <2>1, OlderSnapshot
  <2>3. held'.up = held.up
    BY <2>1, OlderSays
  <2>4. held.age <= StaleAfter /\ held.age + MaxDelay < k
    BY <2>1, <2>2 DEF Capped, Snapshots
  <2>5. Agrees(held)
    BY <2>1, <2>4 DEF SettledFor
  <2> QED BY <2>2, <2>3, <2>5 DEF Agrees, Quiet
<1> QED BY <1>1, <1>2, <1>3 DEF SettledFor

\* What has settled for longer has settled.
LEMMA SettledLess ==
    ASSUME HealthInv', NEW k \in Nat, SettledFor(k + 1)'
    PROVE  SettledFor(k)'
<1>1. hand' # NoSnapshot => hand'.age \in Nat
  BY Bounds DEF HealthInv, HealthTypeOK, Snapshots
<1>2. \A i \in DOMAIN queue' : queue'[i].age \in Nat
  <2>1. \A i \in DOMAIN queue' : queue'[i] \in Snapshots(MaxDelay)
    BY DEF HealthInv, HealthTypeOK
  <2> QED BY <2>1, Bounds DEF Snapshots
<1>3. held' # NoSnapshot => held'.age \in Nat
  BY Bounds DEF HealthInv, HealthTypeOK, Snapshots
<1>4. hand' # NoSnapshot /\ hand'.age < k => Agrees(hand)'
  BY <1>1 DEF SettledFor
<1>5. \A i \in DOMAIN queue' : queue'[i].age < k => Agrees(queue[i])'
  BY <1>2 DEF SettledFor
<1>6. held' # NoSnapshot /\ held'.age <= StaleAfter /\ held'.age + MaxDelay < k => Agrees(held)'
  BY <1>3, Bounds DEF SettledFor
<1> QED BY <1>4, <1>5, <1>6 DEF SettledFor

\* With what was taken in the last seconds true, so is what is held and said.
LEMMA ReportIsTrue == HealthInv /\ HeldIsYoung => SettledReport
<1> SUFFICES ASSUME HealthInv, HeldIsYoung PROVE SettledReport
  OBVIOUS
<1>1. SettledFor(0)
  <2>1. hand # NoSnapshot => ~(hand.age < 0)
    BY Bounds DEF HealthInv, HealthTypeOK, Snapshots
  <2>2. \A i \in DOMAIN queue : ~(queue[i].age < 0)
    <3>1. \A i \in DOMAIN queue : queue[i] \in Snapshots(MaxDelay)
      BY DEF HealthInv, HealthTypeOK
    <3> QED BY <3>1, Bounds DEF Snapshots
  <2>3. held # NoSnapshot => ~(held.age + MaxDelay < 0)
    BY Bounds DEF HealthInv, HealthTypeOK, Snapshots
  <2> QED BY <2>1, <2>2, <2>3 DEF SettledFor
<1>2. ASSUME InTouch, SettledFor(2 * MaxDelay + 2) PROVE dependencies(held) = TrueReport
  <2> DEFINE now == [bridge |-> (bridge = "up"), up |-> compUp, age |-> 0]
  <2>1. held # NoSnapshot /\ held.age \in Nat /\ held.age <= MaxDelay + 1
    BY <1>2, Bounds DEF InTouch, HeldIsYoung, HealthInv, HealthTypeOK, Snapshots
  <2>2. held.age <= StaleAfter /\ held.age + MaxDelay < 2 * MaxDelay + 2
    BY <2>1, HealthAssumption
  <2>3. Agrees(held)
    BY <1>2, <2>1, <2>2 DEF SettledFor
  <2>4. now \in Snapshots(StaleAfter + 1)
    BY Bounds DEF HealthInv, ComponentsTypeOK, Snapshots
  <2>5. now # NoSnapshot
    BY <2>4, SnapshotsAreSome
  <2>6. now.bridge = held.bridge /\ now.up = held.up /\ ~(now.age > StaleAfter)
    BY <2>3, Bounds DEF Agrees
  <2> HIDE DEF now
  <2>7. ~(held.age > StaleAfter)
    BY <2>1, <2>2, Bounds
  <2>8. readyStatus(held) = readyStatus(now)
    BY <2>1, <2>5, <2>6, <2>7 DEF readyStatus, liveStatus
  <2>9. dependencies(held) = dependencies(now)
    BY <2>8 DEF dependencies
  <2> QED BY <2>9 DEF TrueReport, now
<1> QED BY <1>1, <1>2 DEF SettledReport

(***************************************************************************)
(* The safety half of ReportSettles, with a bound: while no component      *)
(* changes, untrue snapshots come neither from the sender nor back from    *)
(* the socket, and when that has been so for two delays and two seconds,   *)
(* the endpoints of a MosDNS that has heard from the entrypoint report the *)
(* truth, whatever was lost or delayed before.                             *)
(***************************************************************************)
THEOREM ReportSettlesInTime == HealthSpec => [][TruthSpreads]_allVars /\ []SettledReport
<1>1. HealthInv /\ HealthInv' /\ [HealthNext]_allVars => [TruthSpreads]_allVars
  <2> SUFFICES ASSUME HealthInv, HealthInv', HealthNext, NEW k \in Nat, SettledFor(k), Quiet
               PROVE  SettledFor(k)' /\ (Second => SettledFor(k + 1)')
    BY DEF TruthSpreads
  <2>1. CASE Second
    <3>1. SettledFor(k + 1)'
      BY <2>1, SecondSettles
    <3> QED BY <3>1, SettledLess
  <2>2. CASE ~Second
    BY <2>2, QuietKeeps
  <2> QED BY <2>1, <2>2
<1> QED BY <1>1, ReportIsTrue, SnapshotsKeepComing, HealthInvariance, PTL DEF HealthSpec
=============================================================================
