-------------------------- MODULE SupervisionProofs --------------------------
(***************************************************************************)
(* The safety of Supervision, for any number of children and any delays.   *)
(***************************************************************************)
EXTENDS Supervision, BackoffTheorems, FiniteSetTheorems

\* The supervisors that have not returned.
Active == {c \in Children : sup[c] \in Supervising}

\* A supervisor that holds a process has one that runs or one that has been
\* waited for, and never both; the others have none.
ProcessInv ==
    \A c \in Children :
        IF sup[c] \in Holding
        THEN alive[c] = (IF waited[c] THEN 0 ELSE 1)
        ELSE alive[c] = 0 /\ ~waited[c]

\* The WaitGroup counts the supervisors that have not returned.
Counting == managers = Cardinality(Active)

\* Supervisors exist in the order main spawns them, and none is active once
\* main has returned.
MainInv ==
    /\ \A c \in Children : sup[c] = "unborn" <=> c > spawned
    /\ main = "bridge" => spawned = 0
    /\ main = "spawning" => spawned < NChildren
    /\ main \in {"running", "waiting"} => spawned = NChildren
    /\ main = "exited" => Active = {}

IInv == TypeOK /\ ProcessInv /\ Counting /\ MainInv /\ ComponentsTruthful

\* Sets of children are finite and no larger than the set of all of them.
LEMMA SubsetCount ==
    ASSUME NEW S \in SUBSET Children
    PROVE  IsFiniteSet(S) /\ Cardinality(S) \in 0..NChildren
<1>1. IsFiniteSet(Children) /\ Cardinality(Children) = NChildren
  BY FS_Interval, SupervisionAssumption DEF Children
<1>2. IsFiniteSet(S) /\ Cardinality(S) <= NChildren
  BY <1>1, FS_Subset
<1> QED BY <1>2, FS_CardinalityType, SupervisionAssumption

\* The invariant holds at the start of main.
LEMMA InitInvariant == Init => IInv
<1> SUFFICES ASSUME Init PROVE IInv
  OBVIOUS
<1> USE SupervisionAssumption DEF Init
<1>1. TypeOK
  <2>1. /\ spawned \in 0..NChildren
        /\ managers \in 0..NChildren
        /\ alive \in [Children -> Nat]
        /\ step \in [Children -> 0..StepCap]
        /\ compBackoff \in [Children -> 0..MaximumDelay]
    OBVIOUS
  <2>2. /\ main \in MainStates
        /\ ctxDone \in BOOLEAN
        /\ bridgeUp \in BOOLEAN
        /\ sup \in [Children -> SupStates]
        /\ waited \in [Children -> BOOLEAN]
        /\ stable \in [Children -> BOOLEAN]
        /\ compUp \in [Children -> BOOLEAN]
    BY DEF MainStates, SupStates, Supervising
  <2> QED BY <2>1, <2>2 DEF TypeOK
<1>2. ProcessInv /\ ComponentsTruthful
  <2>1. \A c \in Children : ~(sup[c] \in Holding) /\ sup[c] # "backoff"
    BY DEF Holding
  <2>2. ProcessInv
    BY <2>1 DEF ProcessInv
  <2>3. \A c \in Children : ~compUp[c]
    OBVIOUS
  <2> QED BY <2>1, <2>2, <2>3 DEF ComponentsTruthful
<1>3. Active = {}
  BY DEF Active, Supervising
<1>4. Counting
  BY <1>3, FS_EmptySet DEF Counting
<1>5. MainInv
  BY <1>3 DEF MainInv, Children
<1> QED BY <1>1, <1>2, <1>4, <1>5 DEF IInv

\* A supervisor that goes on leaves the count alone.
LEMMA GotoCounts ==
    ASSUME IInv, NEW c \in Children, sup[c] \in Supervising,
           NEW where \in Supervising, Goto(c, where), UNCHANGED mainVars
    PROVE  /\ Counting' /\ MainInv'
           /\ managers' \in 0..NChildren /\ sup' \in [Children -> SupStates]
<1>1. sup' = [sup EXCEPT ![c] = where] /\ managers' = managers
  BY DEF Goto
<1>2. sup \in [Children -> SupStates] /\ managers \in 0..NChildren
  BY DEF IInv, TypeOK
<1>3. Active' = Active
  BY <1>1, <1>2 DEF Active
<1>4. Counting'
  BY <1>1, <1>3 DEF IInv, Counting
<1>5. \A d \in Children : sup'[d] = "unborn" <=> sup[d] = "unborn"
  BY <1>1, <1>2 DEF Supervising
<1>6. MainInv'
  BY <1>3, <1>5 DEF IInv, MainInv, mainVars
<1> QED BY <1>1, <1>2, <1>4, <1>6 DEF SupStates

\* A supervisor that returns is one less.
LEMMA ReturnCounts ==
    ASSUME IInv, NEW c \in Children, sup[c] \in Supervising,
           Return(c), UNCHANGED mainVars
    PROVE  /\ Counting' /\ MainInv'
           /\ managers' \in 0..NChildren /\ sup' \in [Children -> SupStates]
<1>1. sup' = [sup EXCEPT ![c] = "returned"] /\ managers' = managers - 1
  BY DEF Return
<1>2. sup \in [Children -> SupStates] /\ managers \in 0..NChildren
  BY DEF IInv, TypeOK
<1>3. Active' = Active \ {c} /\ c \in Active
  BY <1>1, <1>2 DEF Active, Supervising
<1>4. IsFiniteSet(Active)
  BY SubsetCount DEF Active
<1>5. Cardinality(Active') = managers'
  BY <1>1, <1>3, <1>4, FS_RemoveElement DEF IInv, Counting
<1>6. Counting'
  BY <1>5 DEF Counting
<1>7. managers' \in 0..NChildren
  <2>1. Active' \in SUBSET Children
    BY DEF Active
  <2> QED BY <1>5, <2>1, SubsetCount
<1>8. \A d \in Children : sup'[d] = "unborn" <=> sup[d] = "unborn"
  BY <1>1, <1>2 DEF Supervising
<1>9. MainInv'
  BY <1>3, <1>8 DEF IInv, MainInv, mainVars
<1> QED BY <1>1, <1>2, <1>6, <1>7, <1>9 DEF SupStates

\* The step that the next delay is computed from is a positive one.
LEMMA NextStepTyped ==
    ASSUME TypeOK, NEW c \in Children
    PROVE  NextStep(c) \in 1..StepCap
  BY SupervisionAssumption DEF NextStep, TypeOK

(***************************************************************************)
(* What one child's own variables must satisfy: the part of the invariant  *)
(* that the actions of a supervisor or of its process can disturb.         *)
(***************************************************************************)
ChildOK(c) ==
    /\ alive[c] \in Nat
    /\ waited[c] \in BOOLEAN
    /\ stable[c] \in BOOLEAN
    /\ step[c] \in 0..StepCap
    /\ compUp[c] \in BOOLEAN
    /\ compBackoff[c] \in 0..MaximumDelay
    /\ IF sup[c] \in Holding
       THEN alive[c] = (IF waited[c] THEN 0 ELSE 1)
       ELSE alive[c] = 0 /\ ~waited[c]
    /\ compUp[c] <=> sup[c] \in Holding \ {"started"}
    /\ sup[c] = "backoff" => compBackoff[c] \in 1..MaximumDelay
    /\ compUp[c] => compBackoff[c] = 0

(***************************************************************************)
(* A step of child c leaves the variables of the other children alone.     *)
(***************************************************************************)
LEMMA SuperviseLocal ==
    ASSUME TypeOK, NEW c \in Children, Supervise(c) \/ ChildExits(c)
    PROVE  /\ UNCHANGED <<mainVars, ctxDone>>
           /\ DOMAIN sup' = Children /\ DOMAIN alive' = Children
           /\ alive' = [alive EXCEPT ![c] = alive'[c]]
           /\ waited' = [waited EXCEPT ![c] = waited'[c]]
           /\ stable' = [stable EXCEPT ![c] = stable'[c]]
           /\ step' = [step EXCEPT ![c] = step'[c]]
           /\ compUp' = [compUp EXCEPT ![c] = compUp'[c]]
           /\ compBackoff' = [compBackoff EXCEPT ![c] = compBackoff'[c]]
           /\ sup' = [sup EXCEPT ![c] = sup'[c]]
  BY DEF TypeOK, Supervise, Check, Start, MarkUp, StartFails, ChildExits, TakeExit, Terminate, Kill,
         Reap, Schedule, TimerFires, TimerStopped, Goto, Return

\* The child's own part of the invariant is kept by its own steps.
LEMMA ChildStep ==
    ASSUME TypeOK, NEW c \in Children, ChildOK(c), Supervise(c) \/ ChildExits(c)
    PROVE  ChildOK(c)'
<1> USE SupervisionAssumption DEF ChildOK, Holding, Goto, Return
<1>0. sup \in [Children -> SupStates] /\ sup[c] \in SupStates
  BY DEF TypeOK
<1>1. CASE Check(c)
  BY <1>0, <1>1 DEF Check
<1>2. CASE Start(c)
  <2>1. alive[c] = 0 /\ ~compUp[c]
    BY <1>2 DEF Start
  <2>2. /\ alive'[c] = alive[c] + 1 /\ waited'[c] = FALSE /\ compUp'[c] = compUp[c]
        /\ compBackoff'[c] = compBackoff[c] /\ sup'[c] = "started"
        /\ stable'[c] = stable[c] /\ step'[c] = step[c]
    BY <1>0, <1>2 DEF Start, TypeOK
  <2>3. waited'[c] \in BOOLEAN
    BY <2>2, Zenon
  <2>4. alive'[c] = 1 /\ ~waited'[c]
    BY <2>1, <2>2
  <2> QED BY <2>1, <2>2, <2>3, <2>4
<1>3. CASE StartFails(c)
  <2>1. /\ alive'[c] = alive[c] /\ waited'[c] = waited[c] /\ compUp'[c] = FALSE
        /\ compBackoff'[c] = compBackoff[c] /\ sup'[c] = "schedule"
        /\ stable'[c] = FALSE /\ step'[c] = step[c]
    BY <1>0, <1>3 DEF StartFails, TypeOK
  <2>2. alive[c] = 0 /\ ~waited[c]
    BY <1>3 DEF StartFails
  <2> QED BY <2>1, <2>2
<1>4. CASE ChildExits(c)
  BY <1>0, <1>4 DEF ChildExits, TypeOK
<1>5. CASE TakeExit(c)
  <2>1. /\ alive'[c] = alive[c] /\ waited'[c] = FALSE /\ compUp'[c] = FALSE
        /\ compBackoff'[c] = compBackoff[c] /\ sup'[c] \in {"returned", "schedule"}
        /\ stable'[c] = stable[c] /\ step'[c] = step[c]
    BY <1>0, <1>5 DEF TakeExit, TypeOK
  <2>2. alive[c] = 0
    BY <1>5 DEF TakeExit
  <2> QED BY <2>1, <2>2
<1>6. CASE Terminate(c) \/ Kill(c)
  BY <1>0, <1>6 DEF Terminate, Kill, TypeOK
<1>7. CASE Reap(c)
  <2>1. /\ alive'[c] = alive[c] /\ waited'[c] = FALSE /\ compUp'[c] = FALSE
        /\ compBackoff'[c] = compBackoff[c] /\ sup'[c] = "returned"
        /\ stable'[c] = stable[c] /\ step'[c] = step[c]
    BY <1>0, <1>7 DEF Reap, TypeOK
  <2>2. alive[c] = 0
    BY <1>7 DEF Reap
  <2> QED BY <2>1, <2>2
<1>8. CASE Schedule(c)
  <2>1. NextStep(c) \in 1..StepCap
    BY NextStepTyped
  <2>2. RetryDelays(InitialDelay, MaximumDelay, NextStep(c)) \subseteq 1..MaximumDelay
    BY <2>1, RetryDelaysBounded
  <2>3. /\ alive'[c] = alive[c] /\ waited'[c] = waited[c] /\ compUp'[c] = FALSE
        /\ sup'[c] = "backoff" /\ stable'[c] = stable[c] /\ step'[c] = NextStep(c)
    BY <1>0, <1>8 DEF Schedule, TypeOK
  <2>4. compBackoff'[c] \in 1..MaximumDelay
    BY <1>8, <2>2 DEF Schedule, TypeOK
  <2>5. alive[c] = 0 /\ ~waited[c]
    BY <1>8 DEF Schedule
  <2>6. compUp'[c] \in BOOLEAN /\ ~compUp'[c]
    BY <2>3, Zenon
  <2>7. sup'[c] \notin Holding
    BY <2>3
  <2>8. step'[c] \in 0..StepCap /\ compBackoff'[c] \in 0..MaximumDelay
    BY <2>1, <2>3, <2>4
  <2>9. alive'[c] = 0 /\ ~waited'[c] /\ alive'[c] \in Nat /\ waited'[c] \in BOOLEAN
        /\ stable'[c] \in BOOLEAN
    BY <2>3, <2>5
  <2> QED BY <2>4, <2>6, <2>7, <2>8, <2>9
<1>9. CASE TimerFires(c) \/ TimerStopped(c)
  BY <1>0, <1>9 DEF TimerFires, TimerStopped, TypeOK
<1>10. CASE MarkUp(c)
  <2>1. /\ alive'[c] = alive[c] /\ waited'[c] = waited[c] /\ compUp'[c] = TRUE
        /\ compBackoff'[c] = 0 /\ sup'[c] = "watch"
        /\ stable'[c] = stable[c] /\ step'[c] = step[c]
    BY <1>0, <1>10 DEF MarkUp, TypeOK
  <2>2. sup[c] = "started"
    BY <1>10 DEF MarkUp
  <2>3. compUp'[c] \in BOOLEAN /\ compUp'[c]
    BY <2>1, Zenon
  <2>4. alive'[c] = (IF waited'[c] THEN 0 ELSE 1)
    BY <2>1, <2>2
  <2>5. sup'[c] \in Holding \ {"started"} /\ sup'[c] # "backoff"
    BY <2>1
  <2> QED BY <2>1, <2>3, <2>4, <2>5
<1> QED BY <1>1, <1>2, <1>3, <1>4, <1>5, <1>6, <1>7, <1>8, <1>9, <1>10 DEF Supervise

\* The invariant is kept by the step of a child: its own part by ChildStep, the
\* other children's because the step does not touch them, the count of the
\* WaitGroup by the way the supervisor goes on.
LEMMA ChildPreserves ==
    ASSUME IInv, NEW c \in Children, Supervise(c) \/ ChildExits(c)
    PROVE  IInv'
<1>1. TypeOK /\ \A d \in Children : ChildOK(d)
  BY DEF IInv, TypeOK, ProcessInv, ComponentsTruthful, ChildOK
<1>2. ChildOK(c)'
  BY <1>1, ChildStep
<1>3. /\ UNCHANGED <<mainVars, ctxDone>>
      /\ alive' = [alive EXCEPT ![c] = alive'[c]]
      /\ waited' = [waited EXCEPT ![c] = waited'[c]]
      /\ stable' = [stable EXCEPT ![c] = stable'[c]]
      /\ step' = [step EXCEPT ![c] = step'[c]]
      /\ compUp' = [compUp EXCEPT ![c] = compUp'[c]]
      /\ compBackoff' = [compBackoff EXCEPT ![c] = compBackoff'[c]]
      /\ sup' = [sup EXCEPT ![c] = sup'[c]]
  BY <1>1, SuperviseLocal
<1>4. /\ Counting' /\ MainInv'
      /\ managers' \in 0..NChildren /\ sup' \in [Children -> SupStates]
  <2> USE DEF Supervising
  <2>1. CASE Check(c)
    <3>1. sup[c] \in Supervising
      BY <2>1 DEF Check
    <3>2. Return(c) \/ Goto(c, "start")
      BY <2>1 DEF Check
    <3> QED BY <1>3, <3>1, <3>2, ReturnCounts, GotoCounts
  <2>2. CASE Start(c)
    <3>1. sup[c] \in Supervising /\ Goto(c, "started")
      BY <2>2 DEF Start
    <3> QED BY <1>3, <3>1, GotoCounts
  <2>3. CASE StartFails(c)
    <3>1. sup[c] \in Supervising /\ Goto(c, "schedule")
      BY <2>3 DEF StartFails
    <3> QED BY <1>3, <3>1, GotoCounts
  <2>4. CASE ChildExits(c)
    <3>1. UNCHANGED <<sup, managers, mainVars>>
      BY <2>4 DEF ChildExits
    <3> QED BY <3>1 DEF IInv, TypeOK, Counting, MainInv, Active, mainVars
  <2>5. CASE TakeExit(c)
    <3>1. sup[c] \in Supervising
      BY <2>5 DEF TakeExit
    <3>2. Return(c) \/ Goto(c, "schedule")
      BY <2>5 DEF TakeExit
    <3> QED BY <1>3, <3>1, <3>2, ReturnCounts, GotoCounts
  <2>6. CASE Terminate(c)
    <3>1. sup[c] \in Supervising /\ Goto(c, "grace")
      BY <2>6 DEF Terminate
    <3> QED BY <1>3, <3>1, GotoCounts
  <2>7. CASE Kill(c)
    <3>1. sup[c] \in Supervising /\ Goto(c, "killed")
      BY <2>7 DEF Kill
    <3> QED BY <1>3, <3>1, GotoCounts
  <2>8. CASE Reap(c)
    <3>1. sup[c] \in Supervising /\ Return(c)
      BY <2>8 DEF Reap
    <3> QED BY <1>3, <3>1, ReturnCounts
  <2>9. CASE Schedule(c)
    <3>1. sup[c] \in Supervising /\ Goto(c, "backoff")
      BY <2>9 DEF Schedule
    <3> QED BY <1>3, <3>1, GotoCounts
  <2>10. CASE TimerFires(c)
    <3>1. sup[c] \in Supervising /\ Goto(c, "check")
      BY <2>10 DEF TimerFires
    <3> QED BY <1>3, <3>1, GotoCounts
  <2>11. CASE TimerStopped(c)
    <3>1. sup[c] \in Supervising /\ Return(c)
      BY <2>11 DEF TimerStopped
    <3> QED BY <1>3, <3>1, ReturnCounts
  <2>12. CASE MarkUp(c)
    <3>1. sup[c] \in Supervising /\ Goto(c, "watch")
      BY <2>12 DEF MarkUp
    <3> QED BY <1>3, <3>1, GotoCounts
  <2> QED BY <2>1, <2>2, <2>3, <2>4, <2>5, <2>6, <2>7, <2>8, <2>9, <2>10, <2>11, <2>12
             DEF Supervise
<1>5. \A d \in Children : ChildOK(d)'
  <2> SUFFICES ASSUME NEW d \in Children, d # c PROVE ChildOK(d)'
    BY <1>2
  <2>1. /\ sup'[d] = sup[d] /\ alive'[d] = alive[d] /\ waited'[d] = waited[d]
        /\ stable'[d] = stable[d] /\ step'[d] = step[d] /\ compUp'[d] = compUp[d]
        /\ compBackoff'[d] = compBackoff[d]
    BY <1>1, <1>3 DEF TypeOK
  <2>2. ChildOK(d)
    BY <1>1
  <2> QED BY <2>1, <2>2 DEF ChildOK
<1>6. TypeOK'
  <2>1. /\ main' \in MainStates /\ spawned' \in 0..NChildren
        /\ ctxDone' \in BOOLEAN /\ bridgeUp' \in BOOLEAN
    BY <1>1, <1>3 DEF TypeOK, mainVars
  <2>2. /\ alive' \in [Children -> Nat]
        /\ step' \in [Children -> 0..StepCap]
        /\ compBackoff' \in [Children -> 0..MaximumDelay]
    BY <1>1, <1>2, <1>3 DEF TypeOK, ChildOK
  <2>3. waited'[c] \in BOOLEAN /\ stable'[c] \in BOOLEAN /\ compUp'[c] \in BOOLEAN
    BY <1>2 DEF ChildOK
  <2>4. /\ waited' \in [Children -> BOOLEAN]
        /\ stable' \in [Children -> BOOLEAN]
        /\ compUp' \in [Children -> BOOLEAN]
    BY <1>1, <2>3, <1>3 DEF TypeOK
  <2> QED BY <1>4, <2>1, <2>2, <2>4 DEF TypeOK
<1>7. ProcessInv' /\ ComponentsTruthful'
  BY <1>5 DEF ProcessInv, ComponentsTruthful, ChildOK
<1> QED BY <1>4, <1>6, <1>7 DEF IInv

\* managers.Add(1) before the go statement: the new supervisor is counted.
LEMMA SpawnPreserves ==
    ASSUME IInv, Spawn
    PROVE  IInv'
<1> DEFINE c == spawned + 1
<1>1. /\ main = "spawning" /\ spawned' = c /\ managers' = managers + 1
      /\ sup' = [sup EXCEPT ![c] = "check"]
      /\ main' = IF c = NChildren THEN "running" ELSE "spawning"
      /\ UNCHANGED <<bridgeUp, ctxDone, alive, waited, stable, step, compUp, compBackoff>>
  BY DEF Spawn
<1>2. c \in Children /\ spawned \in Nat /\ sup[c] = "unborn" /\ spawned < NChildren
  BY <1>1, SupervisionAssumption DEF IInv, TypeOK, MainInv, Children
<1>3. sup \in [Children -> SupStates] /\ "check" \in SupStates
  BY DEF IInv, TypeOK, SupStates, Supervising
<1>4. sup' \in [Children -> SupStates] /\ sup'[c] = "check"
      /\ \A d \in Children \ {c} : sup'[d] = sup[d]
  BY <1>1, <1>2, <1>3
<1>5. Active' = Active \cup {c} /\ c \notin Active
  BY <1>2, <1>4 DEF Active, Supervising
<1>6. IsFiniteSet(Active)
  BY SubsetCount DEF Active
<1>7. Cardinality(Active') = managers'
  BY <1>1, <1>5, <1>6, FS_AddElement DEF IInv, Counting
<1>8. managers' \in 0..NChildren
  <2>1. Active' \in SUBSET Children
    BY DEF Active
  <2> QED BY <1>7, <2>1, SubsetCount
<1>9. Counting'
  BY <1>7 DEF Counting
<1>10. TypeOK'
  <2>1. spawned' \in 0..NChildren /\ main' \in MainStates
    BY <1>1, <1>2, SupervisionAssumption DEF MainStates, Children
  <2> QED BY <1>1, <1>4, <1>8, <2>1 DEF IInv, TypeOK
<1>11. MainInv'
  <2>1. \A d \in Children : sup'[d] = "unborn" <=> d > spawned'
    BY <1>1, <1>2, <1>4 DEF IInv, MainInv, Children
  <2>2. /\ main' # "bridge" /\ main' # "exited" /\ main' # "waiting"
        /\ main' = "running" => spawned' = NChildren
        /\ main' = "spawning" => spawned' < NChildren
    BY <1>1, <1>2, SupervisionAssumption
  <2> QED BY <2>1, <2>2 DEF MainInv
<1>12. ProcessInv' /\ ComponentsTruthful'
  <2>1. \A d \in Children : /\ sup'[d] \in Holding <=> sup[d] \in Holding
                            /\ sup'[d] = "backoff" <=> sup[d] = "backoff"
                            /\ sup'[d] = "started" <=> sup[d] = "started"
    BY <1>2, <1>4 DEF Holding
  <2> QED BY <1>1, <2>1 DEF IInv, ProcessInv, ComponentsTruthful
<1> QED BY <1>9, <1>10, <1>11, <1>12 DEF IInv

\* Every step keeps the invariant.
LEMMA StepInvariant == IInv /\ [Next]_vars => IInv'
<1> SUFFICES ASSUME IInv, [Next]_vars PROVE IInv'
  OBVIOUS
<1>1. CASE UNCHANGED childVars /\ UNCHANGED <<managers, spawned>> /\ MainInv'
           /\ main' \in MainStates /\ ctxDone' \in BOOLEAN /\ bridgeUp' \in BOOLEAN
  BY <1>1 DEF IInv, TypeOK, ProcessInv, Counting, Active, ComponentsTruthful, childVars
<1>2. CASE UNCHANGED <<childVars, managers, spawned, main>>
           /\ ctxDone' \in BOOLEAN /\ bridgeUp' \in BOOLEAN
  <2>1. MainInv'
    BY <1>2 DEF IInv, MainInv, Active, childVars
  <2>2. main' \in MainStates
    BY <1>2 DEF IInv, TypeOK
  <2> QED BY <1>1, <1>2, <2>1, <2>2
<1>3. CASE StartBridge
  <2>1. MainInv'
    BY <1>3, SupervisionAssumption DEF StartBridge, IInv, MainInv, Active, childVars
  <2>2. main' \in MainStates /\ bridgeUp' \in BOOLEAN /\ ctxDone' \in BOOLEAN
    BY <1>3, Zenon DEF StartBridge, IInv, TypeOK, MainStates
  <2> QED BY <1>1, <1>3, <2>1, <2>2 DEF StartBridge
<1>4. CASE BridgeFailsToStart
  <2>1. spawned = 0 /\ \A c \in Children : sup[c] = "unborn"
    BY <1>4 DEF BridgeFailsToStart, IInv, MainInv, Children
  <2>2. Active' = {}
    BY <1>4, <2>1 DEF BridgeFailsToStart, Active, Supervising, childVars
  <2>3. MainInv'
    BY <1>4, <2>2 DEF BridgeFailsToStart, IInv, MainInv, childVars
  <2>4. main' \in MainStates /\ bridgeUp' \in BOOLEAN /\ ctxDone' \in BOOLEAN
    BY <1>4 DEF BridgeFailsToStart, IInv, TypeOK, MainStates
  <2> QED BY <1>1, <1>4, <2>3, <2>4 DEF BridgeFailsToStart
<1>5. CASE Spawn
  BY <1>5, SpawnPreserves
<1>6. CASE ShutdownRequested
  <2>1. MainInv'
    BY <1>6 DEF ShutdownRequested, IInv, MainInv, Active, childVars
  <2>2. main' \in MainStates /\ bridgeUp' \in BOOLEAN /\ ctxDone' \in BOOLEAN
    BY <1>6 DEF ShutdownRequested, IInv, TypeOK, MainStates
  <2> QED BY <1>1, <1>6, <2>1, <2>2 DEF ShutdownRequested
<1>7. CASE Exit
  <2>1. IsFiniteSet(Active) /\ Cardinality(Active) = 0
    BY <1>7, SubsetCount DEF Exit, IInv, Counting, Active
  <2>2. Active = {}
    BY <2>1, FS_EmptySet
  <2>3. Active' = {}
    BY <1>7, <2>2 DEF Exit, Active, childVars
  <2>4. MainInv'
    BY <1>7, <2>3 DEF Exit, IInv, MainInv, childVars
  <2>5. main' \in MainStates /\ bridgeUp' \in BOOLEAN /\ ctxDone' \in BOOLEAN
    BY <1>7 DEF Exit, IInv, TypeOK, MainStates
  <2> QED BY <1>1, <1>7, <2>4, <2>5 DEF Exit
<1>8. CASE BridgeStops
  <2>1. ctxDone' \in BOOLEAN /\ bridgeUp' \in BOOLEAN
    BY <1>8, Zenon DEF BridgeStops, IInv, TypeOK
  <2> QED BY <1>2, <1>8, <2>1 DEF BridgeStops
<1>9. CASE Signal
  <2>1. ctxDone' \in BOOLEAN /\ bridgeUp' \in BOOLEAN
    BY <1>9, Zenon DEF Signal, mainVars, IInv, TypeOK
  <2> QED BY <1>2, <1>9, <2>1 DEF Signal, mainVars
<1>10. CASE Done \/ UNCHANGED vars
  <2>1. ctxDone' \in BOOLEAN /\ bridgeUp' \in BOOLEAN
    BY <1>10 DEF Done, vars, mainVars, IInv, TypeOK
  <2> QED BY <1>2, <1>10, <2>1 DEF Done, vars, mainVars
<1>11. ASSUME NEW c \in Children, Supervise(c) \/ ChildExits(c) PROVE IInv'
  BY <1>11, ChildPreserves
<1> QED BY <1>3, <1>4, <1>5, <1>6, <1>7, <1>8, <1>9, <1>10, <1>11 DEF Next, MainStep

\* The inductive invariant holds of every behaviour.
LEMMA Invariance == Spec => []IInv
  BY InitInvariant, StepInvariant, PTL DEF Spec
-----------------------------------------------------------------------------
(***************************************************************************)
(* Type correctness.  In particular the WaitGroup counter never goes below *)
(* zero, where sync.WaitGroup would panic.                                 *)
(***************************************************************************)
THEOREM TypeCorrect == Spec => []TypeOK
  BY Invariance, PTL DEF IInv

(***************************************************************************)
(* No child ever runs twice, whatever the number of children and however   *)
(* exits, start failures, restarts and the shutdown interleave.            *)
(***************************************************************************)
THEOREM SingleInstance == Spec => []OneInstance
<1>1. IInv => OneInstance
  <2> SUFFICES ASSUME IInv, NEW c \in Children PROVE alive[c] <= 1
    BY DEF OneInstance
  <2> QED BY DEF IInv, ProcessInv
<1> QED BY <1>1, Invariance, PTL

(***************************************************************************)
(* When main has returned no child runs and no supervisor is left that     *)
(* could start one.                                                        *)
(***************************************************************************)
THEOREM CleanExit == Spec => []NoOrphans
<1>1. IInv => NoOrphans
  <2> SUFFICES ASSUME IInv, main = "exited", NEW c \in Children
               PROVE  alive[c] = 0 /\ sup[c] \in {"unborn", "returned"}
    BY DEF NoOrphans
  <2>1. c \notin Active
    BY DEF IInv, MainInv
  <2>2. sup[c] \in {"unborn", "returned"}
    BY <2>1 DEF Active, IInv, TypeOK, SupStates
  <2>3. sup[c] \notin Holding
    BY <2>2 DEF Holding
  <2> QED BY <2>2, <2>3 DEF IInv, ProcessInv
<1> QED BY <1>1, Invariance, PTL

(***************************************************************************)
(* The component state that the health endpoints and metrics are fed is    *)
(* the supervisor's own.                                                   *)
(***************************************************************************)
THEOREM TruthfulComponents == Spec => []ComponentsTruthful
  BY Invariance, PTL DEF IInv
-----------------------------------------------------------------------------
\* What main knows of the bridge and of the context where it waits or exits.
MainKnows ==
    /\ main = "bridge" => ~bridgeUp
    /\ main = "waiting" => ctxDone

\* It holds throughout.
LEMMA MainKnowsInvariance == Spec => []MainKnows
<1>1. Init => MainKnows
  BY DEF Init, MainKnows
<1>2. MainKnows /\ [Next]_vars => MainKnows'
  <2> SUFFICES ASSUME MainKnows, [Next]_vars PROVE MainKnows'
    OBVIOUS
  <2> USE DEF MainKnows
  <2>1. CASE MainStep
    BY <2>1 DEF MainStep, StartBridge, BridgeFailsToStart, Spawn, ShutdownRequested, Exit
  <2>2. CASE BridgeStops \/ Signal
    BY <2>2 DEF BridgeStops, Signal, mainVars
  <2>3. ASSUME NEW c \in Children, Supervise(c) \/ ChildExits(c) PROVE MainKnows'
    BY <2>3 DEF Supervise, ChildExits, Check, Start, MarkUp, StartFails, TakeExit, Terminate, Kill,
       Reap, Schedule, TimerFires, TimerStopped, mainVars
  <2>4. CASE Done \/ UNCHANGED vars
    BY <2>4 DEF Done, vars, mainVars
  <2> QED BY <2>1, <2>2, <2>3, <2>4 DEF Next
<1> QED BY <1>1, <1>2, PTL DEF Spec

\* A step that changes nothing a reader of the component state sees.
LEMMA Unseen ==
    ASSUME UNCHANGED <<main, ctxDone, bridgeUp, alive, compUp>>,
           \A c \in Children : sup'[c] = "started" <=> sup[c] = "started"
    PROVE  UNCHANGED Abstract!vars
<1>1. [c \in Children |-> sup'[c] = "started"] = [c \in Children |-> sup[c] = "started"]
  BY Zenon
<1> QED BY <1>1 DEF Abstract!vars, Abstract!children, Bridge

\* Which components are to be marked, as Components sees it, after an update.
LEMMA UnmarkedUpdate ==
    ASSUME NEW c \in Children, NEW b \in BOOLEAN,
           \A d \in Children \ {c} : sup'[d] = sup[d],
           b <=> sup'[c] = "started"
    PROVE  [d \in Children |-> sup'[d] = "started"]
               = [[d \in Children |-> sup[d] = "started"] EXCEPT ![c] = b]
<1>1. \A d \in Children \ {c} : (sup'[d] = "started") = (sup[d] = "started")
  BY Zenon
<1>2. (sup'[c] = "started") = b
  BY Zenon
<1> QED BY <1>1, <1>2, Zenon

\* Which children run, as Components sees it, before and after an update.
LEMMA RunningUpdate ==
    ASSUME NEW c \in Children, NEW b \in BOOLEAN,
           \A d \in Children \ {c} : alive'[d] = alive[d],
           b <=> alive'[c] > 0
    PROVE  [d \in Children |-> alive'[d] > 0]
               = [[d \in Children |-> alive[d] > 0] EXCEPT ![c] = b]
<1>1. \A d \in Children \ {c} : (alive'[d] > 0) = (alive[d] > 0)
  BY Zenon
<1>2. (alive'[c] > 0) = b
  BY SMT
<1> QED BY <1>1, <1>2, Zenon

\* A child without a process is not running.
LEMMA NotRunning ==
    ASSUME NEW c \in Children, alive[c] = 0
    PROVE  ~[d \in Children |-> alive[d] > 0][c]
<1>1. ~(alive[c] > 0)
  OBVIOUS
<1> QED BY <1>1, Zenon

\* A step that leaves the supervisors alone changes no child of Components.
LEMMA ChildrenUnseen ==
    ASSUME UNCHANGED childVars
    PROVE  UNCHANGED Abstract!children
  BY DEF childVars, Abstract!children

\* A step of main, of the bridge or of the environment is one of Components.
LEMMA MainStepRefines ==
    ASSUME IInv, MainKnows, MainStep \/ BridgeStops \/ Signal
    PROVE  [Abstract!Next]_(Abstract!vars)
<1>1. CASE StartBridge
  <2>1. Abstract!BridgeStarts
    BY <1>1, ChildrenUnseen DEF StartBridge, Abstract!BridgeStarts, Bridge
  <2> QED BY <2>1 DEF Abstract!Next
<1>2. CASE BridgeFailsToStart
  <2>1. Abstract!BridgeFailsToStart
    BY <1>2, ChildrenUnseen
    DEF BridgeFailsToStart, MainKnows, Abstract!BridgeFailsToStart, Bridge
  <2> QED BY <2>1 DEF Abstract!Next
<1>3. CASE Spawn \/ ShutdownRequested
  <2>1. /\ main \notin {"bridge", "exited"} /\ main' \notin {"bridge", "exited"}
        /\ UNCHANGED <<ctxDone, bridgeUp, alive, compUp>>
    BY <1>3 DEF Spawn, ShutdownRequested, childVars
  <2>2. \A c \in Children : sup'[c] = "started" <=> sup[c] = "started"
    <3>1. CASE ShutdownRequested
      BY <3>1 DEF ShutdownRequested, childVars
    <3>2. CASE Spawn
      <4>1. sup[spawned + 1] # "started" /\ sup' = [sup EXCEPT ![spawned + 1] = "check"]
        BY <3>2, SupervisionAssumption DEF Spawn, IInv, TypeOK, MainInv, Children
      <4> QED BY <4>1 DEF IInv, TypeOK
    <3> QED BY <1>3, <3>1, <3>2
  <2>3. [c \in Children |-> sup'[c] = "started"] = [c \in Children |-> sup[c] = "started"]
    BY <2>2, Zenon
  <2> QED BY <2>1, <2>3 DEF Abstract!vars, Abstract!children, Bridge
<1>4. CASE Exit
  <2>1. \A c \in Children : alive[c] = 0 /\ ~compUp[c] /\ sup[c] # "started"
    <3>1. IInv'
      BY <1>4, StepInvariant DEF Next, MainStep
    <3>2. Active' = {}
      BY <1>4, <3>1 DEF Exit, IInv, MainInv
    <3>3. \A c \in Children : sup[c] \notin Supervising
      BY <1>4, <3>2 DEF Exit, Active, childVars
    <3>4. \A c \in Children : sup[c] \notin Holding
      BY <3>3 DEF Holding, Supervising
    <3> QED BY <3>4 DEF IInv, ProcessInv, ComponentsTruthful, Holding
  <2>2. \A c \in Abstract!Children : /\ ~[d \in Children |-> alive[d] > 0][c]
                                     /\ ~[d \in Children |-> sup[d] = "started"][c]
                                     /\ ~compUp[c]
    BY <2>1, NotRunning, Zenon DEF Abstract!Children, Children
  <2>3. Abstract!Exits
    BY <1>4, <2>2, ChildrenUnseen, Zenon DEF Exit, MainKnows, Abstract!Exits, Bridge
  <2> QED BY <2>3 DEF Abstract!Next
<1>5. CASE BridgeStops
  <2>1. Abstract!BridgeStops
    BY <1>5, ChildrenUnseen DEF BridgeStops, MainKnows, Abstract!BridgeStops, Bridge
  <2> QED BY <2>1 DEF Abstract!Next
<1>6. CASE Signal
  <2>1. Abstract!Signal
    BY <1>6, ChildrenUnseen DEF Signal, Abstract!Signal, Bridge, mainVars
  <2> QED BY <2>1 DEF Abstract!Next
<1> QED BY <1>1, <1>2, <1>3, <1>4, <1>5, <1>6 DEF MainStep

\* A step of a supervisor or the end of its process is one of Components.
LEMMA ChildStepRefines ==
    ASSUME IInv, NEW c \in Children, Supervise(c) \/ ChildExits(c)
    PROVE  [Abstract!Next]_(Abstract!vars)
<1>0. /\ sup \in [Children -> SupStates] /\ compUp \in [Children -> BOOLEAN]
      /\ alive \in [Children -> Nat]
  BY DEF IInv, TypeOK
<1>1. CASE Check(c) \/ Terminate(c) \/ Kill(c) \/ TimerFires(c) \/ TimerStopped(c)
  <2>1. \A d \in Children : sup'[d] = "started" <=> sup[d] = "started"
    BY <1>0, <1>1 DEF Check, Terminate, Kill, TimerFires, TimerStopped, Goto, Return
  <2> QED BY <1>1, <2>1, Unseen DEF Check, Terminate, Kill, TimerFires, TimerStopped, mainVars
<1>2. CASE StartFails(c) \/ Schedule(c)
  <2>1. sup[c] \notin Holding /\ compUp' = [compUp EXCEPT ![c] = FALSE]
    BY <1>2 DEF StartFails, Schedule, Holding
  <2>2. compUp[c] = FALSE
    BY <1>0, <2>1 DEF IInv, ComponentsTruthful
  <2>3. compUp' = compUp
    BY <1>0, <2>1, <2>2
  <2>4. \A d \in Children : sup'[d] = "started" <=> sup[d] = "started"
    BY <1>0, <1>2 DEF StartFails, Schedule, Goto
  <2> QED BY <1>2, <2>3, <2>4, Unseen DEF StartFails, Schedule, mainVars
<1>3. CASE Start(c)
  <2>1. sup[c] \in Supervising /\ sup[c] \notin Holding /\ sup[c] # "started"
    BY <1>3 DEF Start, Supervising, Holding
  <2>2. main # "exited"
    BY <2>1 DEF IInv, MainInv, Active
  <2>3. main # "bridge"
    BY <1>3 DEF Start, IInv, MainInv, Children
  <2>4. alive[c] = 0 /\ compUp[c] = FALSE
    BY <1>0, <2>1 DEF IInv, ProcessInv, ComponentsTruthful
  <2>5. [d \in Children |-> alive'[d] > 0]
            = [[d \in Children |-> alive[d] > 0] EXCEPT ![c] = TRUE]
    <3>1. (\A d \in Children \ {c} : alive'[d] = alive[d]) /\ alive'[c] > 0
      BY <1>0, <1>3, <2>4 DEF Start
    <3> QED BY <3>1, RunningUpdate, Zenon
  <2>6. [d \in Children |-> sup'[d] = "started"]
            = [[d \in Children |-> sup[d] = "started"] EXCEPT ![c] = TRUE]
    <3>1. (\A d \in Children \ {c} : sup'[d] = sup[d]) /\ sup'[c] = "started"
      BY <1>0, <1>3 DEF Start, Goto
    <3> QED BY <3>1, UnmarkedUpdate, Zenon
  <2>7. ~[d \in Children |-> sup[d] = "started"][c]
    BY <2>1, Zenon
  <2>8. Abstract!Starts(c)
    BY <1>3, <2>2, <2>3, <2>4, <2>5, <2>6, <2>7, NotRunning, Zenon
    DEF Start, Abstract!Starts, Bridge, mainVars
  <2> QED BY <2>8 DEF Abstract!Next, Abstract!Children, Children
<1>4. CASE MarkUp(c)
  <2>1. [d \in Children |-> sup'[d] = "started"]
            = [[d \in Children |-> sup[d] = "started"] EXCEPT ![c] = FALSE]
    <3>1. (\A d \in Children \ {c} : sup'[d] = sup[d]) /\ sup'[c] # "started"
      BY <1>0, <1>4 DEF MarkUp, Goto
    <3> QED BY <3>1, UnmarkedUpdate, Zenon
  <2>2. [d \in Children |-> sup[d] = "started"][c]
    BY <1>4, Zenon DEF MarkUp
  <2>3. Abstract!MarksUp(c)
    BY <1>4, <2>1, <2>2, Zenon DEF MarkUp, Abstract!MarksUp, Bridge, mainVars
  <2> QED BY <2>3 DEF Abstract!Next, Abstract!Children, Children
<1>5. CASE TakeExit(c) \/ Reap(c)
  <2>1. /\ sup[c] \in Holding \ {"started"} /\ waited[c]
        /\ compUp' = [compUp EXCEPT ![c] = FALSE]
    BY <1>5 DEF TakeExit, Reap, Holding
  <2>2. compUp[c] /\ alive[c] = 0
    BY <2>1 DEF IInv, ProcessInv, ComponentsTruthful
  <2>3. UNCHANGED <<main, ctxDone, bridgeUp, alive>>
    BY <1>5 DEF TakeExit, Reap, mainVars
  <2>4. \A d \in Children : (sup'[d] = "started") = (sup[d] = "started")
    BY <1>0, <1>5 DEF TakeExit, Reap, Goto, Return
  <2>5. [d \in Children |-> sup'[d] = "started"] = [d \in Children |-> sup[d] = "started"]
    BY <2>4, Zenon
  <2>6. Abstract!EndIsSeen(c)
    BY <2>1, <2>2, <2>3, <2>5, NotRunning, Zenon DEF Abstract!EndIsSeen, Bridge
  <2> QED BY <2>6 DEF Abstract!Next, Abstract!Children, Children
<1>6. CASE ChildExits(c)
  <2>1. alive[c] = 1
    BY <1>0, <1>6 DEF ChildExits, IInv, ProcessInv
  <2>2. [d \in Children |-> alive'[d] > 0]
            = [[d \in Children |-> alive[d] > 0] EXCEPT ![c] = FALSE]
    <3>1. (\A d \in Children \ {c} : alive'[d] = alive[d]) /\ ~(alive'[c] > 0)
      BY <1>0, <1>6, <2>1 DEF ChildExits
    <3> QED BY <3>1, RunningUpdate, Zenon
  <2>3. Abstract!Ends(c)
    BY <1>6, <2>1, <2>2 DEF ChildExits, Abstract!Ends, Bridge, mainVars
  <2> QED BY <2>3 DEF Abstract!Next, Abstract!Children, Children
<1> QED BY <1>1, <1>2, <1>3, <1>4, <1>5, <1>6 DEF Supervise

(***************************************************************************)
(* The entrypoint implements the specification of the component state that *)
(* module Health is built on, for any number of children: a component is   *)
(* marked Up once after each start of its process, even one that ended at  *)
(* once, and down when its end was seen, and main returns only when all of *)
(* them are down.                                                          *)
(***************************************************************************)
THEOREM Refinement == Spec => ImplementsComponents
<1>1. Init => Abstract!Init
  <2> SUFFICES ASSUME Init PROVE Abstract!Init
    OBVIOUS
  <2>1. \A c \in Children : (alive[c] > 0) = FALSE
    BY DEF Init
  <2>2. [c \in Children |-> alive[c] > 0] = [c \in Children |-> FALSE]
    BY <2>1, Zenon
  <2>3. main # "exited" /\ Bridge = "starting"
    BY DEF Init, Bridge
  <2>4. [c \in Children |-> sup[c] = "started"] = [c \in Children |-> FALSE]
    <3>1. \A c \in Children : (sup[c] = "started") = FALSE
      BY DEF Init
    <3> QED BY <3>1, Zenon
  <2> QED BY <2>2, <2>3, <2>4, Zenon DEF Init, Abstract!Init, Abstract!Children, Children
<1>2. IInv /\ MainKnows /\ [Next]_vars => [Abstract!Next]_(Abstract!vars)
  <2>1. ASSUME UNCHANGED vars PROVE UNCHANGED Abstract!vars
    BY <2>1, Unseen DEF vars, mainVars, childVars
  <2> QED BY <2>1, MainStepRefines, ChildStepRefines DEF Next, Done
<1> QED BY <1>1, <1>2, Invariance, MainKnowsInvariance, PTL
    DEF Spec, ImplementsComponents, Abstract!Spec
-----------------------------------------------------------------------------
(***************************************************************************)
(* The shutdown, as far as it is safety: how many steps a signal leaves to *)
(* each process, and that none of them waits for something that cannot     *)
(* come.  Fairness is then all that ShutdownCompletes needs.               *)
(***************************************************************************)
\* How far a supervisor is from its return, once the context has ended.
Distance(where) ==
    CASE where = "returned" -> 0
      [] where = "check"    -> 1
      [] where = "backoff"  -> 2
      [] where = "schedule" -> 3
      [] where = "killed"   -> 4
      [] where = "grace"    -> 5
      [] where = "watch"    -> 6
      [] where = "started"  -> 7
      [] where = "start"    -> 8
      [] where = "unborn"   -> 9

\* The steps that a child, its process included, has left at most.
ChildSteps(c) == 2 * Distance(sup[c]) + alive[c]

\* The steps that main has left at most.
MainSteps ==
    CASE main = "bridge"   -> NChildren + 3
      [] main = "spawning" -> (NChildren - spawned) + 2
      [] main = "running"  -> 2
      [] main = "waiting"  -> 1
      [] main = "exited"   -> 0

\* After a signal a step of main or of a child uses up one of those that the
\* process has left, and no step gives any to another.
Winding ==
    ctxDone =>
        /\ ctxDone'
        /\ MainSteps' <= MainSteps
        /\ MainStep => MainSteps' < MainSteps
        /\ \A c \in Children :
               /\ ChildSteps(c)' <= ChildSteps(c)
               /\ Supervise(c) \/ ChildExits(c) => ChildSteps(c)' < ChildSteps(c)

\* The numbers of steps are natural numbers, below bounds that do not depend
\* on the state.
StepsLeft ==
    /\ MainSteps \in 0..NChildren + 3
    /\ \A c \in Children : ChildSteps(c) \in 0..19

\* The bounds hold wherever the invariant does.
LEMMA StepsBounded ==
    ASSUME IInv
    PROVE  StepsLeft
<1>1. MainSteps \in 0..NChildren + 3
  BY SupervisionAssumption DEF IInv, TypeOK, MainStates, MainSteps
<1>2. ASSUME NEW c \in Children PROVE ChildSteps(c) \in 0..19
  <2>1. sup[c] \in SupStates /\ alive[c] \in 0..1
    BY DEF IInv, TypeOK, ProcessInv
  <2>2. Distance(sup[c]) \in 0..9
    BY <2>1 DEF SupStates, Supervising, Distance
  <2> QED BY <2>1, <2>2 DEF ChildSteps
<1> QED BY <1>1, <1>2 DEF StepsLeft

\* A step of a child after the signal brings it nearer to its end.
LEMMA ChildWinds ==
    ASSUME IInv, ctxDone, NEW c \in Children, Supervise(c) \/ ChildExits(c)
    PROVE  ChildSteps(c)' < ChildSteps(c)
<1>1. /\ sup \in [Children -> SupStates] /\ alive \in [Children -> Nat]
      /\ alive[c] \in 0..1
  BY DEF IInv, TypeOK, ProcessInv
<1>2. CASE Start(c)
  <2>1. sup[c] = "start" /\ sup'[c] = "started" /\ alive'[c] = alive[c] + 1
    BY <1>1, <1>2 DEF Start, Goto
  <2> QED BY <1>1, <2>1 DEF ChildSteps, Distance
<1>3. CASE ChildExits(c)
  <2>1. sup' = sup /\ alive'[c] = alive[c] - 1 /\ sup[c] \in SupStates
    BY <1>1, <1>3 DEF ChildExits
  <2>2. Distance(sup[c]) \in 0..9
    BY <2>1 DEF SupStates, Supervising, Distance
  <2> QED BY <1>1, <2>1, <2>2 DEF ChildSteps
<1>4. CASE Supervise(c) /\ ~Start(c)
  <2>1. alive' = alive
    BY <1>4 DEF Supervise, Check, MarkUp, StartFails, TakeExit, Terminate, Kill, Reap, Schedule,
       TimerFires, TimerStopped
  <2>2. \/ sup[c] = "check"    /\ sup'[c] = "returned"
        \/ sup[c] = "start"    /\ sup'[c] = "schedule"
        \/ sup[c] = "started"  /\ sup'[c] = "watch"
        \/ sup[c] = "watch"    /\ sup'[c] \in {"returned", "grace"}
        \/ sup[c] = "grace"    /\ sup'[c] \in {"returned", "killed"}
        \/ sup[c] = "killed"   /\ sup'[c] = "returned"
        \/ sup[c] = "schedule" /\ sup'[c] = "backoff"
        \/ sup[c] = "backoff"  /\ sup'[c] \in {"returned", "check"}
    BY <1>1, <1>4 DEF Supervise, Check, MarkUp, StartFails, TakeExit, Terminate, Kill, Reap,
       Schedule, TimerFires, TimerStopped, Goto, Return
  <2>3. Distance(sup'[c]) \in 0..9 /\ Distance(sup[c]) \in 0..9
        /\ Distance(sup'[c]) < Distance(sup[c])
    BY <2>2 DEF Distance
  <2> QED BY <1>1, <2>1, <2>3 DEF ChildSteps
<1> QED BY <1>2, <1>3, <1>4

\* A step of main brings it nearer to its end and gives no child a step.
LEMMA MainWinds ==
    ASSUME IInv, MainStep
    PROVE  /\ MainSteps' < MainSteps
           /\ \A c \in Children : ChildSteps(c)' <= ChildSteps(c)
<1>1. spawned \in 0..NChildren /\ NChildren \in Nat
  BY SupervisionAssumption DEF IInv, TypeOK
<1>2. CASE Spawn
  <2>1. /\ main = "spawning" /\ spawned < NChildren /\ spawned' = spawned + 1
        /\ main' = (IF spawned + 1 = NChildren THEN "running" ELSE "spawning")
        /\ sup' = [sup EXCEPT ![spawned + 1] = "check"] /\ alive' = alive
    BY <1>2 DEF Spawn, IInv, MainInv
  <2>2. MainSteps' < MainSteps
    BY <1>1, <2>1 DEF MainSteps
  <2>3. ASSUME NEW c \in Children PROVE ChildSteps(c)' <= ChildSteps(c)
    <3>1. sup \in [Children -> SupStates] /\ alive[c] \in Nat
      BY DEF IInv, TypeOK
    <3>2. Distance(sup[c]) \in 0..9
      BY <3>1 DEF SupStates, Supervising, Distance
    <3>3. CASE c = spawned + 1
      <4>1. sup[c] = "unborn" /\ sup'[c] = "check"
        BY <1>1, <2>1, <3>1, <3>3 DEF IInv, MainInv, Children
      <4> QED BY <2>1, <3>1, <4>1 DEF ChildSteps, Distance
    <3>4. CASE c # spawned + 1
      <4>1. sup'[c] = sup[c]
        BY <2>1, <3>1, <3>4
      <4> QED BY <2>1, <3>1, <3>2, <4>1 DEF ChildSteps
    <3> QED BY <3>3, <3>4
  <2> QED BY <2>2, <2>3
<1>3. CASE StartBridge \/ BridgeFailsToStart \/ ShutdownRequested \/ Exit
  <2>1. MainSteps' < MainSteps
    BY <1>1, <1>3 DEF StartBridge, BridgeFailsToStart, ShutdownRequested, Exit, MainSteps
  <2>2. UNCHANGED <<sup, alive>>
    BY <1>3 DEF StartBridge, BridgeFailsToStart, ShutdownRequested, Exit, childVars
  <2>3. \A c \in Children : ChildSteps(c) \in 0..19 /\ ChildSteps(c)' = ChildSteps(c)
    BY <2>2, StepsBounded DEF ChildSteps, StepsLeft
  <2> QED BY <2>1, <2>3
<1> QED BY <1>2, <1>3 DEF MainStep

(***************************************************************************)
(* A shutdown is bounded.  After a signal main takes at most NChildren + 3 *)
(* steps and each child with its process at most 19, whatever it was doing *)
(* and however the children behave: no restart, retry or new wait can      *)
(* prolong it.                                                             *)
(***************************************************************************)
THEOREM ShutdownIsBounded == Spec => []StepsLeft /\ [][Winding]_vars
<1>1. IInv /\ StepsLeft /\ StepsLeft' /\ [Next]_vars => [Winding]_vars
  <2> SUFFICES ASSUME IInv, StepsLeft, StepsLeft', Next, ctxDone
               PROVE  /\ ctxDone'
                      /\ MainSteps' <= MainSteps
                      /\ MainStep => MainSteps' < MainSteps
                      /\ \A c \in Children :
                            /\ ChildSteps(c)' <= ChildSteps(c)
                            /\ Supervise(c) \/ ChildExits(c) =>
                                   ChildSteps(c)' < ChildSteps(c)
    BY DEF Winding
  <2>1. /\ MainSteps \in Int /\ MainSteps' \in Int
        /\ \A c \in Children : ChildSteps(c) \in Int /\ ChildSteps(c)' \in Int
    <3>1. MainSteps \in Int /\ \A c \in Children : ChildSteps(c) \in Int
      BY DEF StepsLeft
    <3>2. MainSteps' \in Int /\ \A c \in Children : ChildSteps(c)' \in Int
      BY DEF StepsLeft
    <3> QED BY <3>1, <3>2
  <2>2. ctxDone'
    BY DEF Next, MainStep, StartBridge, BridgeFailsToStart, Spawn, ShutdownRequested, Exit,
       BridgeStops, Signal, Supervise, ChildExits, Check, Start, MarkUp, StartFails, TakeExit,
       Terminate, Kill, Reap, Schedule, TimerFires, TimerStopped, Done, vars
  <2>3. MainStep => MainSteps' < MainSteps
    BY MainWinds
  <2>4. MainSteps' <= MainSteps
    <3>1. CASE MainStep
      BY <2>1, <2>3, <3>1
    <3>2. CASE ~MainStep
      <4>1. UNCHANGED <<main, spawned>>
        BY <3>2, SuperviseLocal DEF Next, BridgeStops, Signal, Done, vars, mainVars, IInv
      <4>2. MainSteps' = MainSteps
        BY <4>1 DEF MainSteps
      <4> QED BY <2>1, <4>2
    <3> QED BY <3>1, <3>2
  <2>5. ASSUME NEW c \in Children
        PROVE  /\ ChildSteps(c)' <= ChildSteps(c)
               /\ Supervise(c) \/ ChildExits(c) => ChildSteps(c)' < ChildSteps(c)
    <3>1. CASE Supervise(c) \/ ChildExits(c)
      BY <2>1, <3>1, ChildWinds
    <3>2. CASE ~(Supervise(c) \/ ChildExits(c)) /\ MainStep
      BY <3>2, MainWinds
    <3>3. CASE ~(Supervise(c) \/ ChildExits(c)) /\ ~MainStep
      <4>1. sup'[c] = sup[c] /\ alive'[c] = alive[c]
        <5>1. CASE BridgeStops \/ Signal \/ Done
          BY <5>1 DEF BridgeStops, Signal, Done, vars, childVars
        <5>2. ASSUME NEW d \in Children, Supervise(d) \/ ChildExits(d), d # c
              PROVE  sup'[c] = sup[c] /\ alive'[c] = alive[c]
          <6>1. /\ sup' = [sup EXCEPT ![d] = sup'[d]]
                /\ alive' = [alive EXCEPT ![d] = alive'[d]]
                /\ sup \in [Children -> SupStates] /\ alive \in [Children -> Nat]
            BY <5>2, SuperviseLocal DEF IInv, TypeOK
          <6> QED BY <5>2, <6>1
        <5> QED BY <3>3, <5>1, <5>2 DEF Next
      <4>2. ChildSteps(c)' = ChildSteps(c)
        BY <4>1 DEF ChildSteps
      <4> QED BY <2>1, <3>3, <4>2
    <3> QED BY <3>1, <3>2, <3>3
  <2> QED BY <2>2, <2>3, <2>4, <2>5
<1>2. IInv => StepsLeft
  BY StepsBounded
<1>3. Spec => []StepsLeft
  BY <1>2, Invariance, PTL
<1> QED BY <1>1, <1>3, Invariance, PTL DEF Spec

\* Main is at a statement that does not block, or the WaitGroup is at zero.
MainMoves ==
    main \in {"bridge", "spawning", "running"} \/ (main = "waiting" /\ managers = 0)

\* The supervisor is at a statement that does not block once the context has
\* ended, or the result it waits for is there, or the process it killed is.
ChildMoves(c) ==
    \/ sup[c] \in Supervising \ {"killed"}
    \/ sup[c] = "killed" /\ (waited[c] \/ alive[c] = 1)

(***************************************************************************)
(* A shutdown never gets stuck.  After a signal, and until main has        *)
(* returned, main can go on or a supervisor it waits for can, and every    *)
(* supervisor left can: one that killed its process waits for a process    *)
(* that runs and will die, or for a result that is already there.          *)
(***************************************************************************)
THEOREM ShutdownNeverStuck ==
    Spec => [](ctxDone /\ main # "exited" =>
                   /\ MainMoves \/ \E c \in Children : ChildMoves(c)
                   /\ \A c \in Active : ChildMoves(c))
<1>1. ASSUME IInv, main # "exited"
      PROVE  /\ MainMoves \/ \E c \in Children : ChildMoves(c)
             /\ \A c \in Active : ChildMoves(c)
  <2>1. ASSUME NEW c \in Active PROVE ChildMoves(c)
    <3>1. CASE sup[c] = "killed"
      BY <1>1, <3>1 DEF ChildMoves, Active, IInv, ProcessInv, Holding
    <3>2. CASE sup[c] # "killed"
      BY <3>2 DEF ChildMoves, Active
    <3> QED BY <3>1, <3>2
  <2>2. CASE Active # {}
    BY <2>1, <2>2 DEF Active
  <2>3. CASE Active = {}
    <3>1. managers = 0
      BY <1>1, <2>3, FS_EmptySet DEF IInv, Counting
    <3> QED BY <1>1, <2>1, <3>1 DEF MainMoves, IInv, TypeOK, MainStates
  <2> QED BY <2>1, <2>2, <2>3
<1> QED BY <1>1, Invariance, PTL

\* The supervisor owes its child a start, and after how many of its own steps
\* the start comes.
Owes(c) ==
    (sup[c] = "watch" /\ waited[c]) \/ sup[c] \in {"schedule", "backoff", "check"}
UntilStart(c) ==
    CASE sup[c] = "start"    -> 0
      [] sup[c] = "check"    -> 1
      [] sup[c] = "backoff"  -> 2
      [] sup[c] = "schedule" -> 3
      [] OTHER               -> 4

\* A debt is kept until it is paid, by anything but the end of the context,
\* and every step of the supervisor brings the start nearer.
DebtIsPaid ==
    \A c \in Children :
        Owes(c) /\ ~ctxDone =>
            /\ (Owes(c) \/ sup[c] = "start")'
            /\ UntilStart(c)' <= UntilStart(c)
            /\ Supervise(c) => UntilStart(c)' < UntilStart(c)

(***************************************************************************)
(* A child whose end was reported is at most four steps of its supervisor  *)
(* away from its next start, and nothing but a signal can come between.    *)
(***************************************************************************)
THEOREM RestartIsNear == Spec => [][DebtIsPaid]_vars
<1>1. IInv /\ [Next]_vars => [DebtIsPaid]_vars
  <2> SUFFICES ASSUME IInv, Next, NEW c \in Children, Owes(c), ~ctxDone
               PROVE  /\ (Owes(c) \/ sup[c] = "start")'
                      /\ UntilStart(c)' <= UntilStart(c)
                      /\ Supervise(c) => UntilStart(c)' < UntilStart(c)
    BY DEF DebtIsPaid
  <2>1. /\ sup \in [Children -> SupStates] /\ waited \in [Children -> BOOLEAN]
        /\ alive[c] = 0 /\ sup[c] \in {"watch", "schedule", "backoff", "check"}
    BY DEF Owes, IInv, TypeOK, ProcessInv, Holding
  <2>2. CASE Supervise(c)
    <3>1. \/ sup[c] = "watch"    /\ sup'[c] = "schedule"
          \/ sup[c] = "schedule" /\ sup'[c] = "backoff"
          \/ sup[c] = "backoff"  /\ sup'[c] = "check"
          \/ sup[c] = "check"    /\ sup'[c] = "start"
      BY <2>1, <2>2 DEF Supervise, Check, Start, MarkUp, StartFails, TakeExit, Terminate, Kill,
         Reap, Schedule, TimerFires, TimerStopped, Goto
    <3>2. UntilStart(c)' < UntilStart(c) /\ UntilStart(c)' <= UntilStart(c)
      BY <3>1 DEF UntilStart
    <3>3. (Owes(c) \/ sup[c] = "start")'
      BY <3>1 DEF Owes
    <3> QED BY <3>2, <3>3
  <2>3. CASE ~Supervise(c)
    <3>1. sup'[c] = sup[c] /\ waited'[c] = waited[c]
      <4>1. CASE BridgeStops \/ Signal \/ Done \/ (MainStep /\ ~Spawn)
        BY <4>1 DEF BridgeStops, Signal, Done, MainStep, StartBridge, BridgeFailsToStart,
           ShutdownRequested, Exit, vars, childVars
      <4>2. CASE Spawn
        <5>1. c # spawned + 1 /\ waited' = waited /\ sup' = [sup EXCEPT ![spawned + 1] = "check"]
          BY <2>1, <4>2 DEF Spawn, IInv, TypeOK, MainInv, Children
        <5> QED BY <2>1, <5>1
      <4>3. ASSUME NEW d \in Children, Supervise(d) \/ ChildExits(d), d # c
            PROVE  sup'[c] = sup[c] /\ waited'[c] = waited[c]
        <5>1. /\ sup' = [sup EXCEPT ![d] = sup'[d]]
              /\ waited' = [waited EXCEPT ![d] = waited'[d]]
          BY <4>3, SuperviseLocal DEF IInv
        <5> QED BY <2>1, <4>3, <5>1
      <4>4. ~ChildExits(c)
        BY <2>1 DEF ChildExits
      <4> QED BY <2>3, <4>1, <4>2, <4>3, <4>4 DEF Next, MainStep
    <3>2. UntilStart(c)' = UntilStart(c) /\ UntilStart(c) \in 0..4
      BY <3>1 DEF UntilStart
    <3>3. (Owes(c) \/ sup[c] = "start")'
      BY <3>1 DEF Owes
    <3> QED BY <2>3, <3>2, <3>3
  <2> QED BY <2>2, <2>3
<1> QED BY <1>1, Invariance, PTL DEF Spec
=============================================================================
