---------------------------- MODULE ExploreProofs ----------------------------
(***************************************************************************)
(* Proofs about the explore routine for every queue capacity, threshold,   *)
(* hold duration and set of readings: about ExploreLoop, and that the      *)
(* pipeline with the bundled rule table implements it.                     *)
(***************************************************************************)
EXTENDS RuleExplore, SequenceTheorems, TLAPS

-----------------------------------------------------------------------------
(* What Append and Tail do to the length, the items and the last item.       *)
LEMMA AppendFacts ==
  ASSUME NEW S, NEW q \in Seq(S), NEW e \in S
  PROVE  /\ Append(q, e) \in Seq(S)
         /\ Append(q, e) # <<>>
         /\ Len(Append(q, e)) = Len(q) + 1
         /\ Len(q) \in Nat
         /\ \A i \in 1 .. Len(q) : Append(q, e)[i] = q[i]
         /\ Append(q, e)[Len(q) + 1] = e
BY AppendProperties, LenProperties

LEMMA TailFacts ==
  ASSUME NEW S, NEW q \in Seq(S), q # <<>>
  PROVE  /\ Tail(q) \in Seq(S)
         /\ Head(q) \in S
         /\ Head(q) = q[1]
         /\ Len(q) \in Nat \ {0}
         /\ Len(Tail(q)) = Len(q) - 1
         /\ \A i \in 1 .. Len(q) - 1 : Tail(q)[i] = q[i + 1]
         /\ Tail(q) = <<>> <=> Len(q) = 1
<1>1. Len(q) \in Nat \ {0}
  BY LenProperties, EmptySeq
<1>2. Tail(q) \in Seq(S) /\ Len(Tail(q)) = Len(q) - 1
  BY HeadTailProperties
<1>3. Tail(q) = <<>> <=> Len(q) = 1
  <2>1. Tail(q) = <<>> <=> Len(Tail(q)) = 0
    BY <1>2, EmptySeq
  <2>2. Len(Tail(q)) = 0 <=> Len(q) = 1
    BY <1>1, <1>2
  <2> QED
    BY <2>1, <2>2
<1>4. Head(q) = q[1]
  OBVIOUS
<1> QED
  BY <1>1, <1>2, <1>3, <1>4, HeadTailProperties

(* _apply keeps the two flags Booleans and names the flags it changed.       *)
LEMMA ApplyType ==
  ASSUME worldState \in World!WorldState, NEW e \in Readings
  PROVE  /\ World!Apply(e) \in World!WorldState
         /\ World!Delta(e) \in SUBSET World!Fields
         /\ e.sensor \in Sensors
         /\ World!Apply(e) = [worldState EXCEPT ![World!FieldOf(e.sensor)] = World!Flag(e)]
         /\ World!Flag(e) \in BOOLEAN
<1>1. e.sensor \in Sensors
  BY ExploreAssumption
<1>2. World!FieldOf(e.sensor) \in World!Fields
  BY DEF World!FieldOf, World!Fields
<1>3. World!Flag(e) \in BOOLEAN
  BY DEF World!Flag, World!Near, World!Edge
<1>4. World!Apply(e) = [worldState EXCEPT ![World!FieldOf(e.sensor)] = World!Flag(e)]
  BY <1>1 DEF World!Apply, World!Tracked, Sensors
<1> QED
  BY <1>1, <1>2, <1>3, <1>4 DEF World!WorldState, World!Delta

LEMMA SelectType ==
  ASSUME NEW state
  PROVE  Planner!Select(state) \in Planner!Kinds
BY DEF Planner!Select, Planner!Kinds

(* What one _tick does to the planner and its queue: nothing is put and the  *)
(* kind stays, or the new kind is put and differs from the old one.          *)
LEMMA TickShape ==
  ASSUME TypeOK, NEW state, Len(qPlan) <= Capacity, Planner!Tick(state)
  PROVE  /\ lastKind' \in Planner!Kinds \cup {None}
         /\ holdLeft' \in 0 .. AvoidDuration
         /\ qPlan' \in Seq(Planner!Kinds)
         /\ Len(qPlan') <= Capacity + 1
         /\ \/ qPlan' = qPlan /\ lastKind' = lastKind
            \/ /\ lastKind' # lastKind
               /\ lastKind' \in Planner!Kinds
               /\ qPlan' = Append(qPlan, lastKind')
<1> USE DEF TypeOK
<1>1. CASE Planner!Committed(state)
  BY <1>1, ExploreAssumption DEF Planner!Committed
<1>2. CASE Planner!Reevaluate(state)
  <2>1. Planner!Select(state) \in Planner!Kinds
    BY SelectType
  <2>2. lastKind' = Planner!Select(state)
    BY <1>2 DEF Planner!Reevaluate
  <2>3. holdLeft' \in 0 .. AvoidDuration
    BY <1>2, ExploreAssumption DEF Planner!Reevaluate
  <2>4. CASE Planner!Select(state) = lastKind
    <3>1. qPlan' = qPlan
      BY <1>2, <2>4 DEF Planner!Reevaluate
    <3> QED
      BY <2>1, <2>2, <2>3, <2>4, <3>1, ExploreAssumption
  <2>5. CASE Planner!Select(state) # lastKind
    <3>1. qPlan' = Append(qPlan, Planner!Select(state))
      BY <1>2, <2>5 DEF Planner!Reevaluate
    <3>2. /\ qPlan' \in Seq(Planner!Kinds)
          /\ Len(qPlan') = Len(qPlan) + 1
          /\ Len(qPlan) \in Nat
      BY <2>1, <3>1, AppendFacts
    <3> QED
      BY <2>1, <2>2, <2>3, <2>5, <3>1, <3>2, ExploreAssumption
  <2> QED
    BY <2>4, <2>5
<1> QED
  BY <1>1, <1>2 DEF Planner!Tick

(* What one turn of the world model does to its queue: nothing, or it puts   *)
(* one update that carries the new state.                                    *)
LEMMA ReceiveEventShape ==
  ASSUME TypeOK, World!ReceiveEvent
  PROVE  /\ qPerception # <<>>
         /\ Head(qPerception) \in Readings
         /\ qPerception' = Tail(qPerception)
         /\ worldState' = World!Apply(Head(qPerception))
         /\ worldState' \in World!WorldState
         /\ emitted' \in BOOLEAN
         /\ qWorld' \in Seq(World!Update)
         /\ Len(qWorld') <= Capacity + 1
         /\ \/ emitted /\ emitted' /\ qWorld' = qWorld /\ worldState' = worldState
            \/ \E u \in World!Update :
                 emitted' /\ qWorld' = Append(qWorld, u) /\ u.state = worldState'
<1> USE DEF TypeOK
<1> DEFINE event == Head(qPerception)
<1>1. qPerception # <<>> /\ Len(qWorld) <= Capacity /\ qPerception' = Tail(qPerception)
  BY DEF World!ReceiveEvent
<1>2. event \in Readings
  BY <1>1, TailFacts
<1>3. worldState' = World!Apply(event) /\ worldState' \in World!WorldState
  BY <1>2, ApplyType DEF World!ReceiveEvent
<1>4. CASE World!Suppress(event)
  <2>1. worldState' = worldState
    BY <1>2, <1>3, <1>4, ApplyType DEF World!Suppress, World!Delta, World!WorldState
  <2> QED
    BY <1>1, <1>2, <1>3, <1>4, <2>1, ExploreAssumption DEF World!Suppress
<1>5. CASE World!Emit(event)
  <2> DEFINE u == [state |-> World!Apply(event), delta |-> World!Delta(event)]
  <2>1. u \in World!Update
    BY <1>2, ApplyType DEF World!Update
  <2>2. qWorld' = Append(qWorld, u) /\ emitted' = TRUE
    BY <1>5 DEF World!Emit
  <2>3. /\ qWorld' \in Seq(World!Update)
        /\ Len(qWorld') = Len(qWorld) + 1
        /\ Len(qWorld) \in Nat
    BY <2>1, <2>2, AppendFacts
  <2> HIDE DEF u
  <2>4. u.state = worldState'
    BY <1>3 DEF u
  <2> QED
    BY <1>1, <1>2, <1>3, <2>1, <2>2, <2>3, <2>4, ExploreAssumption
<1> QED
  BY <1>4, <1>5 DEF World!ReceiveEvent

-----------------------------------------------------------------------------
LEMMA InitType == Init => TypeOK
<1> SUFFICES ASSUME Init
             PROVE  TypeOK
  OBVIOUS
<1>1. World!Clear \in World!WorldState
  BY DEF World!Clear, World!WorldState
<1>2. /\ qPerception \in Seq(Readings) /\ Len(qPerception) = 0
      /\ qWorld \in Seq(World!Update) /\ Len(qWorld) = 0
      /\ qPlan \in Seq(Planner!Kinds) /\ Len(qPlan) = 0
  BY EmptySeq DEF Init
<1>3. /\ worldState \in World!WorldState
      /\ emitted \in BOOLEAN
  BY <1>1 DEF Init, World!InitWorld
<1>4. /\ sensed \in [Sensors -> Readings \cup {None}]
      /\ lastPlan \in Planner!Kinds \cup {None}
  BY DEF Init
<1>5. /\ lastState \in World!WorldState \cup {None}
      /\ lastKind \in Planner!Kinds \cup {None}
      /\ holdLeft \in 0 .. AvoidDuration
      /\ manoeuvre \in 0 .. AvoidDuration
  BY ExploreAssumption DEF Init, Planner!InitPlanner
<1> QED
  BY <1>2, <1>3, <1>4, <1>5, ExploreAssumption DEF TypeOK

LEMMA NextType == TypeOK /\ [Next]_vars => TypeOK'
<1> SUFFICES ASSUME TypeOK, [Next]_vars
             PROVE  TypeOK'
  OBVIOUS
<1>1. ASSUME NEW event \in Readings, Poll(event)
      PROVE  TypeOK'
  <2>1. event.sensor \in Sensors
    BY ExploreAssumption
  <2>2. sensed' \in [Sensors -> Readings \cup {None}]
    BY <1>1, <2>1 DEF TypeOK, Poll
  <2>3. qPerception' \in Seq(Readings) /\ Len(qPerception') <= Capacity
    <3>1. /\ qPerception' \in Seq(Readings)
          /\ Len(qPerception') = Len(qPerception) + 1
          /\ Len(qPerception) \in Nat
      BY <1>1, AppendFacts DEF TypeOK, Poll
    <3> QED
      BY <1>1, <3>1, ExploreAssumption DEF Poll
  <2> QED
    BY <1>1, <2>2, <2>3 DEF TypeOK, Poll, worldVars, plannerVars
<1>2. CASE WorldStep
  <2>1. World!ReceiveEvent
    BY <1>2 DEF WorldStep
  <2>2. qPerception' \in Seq(Readings) /\ Len(qPerception') <= Capacity
    <3>1. qPerception # <<>> /\ qPerception' = Tail(qPerception)
      BY <2>1 DEF World!ReceiveEvent
    <3>2. /\ qPerception' \in Seq(Readings)
          /\ Len(qPerception') = Len(qPerception) - 1
          /\ Len(qPerception) \in Nat \ {0}
      BY <3>1, TailFacts DEF TypeOK
    <3> QED
      BY <3>2, ExploreAssumption DEF TypeOK
  <2> QED
    BY <1>2, <2>1, <2>2, ReceiveEventShape DEF TypeOK, WorldStep, plannerVars
<1>3. ASSUME manoeuvre \in 0 .. AvoidDuration, ManoeuvreStarts
      PROVE  manoeuvre' \in 0 .. AvoidDuration
  BY <1>3, ExploreAssumption DEF ManoeuvreStarts
<1>4. CASE PlannerReceive
  <2>1. Planner!ReceiveUpdate /\ ManoeuvreStarts
    BY <1>4 DEF PlannerReceive
  <2>2. qWorld # <<>> /\ Len(qPlan) <= Capacity /\ qWorld' = Tail(qWorld)
    BY <2>1 DEF Planner!ReceiveUpdate
  <2>3. /\ qWorld' \in Seq(World!Update)
        /\ Len(qWorld') = Len(qWorld) - 1
        /\ Len(qWorld) \in Nat \ {0}
        /\ Head(qWorld) \in World!Update
    BY <2>2, TailFacts DEF TypeOK
  <2>4. lastState' \in World!WorldState
    BY <2>1, <2>3 DEF Planner!ReceiveUpdate, World!Update
  <2>5. Planner!Tick(Head(qWorld).state)
    BY <2>1 DEF Planner!ReceiveUpdate
  <2> QED
    BY <1>3, <1>4, <2>1, <2>2, <2>3, <2>4, <2>5, TickShape, ExploreAssumption
       DEF TypeOK, PlannerReceive, worldVars
<1>5. CASE PlannerIdle
  <2>1. Planner!Tick(lastState) /\ Len(qPlan) <= Capacity /\ ManoeuvreStarts
    BY <1>5 DEF PlannerIdle, Planner!IdleTick
  <2> QED
    BY <1>3, <1>5, <2>1, TickShape DEF TypeOK, PlannerIdle, Planner!IdleTick, worldVars
<1>6. CASE TimePasses
  <2>1. holdLeft' \in 0 .. AvoidDuration /\ manoeuvre' \in 0 .. AvoidDuration
    BY <1>6, ExploreAssumption DEF TypeOK, TimePasses, Planner!TimePasses
  <2> QED
    BY <1>6, <2>1 DEF TypeOK, TimePasses, Planner!TimePasses, worldVars
<1>7. CASE Execute
  <2>1. /\ qPlan' \in Seq(Planner!Kinds)
        /\ Len(qPlan') = Len(qPlan) - 1
        /\ Len(qPlan) \in Nat \ {0}
        /\ Head(qPlan) \in Planner!Kinds
    BY <1>7, TailFacts DEF TypeOK, Execute
  <2> QED
    BY <1>7, <2>1, ExploreAssumption DEF TypeOK, Execute, worldVars, plannerVars
<1>8. CASE UNCHANGED vars
  BY <1>8 DEF TypeOK, vars, worldVars, plannerVars
<1> QED
  BY <1>1, <1>2, <1>4, <1>5, <1>6, <1>7, <1>8 DEF Next

(* Every layer's state and queue stays in its type and every queue within    *)
(* its bound, for every capacity, threshold and hold duration.               *)
THEOREM TypeCorrect == Spec => []TypeOK
BY InitType, NextType, PTL DEF Spec

-----------------------------------------------------------------------------
(* The inductive invariant.                                                  *)
IInv ==
  /\ TypeOK
  /\ SensedInOrder
  /\ PlannerCatchesUp
  /\ ActionCatchesUp
  /\ PlansAlternate
  /\ CruiseSeesClear
  /\ HoldAccounts

LEMMA InitInvariant == Init => IInv
<1> SUFFICES ASSUME Init
             PROVE  IInv
  OBVIOUS
<1>1. TypeOK
  BY InitType
<1>2. SensedInOrder
  <2>1. \A s \in Sensors : sensed[s] = None /\ World!FieldOf(s) \in World!Fields
    BY DEF Init, World!FieldOf, World!Fields
  <2>2. Len(qPerception) = 0
    BY EmptySeq DEF Init
  <2>3. \A s \in Sensors : Positions(s) = {}
    BY <2>2 DEF Positions
  <2> QED
    BY <2>1, <2>3 DEF SensedInOrder, Init, World!InitWorld, World!Clear
<1>3. PlannerCatchesUp
  BY DEF PlannerCatchesUp, Init, World!InitWorld, Planner!InitPlanner
<1>4. ActionCatchesUp
  BY DEF ActionCatchesUp, LastSent, Init, Planner!InitPlanner
<1>5. PlansAlternate
  BY EmptySeq DEF PlansAlternate, Init
<1>6. CruiseSeesClear /\ HoldAccounts
  BY ExploreAssumption DEF CruiseSeesClear, HoldAccounts, Init, Planner!InitPlanner
<1> QED
  BY <1>1, <1>2, <1>3, <1>4, <1>5, <1>6 DEF IInv

(* SensedInOrder depends on the perception queue, the flags and the history: *)
(* Poll adds an event behind all others, a world model turn takes the first. *)
LEMMA PollKeepsOrder ==
  ASSUME TypeOK, SensedInOrder, NEW event \in Readings, Poll(event)
  PROVE  SensedInOrder'
<1>1. event.sensor \in Sensors
  BY ExploreAssumption
<1>2. /\ Len(qPerception') = Len(qPerception) + 1
      /\ Len(qPerception) \in Nat
      /\ \A i \in 1 .. Len(qPerception) : qPerception'[i] = qPerception[i]
      /\ qPerception'[Len(qPerception) + 1] = event
  BY AppendFacts DEF TypeOK, Poll
<1>3. worldState' = worldState /\ sensed' = [sensed EXCEPT ![event.sensor] = event]
  BY DEF Poll, worldVars
<1> SUFFICES ASSUME NEW s \in Sensors
             PROVE  /\ \A i \in Positions(s)' :
                         (\A j \in Positions(s)' : j <= i) => qPerception'[i] = sensed'[s]
                    /\ Positions(s)' = {} =>
                         worldState'[World!FieldOf(s)]
                           = (sensed'[s] # None /\ World!Flag(sensed'[s]))
  BY DEF SensedInOrder, World!Flag, World!Near, World!Edge, World!FieldOf
<1>4. CASE s = event.sensor
  <2>1. Positions(s)' = Positions(s) \cup {Len(qPerception) + 1}
    BY <1>2, <1>4 DEF Positions
  <2>2. sensed'[s] = event
    BY <1>1, <1>3, <1>4 DEF TypeOK
  <2>3. \A i \in Positions(s)' :
          (\A j \in Positions(s)' : j <= i) => i = Len(qPerception) + 1
    BY <1>2, <2>1 DEF Positions
  <2> QED
    BY <1>2, <2>1, <2>2, <2>3
<1>5. CASE s # event.sensor
  <2>1. Positions(s)' = Positions(s)
    BY <1>2, <1>5 DEF Positions
  <2>2. sensed'[s] = sensed[s]
    BY <1>1, <1>3, <1>5 DEF TypeOK
  <2>3. \A i \in Positions(s) : qPerception'[i] = qPerception[i]
    BY <1>2 DEF Positions
  <2> QED
    BY <1>3, <2>1, <2>2, <2>3 DEF SensedInOrder
<1> QED
  BY <1>4, <1>5

(* A world model turn takes the first event and writes its flag.             *)
LEMMA WorldStepKeepsOrder ==
  ASSUME TypeOK, SensedInOrder, WorldStep
  PROVE  SensedInOrder'
<1> DEFINE event == Head(qPerception)
<1>1. World!ReceiveEvent /\ sensed' = sensed
  BY DEF WorldStep
<1>2. /\ qPerception # <<>> /\ event \in Readings
      /\ qPerception' = Tail(qPerception)
      /\ worldState' = World!Apply(event)
  BY <1>1, ReceiveEventShape
<1>3. /\ event = qPerception[1]
      /\ Len(qPerception) \in Nat \ {0}
      /\ Len(qPerception') = Len(qPerception) - 1
      /\ \A i \in 1 .. Len(qPerception) - 1 : qPerception'[i] = qPerception[i + 1]
  BY <1>2, TailFacts DEF TypeOK
<1>4. /\ event.sensor \in Sensors
      /\ worldState' = [worldState EXCEPT ![World!FieldOf(event.sensor)] = World!Flag(event)]
  BY <1>2, ApplyType DEF TypeOK
<1> HIDE DEF event
<1> SUFFICES ASSUME NEW s \in Sensors
             PROVE  /\ \A i \in Positions(s)' :
                         (\A j \in Positions(s)' : j <= i) => qPerception'[i] = sensed[s]
                    /\ Positions(s)' = {} =>
                         worldState'[World!FieldOf(s)]
                           = (sensed[s] # None /\ World!Flag(sensed[s]))
  BY <1>1 DEF SensedInOrder, World!Flag, World!Near, World!Edge, World!FieldOf
<1>5. Positions(s)' = {i \in 1 .. Len(qPerception) - 1 : qPerception[i + 1].sensor = s}
  BY <1>3 DEF Positions
<1>6. \A i \in 1 .. Len(qPerception) - 1 : i \in Positions(s)' <=> i + 1 \in Positions(s)
  BY <1>3, <1>5 DEF Positions
<1>7. ASSUME NEW i \in Positions(s)', \A j \in Positions(s)' : j <= i
      PROVE  qPerception'[i] = sensed[s]
  <2>1. i \in 1 .. Len(qPerception) - 1 /\ i + 1 \in Positions(s)
    BY <1>5, <1>6
  <2>2. ASSUME NEW j \in Positions(s)
        PROVE  j <= i + 1
    <3>1. j \in 1 .. Len(qPerception)
      BY DEF Positions
    <3>2. CASE j = 1
      BY <2>1, <3>2, <1>3
    <3>3. CASE j # 1
      <4>1. j - 1 \in 1 .. Len(qPerception) - 1 /\ (j - 1) + 1 = j
        BY <3>1, <3>3, <1>3
      <4>2. j - 1 \in Positions(s)'
        BY <4>1, <1>6
      <4> QED
        BY <1>7, <4>1, <4>2, <2>1
    <3> QED
      BY <3>2, <3>3
  <2>3. qPerception[i + 1] = sensed[s]
    BY <2>1, <2>2 DEF SensedInOrder
  <2> QED
    BY <1>3, <2>1, <2>3
<1>8. ASSUME Positions(s)' = {}
      PROVE  worldState'[World!FieldOf(s)] = (sensed[s] # None /\ World!Flag(sensed[s]))
  <2>1. \A j \in Positions(s) : j = 1
    <3> SUFFICES ASSUME NEW j \in Positions(s), j # 1
                 PROVE  FALSE
      OBVIOUS
    <3>1. j \in 1 .. Len(qPerception)
      BY DEF Positions
    <3>2. j - 1 \in 1 .. Len(qPerception) - 1 /\ (j - 1) + 1 = j
      BY <3>1, <1>3
    <3> QED
      BY <3>2, <1>6, <1>8
  <2>2. CASE s = event.sensor
    <3>1. 1 \in Positions(s)
      BY <1>3, <2>2 DEF Positions
    <3>2. event = sensed[s]
      BY <2>1, <3>1, <1>3 DEF SensedInOrder
    <3>3. event # None
      BY <1>2, ExploreAssumption
    <3>4. worldState'[World!FieldOf(s)] = World!Flag(event)
      BY <1>4, <2>2 DEF TypeOK, World!WorldState, World!FieldOf, World!Fields
    <3> QED
      BY <3>2, <3>3, <3>4 DEF World!Flag, World!Near, World!Edge
  <2>3. CASE s # event.sensor
    <3>1. Positions(s) = {}
      <4> SUFFICES ASSUME NEW j \in Positions(s)
                   PROVE  FALSE
        OBVIOUS
      <4> QED
        BY <2>1, <2>3, <1>3 DEF Positions
    <3>2. World!FieldOf(s) # World!FieldOf(event.sensor) /\ World!FieldOf(s) \in World!Fields
      BY <1>4, <2>3 DEF World!FieldOf, World!Fields, Sensors
    <3>3. worldState'[World!FieldOf(s)] = worldState[World!FieldOf(s)]
      BY <1>4, <3>2 DEF TypeOK, World!WorldState
    <3> QED
      BY <3>1, <3>3 DEF SensedInOrder
  <2> QED
    BY <2>2, <2>3
<1> QED
  BY <1>7, <1>8

-----------------------------------------------------------------------------
(* The world model's half of the update channel.                             *)
LEMMA WorldStepCatchesUp ==
  ASSUME TypeOK, PlannerCatchesUp, WorldStep
  PROVE  PlannerCatchesUp'
<1>1. World!ReceiveEvent /\ lastState' = lastState
  BY DEF WorldStep, plannerVars
<1>2. CASE emitted /\ emitted' /\ qWorld' = qWorld /\ worldState' = worldState
  BY <1>1, <1>2 DEF PlannerCatchesUp
<1>3. ASSUME NEW u \in World!Update,
             emitted', qWorld' = Append(qWorld, u), u.state = worldState'
      PROVE  PlannerCatchesUp'
  <2>1. /\ qWorld' # <<>>
        /\ Len(qWorld') = Len(qWorld) + 1
        /\ qWorld'[Len(qWorld) + 1] = u
    BY <1>3, AppendFacts DEF TypeOK
  <2> QED
    BY <1>3, <2>1 DEF PlannerCatchesUp
<1> QED
  BY <1>1, <1>2, <1>3, ReceiveEventShape

(* The planner's half: it keeps the state of the update it takes.            *)
LEMMA PlannerReceiveCatchesUp ==
  ASSUME TypeOK, PlannerCatchesUp, PlannerReceive
  PROVE  PlannerCatchesUp'
<1>1. /\ qWorld # <<>> /\ qWorld' = Tail(qWorld)
      /\ lastState' = Head(qWorld).state
      /\ worldState' = worldState /\ emitted' = emitted
  BY DEF PlannerReceive, Planner!ReceiveUpdate, worldVars
<1>2. /\ Head(qWorld) = qWorld[1]
      /\ Len(qWorld) \in Nat \ {0}
      /\ Len(qWorld') = Len(qWorld) - 1
      /\ \A i \in 1 .. Len(qWorld) - 1 : qWorld'[i] = qWorld[i + 1]
      /\ qWorld' = <<>> <=> Len(qWorld) = 1
  BY <1>1, TailFacts DEF TypeOK
<1>3. emitted /\ qWorld[Len(qWorld)].state = worldState
  BY <1>1 DEF PlannerCatchesUp, TypeOK
<1>4. CASE Len(qWorld) = 1
  BY <1>1, <1>2, <1>3, <1>4 DEF PlannerCatchesUp
<1>5. CASE Len(qWorld) # 1
  <2>1. qWorld'[Len(qWorld')] = qWorld[Len(qWorld)] /\ qWorld' # <<>>
    BY <1>2, <1>5
  <2> QED
    BY <1>1, <1>3, <2>1 DEF PlannerCatchesUp
<1> QED
  BY <1>4, <1>5

(* The plan channel under one _tick.                                         *)
LEMMA TickKeepsPlanChannel ==
  ASSUME TypeOK, ActionCatchesUp, PlansAlternate, lastPlan' = lastPlan,
         NEW state, Len(qPlan) <= Capacity, Planner!Tick(state)
  PROVE  ActionCatchesUp' /\ PlansAlternate'
<1>1. CASE qPlan' = qPlan /\ lastKind' = lastKind
  BY <1>1 DEF ActionCatchesUp, LastSent, PlansAlternate
<1>2. CASE /\ lastKind' # lastKind /\ lastKind' \in Planner!Kinds
           /\ qPlan' = Append(qPlan, lastKind')
  <2>1. /\ qPlan' # <<>>
        /\ Len(qPlan') = Len(qPlan) + 1
        /\ Len(qPlan) \in Nat
        /\ \A i \in 1 .. Len(qPlan) : qPlan'[i] = qPlan[i]
        /\ qPlan'[Len(qPlan) + 1] = lastKind'
    BY <1>2, AppendFacts DEF TypeOK
  <2>2. ActionCatchesUp'
    BY <2>1 DEF ActionCatchesUp, LastSent
  <2>3. CASE qPlan = <<>>
    <3>1. Len(qPlan) = 0
      BY <2>3, EmptySeq
    <3> QED
      BY <1>2, <2>1, <2>2, <2>3, <3>1 DEF ActionCatchesUp, LastSent, PlansAlternate
  <2>4. CASE qPlan # <<>>
    <3>1. Len(qPlan) # 0
      BY <2>4, EmptySeq DEF TypeOK
    <3>2. lastPlan' # qPlan'[1]
      BY <2>1, <2>4, <3>1 DEF PlansAlternate
    <3>3. qPlan[Len(qPlan)] = lastKind
      BY <2>4 DEF ActionCatchesUp, LastSent
    <3>4. \A i \in 1 .. Len(qPlan') - 1 : qPlan'[i] # qPlan'[i + 1]
      <4> SUFFICES ASSUME NEW i \in 1 .. Len(qPlan)
                   PROVE  qPlan'[i] # qPlan'[i + 1]
        BY <2>1
      <4>1. CASE i = Len(qPlan)
        BY <1>2, <2>1, <3>3, <4>1
      <4>2. CASE i # Len(qPlan)
        BY <2>1, <4>2 DEF PlansAlternate
      <4> QED
        BY <4>1, <4>2
    <3> QED
      BY <2>2, <3>2, <3>4 DEF PlansAlternate
  <2> QED
    BY <2>3, <2>4
<1> QED
  BY <1>1, <1>2, TickShape

(* The plan channel when the action layer takes a plan.                      *)
LEMMA ExecuteKeepsPlanChannel ==
  ASSUME TypeOK, ActionCatchesUp, PlansAlternate, Execute
  PROVE  ActionCatchesUp' /\ PlansAlternate'
<1>1. /\ qPlan # <<>> /\ qPlan' = Tail(qPlan) /\ lastPlan' = Head(qPlan)
      /\ lastKind' = lastKind
  BY DEF Execute, plannerVars
<1>2. /\ Head(qPlan) = qPlan[1]
      /\ Len(qPlan) \in Nat \ {0}
      /\ Len(qPlan') = Len(qPlan) - 1
      /\ \A i \in 1 .. Len(qPlan) - 1 : qPlan'[i] = qPlan[i + 1]
      /\ qPlan' = <<>> <=> Len(qPlan) = 1
  BY <1>1, TailFacts DEF TypeOK
<1>3. qPlan[Len(qPlan)] = lastKind
  BY <1>1 DEF ActionCatchesUp, LastSent
<1>4. ActionCatchesUp'
  <2>1. CASE Len(qPlan) = 1
    BY <1>1, <1>2, <1>3, <2>1 DEF ActionCatchesUp, LastSent
  <2>2. CASE Len(qPlan) # 1
    <3>1. qPlan'[Len(qPlan')] = qPlan[Len(qPlan)] /\ qPlan' # <<>>
      BY <1>2, <2>2
    <3> QED
      BY <1>1, <1>3, <3>1 DEF ActionCatchesUp, LastSent
  <2> QED
    BY <2>1, <2>2
<1>5. qPlan' # <<>> => lastPlan' # qPlan'[1]
  BY <1>1, <1>2 DEF PlansAlternate
<1>6. \A i \in 1 .. Len(qPlan') - 1 : qPlan'[i] # qPlan'[i + 1]
  BY <1>2 DEF PlansAlternate
<1> QED
  BY <1>4, <1>5, <1>6 DEF PlansAlternate

(* The hold just re-armed covers the whole duration by itself.               *)
LEMMA AddedTo == \A d \in Nat : \A m \in 0 .. d : m + d >= d
  OBVIOUS

(* The planner's own invariants under one _tick: state' is what it read.     *)
LEMMA TickKeepsCommitment ==
  ASSUME TypeOK, CruiseSeesClear, HoldAccounts, ManoeuvreStarts,
         lastState' \in World!WorldState \cup {None},
         lastState # None => lastState' # None,
         Planner!Tick(lastState')
  PROVE  /\ CruiseSeesClear' /\ HoldAccounts'
         /\ lastKind = "avoid" /\ lastKind' = "cruise" => manoeuvre = AvoidDuration
<1>0. manoeuvre \in 0 .. AvoidDuration /\ holdLeft \in 0 .. AvoidDuration /\ AvoidDuration \in Nat
  BY ExploreAssumption DEF TypeOK
<1>1. CASE Planner!Committed(lastState')
  <2>1. lastKind' = lastKind /\ holdLeft' = holdLeft /\ manoeuvre' = manoeuvre
    BY <1>1 DEF Planner!Committed, ManoeuvreStarts
  <2>2. lastState' = None \/ holdLeft > 0
    BY <1>1 DEF Planner!Committed
  <2>3. lastKind # "cruise"
    BY <1>0, <2>2 DEF CruiseSeesClear
  <2> QED
    BY <2>1, <2>3 DEF CruiseSeesClear, HoldAccounts
<1>2. CASE Planner!Reevaluate(lastState')
  <2>1. /\ lastState' # None /\ holdLeft = 0
        /\ lastKind' = Planner!Select(lastState')
        /\ holdLeft' = IF Planner!Select(lastState') = "avoid" THEN AvoidDuration ELSE 0
    BY <1>2 DEF Planner!Reevaluate
  <2>2. CASE Planner!Blocked(lastState')
    <3>1. lastKind' = "avoid" /\ holdLeft' = AvoidDuration
      BY <2>1, <2>2 DEF Planner!Select
    <3>2. manoeuvre' \in 0 .. AvoidDuration
      BY <1>0 DEF ManoeuvreStarts
    <3>3. HoldAccounts'
      <4>1. manoeuvre' + AvoidDuration >= AvoidDuration
        BY <1>0, <3>2, AddedTo, Zenon
      <4> QED
        BY <3>1, <4>1 DEF HoldAccounts
    <3>4. CruiseSeesClear'
      BY <3>1 DEF CruiseSeesClear
    <3> QED
      BY <3>1, <3>3, <3>4
  <2>3. CASE ~Planner!Blocked(lastState')
    <3>1. lastKind' = "cruise" /\ holdLeft' = 0
      BY <2>1, <2>3 DEF Planner!Select
    <3>2. CruiseSeesClear'
      BY <2>1, <2>3, <3>1 DEF CruiseSeesClear, Planner!Blocked
    <3>3. HoldAccounts'
      BY <3>1 DEF HoldAccounts
    <3>4. lastKind = "avoid" => manoeuvre = AvoidDuration
      BY <1>0, <2>1 DEF HoldAccounts
    <3> QED
      BY <3>2, <3>3, <3>4
  <2> QED
    BY <2>2, <2>3
<1> QED
  BY <1>1, <1>2 DEF Planner!Tick

-----------------------------------------------------------------------------
(* Every step preserves the invariant; the layers that a step leaves alone   *)
(* keep their parts of it.                                                   *)
LEMMA Unmoved ==
  /\ SensedInOrder /\ UNCHANGED <<qPerception, worldState, sensed>> => SensedInOrder'
  /\ PlannerCatchesUp /\ UNCHANGED <<qWorld, worldState, emitted, lastState>>
       => PlannerCatchesUp'
  /\ ActionCatchesUp /\ PlansAlternate /\ UNCHANGED <<qPlan, lastPlan, lastKind>>
       => ActionCatchesUp' /\ PlansAlternate'
  /\ CruiseSeesClear /\ HoldAccounts
       /\ UNCHANGED <<lastState, lastKind, holdLeft, manoeuvre>>
       => CruiseSeesClear' /\ HoldAccounts'
<1>1. SensedInOrder /\ UNCHANGED <<qPerception, worldState, sensed>> => SensedInOrder'
  BY DEF SensedInOrder, Positions, World!FieldOf, World!Flag, World!Near, World!Edge
<1>2. CruiseSeesClear /\ HoldAccounts
       /\ UNCHANGED <<lastState, lastKind, holdLeft, manoeuvre>>
       => CruiseSeesClear' /\ HoldAccounts'
  BY DEF CruiseSeesClear, HoldAccounts, Planner!Blocked
<1> QED
  BY <1>1, <1>2 DEF PlannerCatchesUp, ActionCatchesUp, LastSent, PlansAlternate

LEMMA NextInvariant == IInv /\ [Next]_vars => IInv'
<1> SUFFICES ASSUME IInv, [Next]_vars
             PROVE  IInv'
  OBVIOUS
<1>1. TypeOK'
  BY NextType DEF IInv
<1> USE DEF IInv
<1>2. ASSUME NEW event \in Readings, Poll(event)
      PROVE  IInv'
  <2>1. SensedInOrder'
    BY <1>2, PollKeepsOrder
  <2> QED
    BY <1>1, <1>2, <2>1, Unmoved DEF Poll, worldVars, plannerVars
<1>3. CASE WorldStep
  <2>1. SensedInOrder' /\ PlannerCatchesUp'
    BY <1>3, WorldStepKeepsOrder, WorldStepCatchesUp
  <2> QED
    BY <1>1, <1>3, <2>1, Unmoved DEF WorldStep, plannerVars
<1>4. CASE PlannerReceive
  <2>1. /\ Len(qPlan) <= Capacity /\ lastPlan' = lastPlan /\ ManoeuvreStarts
        /\ UNCHANGED <<qPerception, worldState, sensed>>
        /\ Planner!Tick(lastState')
    BY <1>4 DEF PlannerReceive, Planner!ReceiveUpdate, worldVars
  <2>2. lastState' \in World!WorldState
    <3>1. qWorld # <<>> /\ lastState' = Head(qWorld).state
      BY <1>4 DEF PlannerReceive, Planner!ReceiveUpdate
    <3>2. Head(qWorld) \in World!Update
      BY <3>1, TailFacts DEF TypeOK
    <3> QED
      BY <3>1, <3>2 DEF World!Update
  <2>3. lastState' # None
    BY <2>2, ExploreAssumption
  <2>4. PlannerCatchesUp'
    BY <1>4, PlannerReceiveCatchesUp
  <2>5. ActionCatchesUp' /\ PlansAlternate'
    BY <2>1, TickKeepsPlanChannel
  <2>6. CruiseSeesClear' /\ HoldAccounts'
    BY <2>1, <2>2, <2>3, TickKeepsCommitment
  <2> QED
    BY <1>1, <2>1, <2>4, <2>5, <2>6, Unmoved
<1>5. CASE PlannerIdle
  <2>1. /\ Len(qPlan) <= Capacity /\ lastPlan' = lastPlan /\ ManoeuvreStarts
        /\ lastState' = lastState
        /\ UNCHANGED <<qPerception, qWorld, worldState, emitted, sensed>>
        /\ Planner!Tick(lastState')
    BY <1>5 DEF PlannerIdle, Planner!IdleTick, worldVars
  <2>2. lastState' \in World!WorldState \cup {None}
    BY <2>1 DEF TypeOK
  <2>3. ActionCatchesUp' /\ PlansAlternate'
    BY <2>1, TickKeepsPlanChannel
  <2>4. CruiseSeesClear' /\ HoldAccounts'
    BY <2>1, <2>2, TickKeepsCommitment
  <2> QED
    BY <1>1, <2>1, <2>3, <2>4, Unmoved
<1>6. CASE TimePasses
  <2>1. /\ UNCHANGED <<qPerception, qWorld, qPlan, worldState, emitted,
                      lastState, lastKind, lastPlan, sensed>>
        /\ holdLeft > 0 /\ holdLeft' = holdLeft - 1
        /\ manoeuvre' = IF manoeuvre < AvoidDuration THEN manoeuvre + 1 ELSE manoeuvre
    BY <1>6 DEF TimePasses, Planner!TimePasses, worldVars
  <2>2. CruiseSeesClear'
    BY <2>1 DEF CruiseSeesClear, Planner!Blocked
  <2>3. HoldAccounts'
    BY <2>1, ExploreAssumption DEF HoldAccounts, TypeOK
  <2> QED
    BY <1>1, <2>1, <2>2, <2>3, Unmoved
<1>7. CASE Execute
  <2>1. ActionCatchesUp' /\ PlansAlternate'
    BY <1>7, ExecuteKeepsPlanChannel
  <2> QED
    BY <1>1, <1>7, <2>1, Unmoved DEF Execute, worldVars, plannerVars
<1>8. CASE UNCHANGED vars
  BY <1>1, <1>8, Unmoved DEF vars, worldVars, plannerVars
<1> QED
  BY <1>2, <1>3, <1>4, <1>5, <1>6, <1>7, <1>8 DEF Next

THEOREM Invariance == Spec => []IInv
BY InitInvariant, NextInvariant, PTL DEF Spec

(* The layers agree on what was last sensed, for every capacity, threshold,  *)
(* hold duration and set of readings (emission on change, the debounce and   *)
(* the hold lose nothing).                                                   *)
THEOREM LayersAgree == Spec => []Agreement
<1>1. IInv => Agreement
  BY DEF IInv, Agreement
<1> QED
  BY <1>1, Invariance, PTL

(* Nothing in flight and cruise held means no sensor's last report blocks:   *)
(* the agreement of each channel with its sender, chained end to end.        *)
LEMMA AgreementMeansSight == IInv => NoBlindCruise
<1> SUFFICES ASSUME IInv, lastPlan = "cruise", ~InFlight
             PROVE  ~SensedBlocked
  BY DEF NoBlindCruise
<1>1. qPerception = <<>> /\ qWorld = <<>> /\ qPlan = <<>>
  BY DEF InFlight
<1>2. lastKind = "cruise"
  BY <1>1 DEF IInv, ActionCatchesUp, LastSent
<1>3. lastState # None /\ ~Planner!Blocked(lastState)
  BY <1>2 DEF IInv, CruiseSeesClear
<1>4. lastState = worldState
  BY <1>1, <1>3 DEF IInv, PlannerCatchesUp
<1>5. \A s \in Sensors : Positions(s) = {}
  BY <1>1, EmptySeq DEF Positions
<1>6. \A s \in Sensors : ~worldState[World!FieldOf(s)]
  BY <1>3, <1>4 DEF Planner!Blocked, World!FieldOf
<1> QED
  BY <1>5, <1>6 DEF IInv, SensedInOrder, SensedBlocked

(* The robot never settles on driving forward over a reported obstacle or    *)
(* edge, for every capacity, threshold, hold duration and set of readings.   *)
THEOREM NeverBlind == Spec => []NoBlindCruise
BY Invariance, AgreementMeansSight, PTL

(* An avoid manoeuvre lasts at least AvoidDuration between its plan and the  *)
(* next cruise plan.                                                         *)
THEOREM AvoidIsCommitted == Spec => CommittedAvoid
<1>1. IInv /\ [Next]_vars =>
        [lastKind = "avoid" /\ lastKind' = "cruise" => manoeuvre = AvoidDuration]_vars
  <2> SUFFICES ASSUME IInv, [Next]_vars, lastKind = "avoid", lastKind' = "cruise"
               PROVE  manoeuvre = AvoidDuration
    OBVIOUS
  <2>1. IInv'
    BY NextInvariant
  <2>2. CASE PlannerReceive
    <3>1. ManoeuvreStarts /\ Planner!Tick(lastState')
      BY <2>2 DEF PlannerReceive, Planner!ReceiveUpdate
    <3>2. lastState' # None
      BY <2>1 DEF IInv, CruiseSeesClear
    <3> QED
      BY <2>1, <3>1, <3>2, TickKeepsCommitment DEF IInv, TypeOK
  <2>3. CASE PlannerIdle
    <3>1. ManoeuvreStarts /\ Planner!Tick(lastState')
      BY <2>3 DEF PlannerIdle, Planner!IdleTick
    <3>2. lastState' # None
      BY <2>1 DEF IInv, CruiseSeesClear
    <3> QED
      BY <2>1, <3>1, <3>2, TickKeepsCommitment DEF IInv, TypeOK
  <2>4. CASE lastKind' = lastKind
    BY <2>4
  <2> QED
    BY <2>2, <2>3, <2>4
       DEF Next, Poll, WorldStep, TimePasses, Planner!TimePasses, Execute, plannerVars, vars
<1> QED
  BY <1>1, Invariance, PTL DEF Spec, CommittedAvoid

-----------------------------------------------------------------------------
(* With the bundled rule table a step of the pipeline is a step of the one   *)
(* with the hand-written planner.  Only the selection differs: both select   *)
(* the same plan and the same hold in every world state.                     *)

(* What the table says of a state, rule by rule.                             *)
LEMMA TableMatches ==
  ASSUME NEW state \in World!WorldState
  PROVE  /\ Rule!RuleMatches(ExploreTable[1], state) <=> Planner!Blocked(state)
         /\ Rule!RuleMatches(ExploreTable[2], state)
         /\ DOMAIN ExploreTable = {1, 2}
<1>1. /\ state["obstacle_ahead"] \in BOOLEAN /\ state["cliff_detected"] \in BOOLEAN
      /\ DOMAIN state = World!Fields
  BY DEF World!WorldState, World!Fields
<1>2. ASSUME NEW f \in World!Fields
      PROVE  Rule!AllMatch({IsTrue(f)}, state) <=> state[f]
  <2>1. Rule!Get(state, IsTrue(f).field) = state[f]
    BY <1>1 DEF Rule!Get, IsTrue
  <2>2. Rule!OpMatch(IsTrue(f), state[f]) <=> state[f] = TRUE
    BY DEF Rule!OpMatch, IsTrue
  <2>3. Rule!AllMatch({IsTrue(f)}, state) <=> Rule!OpMatch(IsTrue(f), state[f])
    BY <2>1 DEF Rule!AllMatch
  <2>4. state[f] \in BOOLEAN
    BY <1>1 DEF World!Fields
  <2> QED
    BY <2>2, <2>3, <2>4
<1>3. Rule!AllMatch({}, state)
  BY DEF Rule!AllMatch
<1>4. /\ ExploreTable[1].when = {}
      /\ ExploreTable[1].anyOf = {{IsTrue("obstacle_ahead")}, {IsTrue("cliff_detected")}}
      /\ ExploreTable[2].when = {} /\ ExploreTable[2].anyOf = {}
      /\ DOMAIN ExploreTable = {1, 2}
  BY DEF ExploreTable
<1>5. Rule!RuleMatches(ExploreTable[1], state) <=> Planner!Blocked(state)
  BY <1>2, <1>3, <1>4 DEF Rule!RuleMatches, Planner!Blocked, World!Fields
<1> QED
  BY <1>3, <1>4, <1>5 DEF Rule!RuleMatches

(* The table selects what _select of the hand-written planner selects, and   *)
(* holds exactly its avoid.                                                  *)
LEMMA SameSelection ==
  ASSUME NEW state \in World!WorldState
  PROVE  /\ Rule!Select(state).name = Planner!Select(state)
         /\ Rule!Select(state).hold = IF Planner!Select(state) = "avoid" THEN AvoidDuration ELSE 0
<1> DEFINE hits == Rule!Hits(state)
           first == CHOOSE i \in hits : \A j \in hits : i <= j
<1>1. hits = IF Planner!Blocked(state) THEN {1, 2} ELSE {2}
  BY TableMatches DEF Rule!Hits
<1>2. first = IF Planner!Blocked(state) THEN 1 ELSE 2
  <2>1. CASE Planner!Blocked(state)
    <3>1. 1 \in hits /\ \A j \in hits : 1 <= j
      BY <1>1, <2>1
    <3>2. \A i \in hits : (\A j \in hits : i <= j) => i = 1
      BY <1>1, <2>1
    <3> QED
      BY <2>1, <3>1, <3>2
  <2>2. CASE ~Planner!Blocked(state)
    BY <1>1, <2>2
  <2> QED
    BY <2>1, <2>2
<1>3. Rule!Select(state) = [name |-> ExploreTable[first].name, hold |-> ExploreTable[first].hold]
  BY <1>1 DEF Rule!Select
<1> HIDE DEF first
<1>4. /\ ExploreTable[1].name = "avoid" /\ ExploreTable[1].hold = AvoidDuration
      /\ ExploreTable[2].name = "cruise" /\ ExploreTable[2].hold = 0
  BY DEF ExploreTable
<1> QED
  BY <1>2, <1>3, <1>4 DEF Planner!Select

(* A _tick of the one is a _tick of the other.                               *)
LEMMA SameTick ==
  ASSUME NEW state \in World!WorldState \cup {None}, Rule!Tick(state)
  PROVE  Planner!Tick(state)
<1>1. CASE Rule!Committed(state)
  BY <1>1 DEF Rule!Committed, Planner!Committed, Planner!Tick
<1>2. CASE Rule!Reevaluate(state)
  <2>1. state # None /\ state \in World!WorldState
    BY <1>2 DEF Rule!Reevaluate
  <2> QED
    BY <1>2, <2>1, SameSelection DEF Rule!Reevaluate, Planner!Reevaluate, Planner!Tick
<1> QED
  BY <1>1, <1>2 DEF Rule!Tick

(* Every step with the table is a step with the hand-written planner.        *)
LEMMA StepIsAStep == TypeOK /\ [RuleNext]_vars => [Next]_vars
<1> SUFFICES ASSUME TypeOK, [RuleNext]_vars
             PROVE  [Next]_vars
  OBVIOUS
<1> USE DEF TypeOK
<1>1. CASE RuleReceive
  <2>1. qWorld # <<>> /\ Rule!Tick(Head(qWorld).state)
    BY <1>1 DEF RuleReceive, Rule!ReceiveUpdate
  <2>2. Head(qWorld).state \in World!WorldState
    <3>1. Head(qWorld) \in World!Update
      BY <2>1, TailFacts
    <3> QED
      BY <3>1 DEF World!Update
  <2>3. Planner!ReceiveUpdate
    BY <1>1, <2>1, <2>2, SameTick DEF RuleReceive, Rule!ReceiveUpdate, Planner!ReceiveUpdate
  <2> QED
    BY <1>1, <2>3 DEF RuleReceive, PlannerReceive, Next
<1>2. CASE RuleIdle
  <2>1. Planner!IdleTick
    BY <1>2, SameTick DEF RuleIdle, Rule!IdleTick, Planner!IdleTick
  <2> QED
    BY <1>2, <2>1 DEF RuleIdle, PlannerIdle, Next
<1>3. CASE RuleTimePasses
  BY <1>3 DEF RuleTimePasses, Rule!HoldPasses, TimePasses, Planner!TimePasses, Next
<1>4. CASE (\E event \in Readings : Poll(event)) \/ WorldStep \/ Execute
  BY <1>4 DEF Next
<1>5. CASE UNCHANGED vars
  BY <1>5
<1> QED
  BY <1>1, <1>2, <1>3, <1>4, <1>5 DEF RuleNext

(* RuleExplore implements ExploreLoop, for every capacity, threshold, hold   *)
(* and set of readings: what rule.py:8-11 and ADR-007 say of the table.      *)
THEOREM TableReproducesPlanner == RuleSpec => ReproducesAvoidance
<1>1. Init => TypeOK
  BY InitType
<1>2. TypeOK /\ [RuleNext]_vars => TypeOK'
  BY StepIsAStep, NextType
<1> QED
  BY <1>1, <1>2, StepIsAStep, PTL DEF RuleSpec, ReproducesAvoidance, Spec
=============================================================================
