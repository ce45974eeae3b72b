-------------------------- MODULE PatrolLoopProofs --------------------------
(***************************************************************************)
(* Proofs about PatrolLoop for every queue capacity, threshold, grid,      *)
(* decay, hold duration and set of readings.                               *)
(***************************************************************************)
EXTENDS PatrolLoop, Rounding, SequenceTheorems, TLAPS

-----------------------------------------------------------------------------
(* What Append and Tail do to the length, the items and the last item.       *)
LEMMA AppendFacts ==
  ASSUME NEW S, NEW q \in Seq(S), NEW e \in S
  PROVE  /\ Append(q, e) \in Seq(S)
         /\ Append(q, e) # <<>>
         /\ Len(Append(q, e)) = Len(q) + 1
         /\ Len(q) \in Nat
         /\ \A i \in 1 .. Len(q) : Append(q, e)[i] = q[i]
         /\ Append(q, e)[Len(q) + 1] = e
BY AppendProperties, LenProperties

LEMMA TailFacts ==
  ASSUME NEW S, NEW q \in Seq(S), q # <<>>
  PROVE  /\ Tail(q) \in Seq(S)
         /\ Head(q) \in S
         /\ Head(q) = q[1]
         /\ Len(q) \in Nat \ {0}
         /\ Len(Tail(q)) = Len(q) - 1
         /\ \A i \in 1 .. Len(q) - 1 : Tail(q)[i] = q[i + 1]
         /\ Tail(q) = <<>> <=> Len(q) = 1
<1>1. Len(q) \in Nat \ {0}
  BY LenProperties, EmptySeq
<1>2. Tail(q) \in Seq(S) /\ Len(Tail(q)) = Len(q) - 1
  BY HeadTailProperties
<1>3. Tail(q) = <<>> <=> Len(q) = 1
  <2>1. Tail(q) = <<>> <=> Len(Tail(q)) = 0
    BY <1>2, EmptySeq
  <2>2. Len(Tail(q)) = 0 <=> Len(q) = 1
    BY <1>1, <1>2
  <2> QED
    BY <2>1, <2>2
<1>4. Head(q) = q[1]
  OBVIOUS
<1> QED
  BY <1>1, <1>2, <1>3, <1>4, HeadTailProperties

-----------------------------------------------------------------------------
(* The inductive invariant.                                                  *)

(* What a sensor's reading says, and the flag that keeps it.                 *)
Said(s, event) ==
  event # None /\ IF s = "ultrasonic" THEN World!Near(event.distance) ELSE World!Edge(event.values)
Flag(s) == IF s = "ultrasonic" THEN obstacleAhead ELSE cliffDetected

Positions(s) == {i \in 1 .. Len(qPerception) : qPerception[i].sensor = s}

(* Of each sensor, the last event in the queue, or else the flag, is what    *)
(* the sensor last reported.                                                 *)
SensedInOrder ==
  \A s \in Sensors :
    /\ \A i \in Positions(s) : (\A j \in Positions(s) : j <= i) => qPerception[i] = sensed[s]
    /\ Positions(s) = {} => Flag(s) = Said(s, sensed[s])

(* Some cell is as young as the last sighting, until that is forgotten.      *)
SightingKept == unseen <= Decay => \E i \in DOMAIN cells : cells[i] <= unseen

(* What was last emitted is what the world model holds, and is the last the  *)
(* planner gets.                                                             *)
EmittedIsCurrent ==
  lastEmitted # None =>
    /\ lastEmitted["obstacle_ahead"] = obstacleAhead
    /\ lastEmitted["cliff_detected"] = cliffDetected
    /\ lastEmitted["recently_blocked"] = (DOMAIN cells # {})
NothingBefore == lastEmitted = None => qWorld = <<>> /\ lastState = None /\ unseen > Decay
PlannerCatchesUp ==
  lastEmitted # None =>
    IF qWorld = <<>> THEN lastState = lastEmitted ELSE qWorld[Len(qWorld)].state = lastEmitted

(* The last plan put is the one the planner believes in force, it fits the   *)
(* state the planner has read unless it is held, and what is past and what   *)
(* is left of the hold make up the whole of it.                              *)
ActionCatchesUp == IF qPlan = <<>> THEN lastPlan = lastName ELSE qPlan[Len(qPlan)] = lastName
HeldOrFitting ==
  /\ lastName # None => lastState # None
  /\ holdLeft > 0 => lastName \in {"avoid_cliff", "avoid"}
  /\ UnheldFitsState
HoldAccounts == lastName # None => manoeuvre + holdLeft >= HoldOf(lastName)

IInv ==
  /\ TypeOK
  /\ SensedInOrder
  /\ SightingKept
  /\ EmittedIsCurrent /\ NothingBefore /\ PlannerCatchesUp
  /\ ActionCatchesUp
  /\ HeldOrFitting
  /\ HoldAccounts

-----------------------------------------------------------------------------
(* round() keeps the order of what it rounds, so a distance within the grid  *)
(* has a cell within the grid.                                               *)
LEMMA Division ==
  ASSUME NEW n \in Int, NEW d \in Nat \ {0}
  PROVE  n \div d \in Int /\ n % d \in 0 .. d - 1 /\ n = d * (n \div d) + (n % d)
  OBVIOUS

LEMMA QuotientsKeepOrder ==
  ASSUME NEW m \in Int, NEW n \in Int, NEW d \in Nat \ {0}, m <= n
  PROVE  m \div d <= n \div d
<1> DEFINE p == m \div d
           q == n \div d
<1>1. p \in Int /\ m % d \in 0 .. d - 1 /\ m = d * p + (m % d)
  BY Division
<1>2. q \in Int /\ n % d \in 0 .. d - 1 /\ n = d * q + (n % d)
  BY Division
<1> HIDE DEF p, q
<1> SUFFICES ASSUME q + 1 <= p PROVE FALSE
  BY <1>1, <1>2 DEF p, q
<1>3. d * (q + 1) <= d * p
  <2>1. \A x \in Nat, y \in Int : y >= 0 => x * y >= 0
    OBVIOUS
  <2>2. p - (q + 1) >= 0 /\ p - (q + 1) \in Int
    BY <1>1, <1>2
  <2>3. d * (p - (q + 1)) >= 0
    BY <2>1, <2>2
  <2>4. d * (p - (q + 1)) = d * p - d * (q + 1)
    BY <1>1, <1>2
  <2>5. d * p \in Int /\ d * (q + 1) \in Int
    BY <1>1, <1>2
  <2> QED
    BY <2>3, <2>4, <2>5
<1>4. d * (q + 1) = d * q + d
  BY <1>2
<1>5. d * q \in Int /\ d * p \in Int
  BY <1>1, <1>2
<1> QED
  BY <1>1, <1>2, <1>3, <1>4, <1>5

LEMMA RoundingKeepsOrder ==
  ASSUME NEW m \in Int, NEW n \in Int, NEW d \in Nat \ {0}, m <= n
  PROVE  Round(m, d) \in Int /\ Round(n, d) \in Int /\ Round(m, d) <= Round(n, d)
<1> DEFINE p == m \div d
           q == n \div d
<1>1. p \in Int /\ m % d \in 0 .. d - 1 /\ m = d * p + (m % d)
  BY Division
<1>2. q \in Int /\ n % d \in 0 .. d - 1 /\ n = d * q + (n % d)
  BY Division
<1>3. p <= q
  BY QuotientsKeepOrder
<1>4. /\ Round(m, d) = IF 2 * (m % d) > d \/ (2 * (m % d) = d /\ p % 2 = 1) THEN p + 1 ELSE p
      /\ Round(n, d) = IF 2 * (n % d) > d \/ (2 * (n % d) = d /\ q % 2 = 1) THEN q + 1 ELSE q
  BY DEF Round
<1> HIDE DEF p, q
<1>5. CASE p = q
  <2>1. m % d <= n % d
    BY <1>1, <1>2, <1>5
  <2> QED
    BY <1>1, <1>2, <1>4, <1>5, <2>1
<1>6. CASE p < q
  BY <1>1, <1>2, <1>4, <1>6
<1> QED
  BY <1>1, <1>2, <1>3, <1>5, <1>6

LEMMA CellInGrid ==
  ASSUME NEW distance \in Int, distance <= GridRadius
  PROVE  World!CellOf(distance) \in 1 .. World!CellOf(GridRadius)
<1>1. GridRadius \in Int /\ CellSize \in Nat \ {0}
  BY PatrolAssumption
<1>2. /\ World!Round(distance, CellSize) = Round(distance, CellSize)
      /\ World!Round(GridRadius, CellSize) = Round(GridRadius, CellSize)
  BY DEF World!Round, Round
<1>3. /\ Round(distance, CellSize) \in Int /\ Round(GridRadius, CellSize) \in Int
      /\ Round(distance, CellSize) <= Round(GridRadius, CellSize)
  BY <1>1, RoundingKeepsOrder
<1> QED
  BY <1>2, <1>3 DEF World!CellOf

-----------------------------------------------------------------------------
(* The table.  A state without a None in its fields is matched rule by rule. *)
LEMMA TableMatches ==
  ASSUME NEW state \in World!WorldState
  PROVE  /\ Planner!RuleMatches(PatrolTable[1], state) <=> state["cliff_detected"]
         /\ Planner!RuleMatches(PatrolTable[2], state) <=> state["obstacle_ahead"]
         /\ Planner!RuleMatches(PatrolTable[3], state) <=> state["recently_blocked"]
         /\ Planner!RuleMatches(PatrolTable[4], state)
         /\ DOMAIN PatrolTable = 1 .. 4
<1>1. /\ DOMAIN state = World!Salient
      /\ \A f \in World!Salient : state[f] \in BOOLEAN
  BY DEF World!WorldState
<1>2. ASSUME NEW f \in World!Salient
      PROVE  Planner!AllMatch(On(f), state) <=> state[f]
  <2> DEFINE clause == [field |-> f, op |-> "eq", value |-> TRUE]
  <2>1. Planner!Get(state, clause.field) = state[f]
    BY <1>1 DEF Planner!Get
  <2>2. Planner!OpMatch(clause, state[f]) <=> state[f] = TRUE
    BY DEF Planner!OpMatch
  <2>3. On(f) = {clause}
    BY DEF On
  <2> HIDE DEF clause
  <2>4. Planner!AllMatch(On(f), state) <=> Planner!OpMatch(clause, state[f])
    BY <2>1, <2>3 DEF Planner!AllMatch
  <2>5. state[f] \in BOOLEAN
    BY <1>1
  <2> QED
    BY <2>2, <2>4, <2>5
<1>3. Planner!AllMatch({}, state)
  BY DEF Planner!AllMatch
<1>4. /\ PatrolTable[1].when = On("cliff_detected") /\ PatrolTable[1].anyOf = {}
      /\ PatrolTable[2].when = On("obstacle_ahead") /\ PatrolTable[2].anyOf = {}
      /\ PatrolTable[3].when = On("recently_blocked") /\ PatrolTable[3].anyOf = {}
      /\ PatrolTable[4].when = {} /\ PatrolTable[4].anyOf = {}
      /\ DOMAIN PatrolTable = 1 .. 4
  BY DEF PatrolTable
<1>5. \A i \in 1 .. 4 : Planner!RuleMatches(PatrolTable[i], state)
                          <=> Planner!AllMatch(PatrolTable[i].when, state)
  BY <1>4 DEF Planner!RuleMatches
<1>6. {"cliff_detected", "obstacle_ahead", "recently_blocked"} \subseteq World!Salient
  BY DEF World!Salient
<1> QED
  BY <1>2, <1>3, <1>4, <1>5, <1>6

FirstHit(state) ==
  IF state["cliff_detected"] THEN 1
  ELSE IF state["obstacle_ahead"] THEN 2
  ELSE IF state["recently_blocked"] THEN 3 ELSE 4

LEMMA Selection ==
  ASSUME NEW state \in World!WorldState
  PROVE  /\ Planner!Select(state).name = PatrolTable[FirstHit(state)].name
         /\ Planner!Select(state).hold = PatrolTable[FirstHit(state)].hold
<1> DEFINE hits == Planner!Hits(state)
           chosen == CHOOSE i \in hits : \A j \in hits : i <= j
           first == FirstHit(state)
<1>1. /\ \A i \in hits : i \in 1 .. 4
      /\ 1 \in hits <=> state["cliff_detected"]
      /\ 2 \in hits <=> state["obstacle_ahead"]
      /\ 3 \in hits <=> state["recently_blocked"]
      /\ 4 \in hits
  BY TableMatches DEF Planner!Hits
<1>2. Planner!Select(state) = [name |-> PatrolTable[chosen].name, hold |-> PatrolTable[chosen].hold]
  BY <1>1 DEF Planner!Select
<1> HIDE DEF hits
<1>3. first \in hits /\ \A j \in hits : first <= j
  BY <1>1 DEF FirstHit
<1> HIDE DEF first
<1>4. \A i \in hits : (\A j \in hits : i <= j) => i = first
  BY <1>1, <1>3
<1>5. chosen = first
  BY <1>3, <1>4
<1> HIDE DEF chosen
<1> QED
  BY <1>2, <1>5 DEF first

(* What is selected, by name.                                                *)
LEMMA SelectCases ==
  ASSUME NEW state \in World!WorldState
  PROVE  LET rule == Planner!Select(state) IN
           /\ rule.name \in Names
           /\ rule.hold = HoldOf(rule.name)
           /\ rule.name \in {"caution", "cruise"} =>
                ~state["cliff_detected"] /\ ~state["obstacle_ahead"]
           /\ rule.name = "cruise" => ~state["recently_blocked"]
<1> DEFINE name == Planner!Select(state).name
           hold == Planner!Select(state).hold
<1>1. /\ PatrolTable[1].name = "avoid_cliff" /\ PatrolTable[1].hold = CliffHold
      /\ PatrolTable[2].name = "avoid" /\ PatrolTable[2].hold = ObstacleHold
      /\ PatrolTable[3].name = "caution" /\ PatrolTable[3].hold = 0
      /\ PatrolTable[4].name = "cruise" /\ PatrolTable[4].hold = 0
  BY DEF PatrolTable
<1>2. /\ HoldOf("avoid_cliff") = CliffHold /\ HoldOf("avoid") = ObstacleHold
      /\ HoldOf("caution") = 0 /\ HoldOf("cruise") = 0
  BY Zenon DEF HoldOf
<1>3. \/ name = "avoid_cliff" /\ hold = CliffHold
      \/ name = "avoid" /\ hold = ObstacleHold
      \/ name = "caution" /\ hold = 0 /\ ~state["cliff_detected"] /\ ~state["obstacle_ahead"]
      \/ name = "cruise" /\ hold = 0 /\ ~state["cliff_detected"] /\ ~state["obstacle_ahead"]
           /\ ~state["recently_blocked"]
  BY <1>1, Selection DEF FirstHit
<1> HIDE DEF name, hold
<1>4. /\ name \in Names /\ hold = HoldOf(name)
      /\ name \in {"caution", "cruise"} => ~state["cliff_detected"] /\ ~state["obstacle_ahead"]
      /\ name = "cruise" => ~state["recently_blocked"]
  BY <1>2, <1>3 DEF Names
<1> QED
  BY <1>4 DEF name, hold

LEMMA Holds ==
  /\ CliffHold \in Nat /\ ObstacleHold \in 0 .. CliffHold
  /\ \A name \in Names : HoldOf(name) \in 0 .. CliffHold
  /\ \A name \in Names : HoldOf(name) > 0 => name \in {"avoid_cliff", "avoid"}
<1>1. /\ HoldOf("avoid_cliff") = CliffHold /\ HoldOf("avoid") = ObstacleHold
      /\ HoldOf("caution") = 0 /\ HoldOf("cruise") = 0
  BY Zenon DEF HoldOf
<1> QED
  BY <1>1, PatrolAssumption DEF Names

-----------------------------------------------------------------------------
(* What one _tick does to the planner and its queue: nothing is put and the  *)
(* name stays, or the new name is put and differs from the old one.          *)
LEMMA TickShape ==
  ASSUME TypeOK, NEW state \in World!WorldState \cup {None}, Len(qPlan) <= Capacity,
         Planner!Tick(state)
  PROVE  /\ lastName' \in Names \cup {None}
         /\ holdLeft' \in 0 .. CliffHold
         /\ qPlan' \in Seq(Names) /\ Len(qPlan') <= Capacity + 1
         /\ \/ qPlan' = qPlan /\ lastName' = lastName
            \/ lastName' # lastName /\ lastName' \in Names /\ qPlan' = Append(qPlan, lastName')
<1> USE DEF TypeOK
<1>0. Capacity \in Nat
  BY PatrolAssumption
<1>1. CASE Planner!Committed(state)
  BY <1>0, <1>1 DEF Planner!Committed
<1>2. CASE Planner!Reevaluate(state)
  <2> DEFINE rule == Planner!Select(state)
  <2>1. rule.name \in Names /\ rule.hold \in 0 .. CliffHold
    BY <1>2, SelectCases, Holds DEF Planner!Reevaluate
  <2>2. /\ lastName' = rule.name /\ holdLeft' = rule.hold
        /\ qPlan' = IF rule.name = lastName THEN qPlan ELSE Append(qPlan, rule.name)
    BY <1>2 DEF Planner!Reevaluate
  <2> HIDE DEF rule
  <2>3. CASE rule.name = lastName
    BY <1>0, <2>1, <2>2, <2>3
  <2>4. CASE rule.name # lastName
    <3>1. /\ qPlan' \in Seq(Names) /\ Len(qPlan') = Len(qPlan) + 1 /\ Len(qPlan) \in Nat
      BY <2>1, <2>2, <2>4, AppendFacts
    <3> QED
      BY <1>0, <2>1, <2>2, <2>4, <3>1
  <2> QED
    BY <2>3, <2>4
<1> QED
  BY <1>1, <1>2 DEF Planner!Tick

-----------------------------------------------------------------------------
(* The state a world model turn builds, and what it does with it.            *)
LEMMA SnapshotFacts ==
  ASSUME obstacleAhead' \in BOOLEAN, cliffDetected' \in BOOLEAN
  PROVE  /\ World!Snapshot \in World!WorldState
         /\ World!Snapshot["obstacle_ahead"] = obstacleAhead'
         /\ World!Snapshot["cliff_detected"] = cliffDetected'
         /\ World!Snapshot["recently_blocked"] = (DOMAIN cells' # {})
<1> DEFINE value(f) == CASE f = "obstacle_ahead"   -> obstacleAhead'
                         [] f = "cliff_detected"   -> cliffDetected'
                         [] f = "recently_blocked" -> DOMAIN cells' # {}
<1>1. "obstacle_ahead" # "cliff_detected" /\ "obstacle_ahead" # "recently_blocked"
      /\ "cliff_detected" # "recently_blocked"
  OBVIOUS
<1>2. /\ value("obstacle_ahead") = obstacleAhead'
      /\ value("cliff_detected") = cliffDetected'
      /\ value("recently_blocked") = (DOMAIN cells' # {})
  BY <1>1, Zenon
<1>3. World!Snapshot = [f \in World!Salient |-> value(f)]
  BY DEF World!Snapshot
<1> HIDE DEF value
<1>4. \A f \in World!Salient : value(f) \in BOOLEAN
  BY <1>2, Zenon DEF World!Salient
<1>5. World!Snapshot \in World!WorldState
  BY <1>3, <1>4, Zenon DEF World!WorldState
<1>6. \A f \in World!Salient : World!Snapshot[f] = value(f)
  BY <1>3, Zenon
<1>7. /\ "obstacle_ahead" \in World!Salient /\ "cliff_detected" \in World!Salient
      /\ "recently_blocked" \in World!Salient
  BY DEF World!Salient
<1> QED
  BY <1>2, <1>5, <1>6, <1>7, Zenon

LEMMA EmitShape ==
  ASSUME TypeOK, Len(qWorld) <= Capacity, World!MaybeEmit,
         obstacleAhead' \in BOOLEAN, cliffDetected' \in BOOLEAN
  PROVE  /\ lastEmitted' = World!Snapshot /\ lastEmitted' \in World!WorldState
         /\ lastEmitted' # None
         /\ qWorld' \in Seq([state : World!WorldState]) /\ Len(qWorld') <= Capacity + 1
         /\ \/ qWorld' = qWorld /\ lastEmitted' = lastEmitted
            \/ qWorld' = Append(qWorld, [state |-> lastEmitted'])
<1>0. Capacity \in Nat /\ None \notin World!WorldState
  BY PatrolAssumption
<1>1. World!Snapshot \in World!WorldState
  BY SnapshotFacts
<1>2. qWorld \in Seq([state : World!WorldState])
  BY DEF TypeOK
<1> DEFINE new == World!Snapshot
<1>3. /\ lastEmitted' = new
      /\ \/ qWorld' = qWorld /\ lastEmitted' = lastEmitted
         \/ qWorld' = Append(qWorld, [state |-> new])
  BY Zenon DEF World!MaybeEmit
<1> HIDE DEF new
<1>4. new \in World!WorldState
  BY <1>1 DEF new
<1>5. CASE qWorld' = qWorld /\ lastEmitted' = lastEmitted
  BY <1>0, <1>2, <1>3, <1>4, <1>5 DEF new
<1>6. CASE qWorld' = Append(qWorld, [state |-> new])
  <2>1. /\ qWorld' \in Seq([state : World!WorldState])
        /\ Len(qWorld') = Len(qWorld) + 1 /\ Len(qWorld) \in Nat
    BY <1>2, <1>4, <1>6, AppendFacts
  <2> QED
    BY <1>0, <1>3, <1>4, <1>6, <2>1 DEF new
<1> QED
  BY <1>3, <1>5, <1>6

(* The cells, as a world model turn leaves them.                             *)
CellsTyped(c) == /\ DOMAIN c \subseteq 1 .. World!CellOf(GridRadius)
                 /\ \A i \in DOMAIN c : c[i] \in 0 .. Decay + 1

LEMMA MarkedFacts ==
  ASSUME CellsTyped(cells), NEW event \in Readings
  PROVE  /\ CellsTyped(World!Marked(event))
         /\ Sighting(event) =>
              \E i \in DOMAIN World!Marked(event) : World!Marked(event)[i] = 0
         /\ \A i \in DOMAIN cells :
              /\ i \in DOMAIN World!Marked(event)
              /\ World!Marked(event)[i] = cells[i] \/ World!Marked(event)[i] = 0
<1>0. Decay \in Nat /\ event \in Events
  BY PatrolAssumption
<1>1. CASE Sighting(event)
  <2> DEFINE cell == World!CellOf(event.distance)
  <2>1. event.distance \in Int /\ event.distance <= GridRadius
    <3>1. event.sensor = "ultrasonic" /\ event.distance # None /\ event.distance <= GridRadius
      BY <1>1 DEF Sighting, World!InGrid
    <3> QED
      BY <1>0, <3>1 DEF Events
  <2>2. cell \in 1 .. World!CellOf(GridRadius)
    BY <2>1, CellInGrid
  <2>3. World!Marked(event) = [i \in DOMAIN cells \cup {cell} |-> IF i = cell THEN 0 ELSE cells[i]]
    BY <1>1 DEF World!Marked, Sighting
  <2> HIDE DEF cell
  <2>4. /\ DOMAIN World!Marked(event) = DOMAIN cells \cup {cell}
        /\ \A i \in DOMAIN cells \cup {cell} :
             World!Marked(event)[i] = IF i = cell THEN 0 ELSE cells[i]
    BY <2>3
  <2> QED
    BY <1>0, <2>2, <2>4 DEF CellsTyped
<1>2. CASE ~Sighting(event)
  <2>1. World!Marked(event) = cells
    BY <1>2 DEF World!Marked, Sighting
  <2> QED
    BY <1>2, <2>1
<1> QED
  BY <1>1, <1>2

LEMMA DecayedFacts ==
  ASSUME NEW c, CellsTyped(c)
  PROVE  /\ CellsTyped(World!Decayed(c))
         /\ \A i \in DOMAIN c : c[i] <= Decay =>
              i \in DOMAIN World!Decayed(c) /\ World!Decayed(c)[i] = c[i]
  BY DEF World!Decayed, CellsTyped

-----------------------------------------------------------------------------
LEMMA InitType == Init => TypeOK
<1> SUFFICES ASSUME Init PROVE TypeOK
  OBVIOUS
<1>1. /\ qPerception \in Seq(Readings) /\ Len(qPerception) = 0
      /\ qWorld \in Seq([state : World!WorldState]) /\ Len(qWorld) = 0
      /\ qPlan \in Seq(Names) /\ Len(qPlan) = 0
  BY EmptySeq DEF Init
<1>2. /\ Capacity \in Nat /\ Decay \in Nat /\ CliffHold \in Nat
  BY PatrolAssumption
<1>3. DOMAIN cells = {} /\ ~obstacleAhead /\ ~cliffDetected /\ lastEmitted = None
      /\ obstacleAhead \in BOOLEAN /\ cliffDetected \in BOOLEAN
  BY DEF Init, World!InitWorld
<1>4. /\ lastState = None /\ lastName = None /\ holdLeft = 0
  BY DEF Init, Planner!InitPlanner
<1>5. sensed \in [Sensors -> Readings \cup {None}]
  BY DEF Init
<1> QED
  BY <1>1, <1>2, <1>3, <1>4, <1>5 DEF Init, TypeOK

(* The history variables' clocks.                                            *)
LEMMA UpToTyped ==
  ASSUME NEW bound \in Nat, NEW n \in 0 .. bound
  PROVE  UpTo(bound, n) \in 0 .. bound
  BY DEF UpTo

LEMMA PollType == ASSUME TypeOK, NEW event \in Readings, Poll(event) PROVE TypeOK'
<1>1. event.sensor \in Sensors
  BY PatrolAssumption DEF Events, Sensors
<1>2. sensed' \in [Sensors -> Readings \cup {None}]
  BY <1>1 DEF TypeOK, Poll
<1>3. qPerception' \in Seq(Readings) /\ Len(qPerception') <= Capacity
  <2>1. /\ qPerception' \in Seq(Readings) /\ Len(qPerception') = Len(qPerception) + 1
        /\ Len(qPerception) \in Nat
    BY AppendFacts DEF TypeOK, Poll
  <2> QED
    BY <2>1, PatrolAssumption DEF Poll
<1> QED
  BY <1>2, <1>3 DEF TypeOK, Poll, worldVars, plannerVars

(* A turn of the world model: what it did to the grid, the flags, the queues.*)
LEMMA WorldTurnType ==
  ASSUME TypeOK, Len(qWorld) <= Capacity, World!MaybeEmit,
         NEW c, CellsTyped(c), cells' = World!Decayed(c),
         obstacleAhead' \in BOOLEAN, cliffDetected' \in BOOLEAN,
         qPerception' \in Seq(Readings), Len(qPerception') <= Capacity,
         unseen' \in 0 .. Decay + 1,
         UNCHANGED <<qPlan, plannerVars, lastPlan, sensed>>
  PROVE  TypeOK'
<1>1. CellsTyped(cells')
  BY DecayedFacts
<1>2. lastEmitted' \in World!WorldState /\ qWorld' \in Seq([state : World!WorldState])
      /\ Len(qWorld') <= Capacity + 1
  BY EmitShape
<1> QED
  BY <1>1, <1>2 DEF TypeOK, CellsTyped, plannerVars

(* What the world model reads, and how the grid and the flags take it.       *)
LEMMA WorldReceiveShape ==
  ASSUME TypeOK, WorldReceive
  PROVE  /\ qPerception # <<>> /\ Head(qPerception) \in Readings
         /\ qPerception' = Tail(qPerception)
         /\ qPerception' \in Seq(Readings) /\ Len(qPerception') <= Capacity
         /\ Len(qWorld) <= Capacity /\ World!MaybeEmit
         /\ obstacleAhead' = IF Head(qPerception).sensor = "ultrasonic"
                             THEN World!Near(Head(qPerception).distance) ELSE obstacleAhead
         /\ cliffDetected' = IF Head(qPerception).sensor = "grayscale"
                             THEN World!Edge(Head(qPerception).values) ELSE cliffDetected
         /\ obstacleAhead' \in BOOLEAN /\ cliffDetected' \in BOOLEAN
         /\ CellsTyped(cells) /\ CellsTyped(World!Marked(Head(qPerception)))
         /\ cells' = World!Decayed(World!Marked(Head(qPerception)))
         /\ unseen' = (IF Sighting(Head(qPerception)) THEN 0 ELSE unseen)
         /\ unseen' \in 0 .. Decay + 1
         /\ UNCHANGED <<qPlan, plannerVars, lastPlan, sensed>>
<1> DEFINE event == Head(qPerception)
<1>0. Capacity \in Nat /\ Decay \in Nat
  BY PatrolAssumption
<1>1. World!ReceiveEvent /\ UNCHANGED <<qPlan, plannerVars, lastPlan, sensed>>
      /\ unseen' = (IF Sighting(event) THEN 0 ELSE unseen)
  BY DEF WorldReceive
<1>2. qPerception # <<>> /\ qPerception' = Tail(qPerception) /\ Len(qWorld) <= Capacity
      /\ World!Observe(event) /\ cells' = World!Decayed(World!Marked(event)) /\ World!MaybeEmit
  BY <1>1 DEF World!ReceiveEvent
<1>3. /\ event \in Readings /\ qPerception' \in Seq(Readings)
      /\ Len(qPerception') = Len(qPerception) - 1 /\ Len(qPerception) \in Nat \ {0}
  BY <1>2, TailFacts DEF TypeOK
<1>4. Len(qPerception') <= Capacity
  BY <1>0, <1>3 DEF TypeOK
<1>5. CellsTyped(cells)
  BY DEF TypeOK, CellsTyped
<1>6. CellsTyped(World!Marked(event))
  BY <1>3, <1>5, MarkedFacts
<1> HIDE DEF event
<1>7. /\ obstacleAhead' = IF event.sensor = "ultrasonic" THEN World!Near(event.distance)
                          ELSE obstacleAhead
      /\ cliffDetected' = IF event.sensor = "grayscale" THEN World!Edge(event.values)
                          ELSE cliffDetected
  BY <1>2, Zenon DEF World!Observe
<1>8. obstacleAhead' \in BOOLEAN /\ cliffDetected' \in BOOLEAN
  BY <1>7 DEF TypeOK, World!Near, World!Edge
<1>9. unseen' \in 0 .. Decay + 1
  BY <1>0, <1>1 DEF TypeOK
<1> QED
  BY <1>1, <1>2, <1>3, <1>4, <1>5, <1>6, <1>7, <1>8, <1>9 DEF event

LEMMA WorldIdleShape ==
  ASSUME TypeOK, WorldIdle
  PROVE  /\ Len(qWorld) <= Capacity /\ World!MaybeEmit
         /\ CellsTyped(cells) /\ cells' = World!Decayed(cells)
         /\ obstacleAhead' = obstacleAhead /\ cliffDetected' = cliffDetected
         /\ obstacleAhead' \in BOOLEAN /\ cliffDetected' \in BOOLEAN
         /\ qPerception' = qPerception /\ unseen' = unseen
         /\ UNCHANGED <<qPlan, plannerVars, lastPlan, sensed>>
  BY DEF TypeOK, WorldIdle, World!IdleTurn, CellsTyped

LEMMA PlannerTurnType ==
  ASSUME TypeOK, NEW state \in World!WorldState \cup {None}, Len(qPlan) <= Capacity,
         Planner!Tick(state), PlanStarts,
         lastState' \in World!WorldState \cup {None},
         qWorld' \in Seq([state : World!WorldState]), Len(qWorld') <= Capacity + 1,
         UNCHANGED <<qPerception, worldVars, lastPlan, sensed>>
  PROVE  TypeOK'
<1>1. /\ lastName' \in Names \cup {None} /\ holdLeft' \in 0 .. CliffHold
      /\ qPlan' \in Seq(Names) /\ Len(qPlan') <= Capacity + 1
  BY TickShape
<1>2. manoeuvre' \in 0 .. CliffHold
  BY PatrolAssumption DEF TypeOK, PlanStarts
<1> QED
  BY <1>1, <1>2 DEF TypeOK, worldVars

LEMMA PlannerReceiveShape ==
  ASSUME TypeOK, PlannerReceive
  PROVE  /\ qWorld # <<>> /\ qWorld' = Tail(qWorld)
         /\ qWorld' \in Seq([state : World!WorldState]) /\ Len(qWorld') <= Capacity + 1
         /\ lastState' = Head(qWorld).state /\ lastState' \in World!WorldState
         /\ Len(qPlan) <= Capacity /\ Planner!Tick(lastState') /\ PlanStarts
         /\ UNCHANGED <<qPerception, worldVars, lastPlan, sensed>>
<1>1. /\ qWorld # <<>> /\ qWorld' = Tail(qWorld) /\ Len(qPlan) <= Capacity
      /\ lastState' = Head(qWorld).state /\ Planner!Tick(Head(qWorld).state)
      /\ PlanStarts /\ UNCHANGED <<qPerception, worldVars, lastPlan, sensed>>
  BY DEF PlannerReceive, Planner!ReceiveUpdate
<1>2. /\ Head(qWorld) \in [state : World!WorldState]
      /\ qWorld' \in Seq([state : World!WorldState])
      /\ Len(qWorld') = Len(qWorld) - 1 /\ Len(qWorld) \in Nat \ {0}
  BY <1>1, TailFacts DEF TypeOK
<1>3. Len(qWorld') <= Capacity + 1
  BY <1>2, PatrolAssumption DEF TypeOK
<1> QED
  BY <1>1, <1>2, <1>3

LEMMA PlannerIdleShape ==
  ASSUME TypeOK, PlannerIdle
  PROVE  /\ Len(qPlan) <= Capacity /\ Planner!Tick(lastState) /\ PlanStarts
         /\ lastState' = lastState /\ lastState \in World!WorldState \cup {None}
         /\ qWorld' = qWorld
         /\ UNCHANGED <<qPerception, worldVars, lastPlan, sensed>>
  BY DEF TypeOK, PlannerIdle, Planner!IdleTick

LEMMA TimePassesShape ==
  ASSUME TypeOK, TimePasses
  PROVE  /\ DOMAIN cells' = DOMAIN cells
         /\ \A i \in DOMAIN cells : cells'[i] \in 0 .. Decay + 1
         /\ \A i \in DOMAIN cells : cells[i] <= Decay => cells'[i] = cells[i] + 1
         /\ holdLeft' = (IF holdLeft > 0 THEN holdLeft - 1 ELSE 0)
         /\ unseen' = UpTo(Decay + 1, unseen) /\ manoeuvre' = UpTo(CliffHold, manoeuvre)
         /\ UNCHANGED <<qPerception, qWorld, qPlan, obstacleAhead, cliffDetected, lastEmitted,
                        lastState, lastName, lastPlan, sensed>>
<1>1. Decay \in Nat
  BY PatrolAssumption
<1>2. cells' = [i \in DOMAIN cells |-> IF cells[i] <= Decay THEN cells[i] + 1 ELSE cells[i]]
      /\ holdLeft' = (IF holdLeft > 0 THEN holdLeft - 1 ELSE 0)
      /\ unseen' = UpTo(Decay + 1, unseen) /\ manoeuvre' = UpTo(CliffHold, manoeuvre)
      /\ UNCHANGED <<qPerception, qWorld, qPlan, obstacleAhead, cliffDetected, lastEmitted,
                     lastState, lastName, lastPlan, sensed>>
  BY DEF TimePasses, World!CellsAge, Planner!HoldPasses
<1>3. \A i \in DOMAIN cells : cells[i] \in 0 .. Decay + 1
  BY DEF TypeOK
<1> QED
  BY <1>1, <1>2, <1>3

LEMMA NextType == TypeOK /\ [Next]_vars => TypeOK'
<1> SUFFICES ASSUME TypeOK, [Next]_vars PROVE TypeOK'
  OBVIOUS
<1>0. Capacity \in Nat /\ Decay \in Nat /\ CliffHold \in Nat
  BY PatrolAssumption
<1>1. ASSUME NEW event \in Readings, Poll(event) PROVE TypeOK'
  BY <1>1, PollType
<1>2. CASE WorldReceive
  BY <1>2, WorldReceiveShape, WorldTurnType
<1>3. CASE WorldIdle
  <2>1. /\ qPerception' \in Seq(Readings) /\ Len(qPerception') <= Capacity
        /\ unseen' \in 0 .. Decay + 1
    BY <1>3, WorldIdleShape DEF TypeOK
  <2> QED
    BY <1>3, <2>1, WorldIdleShape, WorldTurnType
<1>4. CASE PlannerReceive
  <2>1. lastState' \in World!WorldState \cup {None}
    BY <1>4, PlannerReceiveShape
  <2> QED
    BY <1>4, <2>1, PlannerReceiveShape, PlannerTurnType
<1>5. CASE PlannerIdle
  <2>1. /\ lastState' \in World!WorldState \cup {None}
        /\ qWorld' \in Seq([state : World!WorldState]) /\ Len(qWorld') <= Capacity + 1
    BY <1>5, PlannerIdleShape DEF TypeOK
  <2> QED
    BY <1>5, <2>1, PlannerIdleShape, PlannerTurnType
<1>6. CASE TimePasses
  <2>1. holdLeft' \in 0 .. CliffHold
    BY <1>0, <1>6, TimePassesShape DEF TypeOK
  <2>2. unseen' \in 0 .. Decay + 1 /\ manoeuvre' \in 0 .. CliffHold
    <3>1. unseen' = UpTo(Decay + 1, unseen) /\ manoeuvre' = UpTo(CliffHold, manoeuvre)
      BY <1>6, TimePassesShape
    <3>2. unseen \in 0 .. Decay + 1 /\ manoeuvre \in 0 .. CliffHold /\ Decay + 1 \in Nat
      BY <1>0 DEF TypeOK
    <3> QED
      BY <1>0, <3>1, <3>2, UpToTyped
  <2> QED
    BY <1>6, <2>1, <2>2, TimePassesShape DEF TypeOK
<1>7. CASE Execute
  <2>1. /\ qPlan' \in Seq(Names) /\ Len(qPlan') = Len(qPlan) - 1
        /\ Len(qPlan) \in Nat \ {0} /\ Head(qPlan) \in Names
    BY <1>7, TailFacts DEF TypeOK, Execute
  <2> QED
    BY <1>0, <1>7, <2>1 DEF TypeOK, Execute, worldVars, plannerVars
<1>8. CASE UNCHANGED vars
  BY <1>8 DEF TypeOK, vars, worldVars, plannerVars
<1> QED
  BY <1>1, <1>2, <1>3, <1>4, <1>5, <1>6, <1>7, <1>8 DEF Next

(* Every layer's state and queue stays in its type, no cell is the robot's   *)
(* own or beyond the grid's radius, and the table's default is never put.    *)
THEOREM TypeCorrect == Spec => []TypeOK
  BY InitType, NextType, PTL DEF Spec

-----------------------------------------------------------------------------
LEMMA InitInvariant == Init => IInv
<1> SUFFICES ASSUME Init PROVE IInv
  OBVIOUS
<1>1. TypeOK
  BY InitType
<1>2. /\ obstacleAhead = FALSE /\ cliffDetected = FALSE /\ lastEmitted = None
      /\ lastState = None /\ lastName = None /\ holdLeft = 0 /\ unseen = Decay + 1
      /\ qWorld = <<>> /\ qPlan = <<>> /\ lastPlan = None
      /\ Len(qPerception) = 0 /\ \A s \in Sensors : sensed[s] = None
  BY EmptySeq DEF Init, World!InitWorld, Planner!InitPlanner
<1>3. Decay \in Nat /\ None \notin Names
  BY PatrolAssumption
<1>4. SensedInOrder
  <2>1. \A s \in Sensors : Positions(s) = {}
    BY <1>2 DEF Positions
  <2>2. \A s \in Sensors : Flag(s) = FALSE /\ ~Said(s, sensed[s])
    BY <1>2 DEF Flag, Said
  <2>3. \A s \in Sensors : Said(s, sensed[s]) \in BOOLEAN
    BY DEF Said, World!Near, World!Edge
  <2> QED
    BY <2>1, <2>2, <2>3 DEF SensedInOrder
<1>5. SightingKept /\ EmittedIsCurrent /\ NothingBefore /\ PlannerCatchesUp
  BY <1>2, <1>3 DEF SightingKept, EmittedIsCurrent, NothingBefore, PlannerCatchesUp
<1>6. ActionCatchesUp /\ HeldOrFitting /\ HoldAccounts
  BY <1>2, <1>3 DEF ActionCatchesUp, HeldOrFitting, UnheldFitsState, HoldAccounts, Names
<1> QED
  BY <1>1, <1>4, <1>5, <1>6 DEF IInv

(* The perception queue: Poll adds an event behind all others, a turn of the *)
(* world model takes the first.                                              *)
LEMMA PollKeepsOrder ==
  ASSUME TypeOK, SensedInOrder, NEW event \in Readings, Poll(event)
  PROVE  SensedInOrder'
<1>1. event.sensor \in Sensors /\ event \in Events
  BY PatrolAssumption DEF Events, Sensors
<1>2. /\ Len(qPerception') = Len(qPerception) + 1
      /\ Len(qPerception) \in Nat
      /\ \A i \in 1 .. Len(qPerception) : qPerception'[i] = qPerception[i]
      /\ qPerception'[Len(qPerception) + 1] = event
  BY AppendFacts DEF TypeOK, Poll
<1>3. /\ obstacleAhead' = obstacleAhead /\ cliffDetected' = cliffDetected
      /\ sensed' = [sensed EXCEPT ![event.sensor] = event]
  BY DEF Poll, worldVars
<1> SUFFICES ASSUME NEW s \in Sensors
             PROVE  /\ \A i \in Positions(s)' :
                         (\A j \in Positions(s)' : j <= i) => qPerception'[i] = sensed'[s]
                    /\ Positions(s)' = {} => Flag(s)' = Said(s, sensed'[s])
  BY DEF SensedInOrder, Said, World!Near, World!Edge
<1>4. CASE s = event.sensor
  <2>1. Positions(s)' = Positions(s) \cup {Len(qPerception) + 1}
    BY <1>2, <1>4 DEF Positions
  <2>2. sensed'[s] = event
    BY <1>1, <1>3, <1>4 DEF TypeOK
  <2>3. \A i \in Positions(s)' : (\A j \in Positions(s)' : j <= i) => i = Len(qPerception) + 1
    BY <1>2, <2>1 DEF Positions
  <2> QED
    BY <1>2, <2>1, <2>2, <2>3
<1>5. CASE s # event.sensor
  <2>1. Positions(s)' = Positions(s)
    BY <1>2, <1>5 DEF Positions
  <2>2. sensed'[s] = sensed[s] /\ Flag(s)' = Flag(s)
    BY <1>1, <1>3, <1>5 DEF TypeOK, Flag
  <2>3. \A i \in Positions(s) : qPerception'[i] = qPerception[i]
    BY <1>2 DEF Positions
  <2> QED
    BY <2>1, <2>2, <2>3 DEF SensedInOrder
<1> QED
  BY <1>4, <1>5

LEMMA WorldReceiveKeepsOrder ==
  ASSUME TypeOK, SensedInOrder, WorldReceive
  PROVE  SensedInOrder'
<1> DEFINE event == Head(qPerception)
<1>1. /\ qPerception # <<>> /\ event \in Readings /\ qPerception' = Tail(qPerception)
      /\ sensed' = sensed
      /\ obstacleAhead' = IF event.sensor = "ultrasonic" THEN World!Near(event.distance)
                          ELSE obstacleAhead
      /\ cliffDetected' = IF event.sensor = "grayscale" THEN World!Edge(event.values)
                          ELSE cliffDetected
  BY WorldReceiveShape
<1>2. /\ event = qPerception[1]
      /\ Len(qPerception) \in Nat \ {0}
      /\ Len(qPerception') = Len(qPerception) - 1
      /\ \A i \in 1 .. Len(qPerception) - 1 : qPerception'[i] = qPerception[i + 1]
  BY <1>1, TailFacts DEF TypeOK
<1> HIDE DEF event
<1>3. event.sensor \in Sensors /\ event # None
  BY <1>1, PatrolAssumption DEF Events, Sensors
<1> SUFFICES ASSUME NEW s \in Sensors
             PROVE  /\ \A i \in Positions(s)' :
                         (\A j \in Positions(s)' : j <= i) => qPerception'[i] = sensed[s]
                    /\ Positions(s)' = {} => Flag(s)' = Said(s, sensed[s])
  BY <1>1 DEF SensedInOrder, Said, World!Near, World!Edge
<1>4. Flag(s)' = IF s = event.sensor THEN Said(s, event) ELSE Flag(s)
  BY <1>1, <1>3 DEF Flag, Said, Sensors, World!Near, World!Edge, TypeOK
<1>5. Positions(s)' = {i \in 1 .. Len(qPerception) - 1 : qPerception[i + 1].sensor = s}
  BY <1>2 DEF Positions
<1>6. \A i \in 1 .. Len(qPerception) - 1 : i \in Positions(s)' <=> i + 1 \in Positions(s)
  BY <1>2, <1>5 DEF Positions
<1>7. ASSUME NEW i \in Positions(s)', \A j \in Positions(s)' : j <= i
      PROVE  qPerception'[i] = sensed[s]
  <2>1. i \in 1 .. Len(qPerception) - 1 /\ i + 1 \in Positions(s)
    BY <1>5, <1>6
  <2>2. ASSUME NEW j \in Positions(s)
        PROVE  j <= i + 1
    <3>1. j \in 1 .. Len(qPerception)
      BY DEF Positions
    <3>2. CASE j = 1
      BY <2>1, <3>2, <1>2
    <3>3. CASE j # 1
      <4>1. j - 1 \in 1 .. Len(qPerception) - 1 /\ (j - 1) + 1 = j
        BY <3>1, <3>3, <1>2
      <4>2. j - 1 \in Positions(s)'
        BY <4>1, <1>6
      <4> QED
        BY <1>7, <4>1, <4>2, <2>1
    <3> QED
      BY <3>2, <3>3
  <2>3. qPerception[i + 1] = sensed[s]
    BY <2>1, <2>2 DEF SensedInOrder
  <2> QED
    BY <1>2, <2>1, <2>3
<1>8. ASSUME Positions(s)' = {}
      PROVE  Flag(s)' = Said(s, sensed[s])
  <2>1. \A j \in Positions(s) : j = 1
    <3> SUFFICES ASSUME NEW j \in Positions(s), j # 1
                 PROVE  FALSE
      OBVIOUS
    <3>1. j \in 1 .. Len(qPerception)
      BY DEF Positions
    <3>2. j - 1 \in 1 .. Len(qPerception) - 1 /\ (j - 1) + 1 = j
      BY <3>1, <1>2
    <3> QED
      BY <3>2, <1>6, <1>8
  <2>2. CASE s = event.sensor
    <3>1. 1 \in Positions(s)
      BY <1>2, <2>2 DEF Positions
    <3>2. event = sensed[s]
      BY <2>1, <3>1, <1>2 DEF SensedInOrder
    <3> QED
      BY <1>4, <2>2, <3>2
  <2>3. CASE s # event.sensor
    <3>1. Positions(s) = {}
      <4> SUFFICES ASSUME NEW j \in Positions(s)
                   PROVE  FALSE
        OBVIOUS
      <4> QED
        BY <2>1, <2>3, <1>2 DEF Positions
    <3> QED
      BY <1>4, <2>3, <3>1 DEF SensedInOrder
  <2> QED
    BY <2>2, <2>3
<1> QED
  BY <1>7, <1>8

-----------------------------------------------------------------------------
(* A turn of the world model keeps the youngest cell, and emits what it then *)
(* holds.                                                                    *)
LEMMA WorldReceiveRemembers ==
  ASSUME TypeOK, SightingKept, WorldReceive
  PROVE  SightingKept'
<1> DEFINE c == World!Marked(Head(qPerception))
<1>1. /\ Head(qPerception) \in Readings /\ CellsTyped(cells) /\ CellsTyped(c)
      /\ cells' = World!Decayed(c)
      /\ unseen' = (IF Sighting(Head(qPerception)) THEN 0 ELSE unseen)
  BY WorldReceiveShape
<1>2. /\ Sighting(Head(qPerception)) => \E i \in DOMAIN c : c[i] = 0
      /\ \A i \in DOMAIN cells : i \in DOMAIN c /\ (c[i] = cells[i] \/ c[i] = 0)
  BY <1>1, MarkedFacts
<1> HIDE DEF c
<1>3. Decay \in Nat /\ unseen \in 0 .. Decay + 1
      /\ \A i \in DOMAIN cells : cells[i] \in 0 .. Decay + 1
  BY PatrolAssumption DEF TypeOK
<1>4. ASSUME unseen' <= Decay
      PROVE  \E i \in DOMAIN c : c[i] <= unseen' /\ c[i] <= Decay
  <2>1. CASE Sighting(Head(qPerception))
    BY <1>1, <1>2, <1>3, <2>1
  <2>2. CASE ~Sighting(Head(qPerception))
    <3>1. unseen' = unseen /\ unseen <= Decay
      BY <1>1, <1>4, <2>2
    <3>2. PICK i \in DOMAIN cells : cells[i] <= unseen
      BY <3>1 DEF SightingKept
    <3> QED
      BY <1>2, <1>3, <3>1, <3>2
  <2> QED
    BY <2>1, <2>2
<1> QED
  BY <1>1, <1>4, DecayedFacts DEF SightingKept

LEMMA WorldIdleRemembers ==
  ASSUME TypeOK, SightingKept, WorldIdle
  PROVE  SightingKept'
<1>1. CellsTyped(cells) /\ cells' = World!Decayed(cells) /\ unseen' = unseen
  BY WorldIdleShape
<1>2. Decay \in Nat /\ unseen \in 0 .. Decay + 1
      /\ \A i \in DOMAIN cells : cells[i] \in 0 .. Decay + 1
  BY PatrolAssumption DEF TypeOK
<1> QED
  BY <1>1, <1>2, DecayedFacts DEF SightingKept

LEMMA WorldTurnTells ==
  ASSUME TypeOK, EmittedIsCurrent, NothingBefore, PlannerCatchesUp,
         Len(qWorld) <= Capacity, World!MaybeEmit,
         obstacleAhead' \in BOOLEAN, cliffDetected' \in BOOLEAN,
         lastState' = lastState
  PROVE  EmittedIsCurrent' /\ NothingBefore' /\ PlannerCatchesUp'
<1>1. /\ lastEmitted' = World!Snapshot /\ lastEmitted' # None
      /\ lastEmitted' \in World!WorldState
      /\ \/ qWorld' = qWorld /\ lastEmitted' = lastEmitted
         \/ qWorld' = Append(qWorld, [state |-> lastEmitted'])
  BY EmitShape
<1>2. EmittedIsCurrent'
  <2>1. /\ World!Snapshot["obstacle_ahead"] = obstacleAhead'
        /\ World!Snapshot["cliff_detected"] = cliffDetected'
        /\ World!Snapshot["recently_blocked"] = (DOMAIN cells' # {})
    BY SnapshotFacts
  <2> DEFINE new == World!Snapshot
  <2>2. lastEmitted' = new
    BY <1>1
  <2>3. /\ new["obstacle_ahead"] = obstacleAhead'
        /\ new["cliff_detected"] = cliffDetected'
        /\ new["recently_blocked"] = (DOMAIN cells' # {})
    BY <2>1
  <2> HIDE DEF new
  <2> QED
    BY <2>2, <2>3, Zenon DEF EmittedIsCurrent
<1>3. NothingBefore'
  BY <1>1 DEF NothingBefore
<1>4. PlannerCatchesUp'
  <2>1. CASE qWorld' = qWorld /\ lastEmitted' = lastEmitted
    BY <1>1, <2>1 DEF PlannerCatchesUp
  <2>2. CASE qWorld' = Append(qWorld, [state |-> lastEmitted'])
    <3> DEFINE u == [state |-> lastEmitted']
    <3>1. qWorld' = Append(qWorld, u) /\ u \in [state : World!WorldState] /\ u.state = lastEmitted'
      BY <1>1, <2>2
    <3> HIDE DEF u
    <3>2. /\ qWorld' # <<>> /\ Len(qWorld') = Len(qWorld) + 1 /\ qWorld'[Len(qWorld) + 1] = u
      BY <3>1, AppendFacts DEF TypeOK
    <3> QED
      BY <3>1, <3>2 DEF PlannerCatchesUp
  <2> QED
    BY <1>1, <2>1, <2>2
<1> QED
  BY <1>2, <1>3, <1>4

(* The planner takes the first update and keeps its state.                   *)
LEMMA PlannerReceiveCatchesUp ==
  ASSUME TypeOK, NothingBefore, PlannerCatchesUp, PlannerReceive
  PROVE  lastEmitted # None /\ PlannerCatchesUp'
<1>1. /\ qWorld # <<>> /\ qWorld' = Tail(qWorld) /\ lastState' = Head(qWorld).state
      /\ lastEmitted' = lastEmitted
  BY PlannerReceiveShape DEF worldVars
<1>2. /\ Head(qWorld) = qWorld[1]
      /\ Len(qWorld) \in Nat \ {0}
      /\ Len(qWorld') = Len(qWorld) - 1
      /\ \A i \in 1 .. Len(qWorld) - 1 : qWorld'[i] = qWorld[i + 1]
      /\ qWorld' = <<>> <=> Len(qWorld) = 1
  BY <1>1, TailFacts DEF TypeOK
<1>3. lastEmitted # None /\ qWorld[Len(qWorld)].state = lastEmitted
  BY <1>1 DEF NothingBefore, PlannerCatchesUp
<1>4. CASE Len(qWorld) = 1
  BY <1>1, <1>2, <1>3, <1>4 DEF PlannerCatchesUp
<1>5. CASE Len(qWorld) # 1
  <2>1. qWorld'[Len(qWorld')] = qWorld[Len(qWorld)] /\ qWorld' # <<>>
    BY <1>2, <1>5
  <2> QED
    BY <1>1, <1>3, <2>1 DEF PlannerCatchesUp
<1> QED
  BY <1>3, <1>4, <1>5

(* One _tick, of the state the planner has once the turn is over.            *)
LEMMA TickKeepsPlans ==
  ASSUME TypeOK, ActionCatchesUp, HeldOrFitting, HoldAccounts, PlanStarts,
         lastState' \in World!WorldState \cup {None},
         lastState # None => lastState' # None,
         Len(qPlan) <= Capacity, Planner!Tick(lastState'), lastPlan' = lastPlan
  PROVE  /\ ActionCatchesUp' /\ HeldOrFitting' /\ HoldAccounts'
         /\ lastName # None /\ lastName' # lastName => manoeuvre >= HoldOf(lastName)
<1>0. /\ manoeuvre \in 0 .. CliffHold /\ holdLeft \in 0 .. CliffHold /\ CliffHold \in Nat
      /\ lastName \in Names \cup {None}
  BY PatrolAssumption DEF TypeOK
<1>1. \/ qPlan' = qPlan /\ lastName' = lastName
      \/ lastName' # lastName /\ lastName' \in Names /\ qPlan' = Append(qPlan, lastName')
  BY TickShape
<1>2. ActionCatchesUp'
  <2>1. CASE qPlan' = qPlan /\ lastName' = lastName
    BY <2>1 DEF ActionCatchesUp
  <2>2. CASE lastName' \in Names /\ qPlan' = Append(qPlan, lastName')
    <3>1. qPlan' # <<>> /\ Len(qPlan') = Len(qPlan) + 1 /\ qPlan'[Len(qPlan) + 1] = lastName'
      BY <2>2, AppendFacts DEF TypeOK
    <3> QED
      BY <3>1 DEF ActionCatchesUp
  <2> QED
    BY <1>1, <2>1, <2>2
<1>3. CASE Planner!Committed(lastState')
  <2>1. /\ lastName' = lastName /\ holdLeft' = holdLeft /\ manoeuvre' = manoeuvre
        /\ lastState' = None \/ holdLeft > 0
    BY <1>3 DEF Planner!Committed, PlanStarts
  <2>2. lastName \notin {"caution", "cruise"}
    <3>1. lastName \in {"caution", "cruise"} => lastState' # None /\ ~(holdLeft > 0)
      BY PatrolAssumption DEF HeldOrFitting, Names
    <3> QED
      BY <2>1, <3>1
  <2>3. HeldOrFitting'
    BY <2>1, <2>2 DEF HeldOrFitting, UnheldFitsState
  <2>4. HoldAccounts'
    BY <2>1 DEF HoldAccounts
  <2> QED
    BY <1>2, <2>1, <2>3, <2>4
<1>4. CASE Planner!Reevaluate(lastState')
  <2> DEFINE rule == Planner!Select(lastState')
  <2>1. lastState' # None /\ holdLeft = 0 /\ lastName' = rule.name /\ holdLeft' = rule.hold
    BY <1>4 DEF Planner!Reevaluate
  <2>2. rule.name \in Names /\ rule.hold = HoldOf(rule.name)
    BY <2>1, SelectCases
  <2>3. HoldOf(rule.name) \in 0 .. CliffHold
        /\ (HoldOf(rule.name) > 0 => rule.name \in {"avoid_cliff", "avoid"})
    BY <2>2, Holds
  <2>4. UnheldFitsState'
    BY <2>1 DEF UnheldFitsState
  <2> HIDE DEF rule
  <2>5. HeldOrFitting'
    BY <2>1, <2>2, <2>3, <2>4 DEF HeldOrFitting
  <2>6. HoldAccounts'
    <3>1. manoeuvre' \in Nat
      BY <1>0 DEF PlanStarts
    <3>2. \A m, h \in Nat : m + h >= h
      OBVIOUS
    <3>3. HoldOf(rule.name) \in Nat
      BY <1>0, <2>3
    <3>4. manoeuvre' + HoldOf(rule.name) >= HoldOf(rule.name)
      BY <3>1, <3>2, <3>3
    <3>5. HoldOf(lastName)' = HoldOf(rule.name)
      BY <2>1, Zenon DEF HoldOf
    <3> QED
      BY <2>1, <2>2, <3>4, <3>5 DEF HoldAccounts
  <2>7. lastName # None => manoeuvre >= HoldOf(lastName)
    BY <1>0, <2>1 DEF HoldAccounts
  <2> QED
    BY <1>2, <2>5, <2>6, <2>7
<1> QED
  BY <1>3, <1>4 DEF Planner!Tick

LEMMA ExecuteKeepsPlans ==
  ASSUME TypeOK, ActionCatchesUp, Execute
  PROVE  ActionCatchesUp'
<1>1. /\ qPlan # <<>> /\ qPlan' = Tail(qPlan) /\ lastPlan' = Head(qPlan) /\ lastName' = lastName
  BY DEF Execute, plannerVars
<1>2. /\ Head(qPlan) = qPlan[1]
      /\ Len(qPlan) \in Nat \ {0}
      /\ Len(qPlan') = Len(qPlan) - 1
      /\ \A i \in 1 .. Len(qPlan) - 1 : qPlan'[i] = qPlan[i + 1]
      /\ qPlan' = <<>> <=> Len(qPlan) = 1
  BY <1>1, TailFacts DEF TypeOK
<1>3. qPlan[Len(qPlan)] = lastName
  BY <1>1 DEF ActionCatchesUp
<1>4. CASE Len(qPlan) = 1
  BY <1>1, <1>2, <1>3, <1>4 DEF ActionCatchesUp
<1>5. CASE Len(qPlan) # 1
  <2>1. qPlan'[Len(qPlan')] = qPlan[Len(qPlan)] /\ qPlan' # <<>>
    BY <1>2, <1>5
  <2> QED
    BY <1>1, <1>3, <2>1 DEF ActionCatchesUp
<1> QED
  BY <1>4, <1>5

(* What a step leaves alone keeps its part of the invariant.                 *)
LEMMA Unmoved ==
  /\ SensedInOrder /\ UNCHANGED <<qPerception, obstacleAhead, cliffDetected, sensed>>
       => SensedInOrder'
  /\ SightingKept /\ UNCHANGED <<cells, unseen>> => SightingKept'
  /\ EmittedIsCurrent /\ UNCHANGED <<lastEmitted, obstacleAhead, cliffDetected, cells>>
       => EmittedIsCurrent'
  /\ NothingBefore /\ UNCHANGED <<lastEmitted, qWorld, lastState, unseen>> => NothingBefore'
  /\ PlannerCatchesUp /\ UNCHANGED <<lastEmitted, qWorld, lastState>> => PlannerCatchesUp'
  /\ ActionCatchesUp /\ UNCHANGED <<qPlan, lastPlan, lastName>> => ActionCatchesUp'
  /\ HeldOrFitting /\ UNCHANGED <<lastState, lastName, holdLeft>> => HeldOrFitting'
  /\ HoldAccounts /\ UNCHANGED <<lastName, holdLeft, manoeuvre>> => HoldAccounts'
<1>1. SensedInOrder /\ UNCHANGED <<qPerception, obstacleAhead, cliffDetected, sensed>>
        => SensedInOrder'
  BY DEF SensedInOrder, Positions, Flag, Said, World!Near, World!Edge
<1>2. SightingKept /\ UNCHANGED <<cells, unseen>> => SightingKept'
  BY DEF SightingKept
<1>3. EmittedIsCurrent /\ UNCHANGED <<lastEmitted, obstacleAhead, cliffDetected, cells>>
        => EmittedIsCurrent'
  BY DEF EmittedIsCurrent
<1>4. NothingBefore /\ UNCHANGED <<lastEmitted, qWorld, lastState, unseen>> => NothingBefore'
  BY DEF NothingBefore
<1>5. PlannerCatchesUp /\ UNCHANGED <<lastEmitted, qWorld, lastState>> => PlannerCatchesUp'
  BY DEF PlannerCatchesUp
<1>6. ActionCatchesUp /\ UNCHANGED <<qPlan, lastPlan, lastName>> => ActionCatchesUp'
  BY DEF ActionCatchesUp
<1>7. HeldOrFitting /\ UNCHANGED <<lastState, lastName, holdLeft>> => HeldOrFitting'
  BY DEF HeldOrFitting, UnheldFitsState
<1>8. HoldAccounts /\ UNCHANGED <<lastName, holdLeft, manoeuvre>> => HoldAccounts'
  BY DEF HoldAccounts
<1> QED
  BY <1>1, <1>2, <1>3, <1>4, <1>5, <1>6, <1>7, <1>8

LEMMA TimePassesKeeps ==
  ASSUME IInv, TimePasses
  PROVE  SightingKept' /\ EmittedIsCurrent' /\ NothingBefore' /\ HeldOrFitting' /\ HoldAccounts'
<1>1. /\ DOMAIN cells' = DOMAIN cells
      /\ \A i \in DOMAIN cells : cells[i] <= Decay => cells'[i] = cells[i] + 1
      /\ holdLeft' = (IF holdLeft > 0 THEN holdLeft - 1 ELSE 0)
      /\ unseen' = UpTo(Decay + 1, unseen) /\ manoeuvre' = UpTo(CliffHold, manoeuvre)
      /\ UNCHANGED <<qPerception, qWorld, qPlan, obstacleAhead, cliffDetected, lastEmitted,
                     lastState, lastName, lastPlan, sensed>>
  BY TimePassesShape DEF IInv
<1>2. /\ Decay \in Nat /\ CliffHold \in Nat
      /\ unseen \in 0 .. Decay + 1 /\ manoeuvre \in 0 .. CliffHold /\ holdLeft \in 0 .. CliffHold
      /\ lastName \in Names \cup {None}
      /\ \A i \in DOMAIN cells : cells[i] \in 0 .. Decay + 1
  BY PatrolAssumption DEF IInv, TypeOK
<1>3. SightingKept'
  <2> SUFFICES ASSUME unseen' <= Decay
               PROVE  \E i \in DOMAIN cells' : cells'[i] <= unseen'
    BY DEF SightingKept
  <2>1. unseen' = unseen + 1 /\ unseen + 1 <= Decay
    BY <1>1, <1>2 DEF UpTo
  <2>2. unseen <= Decay
    BY <1>2, <2>1
  <2>3. PICK i \in DOMAIN cells : cells[i] <= unseen
    BY <2>2 DEF IInv, SightingKept
  <2>4. cells'[i] = cells[i] + 1
    BY <1>1, <1>2, <2>2, <2>3
  <2> QED
    BY <1>1, <1>2, <2>1, <2>3, <2>4
<1>4. EmittedIsCurrent'
  BY <1>1, Zenon DEF IInv, EmittedIsCurrent
<1>5. NothingBefore'
  BY <1>1, <1>2 DEF IInv, NothingBefore, UpTo
<1>6. HeldOrFitting'
  <2>1. holdLeft' > 0 => holdLeft > 0
    BY <1>1, <1>2
  <2> QED
    BY <1>1, <2>1 DEF IInv, HeldOrFitting, UnheldFitsState
<1>7. HoldAccounts'
  <2> SUFFICES ASSUME lastName # None
               PROVE  manoeuvre' + holdLeft' >= HoldOf(lastName)
    BY <1>1 DEF HoldAccounts
  <2>1. HoldOf(lastName) \in 0 .. CliffHold /\ manoeuvre + holdLeft >= HoldOf(lastName)
    BY <1>2, Holds DEF IInv, HoldAccounts
  <2> QED
    BY <1>1, <1>2, <2>1 DEF UpTo
<1> QED
  BY <1>3, <1>4, <1>5, <1>6, <1>7

LEMMA NextInvariant == IInv /\ [Next]_vars => IInv'
<1> SUFFICES ASSUME IInv, [Next]_vars PROVE IInv'
  OBVIOUS
<1>1. TypeOK'
  BY NextType DEF IInv
<1> USE DEF IInv
<1>2. ASSUME NEW event \in Readings, Poll(event) PROVE IInv'
  <2>1. SensedInOrder'
    BY <1>2, PollKeepsOrder
  <2> QED
    BY <1>1, <1>2, <2>1, Unmoved DEF Poll, worldVars, plannerVars
<1>3. CASE WorldReceive
  <2>1. SensedInOrder' /\ SightingKept'
    BY <1>3, WorldReceiveKeepsOrder, WorldReceiveRemembers
  <2>2. /\ Len(qWorld) <= Capacity /\ World!MaybeEmit
        /\ obstacleAhead' \in BOOLEAN /\ cliffDetected' \in BOOLEAN
        /\ UNCHANGED <<qPlan, plannerVars, lastPlan, sensed>>
    BY <1>3, WorldReceiveShape
  <2>3. UNCHANGED <<qPlan, lastPlan, lastState, lastName, holdLeft, manoeuvre>>
    BY <2>2 DEF plannerVars
  <2>4. EmittedIsCurrent' /\ NothingBefore' /\ PlannerCatchesUp'
    BY <2>2, <2>3, WorldTurnTells
  <2> QED
    BY <1>1, <2>1, <2>3, <2>4, Unmoved
<1>4. CASE WorldIdle
  <2>1. SightingKept'
    BY <1>4, WorldIdleRemembers
  <2>2. /\ Len(qWorld) <= Capacity /\ World!MaybeEmit
        /\ obstacleAhead' \in BOOLEAN /\ cliffDetected' \in BOOLEAN
        /\ UNCHANGED <<qPerception, obstacleAhead, cliffDetected, sensed>>
        /\ UNCHANGED <<qPlan, plannerVars, lastPlan>>
    BY <1>4, WorldIdleShape
  <2>3. UNCHANGED <<qPlan, lastPlan, lastState, lastName, holdLeft, manoeuvre>>
    BY <2>2 DEF plannerVars
  <2>4. EmittedIsCurrent' /\ NothingBefore' /\ PlannerCatchesUp'
    BY <2>2, <2>3, WorldTurnTells
  <2> QED
    BY <1>1, <2>1, <2>2, <2>3, <2>4, Unmoved
<1>5. CASE PlannerReceive
  <2>1. /\ Len(qPlan) <= Capacity /\ Planner!Tick(lastState') /\ PlanStarts
        /\ lastState' \in World!WorldState /\ lastPlan' = lastPlan
        /\ UNCHANGED <<qPerception, obstacleAhead, cliffDetected, sensed, cells, unseen, lastEmitted>>
    BY <1>5, PlannerReceiveShape DEF worldVars
  <2>2. lastState' # None
    BY <2>1, PatrolAssumption
  <2>3. lastEmitted # None /\ PlannerCatchesUp'
    BY <1>5, PlannerReceiveCatchesUp
  <2>4. NothingBefore'
    BY <2>1, <2>3 DEF NothingBefore
  <2>5. ActionCatchesUp' /\ HeldOrFitting' /\ HoldAccounts'
    BY <2>1, <2>2, TickKeepsPlans
  <2> QED
    BY <1>1, <2>1, <2>3, <2>4, <2>5, Unmoved
<1>6. CASE PlannerIdle
  <2>1. /\ Len(qPlan) <= Capacity /\ lastState' = lastState /\ Planner!Tick(lastState')
        /\ PlanStarts /\ lastState' \in World!WorldState \cup {None} /\ lastPlan' = lastPlan
        /\ UNCHANGED <<qPerception, obstacleAhead, cliffDetected, sensed, cells, unseen, lastEmitted,
                       qWorld>>
    BY <1>6, PlannerIdleShape DEF worldVars
  <2>2. ActionCatchesUp' /\ HeldOrFitting' /\ HoldAccounts'
    BY <2>1, TickKeepsPlans
  <2> QED
    BY <1>1, <2>1, <2>2, Unmoved
<1>7. CASE TimePasses
  <2>1. UNCHANGED <<qPerception, qWorld, qPlan, obstacleAhead, cliffDetected, lastEmitted,
                    lastState, lastName, lastPlan, sensed>>
    BY <1>7, TimePassesShape
  <2> QED
    BY <1>1, <1>7, <2>1, TimePassesKeeps, Unmoved
<1>8. CASE Execute
  <2>1. ActionCatchesUp'
    BY <1>8, ExecuteKeepsPlans
  <2>2. /\ UNCHANGED <<qPerception, qWorld, obstacleAhead, cliffDetected, sensed, cells, unseen>>
        /\ UNCHANGED <<lastEmitted, lastState, lastName, holdLeft, manoeuvre>>
    BY <1>8 DEF Execute, worldVars, plannerVars
  <2> QED
    BY <1>1, <2>1, <2>2, Unmoved
<1>9. CASE UNCHANGED vars
  BY <1>1, <1>9, Unmoved DEF vars, worldVars, plannerVars
<1> QED
  BY <1>2, <1>3, <1>4, <1>5, <1>6, <1>7, <1>8, <1>9 DEF Next

THEOREM Invariance == Spec => []IInv
  BY InitInvariant, NextInvariant, PTL DEF Spec

(* The memory neither fades early nor goes unreported: while a sighting      *)
(* within the grid is no older than Decay, the state last emitted says       *)
(* recently_blocked (_observe, _decay, _should_emit).                        *)
LEMMA MemoryIsTold == IInv => RememberedForDecay
<1> SUFFICES ASSUME IInv, unseen <= Decay
             PROVE  lastEmitted # None /\ lastEmitted["recently_blocked"]
  BY DEF RememberedForDecay
<1>1. lastEmitted # None
  BY PatrolAssumption DEF IInv, NothingBefore, TypeOK
<1>2. DOMAIN cells # {}
  BY DEF IInv, SightingKept
<1> QED
  BY <1>1, <1>2 DEF IInv, EmittedIsCurrent

THEOREM SightingsAreRemembered == Spec => []RememberedForDecay
  BY Invariance, MemoryIsTold, PTL

(* A robot that drives forward with nothing in flight was last told of no    *)
(* edge and no obstacle, and one that cruises has had nothing within the     *)
(* grid for longer than Decay: the channels' agreement, chained end to end,  *)
(* for every threshold, hold and decay.                                      *)
LEMMA AgreementIsSafe == IInv => ForwardIsSafe
<1> SUFFICES ASSUME IInv PROVE ForwardIsSafe
  OBVIOUS
<1>1. UnheldFitsState
  BY DEF IInv, HeldOrFitting
<1>2. ASSUME ~InFlight, lastPlan \in {"caution", "cruise"}
      PROVE  /\ ~SensedEdge /\ ~SensedNear
             /\ lastPlan = "cruise" => unseen > Decay
  <2>1. qPerception = <<>> /\ qWorld = <<>> /\ qPlan = <<>>
    BY <1>2 DEF InFlight
  <2>2. lastName = lastPlan /\ lastName \in Names
    BY <1>2, <2>1 DEF IInv, ActionCatchesUp, Names
  <2>3. lastState # None /\ Planner!Select(lastState).name = lastName
    BY <1>1, <1>2, <2>2, PatrolAssumption DEF IInv, HeldOrFitting, UnheldFitsState
  <2>4. lastEmitted # None /\ lastState = lastEmitted
    BY <2>1, <2>3 DEF IInv, NothingBefore, PlannerCatchesUp
  <2>5. lastState \in World!WorldState
    BY <2>3 DEF IInv, TypeOK
  <2>6. /\ ~lastState["cliff_detected"] /\ ~lastState["obstacle_ahead"]
        /\ lastPlan = "cruise" => ~lastState["recently_blocked"]
    BY <1>2, <2>2, <2>3, <2>5, SelectCases
  <2>7. ~obstacleAhead /\ ~cliffDetected
    BY <2>4, <2>6 DEF IInv, EmittedIsCurrent
  <2>8. \A s \in Sensors : Positions(s) = {}
    BY <2>1, EmptySeq DEF Positions
  <2>9. \A s \in Sensors : Flag(s) = Said(s, sensed[s])
    BY <2>8 DEF IInv, SensedInOrder
  <2>10. ~Said("ultrasonic", sensed["ultrasonic"]) /\ ~Said("grayscale", sensed["grayscale"])
    BY <2>7, <2>9 DEF Flag, Sensors
  <2>11. ~SensedEdge /\ ~SensedNear
    BY <2>10 DEF Said, SensedEdge, SensedNear
  <2>12. ASSUME lastPlan = "cruise" PROVE unseen > Decay
    <3>1. ~lastEmitted["recently_blocked"]
      BY <2>4, <2>6, <2>12
    <3>2. ~(unseen <= Decay)
      BY <3>1, MemoryIsTold DEF RememberedForDecay
    <3> QED
      BY <3>2, PatrolAssumption DEF IInv, TypeOK
  <2> QED
    BY <2>11, <2>12
<1> QED
  BY <1>1, <1>2 DEF ForwardIsSafe

THEOREM NeverBlind == Spec => []ForwardIsSafe
  BY Invariance, AgreementIsSafe, PTL

(* A manoeuvre is left only when its rule's whole hold has passed since it   *)
(* was put, whatever became true meanwhile (_tick).                          *)
THEOREM ManoeuvresAreHeld == Spec => HoldsAreKept
<1>1. IInv /\ [Next]_vars =>
        [lastName # None /\ lastName' # lastName => manoeuvre >= HoldOf(lastName)]_vars
  <2> SUFFICES ASSUME IInv, [Next]_vars, lastName # None, lastName' # lastName
               PROVE  manoeuvre >= HoldOf(lastName)
    OBVIOUS
  <2>1. CASE PlannerReceive
    <3>1. /\ Len(qPlan) <= Capacity /\ Planner!Tick(lastState') /\ PlanStarts
          /\ lastState' \in World!WorldState /\ lastPlan' = lastPlan
      BY <2>1, PlannerReceiveShape DEF IInv
    <3>2. lastState' # None
      BY <3>1, PatrolAssumption
    <3> QED
      BY <3>1, <3>2, TickKeepsPlans DEF IInv
  <2>2. CASE PlannerIdle
    <3>1. /\ Len(qPlan) <= Capacity /\ lastState' = lastState /\ Planner!Tick(lastState')
          /\ PlanStarts /\ lastState' \in World!WorldState \cup {None} /\ lastPlan' = lastPlan
      BY <2>2, PlannerIdleShape DEF IInv
    <3> QED
      BY <3>1, TickKeepsPlans DEF IInv
  <2>3. CASE lastName' = lastName
    BY <2>3
  <2> QED
    BY <2>1, <2>2, <2>3
       DEF Next, Poll, WorldReceive, WorldIdle, TimePasses, Execute, plannerVars, vars
<1> QED
  BY <1>1, Invariance, PTL DEF Spec, HoldsAreKept
=============================================================================
