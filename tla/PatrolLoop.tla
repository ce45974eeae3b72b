----------------------------- MODULE PatrolLoop -----------------------------
(***************************************************************************)
(* The patrol routine's running pipeline (src/autonomon/routines/patrol.py):*)
(* two perceptrons, OccupancyWorldModel, RulePlanner with the bundled      *)
(* table src/autonomon/planning/rules/patrol.toml, and the plan the action *)
(* layer holds, joined as in ExploreLoop.                                  *)
(***************************************************************************)
EXTENDS Integers, Sequences

CONSTANTS
  None,
  Capacity,
  ObstacleThreshold,
  CliffThreshold,
  CellSize,
  GridRadius,
  Decay,
  CliffHold,         (* hold_s of avoid_cliff, in clock ticks                *)
  ObstacleHold,      (* hold_s of avoid                                      *)
  Readings           (* the perception events the sensors can produce        *)

VARIABLES
  qPerception, qWorld, qPlan,                        (* the queues           *)
  cells, obstacleAhead, cliffDetected, lastEmitted,  (* OccupancyWorldModel  *)
  lastState, lastName, holdLeft,                     (* RulePlanner          *)
  lastPlan,      (* VehicleAction._last_plan                                 *)
  sensed,        (* history: each sensor's last event put                    *)
  unseen,        (* history: time since a reading within the grid was folded *)
                 (* in, up to Decay + 1                                      *)
  manoeuvre      (* history: time since lastName was put, up to CliffHold    *)

World == INSTANCE OccupancyWorldModel

(* patrol.toml                                                               *)
On(field) == {[field |-> field, op |-> "eq", value |-> TRUE]}
PatrolTable ==
  << [name |-> "avoid_cliff", hold |-> CliffHold,    when |-> On("cliff_detected"),   anyOf |-> {}],
     [name |-> "avoid",       hold |-> ObstacleHold, when |-> On("obstacle_ahead"),   anyOf |-> {}],
     [name |-> "caution",     hold |-> 0,            when |-> On("recently_blocked"), anyOf |-> {}],
     [name |-> "cruise",      hold |-> 0,            when |-> {},                     anyOf |-> {}] >>

Planner == INSTANCE RulePlanner WITH Rules <- PatrolTable, Default <- "default", Numeric <- {}

Sensors == {"ultrasonic", "grayscale"}
Names == {"avoid_cliff", "avoid", "caution", "cruise"}

(* What the two sensors report: a distance, or the values of the channels.   *)
Events ==
  [sensor : {"ultrasonic"}, distance : Int \cup {None}]
    \cup [sensor : {"grayscale"}, values : SUBSET (Int \cup {None})]

(* A cell has a depth, and the bundled table holds avoid_cliff the longest.  *)
ASSUME PatrolAssumption ==
  /\ Capacity \in Nat
  /\ ObstacleThreshold \in Int /\ CliffThreshold \in Int /\ GridRadius \in Int
  /\ CellSize \in Nat \ {0}
  /\ Decay \in Nat /\ CliffHold \in Nat /\ ObstacleHold \in 0 .. CliffHold
  /\ None \notin Int \cup Names \cup World!WorldState \cup Events
  /\ Readings \subseteq Events

worldVars == <<cells, obstacleAhead, cliffDetected, lastEmitted, unseen>>
plannerVars == <<lastState, lastName, holdLeft, manoeuvre>>
vars == <<qPerception, qWorld, qPlan, worldVars, plannerVars, lastPlan, sensed>>

-----------------------------------------------------------------------------
Init ==
  /\ qPerception = <<>> /\ qWorld = <<>> /\ qPlan = <<>>
  /\ World!InitWorld
  /\ Planner!InitPlanner
  /\ lastPlan = None
  /\ sensed = [s \in Sensors |-> None]
  /\ unseen = Decay + 1
  /\ manoeuvre = 0

(* A perceptron's put completes.                                             *)
Poll(event) ==
  /\ Len(qPerception) < Capacity
  /\ qPerception' = Append(qPerception, event)
  /\ sensed' = [sensed EXCEPT ![event.sensor] = event]
  /\ UNCHANGED <<qWorld, qPlan, worldVars, plannerVars, lastPlan>>

Sighting(event) == event.sensor = "ultrasonic" /\ World!InGrid(event.distance)

WorldReceive ==
  /\ World!ReceiveEvent
  /\ unseen' = IF Sighting(Head(qPerception)) THEN 0 ELSE unseen
  /\ UNCHANGED <<qPlan, plannerVars, lastPlan, sensed>>

WorldIdle ==
  /\ World!IdleTurn
  /\ UNCHANGED <<qPlan, unseen, plannerVars, lastPlan, sensed>>

PlanStarts == manoeuvre' = IF lastName' # lastName THEN 0 ELSE manoeuvre

PlannerReceive ==
  /\ Planner!ReceiveUpdate
  /\ PlanStarts
  /\ UNCHANGED <<qPerception, worldVars, lastPlan, sensed>>

PlannerIdle ==
  /\ Planner!IdleTick
  /\ PlanStarts
  /\ UNCHANGED <<qPerception, worldVars, lastPlan, sensed>>

UpTo(bound, n) == IF n < bound THEN n + 1 ELSE n

(* One clock runs for the cells and the hold.                                *)
TimePasses ==
  /\ World!CellsAge
  /\ Planner!HoldPasses
  /\ unseen' = UpTo(Decay + 1, unseen)
  /\ manoeuvre' = UpTo(CliffHold, manoeuvre)
  /\ UNCHANGED <<qPerception, qWorld, qPlan, obstacleAhead, cliffDetected, lastEmitted,
                 lastState, lastName, lastPlan, sensed>>

(* VehicleAction.run gets a plan and retains it.                             *)
Execute ==
  /\ qPlan # <<>>
  /\ qPlan' = Tail(qPlan)
  /\ lastPlan' = Head(qPlan)
  /\ UNCHANGED <<qPerception, qWorld, worldVars, plannerVars, sensed>>

Next ==
  \/ \E event \in Readings : Poll(event)
  \/ WorldReceive
  \/ WorldIdle
  \/ PlannerReceive
  \/ PlannerIdle
  \/ TimePasses
  \/ Execute

Spec == Init /\ [][Next]_vars

(* Every layer's turns come round, and the clock advances; nothing obliges a *)
(* sensor to answer.                                                         *)
FairSpec ==
  /\ Spec
  /\ WF_vars(WorldReceive) /\ WF_vars(WorldIdle)
  /\ WF_vars(PlannerReceive) /\ WF_vars(PlannerIdle)
  /\ WF_vars(TimePasses)
  /\ WF_vars(Execute)

-----------------------------------------------------------------------------
(* The type invariant.  "default" is not among the names: the table's last   *)
(* rule matches every state.                                                 *)
TypeOK ==
  /\ qPerception \in Seq(Readings) /\ Len(qPerception) <= Capacity
  /\ qWorld \in Seq([state : World!WorldState]) /\ Len(qWorld) <= Capacity + 1
  /\ qPlan \in Seq(Names) /\ Len(qPlan) <= Capacity + 1
  /\ DOMAIN cells \subseteq 1 .. World!CellOf(GridRadius)
  /\ \A i \in DOMAIN cells : cells[i] \in 0 .. Decay + 1
  /\ obstacleAhead \in BOOLEAN /\ cliffDetected \in BOOLEAN
  /\ lastEmitted \in World!WorldState \cup {None}
  /\ lastState \in World!WorldState \cup {None}
  /\ lastName \in Names \cup {None} /\ lastPlan \in Names \cup {None}
  /\ holdLeft \in 0 .. CliffHold /\ manoeuvre \in 0 .. CliffHold
  /\ unseen \in 0 .. Decay + 1
  /\ sensed \in [Sensors -> Readings \cup {None}]

InFlight == qPerception # <<>> \/ qWorld # <<>> \/ qPlan # <<>>

SensedEdge == sensed["grayscale"] # None /\ World!Edge(sensed["grayscale"].values)
SensedNear == sensed["ultrasonic"] # None /\ World!Near(sensed["ultrasonic"].distance)
SensedInGrid == sensed["ultrasonic"] # None /\ World!InGrid(sensed["ultrasonic"].distance)

(* The memory neither fades early nor goes unreported: while a sighting is   *)
(* no older than Decay, the state last emitted says recently_blocked         *)
(* (_observe refreshes the cell, _decay spares it, _should_emit reports it). *)
RememberedForDecay ==
  unseen <= Decay => lastEmitted # None /\ lastEmitted["recently_blocked"]

(* A plan without a hold is never out of date with what the planner has      *)
(* read: in particular an edge or an obstacle read during the other's        *)
(* manoeuvre waits only behind a hold, never while driving on (_tick).       *)
UnheldFitsState ==
  lastName \in {"caution", "cruise"} => Planner!Select(lastState).name = lastName

(* End to end: when nothing is in flight a robot that drives forward was     *)
(* last told of no edge and no obstacle, and one that cruises has had        *)
(* nothing within the grid for longer than Decay; and no forward plan        *)
(* outlives the planner's reading of a state it does not fit.                *)
ForwardIsSafe ==
  /\ UnheldFitsState
  /\ ~InFlight /\ lastPlan \in {"caution", "cruise"} => ~SensedEdge /\ ~SensedNear
  /\ ~InFlight /\ lastPlan = "cruise" => unseen > Decay

HoldOf(name) ==
  CASE name = "avoid_cliff" -> CliffHold [] name = "avoid" -> ObstacleHold [] OTHER -> 0

(* A manoeuvre is left only when its rule's whole hold has passed since it   *)
(* was put, also when another rule's condition came true meanwhile.          *)
HoldsAreKept ==
  [][lastName # None /\ lastName' # lastName => manoeuvre >= HoldOf(lastName)]_vars

(* What the sensors go on saying is what the robot ends up doing: retreat    *)
(* from an edge, else from an obstacle, and cruise once the ultrasonic is    *)
(* clear of the grid, when the memory has run out by the idle turns alone.   *)
PatrolSettles ==
  /\ <>[]SensedEdge => <>[](lastPlan = "avoid_cliff")
  /\ <>[](~SensedEdge /\ SensedNear) => <>[](lastPlan = "avoid")
  /\ <>[](~SensedEdge /\ ~SensedNear /\ ~SensedInGrid) => <>[](lastPlan = "cruise")

(* occupancy.py:120-122: the first observation is emitted as a baseline, so  *)
(* no plan precedes every observation.                                       *)
PlannedFromObservation == lastPlan # None => \E s \in Sensors : sensed[s] # None
=============================================================================
