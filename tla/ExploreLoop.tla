---------------------------- MODULE ExploreLoop ----------------------------
(***************************************************************************)
(* The explore routine's running pipeline: the ultrasonic and grayscale    *)
(* perceptrons, ObstacleWorldModel, AvoidancePlanner and the plan the      *)
(* action layer holds, joined by the three bounded queues that             *)
(* Pipeline.run creates.  Every layer is one asyncio task; a step is what  *)
(* the task does between two awaits, and steps of the layers interleave.   *)
(*                                                                         *)
(* Stopping the pipeline is not part of this module.                       *)
(***************************************************************************)
EXTENDS Integers, Sequences

CONSTANTS
  None,
  Capacity,
  ObstacleThreshold,
  CliffThreshold,
  AvoidDuration,
  Readings           (* the perception events the sensors can produce        *)

VARIABLES
  qPerception, qWorld, qPlan,   (* the queues between the layers             *)
  worldState, emitted,          (* ObstacleWorldModel                        *)
  lastState, lastKind, holdLeft,(* AvoidancePlanner                          *)
  lastPlan,                     (* VehicleAction._last_plan                  *)
  sensed,                       (* history: each sensor's last event put     *)
  manoeuvre                     (* history: ticks passed under a hold since  *)
                                (* the last avoid plan was put, at most      *)
                                (* AvoidDuration                             *)

World == INSTANCE ObstacleWorldModel
Planner == INSTANCE AvoidancePlanner

Sensors == {"ultrasonic", "grayscale"}

ASSUME ExploreAssumption ==
  /\ Capacity \in Nat \ {0}
  /\ ObstacleThreshold \in Nat
  /\ CliffThreshold \in Nat
  /\ AvoidDuration \in Nat
  /\ None \notin Nat \cup {"avoid", "cruise"} \cup World!WorldState
                      \cup World!PerceptionEvent
  /\ Readings \subseteq {e \in World!PerceptionEvent : e.sensor \in Sensors}

worldVars == <<worldState, emitted>>
plannerVars == <<lastState, lastKind, holdLeft, manoeuvre>>
vars == <<qPerception, qWorld, qPlan, worldVars, plannerVars, lastPlan, sensed>>

-----------------------------------------------------------------------------
Init ==
  /\ qPerception = <<>> /\ qWorld = <<>> /\ qPlan = <<>>
  /\ World!InitWorld
  /\ Planner!InitPlanner
  /\ lastPlan = None
  /\ sensed = [s \in Sensors |-> None]
  /\ manoeuvre = 0

(* A perceptron's put completes.  A source suspended on the full queue joins *)
(* it in no fixed order with the other source, so its event counts as read   *)
(* when the put completes.                                                   *)
Poll(event) ==
  /\ Len(qPerception) < Capacity
  /\ qPerception' = Append(qPerception, event)
  /\ sensed' = [sensed EXCEPT ![event.sensor] = event]
  /\ UNCHANGED <<qWorld, qPlan, worldVars, plannerVars, lastPlan>>

WorldStep ==
  /\ World!ReceiveEvent
  /\ UNCHANGED <<qPlan, plannerVars, lastPlan, sensed>>

(* A switch to avoid starts the manoeuvre; nothing else touches its age.     *)
ManoeuvreStarts ==
  manoeuvre' = IF lastKind # "avoid" /\ lastKind' = "avoid" THEN 0 ELSE manoeuvre

PlannerReceive ==
  /\ Planner!ReceiveUpdate
  /\ ManoeuvreStarts
  /\ UNCHANGED <<qPerception, worldVars, lastPlan, sensed>>

PlannerIdle ==
  /\ Planner!IdleTick
  /\ ManoeuvreStarts
  /\ UNCHANGED <<qPerception, worldVars, lastPlan, sensed>>

TimePasses ==
  /\ Planner!TimePasses
  /\ manoeuvre' = IF manoeuvre < AvoidDuration THEN manoeuvre + 1 ELSE manoeuvre
  /\ UNCHANGED <<qPerception, worldVars, lastPlan, sensed>>

(* VehicleAction.run gets a plan and retains it; until the next one it       *)
(* executes and renews this plan only.                                       *)
Execute ==
  /\ qPlan # <<>>
  /\ qPlan' = Tail(qPlan)
  /\ lastPlan' = Head(qPlan)
  /\ UNCHANGED <<qPerception, qWorld, worldVars, plannerVars, sensed>>

Next ==
  \/ \E event \in Readings : Poll(event)
  \/ WorldStep
  \/ PlannerReceive
  \/ PlannerIdle
  \/ TimePasses
  \/ Execute

Spec == Init /\ [][Next]_vars

(* asyncio runs every ready task, each get is retried for ever, and the      *)
(* clock advances.  Nothing obliges a sensor to answer.                      *)
Fairness ==
  /\ WF_vars(WorldStep)
  /\ WF_vars(PlannerReceive)
  /\ WF_vars(PlannerIdle)
  /\ WF_vars(TimePasses)
  /\ WF_vars(Execute)

FairSpec == Spec /\ Fairness

-----------------------------------------------------------------------------
(* The type invariant: every layer's state and queue holds what its code can *)
(* put there, and no queue outgrows its bound and its one suspended put.     *)
TypeOK ==
  /\ qPerception \in Seq(Readings) /\ Len(qPerception) <= Capacity
  /\ qWorld \in Seq(World!Update) /\ Len(qWorld) <= Capacity + 1
  /\ qPlan \in Seq(Planner!Kinds) /\ Len(qPlan) <= Capacity + 1
  /\ worldState \in World!WorldState
  /\ emitted \in BOOLEAN
  /\ lastState \in World!WorldState \cup {None}
  /\ lastKind \in Planner!Kinds \cup {None}
  /\ holdLeft \in 0 .. AvoidDuration
  /\ lastPlan \in Planner!Kinds \cup {None}
  /\ sensed \in [Sensors -> Readings \cup {None}]
  /\ manoeuvre \in 0 .. AvoidDuration

(* The last value sent into a channel whose receiver keeps the last it got.  *)
LastSent(held, queue) == IF queue = <<>> THEN held ELSE queue[Len(queue)]

Positions(s) == {i \in 1 .. Len(qPerception) : qPerception[i].sensor = s}

(* No observation is lost or reordered on its way into the world model: of   *)
(* each sensor, the last event in the queue, or else the flag in the world   *)
(* model, is what the sensor last reported (_apply, _set).                   *)
SensedInOrder ==
  \A s \in Sensors :
    /\ \A i \in Positions(s) :
         (\A j \in Positions(s) : j <= i) => qPerception[i] = sensed[s]
    /\ Positions(s) = {} =>
         worldState[World!FieldOf(s)] = (sensed[s] # None /\ World!Flag(sensed[s]))

(* Emitting only on change loses nothing: once the baseline is out, the last *)
(* update sent carries the world model's present state, and before that      *)
(* nothing was sent and the state is still clear (run, _build_update).       *)
PlannerCatchesUp ==
  IF emitted
  THEN IF qWorld = <<>> THEN lastState = worldState
       ELSE qWorld[Len(qWorld)].state = worldState
  ELSE qWorld = <<>> /\ lastState = None /\ worldState = World!Clear

(* The debounce loses nothing: the last plan put is of the kind the planner  *)
(* believes is in force (_tick assigns _last_kind before it awaits the put). *)
ActionCatchesUp == LastSent(lastPlan, qPlan) = lastKind

(* The action layer is never re-commanded with the kind it already follows:  *)
(* consecutive plans differ, the held one included (avoidance.py's debounce).*)
PlansAlternate ==
  /\ qPlan # <<>> => lastPlan # qPlan[1]
  /\ \A i \in 1 .. Len(qPlan) - 1 : qPlan[i] # qPlan[i + 1]

(* No state the planner has read is left unanswered: while cruising is in    *)
(* force its latest state is clear, whatever holds were passed through, and  *)
(* a hold is open only for an avoid manoeuvre.                               *)
CruiseSeesClear ==
  /\ lastKind = "cruise" => lastState # None /\ ~Planner!Blocked(lastState)
  /\ holdLeft > 0 => lastKind = "avoid"

(* The part of a manoeuvre already passed and the hold still open make up    *)
(* AvoidDuration together: a re-evaluation in an avoid manoeuvre re-arms the *)
(* whole hold or finds it spent, and nothing cuts it short.                  *)
HoldAccounts == lastKind = "avoid" => manoeuvre + holdLeft >= AvoidDuration

(* The layers agree on what the sensors last said, at every moment and      *)
(* whatever is suppressed, held back or queued between them: the sensors     *)
(* with the world model, it with the planner, the planner with the action    *)
(* layer, and the hold with the plan it is for.                              *)
Agreement ==
  /\ SensedInOrder
  /\ PlannerCatchesUp
  /\ ActionCatchesUp
  /\ PlansAlternate
  /\ CruiseSeesClear
  /\ HoldAccounts

InFlight == qPerception # <<>> \/ qWorld # <<>> \/ qPlan # <<>>

SensedBlocked == \E s \in Sensors : sensed[s] # None /\ World!Flag(sensed[s])

(* End to end: when nothing is in flight and the robot holds the cruise      *)
(* plan, no sensor's last report was an obstacle or an edge.                 *)
NoBlindCruise == lastPlan = "cruise" /\ ~InFlight => ~SensedBlocked

(* An avoid manoeuvre, once commanded, lasts at least AvoidDuration: from    *)
(* the put of an avoid plan to the put of the next cruise plan that much     *)
(* time passes, whatever updates and idle ticks fall in between              *)
(* (_tick suppresses re-evaluation, and every re-evaluation re-arms).        *)
CommittedAvoid ==
  [][lastKind = "avoid" /\ lastKind' = "cruise" => manoeuvre = AvoidDuration]_vars

(* If from some point on the sensors agree on blocked, or on clear, the      *)
(* robot ends up holding the matching plan for good, however many stale      *)
(* events, updates and plans were queued and whatever hold was open.         *)
StableReadingsWin ==
  /\ <>[]SensedBlocked => <>[](lastPlan = "avoid")
  /\ <>[](~SensedBlocked /\ \E s \in Sensors : sensed[s] # None)
       => <>[](lastPlan = "cruise")
=============================================================================
