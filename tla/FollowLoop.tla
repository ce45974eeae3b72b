----------------------------- MODULE FollowLoop -----------------------------
(***************************************************************************)
(* The follow-user routine's running pipeline                              *)
(* (src/autonomon/routines/follow_user.py): the vision and the ultrasonic  *)
(* perceptron, TargetWorldModel, FollowPlanner and the plans on their way  *)
(* to the action layer, joined as in ExploreLoop.                          *)
(***************************************************************************)
EXTENDS Sequences, Rounding

CONSTANTS
  None, Capacity, Unit,
  LostTimeout, Smoothing, BearingEpsilon, DistanceEpsilon, UltrasonicMaxAge, UltrasonicSmoothing,
  TargetDistance, DistanceDeadband,
  SpeedKp, MinDriveSpeed, MaxSpeed, SpeedQuantum,
  SteerGain, MaxSteer, MaxSteerStep, SteerQuantum,
  PanGain, TiltGain, CenterDeadband, CameraSteerCompGain,
  PanMin, PanMax, TiltMin, TiltMax,
  DriveBurst, SteerBurst, Roll, TiltAmp, SearchInterval,
  BodyRotateSpeed, BodyRotateSteer, BodyRotateDuration,
  Readings,          (* the perception events the sensors can produce        *)
  MaxDetections      (* bound: the detections in a run                       *)

VARIABLES
  qPerception, qWorld, qPlan,                                     (* queues  *)
  visible, estimate, echo, echoAge, visionSeq, seenAge, lastEmitted, (* TargetWorldModel *)
  lastState, lastSeq, pan, tilt, commandedPan, steer, speed,      (* FollowPlanner *)
  driving, straightened, detectAge, searchPhase, sweepStep, searchAge, lastCommand,
  sightedAge,    (* history: time since a detection was folded in            *)
  trackedSeq,    (* history: the last frame the planner tracked              *)
  commitAge      (* history: driving time since a frame was tracked or a     *)
                 (* rotation commanded                                       *)

World == INSTANCE TargetWorldModel
Planner == INSTANCE FollowPlanner

historyVars == <<sightedAge, trackedSeq, commitAge>>
worldVars == <<visible, estimate, echo, echoAge, visionSeq, seenAge, lastEmitted>>
aimVars == <<pan, tilt, commandedPan, steer, speed>>
plannerVars == <<lastState, lastSeq, aimVars, driving, straightened, detectAge,
                 searchPhase, sweepStep, searchAge, lastCommand>>
vars == <<qPerception, qWorld, qPlan, worldVars, plannerVars, historyVars>>

Longest == Greater(DriveBurst, BodyRotateDuration)

-----------------------------------------------------------------------------
(* What the sensors report: a frame with a target always has its bearings.   *)
Events ==
       [sensor : {"vision"}, detected : {TRUE},
        bearing : Int, vertical : Int, distance : Int \cup {None}]
  \cup [sensor : {"vision"}, detected : {FALSE}]
  \cup [sensor : {"ultrasonic"}, distance : Int \cup {None}]

(* What the world model emits, and what the planner commands.                *)
States ==
       [visible : {FALSE}, bearing : {None}, vertical : {None}, distance : {None}, seq : Nat]
  \cup [visible : {TRUE}, bearing : Int, vertical : Int, distance : Int \cup {None}, seq : Nat]

Kinds == {"track", "track-straight", "hold", "search-sweep", "search-rotate"}

(* Limits come before rounding: a command is a step nearest to something     *)
(* within them, and the floor of a speed comes after its cap.  The camera    *)
(* starts straight, and wheels are put straight, whatever the limits.        *)
Nearest(low, high, step) == Quantise(low, step) .. Quantise(high, step)
TopSpeed == Greater(MinDriveSpeed, MaxSpeed)
PivotSpeed == Quantise(BodyRotateSpeed, SpeedQuantum)
Pans == {Planner!Straight} \cup PanMin .. PanMax
Tilts == {Planner!Straight} \cup TiltMin .. TiltMax
Steers == {Planner!Straight}
            \cup Nearest(Planner!Straight - MaxSteer, Planner!Straight + MaxSteer, SteerQuantum)
Speeds == {0} \cup Nearest(MinDriveSpeed, TopSpeed, SpeedQuantum)
              \cup Nearest(-TopSpeed, -MinDriveSpeed, SpeedQuantum)
Commands == [kind : Kinds, pan : Int \cup {None}, tilt : Int \cup {None},
             steer : Steers \cup {None}, speed : Speeds \cup {PivotSpeed}]

ASSUME FollowAssumption ==
  /\ {Capacity, LostTimeout, UltrasonicMaxAge, SteerBurst, SearchInterval} \subseteq Nat
  /\ {Unit, BearingEpsilon, DriveBurst, BodyRotateDuration} \subseteq Nat \ {0}
  /\ {Smoothing, UltrasonicSmoothing, DistanceEpsilon, TargetDistance, DistanceDeadband} \subseteq Int
  /\ {SpeedKp, SteerGain, PanGain, TiltGain, CenterDeadband, CameraSteerCompGain} \subseteq Int
  /\ {PanMin, PanMax, TiltMin, TiltMax, TiltAmp} \subseteq Int /\ PanMin <= PanMax /\ TiltMin <= TiltMax
  /\ {SpeedQuantum, SteerQuantum, BodyRotateSteer, BodyRotateSpeed} \subseteq Int
  /\ {MaxSteer, MaxSteerStep, MinDriveSpeed, MaxSpeed} \subseteq Nat
  /\ Roll \in Seq([sin : Int, cos : Int]) /\ Roll # <<>>
  /\ None \notin Int \cup Events \cup States \cup Commands
  /\ Readings \subseteq Events

-----------------------------------------------------------------------------
Init ==
  /\ qPerception = <<>> /\ qWorld = <<>> /\ qPlan = <<>>
  /\ World!InitWorld
  /\ Planner!InitPlanner
  /\ sightedAge = LostTimeout + 1
  /\ trackedSeq = 0
  /\ commitAge = Longest

Detection(event) == World!Detection(event)

(* A perceptron's put completes.                                             *)
Poll(event) ==
  /\ Len(qPerception) < Capacity
  /\ Detection(event) => visionSeq + Len(SelectSeq(qPerception, Detection)) < MaxDetections
  /\ qPerception' = Append(qPerception, event)
  /\ UNCHANGED <<qWorld, qPlan, worldVars, plannerVars, historyVars>>

WorldReceive ==
  /\ UNCHANGED <<qPlan, plannerVars, trackedSeq, commitAge>>
  /\ World!ReceiveEvent
  /\ sightedAge' = IF Detection(Head(qPerception)) THEN 0 ELSE sightedAge

WorldIdle ==
  /\ UNCHANGED <<qPlan, plannerVars, historyVars>>
  /\ World!IdleTurn

Drives(command) == command # None /\ command.speed # 0
Rotating(command) == command # None /\ command.kind = "search-rotate"

Commitments ==
  /\ trackedSeq' = IF lastSeq' = None THEN trackedSeq ELSE lastSeq'
  /\ commitAge' = IF trackedSeq' # trackedSeq \/ (Rotating(lastCommand') /\ ~Rotating(lastCommand))
                  THEN 0 ELSE commitAge
  /\ UNCHANGED sightedAge

PlannerReceive ==
  /\ UNCHANGED <<qPerception, worldVars>>
  /\ Planner!ReceiveUpdate
  /\ Commitments

PlannerIdle ==
  /\ UNCHANGED <<qPerception, worldVars>>
  /\ Planner!IdleTick
  /\ Commitments

(* One clock runs for all ages.                                              *)
TimePasses ==
  /\ UNCHANGED <<qPerception, qWorld, qPlan, visible, estimate, echo, visionSeq, lastEmitted,
                 lastState, lastSeq, aimVars, driving, straightened, searchPhase,
                 sweepStep, lastCommand, trackedSeq>>
  /\ World!SightingsAge
  /\ Planner!BurstAge
  /\ Planner!SearchAges
  /\ sightedAge' = Lesser(sightedAge + 1, LostTimeout + 1)
  /\ commitAge' = IF Drives(lastCommand) THEN Lesser(commitAge + 1, Longest) ELSE commitAge

(* VehicleAction.run gets a plan.                                            *)
Execute ==
  /\ qPlan # <<>>
  /\ qPlan' = Tail(qPlan)
  /\ UNCHANGED <<qPerception, qWorld, worldVars, plannerVars, historyVars>>

Next ==
  \/ \E event \in Readings : Poll(event)
  \/ WorldReceive
  \/ WorldIdle
  \/ PlannerReceive
  \/ PlannerIdle
  \/ TimePasses
  \/ Execute

Spec == Init /\ [][Next]_vars

(* Every layer's turns come round, and the clock advances; nothing obliges a *)
(* sensor to answer.                                                         *)
FairSpec ==
  /\ Spec
  /\ WF_vars(WorldReceive) /\ WF_vars(WorldIdle)
  /\ WF_vars(PlannerReceive) /\ WF_vars(PlannerIdle)
  /\ WF_vars(TimePasses)
  /\ WF_vars(Execute)

-----------------------------------------------------------------------------
(* The type invariant: ages stay below their limits, angles are numbers, and *)
(* the camera is within its travel.                                          *)
TypeOK ==
  /\ qPerception \in Seq(Readings) /\ Len(qPerception) <= Capacity
  /\ qWorld \in Seq(States) /\ Len(qWorld) <= Capacity + 1
  /\ qPlan \in Seq(Commands) /\ Len(qPlan) <= Capacity + 1
  /\ visible \in BOOLEAN /\ driving \in BOOLEAN /\ straightened \in BOOLEAN
  /\ echo \in Int \cup {None} /\ visionSeq \in Nat
  /\ lastEmitted \in States \cup {None} /\ lastState \in States \cup {None}
  /\ lastSeq \in Nat \cup {None} /\ trackedSeq \in Nat
  /\ seenAge \in 0 .. LostTimeout + 1 /\ echoAge \in 0 .. UltrasonicMaxAge + 1
  /\ detectAge \in 0 .. DriveBurst
  /\ searchPhase \in {"sweep", "rotate"} /\ sweepStep \in 0 .. Len(Roll)
  /\ searchAge \in 0 .. Greater(SearchInterval, BodyRotateDuration) \cup {None}
  /\ lastCommand \in Commands \cup {None}
  /\ pan \in Pans /\ tilt \in Tilts /\ commandedPan \in Pans
  /\ steer \in Steers /\ speed \in Speeds
  /\ sightedAge \in 0 .. LostTimeout + 1 /\ commitAge \in 0 .. Longest

(* Whatever drives the robot is accounted for in the planner's state: a      *)
(* burst towards a target it takes for visible, or the rotation of a search  *)
(* for one it does not.  No hold, sweep or new frame leaves a speed behind.  *)
DriveHasReason ==
  Drives(lastCommand) =>
    IF lastState.visible
    THEN driving /\ lastCommand.kind \in {"track", "track-straight"} /\ lastCommand.speed = speed
    ELSE searchPhase = "rotate" /\ lastCommand.kind = "search-rotate"

PlannerTurn == PlannerReceive \/ PlannerIdle

(* No turn of the planner leaves the robot driving on a frame as old as      *)
(* drive_burst_s, or rotating for as long as body_rotate_duration_s, however *)
(* many updates without a new frame came meanwhile.                          *)
DriveIsTimed ==
  PlannerTurn /\ Drives(lastCommand') =>
    commitAge' < IF Rotating(lastCommand') THEN BodyRotateDuration ELSE DriveBurst

(* A drive is accounted for by the planner's state, and by its clock (_hold, *)
(* _straighten, _advance_search).                                            *)
DriveIsAccounted == [][DriveHasReason' /\ DriveIsTimed]_vars

(* The camera follows a frame at most once: it moves on a visible target     *)
(* only when the planner reads a frame newer than all it has tracked, not    *)
(* when the range or the visibility changed under an old bearing.            *)
FrameMovesCameraOnce ==
  [][<<pan, tilt>>' # <<pan, tilt>> /\ lastState'.visible =>
       lastState'.seq > trackedSeq /\ trackedSeq' = lastState'.seq]_vars

AtMostHalfAStepOver(value, limit, step) == 2 * (value - limit) <= Greater(0, step)

(* Whatever the parameters, every plan on its way is within the camera's     *)
(* travel, and the rounding, which comes after gains, clamp and ramp, takes  *)
(* no steer beyond max_steer_deg and no speed beyond max_speed_pct (or the   *)
(* floor, if that is more) by over half a step, however many frames add up   *)
(* (_track).  The search turns the body at its own speed.                    *)
CommandsInRange ==
  \A i \in DOMAIN qPlan :
    LET p == qPlan[i] IN
      /\ p.pan # None => p.pan \in Pans /\ p.tilt \in Tilts
      /\ p.steer # None =>
           AtMostHalfAStepOver(Abs(p.steer - Planner!Straight), MaxSteer, SteerQuantum)
      /\ IF p.kind = "search-rotate"
         THEN AtMostHalfAStepOver(Abs(p.speed - BodyRotateSpeed), 0, SpeedQuantum)
         ELSE /\ AtMostHalfAStepOver(Abs(p.speed), TopSpeed, SpeedQuantum)
              /\ p.speed # 0 => AtMostHalfAStepOver(MinDriveSpeed, Abs(p.speed), SpeedQuantum)

(* What the planner's docstring says of max_steer_deg: a hard cap, to which  *)
(* every steer command is clamped.  Rounding comes after the clamp, so it    *)
(* holds only for a cap on whole steps (FollowLoopProofs).                   *)
SteerIsCapped ==
  \A i \in DOMAIN qPlan :
    qPlan[i].steer # None => Abs(qPlan[i].steer - Planner!Straight) <= MaxSteer

(* Small movements add up: once nothing is between them, the planner's       *)
(* picture of a visible target is less than an epsilon from the estimate,    *)
(* however many smaller movements went unreported.                           *)
EstimateReported ==
  visible /\ qWorld = <<>> =>
    /\ lastState.visible
    /\ Abs(estimate.bearing - lastState.bearing) < BearingEpsilon
    /\ Abs(estimate.vertical - lastState.vertical) < BearingEpsilon

(* After every turn of the world model, idle or not, what was last put       *)
(* towards the planner calls the target visible exactly while a detection is *)
(* no older than lost_target_timeout_s: dropouts are bridged, a loss is told. *)
LostOnSchedule ==
  [][WorldReceive \/ WorldIdle =>
       (lastEmitted'.visible <=> sightedAge' <= LostTimeout)]_vars
=============================================================================
