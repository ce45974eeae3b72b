---------------------------- MODULE FollowPlanner ----------------------------
(***************************************************************************)
(* The planner of the follow-user routine                                  *)
(* (src/autonomon/planning/follow.py).  A new vision frame aims the camera *)
(* and the wheels and starts a burst of driving: steered, then straight,   *)
(* then a hold until the next frame.  Without a target the camera rolls    *)
(* around, and after a full roll the body pivots.                          *)
(*                                                                         *)
(* Angles, speeds and distances are whole numbers, gains are in Unit-ths.  *)
(* Times at which something was done are kept as ages.  A plan is the      *)
(* angles and the speed it commands, None what it leaves alone; a stop is  *)
(* speed 0.  What a turn does with _state_dirty is the parameter of Turn:  *)
(* the flag is up only in the turn that got an update.                     *)
(***************************************************************************)
EXTENDS Sequences, Rounding

CONSTANTS
  None,
  Capacity,
  Unit,
  TargetDistance, DistanceDeadband,       (* target_distance_cm, distance_deadband_cm *)
  SpeedKp, MinDriveSpeed, MaxSpeed, SpeedQuantum,
  SteerGain, MaxSteer, MaxSteerStep, SteerQuantum,
  PanGain, TiltGain, CenterDeadband, CameraSteerCompGain,
  PanMin, PanMax, TiltMin, TiltMax,
  DriveBurst, SteerBurst,                 (* drive_burst_s, steer_burst_s in ticks *)
  Roll,              (* [sin, cos] of the roll's phases, in Unit-ths; its length is *)
                     (* the steps of search_step_deg in a full roll          *)
  TiltAmp,           (* search_tilt_offset_deg                               *)
  SearchInterval,    (* search_interval_s in ticks                           *)
  BodyRotateSpeed, BodyRotateSteer,
  BodyRotateDuration (* body_rotate_duration_s in ticks                      *)

VARIABLES
  qWorld,        (* WorldStateUpdates waiting to be read                     *)
  qPlan,         (* ActionPlans put towards the action layer                 *)
  lastState,     (* _last_state, None before the first update                *)
  lastSeq,       (* _last_vision_seq                                         *)
  pan, tilt,     (* _pan_angle, _tilt_angle                                  *)
  commandedPan,  (* _last_commanded_pan                                      *)
  steer, speed,  (* _last_steer, _last_speed                                 *)
  driving,       (* _driving                                                 *)
  straightened,  (* _straightened                                            *)
  detectAge,     (* time since _last_detect_at                               *)
  searchPhase,   (* _search_phase                                            *)
  sweepStep,     (* _sweep_phase in steps                                    *)
  searchAge,     (* time since _last_step_at in the sweep, and since         *)
                 (* _phase_started_at in the rotation                        *)
  lastCommand    (* _last_command                                            *)

trackVars == <<driving, straightened, detectAge>>
searchVars == <<searchPhase, sweepStep, searchAge>>
aimVars == <<pan, tilt, commandedPan, steer, speed>>

Straight == 90       (* _STRAIGHT_ANGLE_DEG                                  *)
CamQuantum == 2      (* _CAM_QUANTUM_DEG                                     *)

Scale(gain, n) == (gain * n) \div Unit
OrZero(n) == IF n = None THEN 0 ELSE n

(* The debounce key: the angles of the camera in steps.                      *)
Key(plan) ==
  [plan EXCEPT !.pan = IF @ = None THEN None ELSE Quantise(@, CamQuantum),
               !.tilt = IF @ = None THEN None ELSE Quantise(@, CamQuantum)]

Plan(kind, p, t, s, v) == [kind |-> kind, pan |-> p, tilt |-> t, steer |-> s, speed |-> v]

(* The end of _tick: a plan is put when its command differs from the last.   *)
Command(plan) ==
  IF Key(plan) = lastCommand
  THEN UNCHANGED <<lastCommand, qPlan>>
  ELSE lastCommand' = Key(plan) /\ qPlan' = Append(qPlan, plan)

-----------------------------------------------------------------------------
(* The arithmetic of _track.                                                 *)
AimedUnclamped(angle, gain, bearing, low, high) ==   (* mutant: the camera's travel is not limited *)
  IF Abs(bearing) > CenterDeadband THEN angle + Scale(gain, bearing) ELSE angle

Aimed(angle, gain, bearing, low, high) ==
  IF Abs(bearing) > CenterDeadband THEN Clamp(angle + Scale(gain, bearing), low, high) ELSE angle

PanDir == IF PanGain >= 0 THEN 1 ELSE -1

ClampSteer(angle) == Clamp(angle, Straight - MaxSteer, Straight + MaxSteer)

UncappedSteer(bearing) ==   (* mutant: the ramp goes on past the cap *)
  LET target == Straight + Scale(SteerGain, PanDir * (pan - Straight) + bearing)
  IN  Quantise(steer + Clamp(target - steer, -MaxSteerStep, MaxSteerStep), SteerQuantum)

SteerTo(bearing) ==
  LET target == ClampSteer(Straight + Scale(SteerGain, PanDir * (pan - Straight) + bearing))
  IN  Quantise(steer + Clamp(target - steer, -MaxSteerStep, MaxSteerStep), SteerQuantum)

(* _speed_for                                                                *)
SpeedFor(distance) ==
  LET error == distance - TargetDistance
      proportional == Clamp(Scale(SpeedKp, error), -MaxSpeed, MaxSpeed)
  IN  IF distance = None \/ Abs(error) <= DistanceDeadband THEN 0
      ELSE IF proportional = 0 \/ Abs(proportional) >= MinDriveSpeed THEN proportional
      ELSE IF proportional > 0 THEN MinDriveSpeed ELSE -MinDriveSpeed

(* The pan the servo gets, against the turn the wheels will make.            *)
Compensated(panAngle, steerAngle) ==
  Clamp(panAngle - PanDir * Scale(CameraSteerCompGain, steerAngle - Straight), PanMin, PanMax)

(* _reset_search                                                             *)
ResetSearch ==
  /\ searchPhase' = "sweep"
  /\ sweepStep' = 0
  /\ searchAge' = None

(* A new vision frame: _track, and what _tick notes of it.                   *)
Track(state) ==
  /\ lastSeq' = state.seq
  /\ pan' = Aimed(pan, PanGain, OrZero(state.bearing), PanMin, PanMax)
  /\ tilt' = Aimed(tilt, TiltGain, OrZero(state.vertical), TiltMin, TiltMax)
  /\ steer' = SteerTo(OrZero(state.bearing))
  /\ speed' = Quantise(SpeedFor(state.distance), SpeedQuantum)
  /\ commandedPan' = Compensated(pan', steer')
  /\ ResetSearch
  /\ detectAge' = 0
  /\ driving' = (speed' # 0)
  /\ straightened' = FALSE
  /\ Command(Plan("track", commandedPan', tilt', steer', speed'))

-----------------------------------------------------------------------------
HoldKeepsDriving ==   (* mutant: the hold repeats the last speed *)
  /\ driving' = FALSE
  /\ Command(Plan("hold", commandedPan, tilt, steer, speed))
  /\ UNCHANGED <<lastSeq, aimVars, straightened, detectAge, searchVars>>

(* The burst has run out: _hold.                                             *)
Hold ==
  /\ driving' = FALSE
  /\ Command(Plan("hold", commandedPan, tilt, steer, 0))
  /\ UNCHANGED <<lastSeq, aimVars, straightened, detectAge, searchVars>>

(* The steered part of the burst has run out: _straighten.                   *)
Straighten ==
  /\ straightened' = TRUE
  /\ steer' = Straight
  /\ commandedPan' = pan
  /\ Command(Plan("track-straight", pan, tilt, Straight, speed))
  /\ UNCHANGED <<lastSeq, pan, tilt, speed, driving, detectAge, searchVars>>

BurstOver == driving /\ detectAge >= DriveBurst
SteeringOver == driving /\ detectAge < DriveBurst /\ detectAge >= SteerBurst /\ ~straightened

KeepGoing == UNCHANGED <<lastSeq, aimVars, trackVars, searchVars, lastCommand, qPlan>>

(* A turn with nothing new of the target, by the part of the burst it is in. *)
Continue ==
  \/ BurstOver /\ Hold
  \/ SteeringOver /\ Straighten
  \/ ~BurstOver /\ ~SteeringOver /\ KeepGoing

-----------------------------------------------------------------------------
(* The interval of the sweep, or the rotation, is not over.                  *)
Dwelling ==
  searchAge # None /\ searchAge < IF searchPhase = "rotate" THEN BodyRotateDuration ELSE SearchInterval

Dwell == Dwelling /\ UNCHANGED <<pan, tilt, searchVars>>

(* One step of the roll, and the rotation after the last.                    *)
SweepOn ==
  /\ searchPhase = "sweep"
  /\ ~Dwelling
  /\ sweepStep' = sweepStep + 1
  /\ pan' = Clamp((PanMin + PanMax) \div 2 + Scale((PanMax - PanMin) \div 2, Roll[sweepStep'].sin),
                  PanMin, PanMax)
  /\ tilt' = Clamp(Straight - Scale(TiltAmp, Roll[sweepStep'].cos), TiltMin, TiltMax)
  /\ searchPhase' = IF sweepStep' = Len(Roll) THEN "rotate" ELSE "sweep"
  /\ searchAge' = 0

RotateEnds ==
  /\ searchPhase = "rotate"
  /\ ~Dwelling
  /\ ResetSearch
  /\ UNCHANGED <<pan, tilt>>

(* _advance_search                                                           *)
AdvanceSearch == SweepOn \/ RotateEnds \/ Dwell

(* _search_actions, of the state after the step.                             *)
SearchPlan ==
  IF searchPhase' = "rotate"
  THEN Plan("search-rotate", None, None,
            Quantise(ClampSteer(BodyRotateSteer), SteerQuantum),
            Quantise(BodyRotateSpeed, SpeedQuantum))
  ELSE Plan("search-sweep", pan', tilt', None, 0)

Search ==
  /\ lastSeq' = None
  /\ AdvanceSearch
  /\ Command(SearchPlan)
  /\ UNCHANGED <<commandedPan, steer, speed, trackVars>>

-----------------------------------------------------------------------------
AnyUpdateIsFresh(state, dirty) == dirty   (* mutant: _vision_seq is not compared *)

Fresh(state, dirty) == dirty /\ state.seq # lastSeq

(* _tick                                                                     *)
Turn(state, dirty) ==
  \/ state = None /\ KeepGoing
  \/ state # None /\ ~state.visible /\ Search
  \/ state # None /\ state.visible /\ Fresh(state, dirty) /\ Track(state)
  \/ state # None /\ state.visible /\ ~Fresh(state, dirty) /\ Continue

InitPlanner ==
  /\ lastState = None /\ lastSeq = None
  /\ pan = Straight /\ tilt = Straight /\ commandedPan = Straight
  /\ steer = Straight /\ speed = 0
  /\ driving = FALSE /\ straightened = FALSE /\ detectAge = DriveBurst
  /\ searchPhase = "sweep" /\ sweepStep = 0 /\ searchAge = None
  /\ lastCommand = None

(* A turn of run() that got an update.                                       *)
ReceiveUpdate ==
  /\ qWorld # <<>>
  /\ Len(qPlan) <= Capacity
  /\ qWorld' = Tail(qWorld)
  /\ lastState' = Head(qWorld)
  /\ Turn(Head(qWorld), TRUE)

(* A turn of run() whose get timed out.                                      *)
IdleTick ==
  /\ Len(qPlan) <= Capacity
  /\ UNCHANGED <<qWorld, lastState>>
  /\ Turn(lastState, FALSE)

(* loop.time() advances; an age counts while it is compared with something.  *)
BurstAge == detectAge' = IF driving THEN Lesser(detectAge + 1, DriveBurst) ELSE detectAge

SearchAges ==
  searchAge' = IF searchAge = None THEN None
               ELSE Lesser(searchAge + 1, Greater(SearchInterval, BodyRotateDuration))
=============================================================================
