-------------------------- MODULE TargetWorldModel --------------------------
(***************************************************************************)
(* The world model of the follow-user routine                              *)
(* (src/autonomon/world_model/target.py): a smoothed estimate of where the *)
(* target is, kept for LostTimeout after the last detection, and reported  *)
(* when it becomes visible, is lost, or has moved.                         *)
(*                                                                         *)
(* Angles and distances are whole numbers and weights are in Unit-ths, so  *)
(* the smoothing's floats are rounded down.  Last-seen times are kept as   *)
(* ages.  The delta of an update, which no planner reads, is left out.     *)
(***************************************************************************)
EXTENDS Sequences, Rounding

CONSTANTS
  None,
  Capacity,
  Unit,                 (* the denominator of weights and gains              *)
  LostTimeout,          (* lost_target_timeout_s in clock ticks              *)
  Smoothing,            (* smoothing                                         *)
  BearingEpsilon,       (* emit_bearing_epsilon_deg                          *)
  DistanceEpsilon,      (* emit_distance_epsilon_cm                          *)
  UltrasonicMaxAge,     (* ultrasonic_max_age_s in clock ticks               *)
  UltrasonicSmoothing   (* ultrasonic_smoothing                              *)

VARIABLES
  qPerception,   (* PerceptionEvents waiting to be read                      *)
  qWorld,        (* WorldStateUpdates put towards the planner                *)
  visible,       (* _visible                                                 *)
  estimate,      (* _bearing, _vertical_bearing and _distance                *)
  echo,          (* _ultrasonic_distance                                     *)
  echoAge,       (* time since _ultrasonic_seen_at                           *)
  visionSeq,     (* _vision_seq                                              *)
  seenAge,       (* time since _last_seen                                    *)
  lastEmitted    (* _last_emitted, None before the baseline                  *)

Nothing == [bearing |-> None, vertical |-> None, distance |-> None]

(* _ema                                                                      *)
Ema(prev, measurement, weight) ==
  IF measurement = None THEN prev
  ELSE IF prev = None THEN measurement
  ELSE (weight * measurement + (Unit - weight) * prev) \div Unit

(* _observe, then _age_out, in a turn that sees the target: the age is 0.    *)
Detect(event) ==
  /\ visible' = TRUE
  /\ estimate' = [f \in DOMAIN Nothing |-> Ema(estimate[f], event[f], Smoothing)]
  /\ visionSeq' = visionSeq + 1
  /\ seenAge' = 0
  /\ UNCHANGED <<echo, echoAge>>

LostEarly ==   (* mutant: lost at the timeout, not after it *)
  /\ visible' = (visible /\ seenAge < LostTimeout)
  /\ estimate' = IF visible' THEN estimate ELSE Nothing
  /\ UNCHANGED <<visionSeq, seenAge>>

(* _age_out in every other turn.                                             *)
AgeOut ==
  /\ visible' = (visible /\ seenAge <= LostTimeout)
  /\ estimate' = IF visible' THEN estimate ELSE Nothing
  /\ UNCHANGED <<visionSeq, seenAge>>

(* _observe of an ultrasonic reading, then _age_out.                         *)
Echo(event) ==
  /\ echo' = Ema(echo, event.distance, UltrasonicSmoothing)
  /\ echoAge' = IF event.distance = None THEN echoAge ELSE 0
  /\ AgeOut

Detection(event) == event.sensor = "vision" /\ event.detected

Observe(event) ==
  \/ event.sensor = "ultrasonic" /\ Echo(event)
  \/ Detection(event) /\ Detect(event)
  \/ /\ event.sensor # "ultrasonic" /\ ~Detection(event)
     /\ AgeOut /\ UNCHANGED <<echo, echoAge>>

-----------------------------------------------------------------------------
(* _effective_distance, of the state after the turn.                         *)
EffectiveDistance ==
  IF echo' # None /\ echoAge' <= UltrasonicMaxAge THEN echo' ELSE estimate'.distance

(* The state _maybe_emit builds.                                             *)
Snapshot ==
  [visible |-> visible',
   bearing |-> estimate'.bearing,
   vertical |-> estimate'.vertical,
   distance |-> IF visible' THEN EffectiveDistance ELSE None,
   seq |-> visionSeq']

(* _delta_exceeds, _moved                                                    *)
Exceeds(new, old, epsilon) ==
  IF new = None \/ old = None THEN new # old ELSE Abs(new - old) >= epsilon

Moved(new, old) ==
  \/ Exceeds(new.bearing, old.bearing, BearingEpsilon)
  \/ Exceeds(new.vertical, old.vertical, BearingEpsilon)
  \/ Exceeds(new.distance, old.distance, DistanceEpsilon)

(* _should_emit                                                              *)
ShouldEmit(state) ==
  \/ lastEmitted = None
  \/ state.visible # lastEmitted.visible
  \/ state.visible /\ Moved(state, lastEmitted)

MaybeEmitDrifting ==   (* mutant: movement is measured from the last state, emitted or not *)
  /\ lastEmitted' = Snapshot
  /\ qWorld' = IF ShouldEmit(Snapshot) THEN Append(qWorld, Snapshot) ELSE qWorld

(* _maybe_emit                                                               *)
MaybeEmit ==
  IF ShouldEmit(Snapshot)
  THEN lastEmitted' = Snapshot /\ qWorld' = Append(qWorld, Snapshot)
  ELSE UNCHANGED <<lastEmitted, qWorld>>

-----------------------------------------------------------------------------
InitWorld ==
  /\ visible = FALSE
  /\ estimate = Nothing
  /\ echo = None
  /\ echoAge = UltrasonicMaxAge + 1
  /\ visionSeq = 0
  /\ seenAge = LostTimeout + 1
  /\ lastEmitted = None

(* A turn of run() that got an event.                                        *)
ReceiveEvent ==
  /\ qPerception # <<>>
  /\ Len(qWorld) <= Capacity
  /\ qPerception' = Tail(qPerception)
  /\ Observe(Head(qPerception))
  /\ MaybeEmit

(* A turn of run() whose get timed out.                                      *)
IdleTurn ==
  /\ Len(qWorld) <= Capacity
  /\ AgeOut
  /\ UNCHANGED <<qPerception, echo, echoAge>>
  /\ MaybeEmit

(* loop.time() advances; an age beyond its limit makes no further difference. *)
SightingsAge ==
  /\ seenAge' = Lesser(seenAge + 1, LostTimeout + 1)
  /\ echoAge' = Lesser(echoAge + 1, UltrasonicMaxAge + 1)
=============================================================================
