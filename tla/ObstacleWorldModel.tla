------------------------- MODULE ObstacleWorldModel -------------------------
(***************************************************************************)
(* The boolean world model of the explore routine                          *)
(* (src/autonomon/world_model/obstacle.py): it folds perception events     *)
(* into two flags and emits an update when a flag changes, plus one        *)
(* baseline for the first event.                                           *)
(*                                                                         *)
(* A queue between two layers is a sequence.  Its producer is one task,    *)
(* and a put on a full queue suspends that task until the consumer's next  *)
(* get, so the queue and the item its producer is suspended on are one     *)
(* sequence of at most Capacity + 1 items, and the producer runs only      *)
(* while Len(queue) <= Capacity.                                           *)
(***************************************************************************)
EXTENDS Integers, Sequences

CONSTANTS
  None,                (* Python's None: no echo, no channel value, unset.   *)
  Capacity,            (* maxsize of every inter-layer queue.                *)
  ObstacleThreshold,   (* obstacle_threshold_cm                              *)
  CliffThreshold       (* cliff_threshold, a raw ADC count                   *)

VARIABLES
  qPerception,  (* PerceptionEvents waiting to be read                       *)
  qWorld,       (* WorldStateUpdates put towards the planner                 *)
  worldState,   (* _state                                                    *)
  emitted       (* run()'s local flag: the baseline is out                   *)

Fields == {"obstacle_ahead", "cliff_detected"}
WorldState == [Fields -> BOOLEAN]
Update == [state : WorldState, delta : SUBSET Fields]
PerceptionEvent ==
       [sensor : {"ultrasonic"}, distance : Nat \cup {None}]
  \cup [sensor : {"grayscale"}, values : SUBSET (Nat \cup {None})]
  \cup [sensor : {"battery"}]

Clear == [f \in Fields |-> FALSE]

(* The flag a sensor owns, and what one of its events says about it.         *)
FieldOf(sensor) ==
  IF sensor = "ultrasonic" THEN "obstacle_ahead" ELSE "cliff_detected"

Near(distance) == distance # None /\ distance <= ObstacleThreshold
Edge(values)   == \E v \in values : v # None /\ v <= CliffThreshold

Flag(event) ==
  IF event.sensor = "ultrasonic" THEN Near(event.distance) ELSE Edge(event.values)

(* _apply and _set: the flags after one event, and the ones it changed.      *)
Tracked(event) == event.sensor \in {"ultrasonic", "grayscale"}

Apply(event) ==
  IF Tracked(event)
  THEN [worldState EXCEPT ![FieldOf(event.sensor)] = Flag(event)]
  ELSE worldState

DeltaOnlyRising(event) ==   (* mutant: a lowered flag is no change *)
  {f \in Fields : Apply(event)[f] /\ ~worldState[f]}

Delta(event) == {f \in Fields : Apply(event)[f] # worldState[f]}

-----------------------------------------------------------------------------
InitWorld ==
  /\ worldState = Clear
  /\ emitted = FALSE

(* An event that changes nothing is swallowed, unless no baseline is out.    *)
Suppress(event) ==
  /\ emitted
  /\ Delta(event) = {}
  /\ UNCHANGED <<qWorld, emitted>>

Emit(event) ==
  /\ ~emitted \/ Delta(event) # {}
  /\ emitted' = TRUE
  /\ qWorld' = Append(qWorld, [state |-> Apply(event), delta |-> Delta(event)])

(* One turn of run(): get, _apply, put.  The update is built from the state  *)
(* before the put can suspend, so the turn is one step.                      *)
ReceiveEvent ==
  /\ qPerception # <<>>
  /\ Len(qWorld) <= Capacity
  /\ qPerception' = Tail(qPerception)
  /\ LET event == Head(qPerception) IN
       /\ worldState' = Apply(event)
       /\ Suppress(event) \/ Emit(event)
=============================================================================
