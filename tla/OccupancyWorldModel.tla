------------------------- MODULE OccupancyWorldModel -------------------------
(***************************************************************************)
(* The world model of the patrol routine                                   *)
(* (src/autonomon/world_model/occupancy.py): the two flags of              *)
(* ObstacleWorldModel and a grid of cells in which an obstacle was seen,   *)
(* each forgotten when it has not been seen for Decay.  Every turn, idle   *)
(* or not, decays the grid and emits when a salient field has changed.     *)
(*                                                                         *)
(* The grid has the forward axis only, so a cell is its iy, and its        *)
(* last-seen time is kept as its age.  The fields that are not salient     *)
(* ride along in an update, unread by the patrol table, and are left out,  *)
(* as is the delta.                                                        *)
(***************************************************************************)
EXTENDS Sequences, Rounding

CONSTANTS
  None,
  Capacity,
  ObstacleThreshold,   (* obstacle_threshold_cm                              *)
  CliffThreshold,      (* cliff_threshold                                    *)
  CellSize,            (* cell_size_cm                                       *)
  GridRadius,          (* grid_radius_cm                                     *)
  Decay                (* decay_s in clock ticks                             *)

VARIABLES
  qPerception,   (* PerceptionEvents waiting to be read                      *)
  qWorld,        (* WorldStateUpdates put towards the planner                *)
  cells,         (* _cells: the age of every remembered cell                 *)
  obstacleAhead, (* _obstacle_ahead                                          *)
  cliffDetected, (* _cliff_detected                                          *)
  lastEmitted    (* _last_emitted, None before the baseline                  *)

Salient == {"obstacle_ahead", "cliff_detected", "recently_blocked"}
WorldState == [Salient -> BOOLEAN]

Near(distance) == distance # None /\ distance <= ObstacleThreshold
InGrid(distance) == distance # None /\ distance <= GridRadius
Edge(values) == \E v \in values : v # None /\ v <= CliffThreshold

(* max(1, int(round(distance / cell_size))); Python rounds a half to even.   *)
CellUnclamped(distance) == Round(distance, CellSize)   (* mutant: the robot's own cell is marked *)

CellOf(distance) == IF Round(distance, CellSize) < 1 THEN 1 ELSE Round(distance, CellSize)

(* _observe, for the grid and for the flags.                                 *)
Marked(event) ==
  IF event.sensor = "ultrasonic" /\ InGrid(event.distance)
  THEN [i \in DOMAIN cells \cup {CellOf(event.distance)} |->
          IF i = CellOf(event.distance) THEN 0 ELSE cells[i]]
  ELSE cells

Observe(event) ==
  /\ obstacleAhead' = IF event.sensor = "ultrasonic" THEN Near(event.distance) ELSE obstacleAhead
  /\ cliffDetected' = IF event.sensor = "grayscale" THEN Edge(event.values) ELSE cliffDetected

(* _decay                                                                    *)
DecayedEarly(c) == [i \in {j \in DOMAIN c : c[j] < Decay} |-> c[i]]   (* mutant: at decay_s, not after it *)

Decayed(c) == [i \in {j \in DOMAIN c : c[j] <= Decay} |-> c[i]]

(* _snapshot, of the state after the turn.                                   *)
Snapshot ==
  [f \in Salient |-> CASE f = "obstacle_ahead"   -> obstacleAhead'
                       [] f = "cliff_detected"   -> cliffDetected'
                       [] f = "recently_blocked" -> DOMAIN cells' # {}]

MaybeEmitOnFlags ==   (* mutant: the memory is not salient *)
  IF lastEmitted # None /\ \A f \in Salient \ {"recently_blocked"} : Snapshot[f] = lastEmitted[f]
  THEN UNCHANGED <<lastEmitted, qWorld>>
  ELSE /\ lastEmitted' = Snapshot
       /\ qWorld' = Append(qWorld, [state |-> Snapshot])

(* _maybe_emit, _should_emit                                                 *)
MaybeEmit ==
  IF Snapshot = lastEmitted
  THEN UNCHANGED <<lastEmitted, qWorld>>
  ELSE /\ lastEmitted' = Snapshot
       /\ qWorld' = Append(qWorld, [state |-> Snapshot])

-----------------------------------------------------------------------------
InitWorld ==
  /\ cells = [i \in {} |-> 0]
  /\ obstacleAhead = FALSE
  /\ cliffDetected = FALSE
  /\ lastEmitted = None

(* A turn of run() that got an event.                                        *)
ReceiveEvent ==
  /\ qPerception # <<>>
  /\ Len(qWorld) <= Capacity
  /\ qPerception' = Tail(qPerception)
  /\ Observe(Head(qPerception))
  /\ cells' = Decayed(Marked(Head(qPerception)))
  /\ MaybeEmit

IdleSkips ==   (* mutant: an idle turn only loops *)
  /\ Len(qWorld) <= Capacity
  /\ UNCHANGED <<qPerception, qWorld, cells, obstacleAhead, cliffDetected, lastEmitted>>

(* A turn of run() whose get timed out.                                      *)
IdleTurn ==
  /\ Len(qWorld) <= Capacity
  /\ cells' = Decayed(cells)
  /\ UNCHANGED <<qPerception, obstacleAhead, cliffDetected>>
  /\ MaybeEmit

(* loop.time() advances; an age beyond Decay makes no further difference.    *)
CellsAge == cells' = [i \in DOMAIN cells |-> IF cells[i] <= Decay THEN cells[i] + 1 ELSE cells[i]]
=============================================================================
