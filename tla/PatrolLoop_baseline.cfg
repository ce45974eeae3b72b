\* What precedes the first observation.
CONSTANTS
  None = None
  Capacity = 1
  ObstacleThreshold = 1
  CliffThreshold = 2
  CellSize = 2
  GridRadius = 5
  Decay = 2
  CliffHold = 2
  ObstacleHold = 1
  Readings <- MCReadings
SPECIFICATION Spec
INVARIANT PlannedFromObservation
