\* Queues of one item (and one suspended put each); the holds and the decay
\* keep the order of the bundled table and the routine's defaults.
CONSTANTS
  None = None
  Capacity = 1
  ObstacleThreshold = 1
  CliffThreshold = 2
  CellSize = 2
  GridRadius = 5
  Decay = 2
  CliffHold = 2
  ObstacleHold = 1
  Readings <- MCReadings
SPECIFICATION FairSpec
INVARIANTS TypeOK RememberedForDecay ForwardIsSafe
PROPERTIES HoldsAreKept PatrolSettles
