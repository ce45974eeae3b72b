\* Queues of 2 (and one suspended put each), a hold of two ticks.
CONSTANTS
  None = None
  Capacity = 2
  ObstacleThreshold <- MCThreshold
  CliffThreshold <- MCThreshold
  AvoidDuration = 2
  Readings <- MCReadings
SPECIFICATION FairSpec
INVARIANTS TypeOK Agreement NoBlindCruise
PROPERTIES CommittedAvoid StableReadingsWin
