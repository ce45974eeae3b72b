\* The rule table against the hand-written planner.
CONSTANTS
  None = None
  Capacity = 2
  ObstacleThreshold <- MCThreshold
  CliffThreshold <- MCThreshold
  AvoidDuration = 2
  Readings <- MCReadings
SPECIFICATION RuleSpec
PROPERTIES ReproducesAvoidance
