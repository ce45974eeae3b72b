\* The detectors' default thresholds, on a grid of six cells; three rows show a
\* box dropped for one, that a third is not dropped for.
CONSTANTS
  None = None
  Size = 6
  YoloRows <- MCYoloRows
  DnnRows <- MCDnnRows
  HogRows <- MCHogRows
  MaxRows = 3
  YoloScore = 25
  DnnScore = 50
  IouThreshold = 45
  Logistic <- MCLogistic
  ConfidenceThreshold = 50
  HFov = 70
  VFov = 43
  RangeReference = 75
  MinBoxHeight = 1
SPECIFICATION Spec
INVARIANTS SuppressionIsGreedy BestIsReported TargetInView
CHECK_DEADLOCK FALSE
