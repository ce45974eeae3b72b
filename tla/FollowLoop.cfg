\* The defaults of the routine and its layers for gains, standoff and top speed; a
\* narrow travel of the camera, slow smoothing and few detections keep it small.
\* Times keep the defaults' order. The steering's cap and the speed's floor are not
\* whole steps of the rounding that follows them.
CONSTANTS
  None = None
  Capacity = 1
  Unit = 100
  LostTimeout = 2
  Smoothing = 20
  BearingEpsilon = 5
  DistanceEpsilon = 5
  UltrasonicMaxAge = 0
  UltrasonicSmoothing = 30
  TargetDistance = 60
  DistanceDeadband = 10
  SpeedKp = 100
  MinDriveSpeed = 43
  MaxSpeed = 60
  SpeedQuantum = 5
  SteerGain = 200
  MaxSteer = 33
  MaxSteerStep = 20
  SteerQuantum = 5
  PanGain <- MCPanGain
  TiltGain = 50
  CenterDeadband = 4
  CameraSteerCompGain = 50
  PanMin = 80
  PanMax = 100
  TiltMin = 60
  TiltMax = 120
  DriveBurst = 2
  SteerBurst = 1
  Roll <- MCRoll
  TiltAmp = 15
  SearchInterval = 1
  BodyRotateSpeed = 60
  BodyRotateSteer = 120
  BodyRotateDuration = 2
  Readings <- MCReadings
  MaxDetections = 3
SPECIFICATION Spec
INVARIANTS TypeOK CommandsInRange EstimateReported
PROPERTIES DriveIsAccounted FrameMovesCameraOnce LostOnSchedule
