CONSTANTS
  NumCars = 2
  Lives = 2
  RespawnDelay = 3
  GameOverDelay = 2
  InitialDelay = 2
  SpawnInterval = 4
  SpeedupInterval = 5
  InitialKmh = 6
  SpeedupKmh = 1
  NumLanes = 1
  LaneSteps = 0
  StartLane = 0
  StartOffset = 0
  RestartOffset = 0
  WindowLookup = {TRUE}
  DiskReadable = {TRUE}
  DiskWritable = {TRUE}
  MaxTimers = 3
  MaxScore = 0
  MaxKmh = 6
SPECIFICATION PacedSpec
\* The program really stops: exit(0), QUIT, or the window is closed.
CHECK_DEADLOCK FALSE
INVARIANTS
  ChainLedger
  FirstCarInTime
PROPERTIES
  SteadyPace
  CrashRunsItsCourse
