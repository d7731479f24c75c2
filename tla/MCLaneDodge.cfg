CONSTANTS
  NumCars = 3
  Lives = 3
  RespawnDelay = 1
  GameOverDelay = 1
  InitialDelay = 1
  SpawnInterval = 3
  SpeedupInterval = 1
  InitialKmh = 6
  SpeedupKmh = 1
  NumLanes = 2
  LaneSteps = 0
  StartLane = 0
  StartOffset = 0
  RestartOffset = 0
  WindowLookup = {TRUE}
  DiskReadable = {TRUE}
  DiskWritable = {TRUE}
  MaxTimers = 2
  MaxScore = 3
  MaxKmh = 6
  ScreenHeight = 8
  SpawnDepth = 1
  PlayerY = 1
  CarHeight = 3
  Near = 4
  RespawnGap = 2
  ChangeSteps = 2
  Kinds = {"car"}
  Height <- MCHeight
  Speed <- MCSpeed
  Slow <- MCSlow
  MayGiveUp = TRUE
SPECIFICATION GameSpec
\* The program really stops: exit(0), QUIT, or the window is closed.
CHECK_DEADLOCK FALSE
PROPERTIES
  SessionSafety
  ImplementsTraffic
  CarsLeave
  GameGoesOn
