CONSTANTS
  NumCars = 3
  Lives = 3
  RespawnDelay = 4
  GameOverDelay = 3
  InitialDelay = 2
  SpawnInterval = 3
  SpeedupInterval = 3
  InitialKmh = 6
  SpeedupKmh = 1
  NumLanes = 2
  LaneSteps = 0
  StartLane = 0
  StartOffset = 0
  RestartOffset = 0
  WindowLookup = {TRUE, FALSE}
  DiskReadable = {TRUE, FALSE}
  DiskWritable = {TRUE, FALSE}
  MaxTimers = 3
  MaxScore = 2
  MaxKmh = 7
SPECIFICATION Spec
\* The program really stops: exit(0), QUIT, or the window is closed.
CHECK_DEADLOCK FALSE
INVARIANTS
  TypeOK
  IInv
  NeverFrozen
  HiddenMatchesLives
  VisibleWhenDriven
  SilentGameOver
PROPERTIES
  ImplementsRules
