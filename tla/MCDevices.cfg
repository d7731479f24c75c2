CONSTANTS
  NumCars = 2
  Lives = 2
  RespawnDelay = 2
  GameOverDelay = 1
  InitialDelay = 1
  SpawnInterval = 2
  SpeedupInterval = 1
  InitialKmh = 6
  SpeedupKmh = 1
  NumLanes = 2
  LaneSteps = 0
  StartLane = 0
  StartOffset = 0
  RestartOffset = 0
  WindowLookup = {TRUE}
  DiskReadable = {TRUE}
  DiskWritable = {TRUE}
  MaxTimers = 2
  MaxScore = 1
  MaxKmh = 6
SPECIFICATION DevicesSpec
\* The program really stops: exit(0), QUIT, or the window is closed.
CHECK_DEADLOCK FALSE
INVARIANTS
  HighScoreDurable
  CloseGreyedAtGameOver
  NoAliasLeft
  NeverStale
PROPERTIES
  CrashFindsSilence
  ImplementsFairRules
  TrafficKeepsComing
  CrashIsHeard
  EndIsShown
