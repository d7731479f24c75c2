CONSTANTS
  NumCars = 2
  NumLanes = 3
  StartLane = 1
  ScreenHeight = 9
  SpawnDepth = 2
  PlayerY = 2
  CarHeight = 3
  Near = 4
  RespawnGap = 2
  ChangeSteps = 2
  Kinds = {"car", "bus"}
  Height <- MCHeight
  Speed <- MCSpeed
  Slow <- MCSlow
  MayGiveUp = FALSE
SPECIFICATION Spec
INVARIANTS
  TypeOK
  ParkedAbove
  ChangesToNeighbour
PROPERTIES
  NoLeapPastPlayer
  RespawnsClear
