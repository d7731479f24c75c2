\* The constants of constants.h, vehicle.cpp and keyboard().
CONSTANTS
  RoadLeft = 60
  LaneWidth = 120
  CarWidth = 50
  NumLanes = 4
  LaneSteps = 3
  StartLane = 1
  StartOffset = 0
  RestartOffset = 2
  VehicleOffset = 2
  VehicleWidths = {50, 60, 70}
SPECIFICATION GeometrySpec
INVARIANTS
  TypeOK
  CrashBurstOnCar
  MeetIffSameLane
  SpotsDistinct
PROPERTIES
  ImplementsTrack
