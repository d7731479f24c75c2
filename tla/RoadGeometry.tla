---------------------------- MODULE RoadGeometry ----------------------------
(***************************************************************************)
(* Where things are across the road: lanePosX() and the horizontal half of *)
(* checkCollision(), both in utils.cpp.  A step between sub-positions is a *)
(* third of what a vehicle leaves free of its lane, so all coordinates are *)
(* counted in thirds of a pixel and no division is left.                   *)
(***************************************************************************)
EXTENDS Steering

CONSTANTS
  RoadLeft,        \* ROAD_LEFT: 60
  LaneWidth,       \* LANE_WIDTH: 120
  CarWidth,        \* CAR_WIDTH, the width of the player's car: 50
  VehicleOffset,   \* the sub-position of every oncoming vehicle: 2
  VehicleWidths    \* what setVehicleType() gives: {50, 60, 70}

(* LaneSteps, the divisor 3, times lanePosX(lane, offset, carWidth).       *)
BugLanePosXWholeLane(lane, offset, carWidth) ==
  LaneSteps * (RoadLeft + lane * LaneWidth) + offset * LaneWidth

LanePosX(lane, offset, carWidth) ==
  LaneSteps * (RoadLeft + lane * LaneWidth) + offset * (LaneWidth - carWidth)

(* The player at the spot <<lane, offset>> and an oncoming vehicle of the  *)
(* given width in oppLane share a column of pixels.                        *)
BugOverlapAcrossNarrow(lane, offset, oppLane, width) ==
  LET playerX == LanePosX(lane, offset, CarWidth)
      oppX == LanePosX(oppLane, VehicleOffset, width)
  IN  /\ oppX < playerX + LaneSteps * CarWidth
      /\ oppX > playerX

OverlapAcross(lane, offset, oppLane, width) ==
  LET playerX == LanePosX(lane, offset, CarWidth)
      oppX == LanePosX(oppLane, VehicleOffset, width)
  IN  /\ oppX < playerX + LaneSteps * CarWidth
      /\ oppX + LaneSteps * width > playerX

(* A lane has room for every vehicle, but not for the player beside one,   *)
(* whichever sub-positions they take: the two end positions of the player  *)
(* still reach under the narrowest vehicle.                                *)
ASSUME GeometryAssumption ==
  /\ RoadLeft \in Nat /\ LaneWidth \in Nat /\ CarWidth \in Nat \ {0}
  /\ LaneSteps = 3 /\ VehicleOffset = 2
  /\ CarWidth < LaneWidth
  /\ VehicleWidths \subseteq Nat \ {0}
  /\ \A w \in VehicleWidths :
       w < LaneWidth /\ 2 * LaneWidth < 3 * CarWidth + 2 * w

-----------------------------------------------------------------------------
(* Beside the player's car an oncoming vehicle, which the traffic puts in  *)
(* any lane.                                                               *)
VARIABLES oppLane, oppWidth

vehicleVars == <<oppLane, oppWidth>>

VehicleTypeOK == oppLane \in Lanes /\ oppWidth \in VehicleWidths

GeometryInit == Init /\ VehicleTypeOK

MoveVehicle ==
  /\ oppLane' \in Lanes /\ oppWidth' \in VehicleWidths
  /\ UNCHANGED vars

GeometryNext == (Next /\ UNCHANGED vehicleVars) \/ MoveVehicle

GeometrySpec == GeometryInit /\ [][GeometryNext]_<<vars, vehicleVars>>

-----------------------------------------------------------------------------
(* An oncoming vehicle and the player meet exactly when they are in the    *)
(* same lane.  checkCollision() compares pixels, the traffic logic of      *)
(* timer() compares lane numbers (oppositeCars[i].lane == playerLane): the *)
(* two agree at every sub-position and for every type of vehicle, so no    *)
(* sub-position dodges a vehicle of the own lane or touches the next lane. *)
MeetIffSameLane ==
  OverlapAcross(playerLane, playerLaneOffset, oppLane, oppWidth)
    <=> playerLane = oppLane

(* Every spot has its own x coordinate, and the player's car stays between *)
(* the edges of its lane.  So crashX identifies the spot of a crash.       *)
SpotsDistinct ==
  LET x == LanePosX(playerLane, playerLaneOffset, CarWidth)
      edge == LaneSteps * (RoadLeft + playerLane * LaneWidth)
  IN  /\ edge <= x /\ x + LaneSteps * CarWidth <= edge + LaneSteps * LaneWidth
      /\ \A lane \in Lanes, offset \in Offsets :
           LanePosX(lane, offset, CarWidth) = x
             => lane = playerLane /\ offset = playerLaneOffset
=============================================================================
