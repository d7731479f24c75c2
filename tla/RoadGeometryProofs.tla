-------------------------- MODULE RoadGeometryProofs --------------------------
(***************************************************************************)
(* Proofs about Steering and RoadGeometry, for every number of lanes and   *)
(* sub-positions, and every size of lanes and vehicles that                *)
(* GeometryAssumption allows.                                              *)
(***************************************************************************)
EXTENDS RoadGeometry, TLAPS

LEMMA StepTypeOK == TypeOK /\ [Next]_vars => TypeOK'
  <1> SUFFICES ASSUME TypeOK, [Next]_vars PROVE TypeOK'
    OBVIOUS
  <1> USE SteeringAssumption DEF TypeOK, Lanes, Offsets
  <1>1. CASE KeyLeft
    BY <1>1 DEF KeyLeft
  <1>2. CASE KeyRight
    BY <1>2 DEF KeyRight
  <1>3. CASE CrashHere
    BY <1>3 DEF CrashHere, PlayerPos
  <1>4. CASE Recover
    BY <1>4 DEF Recover
  <1>5. CASE BackToStart
    BY <1>5 DEF BackToStart
  <1>6. CASE UNCHANGED vars
    BY <1>6 DEF vars
  <1> QED
    BY <1>1, <1>2, <1>3, <1>4, <1>5, <1>6 DEF Next

LEMMA InitTypeOK == Init => TypeOK
  <1> SUFFICES ASSUME Init PROVE TypeOK
    OBVIOUS
  <1>1. playerLane \in Lanes /\ playerLaneOffset \in Offsets
    BY SteeringAssumption DEF Init, Lanes, Offsets
  <1>2. 0 \in Lanes /\ 0 \in Offsets
    BY SteeringAssumption DEF Lanes, Offsets
  <1> QED
    BY <1>1, <1>2 DEF Init, TypeOK

(* The lane and the sub-position stay on the road: no sequence of key      *)
(* presses, crashes and restarts leads off it.                             *)
THEOREM StaysOnRoad == Spec => []TypeOK
  BY InitTypeOK, StepTypeOK, PTL DEF Spec

(* The burst of a crash is drawn on the crashed car.                       *)
THEOREM BurstOnCar == Spec => []CrashBurstOnCar
  <1> USE DEF CrashBurstOnCar, PlayerPos
  <1>1. Init => CrashBurstOnCar
    BY DEF Init
  <1>2. CrashBurstOnCar /\ [Next]_vars => CrashBurstOnCar'
    BY DEF Next, KeyLeft, KeyRight, CrashHere, Recover, BackToStart, vars
  <1> QED
    BY <1>1, <1>2, PTL DEF Spec

-----------------------------------------------------------------------------
(* The spot of a lane and a sub-position, in the row of all sub-positions. *)
Spot(lane, offset) == lane * (LaneSteps + 1) + offset

(* The lanes of the row do not overlap and do not exceed it.               *)
LEMMA SpotInRow ==
  ASSUME NEW lane \in Lanes, NEW offset \in Offsets
  PROVE  /\ Spot(lane, offset) \in Int
         /\ Spot(lane, offset) \in 0..(NumLanes * (LaneSteps + 1) - 1)
  <1> DEFINE width == LaneSteps + 1
  <1>1. width \in Nat /\ lane \in Nat /\ NumLanes \in Nat
        /\ offset \in 0..(width - 1) /\ lane + 1 <= NumLanes
    BY SteeringAssumption DEF Lanes, Offsets
  <1> HIDE DEF width
  <1>2. lane * width \in Nat /\ NumLanes * width \in Nat
    BY <1>1
  <1>3. (lane + 1) * width = lane * width + width
    BY <1>1
  <1>4. (lane + 1) * width <= NumLanes * width
    BY <1>1
  <1>5. lane * width + offset \in 0..(NumLanes * width - 1)
    BY <1>1, <1>2, <1>3, <1>4
  <1> QED
    BY <1>5 DEF Spot, width

(* Crossing from one lane into the next is a single step along the row.    *)
LEMMA SpotCarry ==
  ASSUME NEW lane \in Int
  PROVE  Spot(lane + 1, 0) = Spot(lane, LaneSteps) + 1
  <1>1. LaneSteps \in Int
    BY SteeringAssumption
  <1>2. (lane + 1) * (LaneSteps + 1) = lane * (LaneSteps + 1) + (LaneSteps + 1)
    BY <1>1
  <1>3. lane * (LaneSteps + 1) \in Int
    BY <1>1
  <1> QED
    BY <1>1, <1>2, <1>3 DEF Spot

(* Steering implements Track: keyboard()'s carry between offset and lane   *)
(* is a single step along the row of sub-positions, for every road.        *)
THEOREM SteeringImplementsTrack == Spec => ImplementsTrack
  <1> DEFINE here == Spot(playerLane, playerLaneOffset)
             last == NumLanes * (LaneSteps + 1) - 1
             home == Spot(StartLane, RestartOffset)
  <1>1. Init => Track!Init
    BY DEF Init, Track!Init, Spot
  <1>2. TypeOK /\ TypeOK' /\ [Next]_vars
          => [Track!Next]_<<here, playerCrashed>>
    <2> SUFFICES ASSUME TypeOK, TypeOK', [Next]_vars
                 PROVE  Track!Next \/ UNCHANGED <<here, playerCrashed>>
      OBVIOUS
    <2>1. here' \in 0..last /\ here \in Int
      BY SpotInRow DEF TypeOK
    <2>2. CASE KeyLeft
      <3>1. here' = here + (-1)
        <4>1. CASE /\ playerLaneOffset > 0
                   /\ playerLaneOffset' = playerLaneOffset - 1
                   /\ UNCHANGED playerLane
          <5>1. /\ playerLane * (LaneSteps + 1) \in Int
                /\ playerLaneOffset \in Int
            BY SteeringAssumption DEF TypeOK, Lanes, Offsets
          <5> QED
            BY <4>1, <5>1 DEF Spot
        <4>2. CASE /\ playerLaneOffset = 0
                   /\ playerLane' = playerLane - 1
                   /\ playerLaneOffset' = LaneSteps
          <5>1. playerLane' \in Int /\ playerLane' + 1 = playerLane
            BY <4>2 DEF TypeOK, Lanes
          <5>2. here = Spot(playerLane', LaneSteps) + 1
            BY <4>2, <5>1, SpotCarry
          <5> QED
            BY <2>1, <4>2, <5>2, SteeringAssumption
        <4> QED
          BY <2>2, <4>1, <4>2 DEF KeyLeft
      <3>2. ~playerCrashed /\ playerCrashed' = playerCrashed
        BY <2>2 DEF KeyLeft
      <3>3. Track!Step(-1)
        BY <2>1, <3>1, <3>2 DEF Track!Step, Spot
      <3> QED
        BY <3>3 DEF Track!Next
    <2>3. CASE KeyRight
      <3>1. here' = here + 1
        <4>1. CASE /\ playerLaneOffset' = playerLaneOffset + 1
                   /\ UNCHANGED playerLane
          <5>1. /\ playerLane * (LaneSteps + 1) \in Int
                /\ playerLaneOffset \in Int
            BY SteeringAssumption DEF TypeOK, Lanes, Offsets
          <5> QED
            BY <4>1, <5>1 DEF Spot
        <4>2. CASE /\ playerLaneOffset = LaneSteps
                   /\ playerLane' = playerLane + 1
                   /\ playerLaneOffset' = 0
          <5>1. playerLane \in Int
            BY DEF TypeOK, Lanes
          <5> QED
            BY <4>2, <5>1, SpotCarry
        <4> QED
          BY <2>3, <4>1, <4>2 DEF KeyRight
      <3>2. ~playerCrashed /\ playerCrashed' = playerCrashed
        BY <2>3 DEF KeyRight
      <3>3. Track!Step(1)
        BY <2>1, <3>1, <3>2 DEF Track!Step, Spot
      <3> QED
        BY <3>3 DEF Track!Next
    <2>4. CASE CrashHere
      BY <2>4 DEF CrashHere, Track!Next, Track!Stick, Spot
    <2>5. CASE Recover
      BY <2>5 DEF Recover, Track!Next, Track!Release, Spot
    <2>6. CASE BackToStart
      BY <2>6 DEF BackToStart, Track!Next, Track!Reset, Spot
    <2>7. CASE UNCHANGED vars
      BY <2>7 DEF vars
    <2> QED
      BY <2>2, <2>3, <2>4, <2>5, <2>6, <2>7 DEF Next
  <1> QED
    BY <1>1, <1>2, StaysOnRoad, PTL DEF Spec, ImplementsTrack, Track!Spec, Spot

-----------------------------------------------------------------------------
GeometryTypeOK == TypeOK /\ VehicleTypeOK

LEMMA GeometryTypeAlways == GeometrySpec => []GeometryTypeOK
  <1>1. GeometryInit => GeometryTypeOK
    BY InitTypeOK DEF GeometryInit, GeometryTypeOK
  <1>2. GeometryTypeOK /\ [GeometryNext]_<<vars, vehicleVars>> => GeometryTypeOK'
    <2> SUFFICES ASSUME GeometryTypeOK, [GeometryNext]_<<vars, vehicleVars>>
                 PROVE  GeometryTypeOK'
      OBVIOUS
    <2>1. [Next]_vars
      BY DEF GeometryNext, MoveVehicle
    <2>2. TypeOK'
      BY <2>1, StepTypeOK DEF GeometryTypeOK
    <2>3. VehicleTypeOK'
      BY DEF GeometryTypeOK, VehicleTypeOK, GeometryNext, MoveVehicle, vehicleVars
    <2> QED
      BY <2>2, <2>3 DEF GeometryTypeOK
  <1> QED
    BY <1>1, <1>2, PTL DEF GeometrySpec

(* Lanes are LaneWidth apart: the left edge of a lane to the right is at   *)
(* least that much further right.                                          *)
LEMMA LanesApart ==
  ASSUME NEW a \in Lanes, NEW b \in Lanes, a < b
  PROVE  /\ a * LaneWidth \in Int /\ b * LaneWidth \in Int
         /\ a * LaneWidth + LaneWidth <= b * LaneWidth
  <1>1. a \in Int /\ b \in Int /\ LaneWidth \in Nat /\ a + 1 <= b
    BY GeometryAssumption, SteeringAssumption DEF Lanes
  <1>2. a * LaneWidth \in Int /\ b * LaneWidth \in Int
    BY <1>1
  <1>3. (a + 1) * LaneWidth = a * LaneWidth + LaneWidth
    BY <1>1
  <1>4. (a + 1) * LaneWidth <= b * LaneWidth
    BY <1>1
  <1> QED
    BY <1>2, <1>3, <1>4

(* An oncoming vehicle and the player meet exactly when they are in the    *)
(* same lane, for every road and vehicle of the assumed proportions.       *)
THEOREM CollisionIsByLane == GeometrySpec => []MeetIffSameLane
  <1>1. GeometryTypeOK => MeetIffSameLane
    <2> SUFFICES ASSUME GeometryTypeOK PROVE MeetIffSameLane
      OBVIOUS
    <2> USE GeometryAssumption, SteeringAssumption
    <2>1. /\ playerLane \in Lanes /\ oppLane \in Lanes
          /\ playerLane \in Int /\ oppLane \in Int
          /\ playerLaneOffset \in {0, 1, 2, 3}
          /\ oppWidth \in Nat \ {0} /\ oppWidth < LaneWidth
          /\ 2 * LaneWidth < 3 * CarWidth + 2 * oppWidth
      BY DEF GeometryTypeOK, VehicleTypeOK, TypeOK, Lanes, Offsets
    <2> DEFINE p == playerLane * LaneWidth
               o == oppLane * LaneWidth
    <2>2. p \in Int /\ o \in Int
      BY <2>1
    <2>3. OverlapAcross(playerLane, playerLaneOffset, oppLane, oppWidth)
            <=> /\ 3 * (RoadLeft + o) + 2 * (LaneWidth - oppWidth)
                     < 3 * (RoadLeft + p)
                       + playerLaneOffset * (LaneWidth - CarWidth)
                       + 3 * CarWidth
                /\ 3 * (RoadLeft + o) + 2 * (LaneWidth - oppWidth)
                     + 3 * oppWidth
                     > 3 * (RoadLeft + p)
                       + playerLaneOffset * (LaneWidth - CarWidth)
      BY DEF OverlapAcross, LanePosX
    <2>4. CASE playerLane = oppLane
      <3>1. p = o
        BY <2>4
      <3> HIDE DEF p, o
      <3> QED
        BY <2>1, <2>2, <2>3, <2>4, <3>1 DEF MeetIffSameLane
    <2>5. CASE playerLane < oppLane
      <3>1. p + LaneWidth <= o
        BY <2>1, <2>5, LanesApart
      <3> HIDE DEF p, o
      <3> QED
        BY <2>1, <2>2, <2>3, <2>5, <3>1 DEF MeetIffSameLane
    <2>6. CASE oppLane < playerLane
      <3>1. o + LaneWidth <= p
        BY <2>1, <2>6, LanesApart
      <3> HIDE DEF p, o
      <3> QED
        BY <2>1, <2>2, <2>3, <2>6, <3>1 DEF MeetIffSameLane
    <2> QED
      BY <2>1, <2>4, <2>5, <2>6
  <1> QED
    BY <1>1, GeometryTypeAlways, PTL

-----------------------------------------------------------------------------
(* Every spot has its own x coordinate, inside the lane it belongs to, so  *)
(* that crashX says where the crash was: for every road on which a lane is *)
(* wider than the car.                                                     *)
THEOREM SpotsAreDistinct == GeometrySpec => []SpotsDistinct
  <1>1. GeometryTypeOK => SpotsDistinct
    <2> SUFFICES ASSUME GeometryTypeOK PROVE SpotsDistinct
      OBVIOUS
    <2> USE GeometryAssumption, SteeringAssumption
    <2> DEFINE free == LaneWidth - CarWidth
               x(lane, offset) == 3 * (RoadLeft + lane * LaneWidth) + offset * free
    <2>1. \A lane \in Lanes, offset \in Offsets :
            /\ lane \in Int /\ lane * LaneWidth \in Int
            /\ offset \in {0, 1, 2, 3}
            /\ LanePosX(lane, offset, CarWidth) = x(lane, offset)
      <3> TAKE lane \in Lanes, offset \in Offsets
      <3>1. lane \in Int /\ lane * LaneWidth \in Int
        BY DEF Lanes
      <3> QED
        BY <3>1 DEF Offsets, LanePosX
    <2>2. playerLane \in Lanes /\ playerLaneOffset \in Offsets
      BY DEF GeometryTypeOK, TypeOK
    <2> DEFINE edge(lane) == 3 * (RoadLeft + lane * LaneWidth)
    <2>3. \A lane \in Lanes, offset \in Offsets :
            /\ edge(lane) <= x(lane, offset)
            /\ x(lane, offset) < edge(lane) + 3 * LaneWidth
            /\ x(lane, offset) + 3 * CarWidth <= edge(lane) + 3 * LaneWidth
      <3> TAKE lane \in Lanes, offset \in Offsets
      <3>1. offset \in {0, 1, 2, 3} /\ lane * LaneWidth \in Int
        BY <2>1
      <3> QED
        BY <3>1
    <2>4. ASSUME NEW lane \in Lanes, NEW offset \in Offsets,
                 NEW l \in Lanes, NEW o \in Offsets,
                 x(lane, offset) = x(l, o)
          PROVE  lane = l /\ offset = o
      <3>1. /\ lane * LaneWidth \in Int /\ l * LaneWidth \in Int
            /\ lane \in Int /\ l \in Int
            /\ offset \in {0, 1, 2, 3} /\ o \in {0, 1, 2, 3}
        BY <2>1
      <3>2. ~(lane < l)
        <4> SUFFICES ASSUME lane < l PROVE FALSE
          OBVIOUS
        <4>1. lane * LaneWidth + LaneWidth <= l * LaneWidth
          BY LanesApart
        <4> QED
          BY <2>3, <2>4, <3>1, <4>1
      <3>3. ~(l < lane)
        <4> SUFFICES ASSUME l < lane PROVE FALSE
          OBVIOUS
        <4>1. l * LaneWidth + LaneWidth <= lane * LaneWidth
          BY LanesApart
        <4> QED
          BY <2>3, <2>4, <3>1, <4>1
      <3>4. lane = l
        BY <3>1, <3>2, <3>3
      <3> QED
        BY <2>4, <3>1, <3>4
    <2> HIDE DEF x, edge
    <2>5. \A lane \in Lanes, offset \in Offsets :
            /\ LanePosX(lane, offset, CarWidth) = x(lane, offset)
            /\ LaneSteps * (RoadLeft + lane * LaneWidth) = edge(lane)
      BY <2>1 DEF edge
    <2> QED
      BY <2>2, <2>3, <2>4, <2>5 DEF SpotsDistinct
  <1> QED
    BY <1>1, GeometryTypeAlways, PTL
=============================================================================
