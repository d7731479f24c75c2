------------------------------ MODULE Steering ------------------------------
(***************************************************************************)
(* The player's car across the road: the lane, the sub-position inside the *)
(* lane, and the spot where the crash burst is drawn.                      *)
(*                                                                         *)
(* input.cpp moves the car with the special-key handler keyboard(): each   *)
(* lane has the sub-positions 0..LaneSteps, and a key press at the end of  *)
(* a lane carries into the neighbouring one.  The handler ignores keys     *)
(* while the car is crashed, and nothing else: the arrow keys work under   *)
(* the menu and after the game is over too.                                *)
(*                                                                         *)
(* The x coordinate lanePosX(lane, offset) is abstracted to the pair       *)
(* <<lane, offset>> (RoadGeometry shows that the two determine each        *)
(* other); playerY never changes in the program and has no variable.       *)
(*                                                                         *)
(* The operators whose names begin with Bug are mutants: each is the       *)
(* definition below it with a plausible bug, and shows that some property  *)
(* would catch it.                                                         *)
(***************************************************************************)
EXTENDS Integers

CONSTANTS
  NumLanes,       \* the literal 4 of keyboard(), NUM_LANES elsewhere
  LaneSteps,      \* the last sub-position of a lane: the literal 3
  StartLane,      \* playerLane at launch and after a restart: 1
  StartOffset,    \* playerLaneOffset at launch: 0
  RestartOffset   \* playerLaneOffset after a restart: 2

ASSUME SteeringAssumption ==
  /\ NumLanes \in Nat \ {0}
  /\ LaneSteps \in Nat
  /\ StartLane \in 0..(NumLanes - 1)
  /\ StartOffset \in 0..LaneSteps
  /\ RestartOffset \in 0..LaneSteps

VARIABLES
  playerLane,
  playerLaneOffset,
  playerCrashed,
  crashPos          \* crashX, crashY: where drawCrashEffect draws

vars == <<playerLane, playerLaneOffset, playerCrashed, crashPos>>

Lanes == 0..(NumLanes - 1)
Offsets == 0..LaneSteps

(* Where the car is: the argument of lanePosX for the player.              *)
PlayerPos == <<playerLane, playerLaneOffset>>

Init ==
  /\ playerLane = StartLane
  /\ playerLaneOffset = StartOffset
  /\ playerCrashed = FALSE
  /\ crashPos = <<0, 0>>

-----------------------------------------------------------------------------
(* keyboard(GLUT_KEY_LEFT).                                                *)
BugKeyLeftWhileCrashed ==
  /\ playerLaneOffset > 0
  /\ playerLaneOffset' = playerLaneOffset - 1
  /\ UNCHANGED <<playerLane, playerCrashed, crashPos>>

BugKeyLeftNoCarry ==
  /\ ~playerCrashed
  /\ playerLaneOffset = 0
  /\ playerLane > 0
  /\ playerLane' = playerLane - 1
  /\ UNCHANGED <<playerLaneOffset, playerCrashed, crashPos>>

KeyLeft ==
  /\ ~playerCrashed
  /\ \/ /\ playerLaneOffset > 0
        /\ playerLaneOffset' = playerLaneOffset - 1
        /\ UNCHANGED playerLane
     \/ /\ playerLaneOffset = 0
        /\ playerLane > 0
        /\ playerLane' = playerLane - 1
        /\ playerLaneOffset' = LaneSteps
  /\ UNCHANGED <<playerCrashed, crashPos>>

(* keyboard(GLUT_KEY_RIGHT).                                               *)
BugKeyRightOffByOne ==
  /\ ~playerCrashed
  /\ \/ /\ playerLaneOffset < LaneSteps
        /\ playerLaneOffset' = playerLaneOffset + 1
        /\ UNCHANGED playerLane
     \/ /\ playerLaneOffset = LaneSteps
        /\ playerLane < NumLanes
        /\ playerLane' = playerLane + 1
        /\ playerLaneOffset' = 0
  /\ UNCHANGED <<playerCrashed, crashPos>>

KeyRight ==
  /\ ~playerCrashed
  /\ \/ /\ playerLaneOffset < LaneSteps
        /\ playerLaneOffset' = playerLaneOffset + 1
        /\ UNCHANGED playerLane
     \/ /\ playerLaneOffset = LaneSteps
        /\ playerLane < NumLanes - 1
        /\ playerLane' = playerLane + 1
        /\ playerLaneOffset' = 0
  /\ UNCHANGED <<playerCrashed, crashPos>>

(* timer(): the collision branch that leaves the player a life.  It runs   *)
(* only when the car is not crashed already.                               *)
CrashHere ==
  /\ ~playerCrashed
  /\ playerCrashed' = TRUE
  /\ crashPos' = PlayerPos
  /\ UNCHANGED <<playerLane, playerLaneOffset>>

(* timer(): the respawn countdown of a crashed car reaches zero.           *)
Recover ==
  /\ playerCrashed
  /\ playerCrashed' = FALSE
  /\ UNCHANGED <<playerLane, playerLaneOffset, crashPos>>

(* The restart code shared by mouseMenu() and keyboardUp().                *)
BugBackToStartStaysCrashed ==
  /\ playerLane' = StartLane
  /\ playerLaneOffset' = RestartOffset
  /\ UNCHANGED <<playerCrashed, crashPos>>

BackToStart ==
  /\ playerLane' = StartLane
  /\ playerLaneOffset' = RestartOffset
  /\ playerCrashed' = FALSE
  /\ UNCHANGED crashPos

Next ==
  \/ KeyLeft
  \/ KeyRight
  \/ CrashHere
  \/ Recover
  \/ BackToStart

Spec == Init /\ [][Next]_vars

-----------------------------------------------------------------------------
(* Type invariant: the lane and the sub-position stay in their ranges.     *)
TypeOK ==
  /\ playerLane \in Lanes
  /\ playerLaneOffset \in Offsets
  /\ playerCrashed \in BOOLEAN
  /\ crashPos \in (Lanes \X Offsets)

(* While the car is crashed, the burst drawn at (crashX, crashY) is on the *)
(* car: no key press and no restart moves one away from the other.         *)
CrashBurstOnCar == playerCrashed => crashPos = PlayerPos

(* The road as the driver sees it: the sub-positions of all the lanes in   *)
(* one row.  keyboard()'s carry between offset and lane implements a       *)
(* single step along that row, and no other operation moves the car        *)
(* anywhere but back to the start.                                         *)
Track == INSTANCE Track WITH
  Last  <- NumLanes * (LaneSteps + 1) - 1,
  First <- StartLane * (LaneSteps + 1) + StartOffset,
  Home  <- StartLane * (LaneSteps + 1) + RestartOffset,
  spot  <- playerLane * (LaneSteps + 1) + playerLaneOffset,
  stuck <- playerCrashed

(* Steering implements Track: every key press is one step left or right,   *)
(* and a crashed car stays where it is until it recovers or is reset.      *)
ImplementsTrack == Track!Spec
=============================================================================
