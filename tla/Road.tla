-------------------------------- MODULE Road --------------------------------
(***************************************************************************)
(* The lane dividers: laneDividers[] of road.cpp, scrolled at the head of  *)
(* timer().  The same positions are drawn beside every lane.  A divider    *)
(* that has left the screen is put at exactly SCREEN_HEIGHT, whatever it   *)
(* was below -40, so the distances between dividers change at every wrap.  *)
(* Positions and speeds are integers in a unit of the model; when the      *)
(* speed rises is left open (see Pacing).  updateLaneDividers() has the    *)
(* same loop and is never called.                                          *)
(***************************************************************************)
EXTENDS Integers

CONSTANTS
  NumDividers,      \* NUM_LANE_DIVIDERS
  Spacing,          \* the 70 of initLaneDividers()
  ScreenHeight,     \* SCREEN_HEIGHT
  Length,           \* the 40 of drawLaneDividers() and of the wrap
  InitialSpeed,     \* playerBaseSpeed at PLAYER_INITIAL_KMH
  Speedup,          \* and what PLAYER_SPEEDUP_KMH adds to it
  MaxSpeed          \* a bound of the model: the speed saturates

ASSUME RoadAssumption ==
  /\ NumDividers \in Nat \ {0}
  /\ {Spacing, ScreenHeight, Length, InitialSpeed} \subseteq Nat \ {0}
  /\ Speedup \in Nat
  /\ MaxSpeed \in Nat /\ InitialSpeed <= MaxSpeed

VARIABLES
  y,                \* laneDividers[i].y
  playerBaseSpeed

roadVars == <<y, playerBaseSpeed>>

Dividers == 0..(NumDividers - 1)

(* initLaneDividers(): the last ones are above the screen.                 *)
Painted == [i \in Dividers |-> i * Spacing]

RoadInit == y = Painted /\ playerBaseSpeed = InitialSpeed

BugScrolledEarly(i) ==
  IF y[i] - playerBaseSpeed < Spacing THEN ScreenHeight ELSE y[i] - playerBaseSpeed

Scrolled(i) ==
  IF y[i] - playerBaseSpeed < -Length THEN ScreenHeight ELSE y[i] - playerBaseSpeed

(* The head of timer(), and the speed-up that may follow.                  *)
Scroll ==
  /\ y' = [i \in Dividers |-> Scrolled(i)]
  /\ playerBaseSpeed' \in {playerBaseSpeed, playerBaseSpeed + Speedup}
  /\ playerBaseSpeed' <= MaxSpeed

(* The restart block of mouseMenu() and keyboardUp().                      *)
Repaint == y' = Painted /\ playerBaseSpeed' = InitialSpeed

-----------------------------------------------------------------------------
(* Dividers come to lie on each other, and markings get fewer, for one     *)
(* reason: two dividers closer than one tick's move are put back by the    *)
(* same tick.  The exception is the first round, when one may be put back  *)
(* onto another that was painted above the screen.                         *)
MergesBySpeed ==
  [][Scroll => \A i, j \in Dividers :
       y[i] # y[j] /\ y'[i] = y'[j]
         => \/ y[i] - y[j] \in (1 - playerBaseSpeed)..(playerBaseSpeed - 1)
            \/ ScreenHeight < y[i] \/ ScreenHeight < y[j]]_roadVars
=============================================================================
