------------------------------ MODULE LaneDodge ------------------------------
(***************************************************************************)
(* The whole game: Session's callbacks and Traffic's cars, which share     *)
(* active, activeOppositeCars, playerLane and the loop of timer().  Each   *)
(* module leaves open what the other one decides.  Session lets any        *)
(* released car be hit or leave the screen; here the positions say which.  *)
(* Traffic lets the player steer, cars be released and games be restarted  *)
(* at any time between ticks; here the callbacks say when.                 *)
(***************************************************************************)
EXTENDS Session

CONSTANTS
  ScreenHeight, SpawnDepth, PlayerY, CarHeight, Near, RespawnGap, ChangeSteps,
  Kinds, Height, Speed, Slow, MayGiveUp   \* see Traffic

VARIABLE car    \* oppositeCars[i] but for active

gameVars == <<vars, car>>

Fleet == INSTANCE Traffic WITH
  pc <- IF gameOver THEN "over" ELSE pc

(* The program's cars and screen have the proportions Traffic needs.       *)
ASSUME FleetAssumption == Fleet!TrafficAssumption

GameInit == Init /\ car \in Fleet!InitialFleets

-----------------------------------------------------------------------------
(* R during a game, PLAY after it: initOppositeCars().                     *)
Restart == (KeyRestart \/ (ClickPlay /\ gameOver)) /\ car' \in Fleet!InitialFleets

(* The callbacks and ticks that move no car.                               *)
CarsRest ==
  /\ \/ ClickPlay /\ ~gameOver
     \/ ClickQuit \/ KeyQuit \/ CloseWindow \/ Steer
     \/ TimerStart
  /\ UNCHANGED car

(* An iteration of the loop of timer().                                    *)
DriveCar == UNCHANGED score /\ MoveCar /\ (Fleet!SkipHidden \/ Fleet!Drive)

PassCar ==
  /\ score' = AtMost(MaxScore, score + 1)
  /\ MoveCar
  /\ Fleet!PassPlayer

(* The collision check: the first car that is hit, released or not.        *)
MissAll == NoCollision /\ (\A c \in Cars : ~Fleet!Hits(c)) /\ UNCHANGED car

HitCar ==
  /\ \E c \in Cars : Fleet!FirstHit(c) /\ (Crash(c) \/ LoseLastLife(c))
  /\ UNCHANGED car

LoopStep == DriveCar \/ PassCar \/ MissAll \/ HitCar

GameNext == Restart \/ CarsRest \/ LoopStep

(* As in Session: queued calls of timer() are made, and end.               *)
TickStep == (TimerStart /\ UNCHANGED car) \/ LoopStep

GameSpec == GameInit /\ [][GameNext]_gameVars /\ WF_gameVars(TickStep)

-----------------------------------------------------------------------------
(* What Session assumes of the traffic holds: checkCollision looks at all  *)
(* cars, but none that is hit waits above the screen for its release; the  *)
(* crash it hides is one Session knows.  (That only visible cars score is  *)
(* in both halves, and holds by their conjunction.)                        *)
SessionSafety == Init /\ [][Next]_vars

(* What Traffic assumes of the rest of the program holds: no callback      *)
(* moves, hides or releases a car in the middle of the loop, a restart     *)
(* brings every car back, and the cars of a finished game stand still,     *)
(* also when a tick chain is left over and keeps calling timer().          *)
ImplementsTraffic == Fleet!Spec

(* Every released car leaves the screen, is hidden by a crash, or the game *)
(* ends or is restarted: no jam of cars that block each other, and no run  *)
(* of crashes, lasts for ever, because a slowed car still moves.           *)
CarsLeave ==
  \A i \in Cars :
    (i \in Released /\ active[i] /\ car[i].y < ScreenHeight)
      ~> (car[i].y >= ScreenHeight \/ ~active[i] \/ gameOver \/ exited)

(* A game always goes on: once a car is on its way, a player who drives    *)
(* passes a car, is hit, restarts or leaves; from the first point as from  *)
(* the later ones, among cars that came back on top of each other, hidden  *)
(* cars and cars a restart sent back.  The tick chain must not break, cars *)
(* must be released, and none may wait for ever.  (That a crash ends is in *)
(* the fair rules of the game, see Session.)                               *)
GameGoesOn ==
  \A n \in 0..(MaxScore - 1) :
    (Playing /\ ~playerCrashed /\ activeOppositeCars > 0 /\ score = n)
      ~> (score # n \/ playerCrashed \/ ~Playing \/ activeOppositeCars = 0)
=============================================================================
