------------------------------- MODULE Pacing -------------------------------
(***************************************************************************)
(* Session with a clock.  A call of timer() queued by glutTimerFunc(1000 / *)
(* 60, ...) is made one frame later, so each chain of calls that queue     *)
(* each other ticks once per frame.  A frame is the round of the main loop *)
(* that makes the calls queued before it began: due of them are still to   *)
(* be made, and calls queued meanwhile wait for the next frame.            *)
(*                                                                         *)
(* The other variables are history: nothing in the program reads them.     *)
(***************************************************************************)
EXTENDS Session

VARIABLES
  due,            \* calls of timer() still to be made in this frame
  sinceSpeedup,   \* frames since the last speed-up, or the launch
  sinceRelease,   \* frames since the last car was released, or the game began
  crashedTicks,   \* ticks in a row that found the player crashed
  extra           \* tick chains that were started beside a live one

clockVars == <<due, sinceSpeedup, sinceRelease, crashedTicks, extra>>
pacedVars == <<vars, clockVars>>

PacedInit ==
  /\ Init
  /\ due = 0 /\ sinceSpeedup = 0 /\ sinceRelease = 0 /\ crashedTicks = 0
  /\ extra = 0

(* Ticks that change the speed, release a car, or begin a new game.        *)
Speedup == TimerStart /\ ~showMenu /\ playerSpeedIncreaseTimer' = 0

CarReleased == activeOppositeCars' = activeOppositeCars + 1

GameBegins == ClickPlay \/ KeyRestart

(* The next round of the main loop: the counters saturate.                 *)
Frame ==
  /\ Dispatch /\ due = 0
  /\ due' = timers
  /\ sinceSpeedup' = AtMost(SpeedupInterval, sinceSpeedup + 1)
  /\ sinceRelease' = AtMost(SpawnInterval, sinceRelease + 1)
  /\ UNCHANGED <<vars, crashedTicks, extra>>

(* One of this frame's calls of timer().                                   *)
Tick ==
  /\ due > 0 /\ due' = due - 1
  /\ TimerStart
  /\ sinceSpeedup' = IF Speedup THEN 0 ELSE sinceSpeedup
  /\ sinceRelease' = IF CarReleased THEN 0 ELSE sinceRelease
  /\ crashedTicks' = IF playerCrashed THEN crashedTicks + 1 ELSE 0
  /\ UNCHANGED extra

(* PLAY in the start menu leaves main()'s first call of timer() queued if  *)
(* the click is faster than that call; R always finds one queued.          *)
StartGame ==
  /\ GameBegins
  /\ extra' = extra + (IF KeyRestart THEN 1 ELSE IF showMenu THEN timers ELSE 0)
  /\ sinceRelease' = 0
  /\ UNCHANGED <<due, sinceSpeedup, crashedTicks>>

OtherStep ==
  /\ TimerBody \/ ClickQuit \/ KeyQuit \/ CloseWindow \/ Steer
  /\ UNCHANGED clockVars

PacedNext == Frame \/ Tick \/ StartGame \/ OtherStep

PacedSpec == PacedInit /\ [][PacedNext]_pacedVars

-----------------------------------------------------------------------------
(* The ledger of tick chains.  A game runs on one chain and those that R,  *)
(* or a PLAY faster than the first tick, has added; the end of a game ends *)
(* one chain and PLAY starts one.  A chain once added is never lost, and   *)
(* without one the game-over screen has no tick that could count down to   *)
(* exit(0).                                                                *)
ChainLedger ==
  ~exited =>
    /\ Playing => timers + (IF pc = "cars" THEN 1 ELSE 0) = 1 + extra
    /\ gameOver => timers = extra
    /\ showMenu => timers + extra <= 1

(* The pace of a game on a single chain: speed-ups are SpeedupInterval     *)
(* frames apart, and so are SpawnInterval the cars after the first.        *)
SteadyPace ==
  [][extra = 0 =>
       /\ Speedup => sinceSpeedup >= SpeedupInterval
       /\ CarReleased /\ activeOppositeCars > 0 => sinceRelease >= SpawnInterval
    ]_pacedVars

(* The first car of a game is no later than InitialDelay frames.  A restart *)
(* and PLAY keep the count of the game before, ticks under the game-over  *)
(* menu add to it, and so does every further chain: all hasten the car.    *)
FirstCarInTime == Playing /\ activeOppositeCars = 0 => sinceRelease <= InitialDelay

(* A crash that a tick ends has had all its RespawnDelay ticks: neither    *)
(* the countdown that a restart left behind in the middle of an earlier    *)
(* crash nor a further chain ends it early.                                *)
CrashRunsItsCourse ==
  [][TimerCrashed /\ ~playerCrashed' => crashedTicks' = RespawnDelay]_pacedVars

(* "Increase player speed by 10 km/hr every 10 seconds" (utils.cpp): ten   *)
(* seconds are SpeedupInterval frames, on however many chains.             *)
SpeedupEveryTenSeconds ==
  [][Speedup => sinceSpeedup >= SpeedupInterval]_pacedVars

(* "Click PLAY to Restart or QUIT to Exit" (utils.cpp, the game-over       *)
(* menu): the program ends from that menu by a click on QUIT only.         *)
GameOverWaitsForClick ==
  [][gameOver /\ exited' /\ ~exited => ClickQuit]_pacedVars
=============================================================================
