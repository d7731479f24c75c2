------------------------------- MODULE Screen -------------------------------
(***************************************************************************)
(* For Devices: the picture in the window.  The picture is drawn by        *)
(* display() from the globals, and only after glutPostRedisplay(): a       *)
(* callback that changes what display() reads and posts nothing leaves an  *)
(* old picture on the screen.  A picture is what is drawn and where, not   *)
(* its shapes; of the traffic, which cars are drawn.                       *)
(***************************************************************************)
EXTENDS Session

VARIABLES
  posted,   \* glutPostRedisplay() was called and display() has not run since
  shown     \* the picture in the window

pictureVars == <<posted, shown>>

(* drawPlayerCar() and drawCrashEffect(): the spot they draw at, or none.  *)
CarPicture == IF playerVisible THEN Wheel!PlayerPos ELSE <<>>

BurstPicture == IF playerCrashed /\ respawnTimer > 0 THEN crashPos ELSE <<>>

(* drawOppositeCars(): released or not, those that are not hidden.         *)
TrafficPicture == Cars \ Hidden

(* drawHUD().                                                              *)
HUD == <<score, lives, highScore>>

(* drawMenu(isGameOver): the final score and the record are on it only     *)
(* after a game.                                                           *)
MenuPicture(isGameOver) ==
  [screen |-> IF isGameOver THEN "over" ELSE "menu",
   text |-> IF isGameOver THEN <<score, highScore>> ELSE <<>>]

(* The road with what is on it.                                            *)
RoadPicture ==
  [screen |-> "road", car |-> CarPicture, burst |-> BurstPicture,
   traffic |-> TrafficPicture, hud |-> HUD]

BugPictureGameFirst ==
  IF showMenu THEN MenuPicture(FALSE)
  ELSE IF gameOver /\ ~playerVisible THEN MenuPicture(TRUE)
  ELSE RoadPicture

(* display().                                                              *)
Picture ==
  IF showMenu THEN MenuPicture(FALSE)
  ELSE IF gameOver THEN MenuPicture(TRUE)
  ELSE RoadPicture

(* Creating the window makes GLUT draw it once.                            *)
ScreenInit == posted = TRUE /\ shown = [screen |-> "none"]

(* The callbacks that call glutPostRedisplay().                            *)
Posts ==
  /\ \/ ClickPlay \/ KeyRestart \/ Steer
     \/ TimerCrashed \/ TimerGameOver
     \/ NoCollision
     \/ \E c \in Released : Crash(c)
  /\ posted' = TRUE

(* The return of timer() at the last crash has a call of its own.          *)
BugLastCrashPostsNot == (\E c \in Released : LoseLastLife(c)) /\ UNCHANGED posted

LastCrashPosts == (\E c \in Released : LoseLastLife(c)) /\ posted' = TRUE

(* The others, or the part of timer() before its end.                      *)
PostsNothing ==
  /\ ClickQuit \/ KeyQuit \/ CloseWindow \/ TimerMenu \/ TimerDrive \/ MoveCar
  /\ UNCHANGED posted

Display ==
  /\ Dispatch /\ posted
  /\ shown' = Picture /\ posted' = FALSE
  /\ UNCHANGED vars

Callback ==
  /\ Posts \/ LastCrashPosts \/ PostsNothing
  /\ UNCHANGED shown

-----------------------------------------------------------------------------
(* The window is never stale: whenever the main loop waits, the picture is *)
(* the one display() would draw, or display() is about to run.             *)
NeverStale == pc = "idle" /\ ~exited => posted \/ shown = Picture

(* The player gets to see the end of his game, although no tick follows it *)
(* that would post a redisplay.                                            *)
EndIsShown == gameOver ~> (shown.screen = "over" \/ ~gameOver \/ exited)
=============================================================================
