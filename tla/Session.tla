------------------------------- MODULE Session -------------------------------
(***************************************************************************)
(* The control skeleton of the game: the global state of game.cpp and the  *)
(* GLUT callbacks that change it, timer() and mouseMenu() in utils.cpp,    *)
(* keyboard() and keyboardUp() in input.cpp, with the high score of        *)
(* hud.cpp.                                                                *)
(*                                                                         *)
(* GLUT dispatches callbacks one at a time from glutMainLoop, so a         *)
(* callback is never interrupted.  All of them are atomic here except the  *)
(* part of timer() that moves the traffic: its loop over the released      *)
(* cars takes one step per iteration (pc = "cars", nextCar the index i),   *)
(* and no other callback runs before the collision check that follows it   *)
(* returns to the main loop (pc = "idle").                                 *)
(*                                                                         *)
(* The geometry of the traffic is abstracted: an iteration of the loop may *)
(* or may not take a car off the screen, and the collision check finds any *)
(* released car that is not hidden, or none.  Drawing code is left out,    *)
(* and so is playerBaseSpeed, which is always 0.18 * playerKmh and which   *)
(* only the scrolling of the lane dividers reads.                          *)
(***************************************************************************)
EXTENDS Integers, FiniteSets

CONSTANTS
  NumCars,          \* NUM_OPPOSITE_CARS: 6
  Lives,            \* lives at launch and after a restart: 3
  RespawnDelay,     \* RESPAWN_DELAY: 60 ticks
  GameOverDelay,    \* GAME_OVER_DELAY: 120 ticks
  InitialDelay,     \* timer()'s initialDelay: 120 ticks
  SpawnInterval,    \* timer()'s spawnInterval: 480 ticks
  SpeedupInterval,  \* the literal 600 of timer()
  InitialKmh,       \* PLAYER_INITIAL_KMH: 60
  SpeedupKmh,       \* PLAYER_SPEEDUP_KMH: 10
  NumLanes, LaneSteps, StartLane, StartOffset, RestartOffset,  \* see Steering
  WindowLookup,     \* outcomes of FindWindowA and GetSystemMenu: a subset of
                    \* BOOLEAN, {TRUE} when the lookup never fails
  DiskReadable,     \* outcomes of opening an existing highscore.dat for reading
  DiskWritable      \* and of opening it for writing

(* Bounds of the model, not of the program.                                *)
CONSTANTS
  MaxTimers,        \* pending timers; R and PLAY are not pressed at the bound
  MaxScore,         \* score saturates here
  MaxKmh            \* playerKmh saturates here

ASSUME SessionAssumption ==
  /\ NumCars \in Nat \ {0}
  /\ Lives \in Nat \ {0}
  /\ RespawnDelay \in Nat \ {0}
  /\ GameOverDelay \in Nat \ {0}
  /\ InitialDelay \in Nat \ {0}
  /\ SpawnInterval \in Nat
  /\ InitialDelay <= SpawnInterval
  /\ SpeedupInterval \in Nat \ {0}
  /\ InitialKmh \in Nat
  /\ SpeedupKmh \in Nat
  /\ MaxTimers \in Nat \ {0}
  /\ MaxScore \in Nat
  /\ MaxKmh \in Nat
  /\ InitialKmh <= MaxKmh

ASSUME RoadAssumption ==
  /\ NumLanes \in Nat \ {0}
  /\ LaneSteps \in Nat
  /\ StartLane \in 0..(NumLanes - 1)
  /\ {StartOffset, RestartOffset} \subseteq 0..LaneSteps

ASSUME OutcomeAssumption ==
  /\ WindowLookup \in (SUBSET BOOLEAN) \ {{}}
  /\ DiskReadable \in (SUBSET BOOLEAN) \ {{}}
  /\ DiskWritable \in (SUBSET BOOLEAN) \ {{}}

VARIABLES
  showMenu, gameOver,
  exited,                   \* exit() was called, or the window was closed
  lives,
  playerLane, playerLaneOffset, playerCrashed, crashPos,  \* see Steering
  playerVisible, respawnTimer, gameOverTimer,
  score, highScore,
  disk,                     \* the number in highscore.dat, or NoFile
  active,                   \* oppositeCars[i].active
  activeOppositeCars,       \* how many cars have been released
  trafficIncreaseTimer, playerSpeedIncreaseTimer, playerKmh,
  crashMusicPlaying,
  closeEnabled,             \* SC_CLOSE of the window's system menu
  timers,                   \* calls of timer() that glutTimerFunc has queued
  pc, nextCar               \* where timer() is, and its loop index

steerVars == <<playerLane, playerLaneOffset, playerCrashed, crashPos>>
screenVars == <<showMenu, gameOver, exited>>
crashVars == <<lives, playerVisible, respawnTimer>>
scoreVars == <<score, highScore, disk>>
rampVars == <<activeOppositeCars, trafficIncreaseTimer,
              playerSpeedIncreaseTimer, playerKmh>>
loopVars == <<pc, nextCar>>

vars == <<steerVars, screenVars, crashVars, scoreVars, rampVars, loopVars,
          gameOverTimer, active, crashMusicPlaying, closeEnabled, timers>>

Wheel == INSTANCE Steering

Cars == 0..(NumCars - 1)
NoFile == -1

(* The cars a crash has hidden: oppositeCars[i].active is false.           *)
Hidden == {c \in Cars : ~active[c]}

(* The cars timer() moves and draws closer: the first activeOppositeCars.  *)
Released == {c \in Cars : c < activeOppositeCars}

AtMost(bound, n) == IF n <= bound THEN n ELSE bound

(* What loadHighScore() reads: a missing file leaves the initial 0.        *)
Loaded(file) == IF file = NoFile THEN 0 ELSE file

(* loadHighScore(): and so does a file that is there but cannot be opened. *)
LoadHighScore ==
  \E opened \in DiskReadable : highScore = IF opened THEN Loaded(disk) ELSE 0

(* main() up to glutMainLoop.  loadHighScore has run, no car is released,  *)
(* and glutTimerFunc(0, timer, 0) has queued the first tick.               *)
Init ==
  /\ Wheel!Init
  /\ showMenu = TRUE /\ gameOver = FALSE /\ exited = FALSE
  /\ lives = Lives
  /\ playerVisible = TRUE /\ respawnTimer = 0 /\ gameOverTimer = 0
  /\ score = 0
  /\ disk \in (0..MaxScore) \cup {NoFile}
  /\ LoadHighScore
  /\ active = [c \in Cars |-> TRUE]
  /\ activeOppositeCars = 0
  /\ trafficIncreaseTimer = 0 /\ playerSpeedIncreaseTimer = 0
  /\ playerKmh = InitialKmh
  /\ crashMusicPlaying = FALSE
  /\ closeEnabled = TRUE
  /\ timers = 1
  /\ pc = "idle" /\ nextCar = 0

-----------------------------------------------------------------------------
(* A callback other than the running timer() may be dispatched.            *)
Dispatch == pc = "idle" /\ ~exited

(* The window lookup that mouseMenu(), keyboardUp() and timer() share: when *)
(* it fails SC_CLOSE stays as it is.  The operators whose names begin with *)
(* Bug are mutants: each is the definition below it with a plausible bug,  *)
(* and shows that some property of this module would catch it.             *)
BugSetCloseSwapped(enabled) ==
  \E found \in WindowLookup :
    closeEnabled' = IF found THEN ~enabled ELSE closeEnabled

SetClose(enabled) ==
  \E found \in WindowLookup :
    closeEnabled' = IF found THEN enabled ELSE closeEnabled

(* initOppositeCars: every car is back above the screen, and visible.      *)
BugInitOppositeCarsKeepsHidden == UNCHANGED active

InitOppositeCars == active' = [c \in Cars |-> TRUE]

(* The parts of the restart block that reset the player and the counters.  *)
BugResetPlayerKeepsDark == Wheel!BackToStart /\ UNCHANGED playerVisible

ResetPlayer == Wheel!BackToStart /\ playerVisible' = TRUE

BugResetCountersKeepsScore ==
  UNCHANGED score /\ lives' = Lives /\ playerKmh' = InitialKmh

ResetCounters == score' = 0 /\ lives' = Lives /\ playerKmh' = InitialKmh

(* The restart block of mouseMenu() and keyboardUp().                      *)
(* trafficIncreaseTimer, playerSpeedIncreaseTimer, respawnTimer and the    *)
(* music are not part of it.                                               *)
NewGame ==
  /\ ResetPlayer
  /\ gameOver' = FALSE
  /\ ResetCounters
  /\ activeOppositeCars' = 0
  /\ InitOppositeCars
  /\ SetClose(TRUE)
  /\ UNCHANGED <<highScore, disk, trafficIncreaseTimer,
                 playerSpeedIncreaseTimer, respawnTimer, gameOverTimer,
                 crashMusicPlaying>>

(* glutTimerFunc: one more call of timer() is queued.                      *)
BugQueueTickLost == UNCHANGED timers

QueueTick == timers' = timers + 1

(* mouseMenu(): a left click on PLAY, in the start menu or after the game  *)
(* is over.  It always queues a tick, also when one is still queued.       *)
ClickPlay ==
  /\ Dispatch
  /\ showMenu \/ gameOver
  /\ timers < MaxTimers
  /\ showMenu' = FALSE
  /\ \/ gameOver /\ NewGame
     \/ /\ ~gameOver
        /\ UNCHANGED <<steerVars, gameOver, crashVars, scoreVars, rampVars,
                       gameOverTimer, active, crashMusicPlaying, closeEnabled>>
  /\ QueueTick
  /\ UNCHANGED <<exited, loopVars>>

(* keyboardUp('r'): a restart in the middle of a game.  It queues a tick   *)
(* beside the one the running game has already queued.                     *)
KeyRestart ==
  /\ Dispatch
  /\ ~showMenu /\ ~gameOver
  /\ timers < MaxTimers
  /\ NewGame
  /\ QueueTick
  /\ UNCHANGED <<showMenu, exited, loopVars>>

Exit ==
  /\ exited' = TRUE
  /\ UNCHANGED <<steerVars, showMenu, gameOver, crashVars, scoreVars, rampVars,
                 loopVars, gameOverTimer, active, crashMusicPlaying,
                 closeEnabled>>

(* mouseMenu(): a left click on QUIT.                                      *)
ClickQuit == Dispatch /\ (showMenu \/ gameOver) /\ Exit /\ UNCHANGED timers

(* keyboardUp('q').                                                        *)
KeyQuit == Dispatch /\ ~showMenu /\ ~gameOver /\ Exit /\ UNCHANGED timers

(* The window's close box or Alt-F4: freeglut ends the program, unless     *)
(* timer() has greyed SC_CLOSE.                                            *)
CloseWindow == Dispatch /\ closeEnabled /\ Exit /\ UNCHANGED timers

(* keyboard(): LEFT or RIGHT, whatever screen is shown.                    *)
Steer ==
  /\ Dispatch
  /\ Wheel!KeyLeft \/ Wheel!KeyRight
  /\ UNCHANGED <<screenVars, crashVars, scoreVars, rampVars, loopVars,
                 gameOverTimer, active, crashMusicPlaying, closeEnabled,
                 timers>>

-----------------------------------------------------------------------------
(* timer(): GLUT takes one queued call and makes it.                       *)
TimerFires == Dispatch /\ timers > 0

(* handleAudio(): the crash sound follows playerCrashed.                   *)
BugHandleAudioNeverStops ==
  crashMusicPlaying' = (crashMusicPlaying \/ playerCrashed)

HandleAudio == crashMusicPlaying' = playerCrashed

(* The release of one more car, every spawnInterval ticks and the first    *)
(* after initialDelay.  trafficIncreaseTimer runs on in the program; above *)
(* SpawnInterval no test tells its values apart.                           *)
ReleaseIf(due) ==
  LET t == trafficIncreaseTimer + 1
  IN  /\ activeOppositeCars' = activeOppositeCars + (IF due THEN 1 ELSE 0)
      /\ trafficIncreaseTimer' = IF due THEN 0 ELSE AtMost(SpawnInterval, t)

BugRampTrafficUncapped == ReleaseIf(trafficIncreaseTimer + 1 >= SpawnInterval)

BugRampTrafficNoFirst ==
  ReleaseIf(/\ activeOppositeCars \in 1..(NumCars - 1)
          /\ trafficIncreaseTimer + 1 >= SpawnInterval)

BugRampTrafficWaits ==
  ReleaseIf(/\ activeOppositeCars < NumCars
          /\ trafficIncreaseTimer + 1 >= SpawnInterval)

RampTraffic ==
  LET t == trafficIncreaseTimer + 1
  IN  ReleaseIf(/\ activeOppositeCars < NumCars
              /\ \/ activeOppositeCars = 0 /\ t >= InitialDelay
                 \/ activeOppositeCars > 0 /\ t >= SpawnInterval)

(* The player's speed-up, every SpeedupInterval ticks.                     *)
SpeedUpIf(due) ==
  /\ playerSpeedIncreaseTimer' = IF due THEN 0 ELSE playerSpeedIncreaseTimer + 1
  /\ playerKmh' = IF due THEN AtMost(MaxKmh, playerKmh + SpeedupKmh)
                         ELSE playerKmh

BugRampSpeedEarly == SpeedUpIf(playerSpeedIncreaseTimer + 2 >= SpeedupInterval)

RampSpeed == SpeedUpIf(playerSpeedIncreaseTimer + 1 >= SpeedupInterval)

(* What timer() does on every tick of a started game before it looks at    *)
(* the state of the player.                                                *)
TickPrefix == HandleAudio /\ RampTraffic /\ RampSpeed

(* Under the start menu timer() returns at once and queues nothing.        *)
TimerMenu ==
  /\ TimerFires
  /\ showMenu
  /\ timers' = timers - 1
  /\ UNCHANGED <<steerVars, screenVars, crashVars, scoreVars, rampVars,
                 loopVars, gameOverTimer, active, crashMusicPlaying,
                 closeEnabled>>

(* A tick while the player is crashed: the respawn countdown, the blink in *)
(* its second half, and the next tick queued.                              *)
TimerCrashed ==
  /\ TimerFires
  /\ ~showMenu /\ playerCrashed
  /\ TickPrefix
  /\ respawnTimer' = respawnTimer - 1
  /\ \/ respawnTimer' <= 0 /\ Wheel!Recover /\ playerVisible' = TRUE
     \/ /\ respawnTimer' > 0
        /\ playerVisible' = (respawnTimer' < RespawnDelay \div 2)
        /\ UNCHANGED steerVars
  /\ UNCHANGED <<screenVars, lives, scoreVars, loopVars, gameOverTimer, active,
                 closeEnabled, timers>>

(* A tick after the game is over: the countdown to exit(0).                *)
TimerGameOver ==
  /\ TimerFires
  /\ ~showMenu /\ ~playerCrashed /\ gameOver
  /\ TickPrefix
  /\ gameOverTimer' = gameOverTimer - 1
  /\ \/ gameOverTimer' <= 0 /\ exited' = TRUE /\ timers' = timers - 1
     \/ gameOverTimer' > 0 /\ UNCHANGED <<exited, timers>>
  /\ UNCHANGED <<steerVars, showMenu, gameOver, crashVars, scoreVars, loopVars,
                 active, closeEnabled>>

(* A tick of a running game enters the loop over the released cars.        *)
TimerDrive ==
  /\ TimerFires
  /\ ~showMenu /\ ~playerCrashed /\ ~gameOver
  /\ TickPrefix
  /\ pc' = "cars" /\ nextCar' = 0
  /\ timers' = timers - 1
  /\ UNCHANGED <<steerVars, screenVars, crashVars, scoreVars, gameOverTimer,
                 active, closeEnabled>>

(* One iteration of the loop: a hidden car is skipped; a car that has left *)
(* the screen scores a point and comes back at the top.                    *)
MoveCar ==
  /\ pc = "cars" /\ nextCar < activeOppositeCars
  /\ \/ UNCHANGED score
     \/ active[nextCar] /\ score' = AtMost(MaxScore, score + 1)
  /\ nextCar' = nextCar + 1
  /\ UNCHANGED <<steerVars, screenVars, crashVars, highScore, disk, rampVars,
                 pc, gameOverTimer, active, crashMusicPlaying, closeEnabled,
                 timers>>

(* The collision check after the loop has been reached.                    *)
LoopDone == pc = "cars" /\ nextCar >= activeOppositeCars

BackToMainLoop == pc' = "idle" /\ nextCar' = 0

(* checkCollision() returns -1: the next tick is queued.                   *)
NoCollision ==
  /\ LoopDone
  /\ BackToMainLoop
  /\ QueueTick
  /\ UNCHANGED <<steerVars, screenVars, crashVars, scoreVars, rampVars,
                 gameOverTimer, active, crashMusicPlaying, closeEnabled>>

(* What a crash changes that leaves the player a life, but for the car.    *)
HoldUp(delay) ==
  /\ lives' = lives - 1
  /\ lives' > 0
  /\ Wheel!CrashHere
  /\ respawnTimer' = delay
  /\ playerVisible' = FALSE

BugStartRespawnKeepsCountdown ==
  HoldUp(IF respawnTimer > 0 THEN respawnTimer ELSE RespawnDelay)

StartRespawn == HoldUp(RespawnDelay)

(* A collision with car c that leaves the player a life: the car is        *)
(* hidden, the respawn countdown starts and the next tick is queued.       *)
Crash(c) ==
  /\ LoopDone
  /\ active[c]
  /\ StartRespawn
  /\ active' = [active EXCEPT ![c] = FALSE]
  /\ BackToMainLoop
  /\ QueueTick
  /\ UNCHANGED <<screenVars, scoreVars, rampVars, gameOverTimer,
                 crashMusicPlaying, closeEnabled>>

(* updateHighScore() and saveHighScore(): a file that cannot be opened is  *)
(* left as it is.                                                          *)
SaveHighScore(number) ==
  \E opened \in DiskWritable : disk' = IF opened THEN number ELSE disk

BugUpdateHighScoreSwapped ==
  IF score > highScore
  THEN highScore' = score /\ SaveHighScore(highScore)
  ELSE UNCHANGED <<highScore, disk>>

UpdateHighScore ==
  IF score > highScore
  THEN highScore' = score /\ SaveHighScore(score)
  ELSE UNCHANGED <<highScore, disk>>

(* What the last crash changes beside the tick queue.                      *)
EndGame(delay) ==
  /\ lives' = lives - 1
  /\ lives' <= 0
  /\ gameOver' = TRUE
  /\ gameOverTimer' = delay
  /\ UpdateHighScore
  /\ SetClose(FALSE)
  /\ BackToMainLoop
  /\ UNCHANGED <<steerVars, showMenu, exited, playerVisible, respawnTimer,
                 score, rampVars, active, crashMusicPlaying>>

(* A collision that takes the last life.  timer() returns without queuing  *)
(* a tick, and the car it hit is not hidden.                               *)
BugLoseLastLifeNoCountdown(c) ==
  LoopDone /\ active[c] /\ EndGame(gameOverTimer) /\ UNCHANGED timers

BugLoseLastLifeQueues(c) ==
  LoopDone /\ active[c] /\ EndGame(GameOverDelay) /\ QueueTick

LoseLastLife(c) ==
  LoopDone /\ active[c] /\ EndGame(GameOverDelay) /\ UNCHANGED timers

-----------------------------------------------------------------------------
UserStep ==
  ClickPlay \/ KeyRestart \/ ClickQuit \/ KeyQuit \/ CloseWindow \/ Steer

TimerStart == TimerMenu \/ TimerCrashed \/ TimerGameOver \/ TimerDrive

TimerBody ==
  \/ MoveCar
  \/ NoCollision
  \/ \E c \in Released : Crash(c) \/ LoseLastLife(c)

TimerStep == TimerStart \/ TimerBody

Next == UserStep \/ TimerStep

(* glutMainLoop keeps dispatching queued timers and timer() terminates;    *)
(* nothing is assumed of the player.                                       *)
Spec == Init /\ [][Next]_vars /\ WF_vars(TimerStep)

-----------------------------------------------------------------------------
(* Type invariant.                                                         *)
TypeOK ==
  /\ Wheel!TypeOK
  /\ showMenu \in BOOLEAN /\ gameOver \in BOOLEAN /\ exited \in BOOLEAN
  /\ lives \in 0..Lives
  /\ playerVisible \in BOOLEAN
  /\ respawnTimer \in 0..RespawnDelay
  /\ gameOverTimer \in 0..GameOverDelay
  /\ score \in 0..MaxScore
  /\ highScore \in 0..MaxScore
  /\ disk \in (0..MaxScore) \cup {NoFile}
  /\ active \in [Cars -> BOOLEAN]
  /\ activeOppositeCars \in 0..NumCars
  /\ trafficIncreaseTimer \in 0..SpawnInterval
  /\ playerSpeedIncreaseTimer \in 0..(SpeedupInterval - 1)
  /\ playerKmh \in 0..MaxKmh
  /\ crashMusicPlaying \in BOOLEAN
  /\ closeEnabled \in BOOLEAN
  /\ timers \in 0..MaxTimers
  /\ pc \in {"idle", "cars"}
  /\ nextCar \in 0..NumCars

Playing == ~showMenu /\ ~gameOver /\ ~exited

(* A started game never freezes: whenever the main loop waits for events   *)
(* during a game, a call of timer() is queued.  Each early return of       *)
(* timer() decides for itself whether to queue the next tick, and PLAY is  *)
(* what revives the chain that the start menu and the end of a game let    *)
(* die.                                                                    *)
NeverFrozen == Playing /\ pc = "idle" => timers > 0

(* A crashed player is in a running game and has a life left, and the      *)
(* countdown that ends the crash has not run out.  That it has all of its  *)
(* time is for Pacing to say.                                              *)
CrashCountdown ==
  playerCrashed => /\ ~showMenu /\ ~gameOver
                   /\ lives \in 1..(Lives - 1)
                   /\ respawnTimer \in 1..RespawnDelay

(* What holds while timer() is between its loop and its return.            *)
LoopInv ==
  pc = "cars" => /\ ~showMenu /\ ~gameOver /\ ~exited /\ ~playerCrashed
                 /\ ~crashMusicPlaying
                 /\ timers < MaxTimers
                 /\ nextCar <= activeOppositeCars

(* Lives and screens: the life counter is zero exactly after the last      *)
(* crash, and the start menu is left for good before any crash.            *)
LivesInv ==
  /\ gameOver <=> lives = 0
  /\ showMenu => ~gameOver

(* As long as the program runs, the countdown to exit(0) has not run out.  *)
CountdownInv == gameOver /\ ~exited => gameOverTimer > 0

(* The inductive invariant of the callbacks.  TypeOK alone is not          *)
(* inductive: each countdown and each counter is kept in its range by the  *)
(* phase the game is in, and the phases are kept apart by the early        *)
(* returns of timer() and the guards of the key and mouse handlers.        *)
IInv == TypeOK /\ LoopInv /\ LivesInv /\ CountdownInv /\ CrashCountdown

(* The traffic ledger: the cars hidden by crashes are exactly the lives    *)
(* lost (the last crash of a game hides none), and only released cars are  *)
(* hidden.  The restart code resets the two in different functions, and    *)
(* the respawn branch for hidden cars in timer()'s loop can never run.     *)
HiddenMatchesLives ==
  /\ Cardinality(Hidden) = Lives - (IF gameOver THEN 1 ELSE lives)
  /\ Hidden \subseteq Released
  /\ gameOver <=> lives = 0

(* The player's car is drawn exactly when it is not in the first half of a *)
(* crash: an invisible car is never driven, and a restart out of the dark  *)
(* half does not leave it invisible.                                       *)
VisibleWhenDriven ==
  playerVisible <=> (playerCrashed => respawnTimer < RespawnDelay \div 2)

(* The game-over screen is quiet: no crash sound plays under it, although  *)
(* the ticks that would stop the sound may have ended.                     *)
SilentGameOver == gameOver => ~crashMusicPlaying

(* When the file can always be opened, what the game-over screen shows as  *)
(* the high score is what the next launch will load.  What is left of this *)
(* when it cannot, RecordFile says.                                        *)
HighScoreDurable ==
  DiskReadable = {TRUE} /\ DiskWritable = {TRUE} => Loaded(disk) = highScore

(* When the window lookup never fails, the close box is greyed exactly     *)
(* while the game-over menu is up: no restart path leaves the player with  *)
(* a window that cannot be closed.                                         *)
CloseGreyedAtGameOver ==
  WindowLookup = {TRUE} => (closeEnabled <=> ~gameOver)

(* The screens and phases of the program as the rules of the game name     *)
(* them.                                                                   *)
Mode ==
  IF exited THEN "exited"
  ELSE IF showMenu THEN "menu"
  ELSE IF gameOver THEN "over"
  ELSE IF playerCrashed THEN "crashed"
  ELSE "driving"

Rules == INSTANCE GameRules WITH mode <- Mode, best <- highScore

(* The callbacks implement the rules of the game: every step of every      *)
(* callback is a move the rules allow or leaves what they speak of alone.  *)
ImplementsRules == Rules!Spec

(* And fairly: a crashed player gets to drive on unless the game is left   *)
(* or restarted first.                                                     *)
ImplementsFairRules == Rules!FairSpec

(* Traffic keeps coming: while a game is played, the next car is released  *)
(* sooner or later, until all of them are on the road.                     *)
TrafficKeepsComing ==
  \A n \in 0..(NumCars - 1) :
    (Playing /\ activeOppositeCars = n)
      ~> (activeOppositeCars # n \/ ~Playing)
=============================================================================
