---------------------------- MODULE SessionProofs ----------------------------
(***************************************************************************)
(* Proofs about Session, for every value of its constants: the inductive   *)
(* invariant IInv of the callbacks; the safety properties, each preserved  *)
(* by every step from a state that satisfies IInv (a lemma names the       *)
(* actions that could disturb the property, and the proof how they do      *)
(* not); and that the callbacks implement the rules of the game.           *)
(***************************************************************************)
EXTENDS Session, FiniteSetTheorems, TLAPS

(* Operators that name a part of one action are expanded everywhere.       *)
USE DEF ResetPlayer, ResetCounters, InitOppositeCars, QueueTick, ReleaseIf,
        SpeedUpIf, EndGame, HoldUp, StartRespawn, SaveHighScore

(* The parts of TypeOK, for provers that take one kind of data at a time.  *)
FlagsOK ==
  /\ showMenu \in BOOLEAN /\ gameOver \in BOOLEAN /\ exited \in BOOLEAN
  /\ playerVisible \in BOOLEAN
  /\ crashMusicPlaying \in BOOLEAN
  /\ closeEnabled \in BOOLEAN

CountsOK ==
  /\ lives \in 0..Lives
  /\ respawnTimer \in 0..RespawnDelay
  /\ gameOverTimer \in 0..GameOverDelay
  /\ score \in 0..MaxScore
  /\ highScore \in 0..MaxScore
  /\ disk \in (0..MaxScore) \cup {NoFile}
  /\ activeOppositeCars \in 0..NumCars
  /\ trafficIncreaseTimer \in 0..SpawnInterval
  /\ playerSpeedIncreaseTimer \in 0..(SpeedupInterval - 1)
  /\ playerKmh \in 0..MaxKmh
  /\ timers \in 0..MaxTimers
  /\ pc \in {"idle", "cars"}
  /\ nextCar \in 0..NumCars

LEMMA TypeParts ==
  /\ TypeOK <=> /\ Wheel!TypeOK /\ FlagsOK /\ CountsOK
                /\ active \in [Cars -> BOOLEAN]
  /\ TypeOK' <=> /\ Wheel!TypeOK' /\ FlagsOK' /\ CountsOK'
                 /\ active' \in [Cars -> BOOLEAN]
  BY Zenon DEF TypeOK, FlagsOK, CountsOK

(* The car keeps its type under each operation of the steering wheel.      *)
LEMMA WheelTypes ==
  ASSUME Wheel!TypeOK,
         \/ Wheel!KeyLeft \/ Wheel!KeyRight \/ Wheel!CrashHere
         \/ Wheel!Recover \/ Wheel!BackToStart \/ UNCHANGED steerVars
  PROVE  Wheel!TypeOK'
  <1> USE RoadAssumption DEF Wheel!TypeOK, Wheel!Lanes, Wheel!Offsets,
          Wheel!PlayerPos
  <1>1. CASE Wheel!KeyLeft
    BY <1>1 DEF Wheel!KeyLeft
  <1>2. CASE Wheel!KeyRight
    BY <1>2 DEF Wheel!KeyRight
  <1>3. CASE Wheel!CrashHere
    BY <1>3 DEF Wheel!CrashHere
  <1>4. CASE Wheel!Recover
    BY <1>4 DEF Wheel!Recover
  <1>5. CASE Wheel!BackToStart
    BY <1>5 DEF Wheel!BackToStart
  <1>6. CASE UNCHANGED steerVars
    BY <1>6 DEF steerVars
  <1> QED BY <1>1, <1>2, <1>3, <1>4, <1>5, <1>6

(* Greying or enabling the close box leaves a Boolean.                     *)
LEMMA SetCloseType ==
  ASSUME NEW b \in BOOLEAN, closeEnabled \in BOOLEAN, SetClose(b)
  PROVE  closeEnabled' \in BOOLEAN
  BY DEF SetClose

(* The restart block establishes the types, and a state with no crash.     *)
LEMMA NewGameTypes ==
  ASSUME TypeOK, NewGame
  PROVE  /\ Wheel!TypeOK' /\ closeEnabled' \in BOOLEAN
         /\ active' \in [Cars -> BOOLEAN]
         /\ playerCrashed' = FALSE
  BY WheelTypes, SetCloseType DEF NewGame, TypeOK, Wheel!BackToStart

(* What a tick does to the traffic and to the speed keeps their types.     *)
LEMMA TickTypes ==
  ASSUME TypeOK, TickPrefix
  PROVE  /\ activeOppositeCars' \in 0..NumCars
         /\ activeOppositeCars' >= activeOppositeCars
         /\ trafficIncreaseTimer' \in 0..SpawnInterval
         /\ playerSpeedIncreaseTimer' \in 0..(SpeedupInterval - 1)
         /\ playerKmh' \in 0..MaxKmh
         /\ crashMusicPlaying' \in BOOLEAN
         /\ crashMusicPlaying' = playerCrashed
  <1>1. /\ activeOppositeCars' \in 0..NumCars
        /\ activeOppositeCars' >= activeOppositeCars
        /\ trafficIncreaseTimer' \in 0..SpawnInterval
    BY SessionAssumption DEF TypeOK, TickPrefix, RampTraffic, AtMost
  <1>2. /\ playerSpeedIncreaseTimer' \in 0..(SpeedupInterval - 1)
        /\ playerKmh' \in 0..MaxKmh
    BY SessionAssumption DEF TypeOK, TickPrefix, RampSpeed, AtMost
  <1>3. crashMusicPlaying' = playerCrashed /\ playerCrashed \in BOOLEAN
    BY Zenon DEF TypeOK, TickPrefix, HandleAudio, Wheel!TypeOK
  <1> QED
    BY <1>1, <1>2, <1>3

LEMMA InitIInv == Init => IInv
  <1> USE SessionAssumption
      DEF NoFile, AtMost, Dispatch, IInv, LoopInv, LivesInv, CountdownInv,
          CrashCountdown, screenVars, crashVars, scoreVars, rampVars, loopVars
  <1> SUFFICES ASSUME Init PROVE IInv
    OBVIOUS
  <1>1. Wheel!TypeOK
    <2>1. /\ playerLane \in Wheel!Lanes /\ playerLaneOffset \in Wheel!Offsets
          /\ playerCrashed = FALSE
      BY RoadAssumption DEF Init, Wheel!Init, Wheel!Lanes, Wheel!Offsets
    <2>2. 0 \in Wheel!Lanes /\ 0 \in Wheel!Offsets
      BY RoadAssumption DEF Wheel!Lanes, Wheel!Offsets
    <2>3. crashPos \in Wheel!Lanes \X Wheel!Offsets
      BY <2>2 DEF Init, Wheel!Init
    <2> QED
      BY <2>1, <2>3 DEF Wheel!TypeOK
  <1>2. active \in [Cars -> BOOLEAN]
    BY DEF Init
  <1>3. /\ disk \in (0..MaxScore) \cup {NoFile}
        /\ highScore \in 0..MaxScore
    BY SessionAssumption DEF Init, LoadHighScore, Loaded
  <1>4. FlagsOK
    BY Zenon DEF Init, FlagsOK
  <1>5. CountsOK
    BY <1>3 DEF Init, CountsOK
  <1>6. TypeOK
    BY <1>1, <1>2, <1>4, <1>5, TypeParts
  <1>7. /\ playerCrashed = FALSE /\ gameOver = FALSE
        /\ pc = "idle" /\ lives # 0
    BY DEF Init, Wheel!Init
  <1> QED
    BY <1>6, <1>7

LEMMA StepIInv == IInv /\ [Next]_vars => IInv'
  <1> USE SessionAssumption
      DEF NoFile, AtMost, Dispatch, IInv, LoopInv, LivesInv, CountdownInv,
          CrashCountdown, screenVars, crashVars, scoreVars, rampVars, loopVars
  <1> SUFFICES ASSUME IInv, [Next]_vars PROVE IInv'
    OBVIOUS
  <1>1. CASE ClickPlay
    <2>1. CASE gameOver /\ NewGame
      <3>1. FlagsOK'
        BY <1>1, <2>1, NewGameTypes, Zenon
           DEF ClickPlay, NewGame, TypeOK, FlagsOK
      <3>2. CountsOK'
        BY <1>1, <2>1 DEF ClickPlay, NewGame, TypeOK, CountsOK
      <3>3. TypeOK'
        BY <2>1, <3>1, <3>2, NewGameTypes, TypeParts
      <3>4. /\ playerCrashed' = FALSE /\ gameOver' = FALSE /\ pc' = "idle"
            /\ lives' # 0
        BY <1>1, <2>1, NewGameTypes DEF ClickPlay, NewGame
      <3> QED
        BY <3>3, <3>4
    <2>2. CASE ~gameOver
      <3>1. Wheel!TypeOK' /\ playerCrashed' = playerCrashed
        BY <1>1, <2>2, WheelTypes DEF ClickPlay, TypeOK, steerVars
      <3>2. FlagsOK'
        BY <1>1, <2>2, Zenon DEF ClickPlay, TypeOK, FlagsOK
      <3>3. CountsOK' /\ active' = active
        BY <1>1, <2>2 DEF ClickPlay, TypeOK, CountsOK
      <3>4. TypeOK'
        BY <3>1, <3>2, <3>3, TypeParts DEF TypeOK
      <3> QED
        BY <1>1, <2>2, <3>1, <3>4 DEF ClickPlay, TypeOK
    <2> QED
      BY <1>1, <2>1, <2>2 DEF ClickPlay
  <1>2. CASE KeyRestart
    <2>1. FlagsOK'
      BY <1>2, NewGameTypes, Zenon DEF KeyRestart, NewGame, TypeOK, FlagsOK
    <2>2. CountsOK'
      BY <1>2 DEF KeyRestart, NewGame, TypeOK, CountsOK
    <2>3. TypeOK'
      BY <1>2, <2>1, <2>2, NewGameTypes, TypeParts DEF KeyRestart
    <2>4. /\ playerCrashed' = FALSE /\ gameOver' = FALSE /\ pc' = "idle"
          /\ lives' # 0
      BY <1>2, NewGameTypes DEF KeyRestart, NewGame
    <2> QED
      BY <2>3, <2>4
  <1>3. CASE ClickQuit \/ KeyQuit \/ CloseWindow
    <2>1. Exit /\ timers' = timers
      BY <1>3 DEF ClickQuit, KeyQuit, CloseWindow
    <2>2. Wheel!TypeOK' /\ playerCrashed' = playerCrashed
      BY <2>1, WheelTypes DEF Exit, TypeOK, steerVars
    <2> QED
      BY <1>3, <2>1, <2>2 DEF ClickQuit, KeyQuit, CloseWindow, Exit, TypeOK
  <1>4. CASE Steer
    <2>1. Wheel!TypeOK' /\ playerCrashed' = playerCrashed
      BY <1>4, WheelTypes DEF Steer, TypeOK, Wheel!KeyLeft, Wheel!KeyRight
    <2> QED
      BY <1>4, <2>1 DEF Steer, TypeOK
  <1>5. CASE TimerMenu
    <2>1. Wheel!TypeOK' /\ playerCrashed' = playerCrashed
      BY <1>5, WheelTypes DEF TimerMenu, TypeOK, steerVars
    <2> QED
      BY <1>5, <2>1 DEF TimerMenu, TimerFires, TypeOK
  <1>6. CASE TimerCrashed
    <2>1. Wheel!TypeOK'
      BY <1>6, WheelTypes DEF TimerCrashed, TypeOK
    <2>2. ~playerCrashed' \/ respawnTimer' > 0
      BY <1>6 DEF TimerCrashed, Wheel!Recover, steerVars
    <2>3. playerVisible' \in BOOLEAN
      <3>1. \/ playerVisible' = TRUE
            \/ playerVisible' = (respawnTimer' < RespawnDelay \div 2)
        BY <1>6, Zenon DEF TimerCrashed
      <3>2. (respawnTimer' < RespawnDelay \div 2) \in BOOLEAN
        OBVIOUS
      <3> QED
        BY <3>1, <3>2, Zenon
    <2>4. FlagsOK'
      BY <1>6, <2>3, TickTypes, Zenon DEF TimerCrashed, TypeOK, FlagsOK
    <2>5. /\ respawnTimer' = respawnTimer - 1
          /\ playerCrashed /\ ~showMenu /\ ~showMenu' /\ ~gameOver'
          /\ pc = "idle" /\ pc' = pc
          /\ UNCHANGED <<lives, score, highScore, disk, gameOverTimer, timers,
                         nextCar, active>>
      BY <1>6, Zenon DEF TimerCrashed, TimerFires
    <2>6. CountsOK'
      <3>1. TickPrefix
        BY <1>6 DEF TimerCrashed
      <3>2. respawnTimer' \in 0..RespawnDelay
        BY <2>5
      <3> QED
        BY <2>5, <3>1, <3>2, TickTypes DEF TypeOK, CountsOK
    <2>7. TypeOK'
      BY <2>1, <2>4, <2>5, <2>6, TypeParts DEF TypeOK
    <2>8. CrashCountdown'
      BY <2>2, <2>5
    <2> QED
      BY <2>5, <2>7, <2>8
  <1>7. CASE TimerGameOver
    <2>1. Wheel!TypeOK' /\ playerCrashed' = playerCrashed
      BY <1>7, WheelTypes DEF TimerGameOver, TypeOK, steerVars
    <2>2. FlagsOK'
      BY <1>7, TickTypes, Zenon DEF TimerGameOver, TypeOK, FlagsOK
    <2>3. CountsOK' /\ active' = active
      BY <1>7, TickTypes DEF TimerGameOver, TimerFires, TypeOK, CountsOK
    <2>4. TypeOK'
      BY <2>1, <2>2, <2>3, TypeParts DEF TypeOK
    <2> QED
      BY <1>7, <2>1, <2>4 DEF TimerGameOver, TimerFires, TypeOK
  <1>8. CASE TimerDrive
    <2>1. Wheel!TypeOK' /\ playerCrashed' = playerCrashed
      BY <1>8, WheelTypes DEF TimerDrive, TypeOK, steerVars
    <2>2. TypeOK'
      BY <1>8, <2>1, TickTypes DEF TimerDrive, TimerFires, TypeOK
    <2>3. ~crashMusicPlaying'
      BY <1>8, TickTypes DEF TimerDrive, TypeOK
    <2> QED
      BY <1>8, <2>1, <2>2, <2>3, TickTypes DEF TimerDrive, TimerFires, TypeOK
  <1>9. CASE MoveCar
    <2>1. Wheel!TypeOK' /\ playerCrashed' = playerCrashed
      BY <1>9, WheelTypes DEF MoveCar, TypeOK, steerVars
    <2> QED
      BY <1>9, <2>1 DEF MoveCar, TypeOK
  <1>10. CASE NoCollision
    <2>1. Wheel!TypeOK' /\ playerCrashed' = playerCrashed
      BY <1>10, WheelTypes DEF NoCollision, TypeOK, steerVars
    <2> QED
      BY <1>10, <2>1 DEF NoCollision, LoopDone, BackToMainLoop, TypeOK
  <1>11. ASSUME NEW c \in Released, Crash(c) PROVE IInv'
    <2>1. Wheel!TypeOK' /\ playerCrashed' = TRUE
      BY <1>11, WheelTypes DEF Crash, TypeOK, Wheel!CrashHere
    <2>2. active' \in [Cars -> BOOLEAN]
      BY <1>11 DEF Crash, TypeOK
    <2>3. FlagsOK'
      BY <1>11, Zenon DEF Crash, TypeOK, FlagsOK
    <2>4. CountsOK'
      BY <1>11 DEF Crash, LoopDone, BackToMainLoop, TypeOK, CountsOK
    <2>5. TypeOK'
      BY <2>1, <2>2, <2>3, <2>4, TypeParts
    <2> QED
      BY <1>11, <2>1, <2>5 DEF Crash, LoopDone, BackToMainLoop, TypeOK
  <1>12. ASSUME NEW c \in Released, LoseLastLife(c) PROVE IInv'
    <2>1. Wheel!TypeOK' /\ playerCrashed' = playerCrashed
      BY <1>12, WheelTypes DEF LoseLastLife, TypeOK, steerVars
    <2>2. closeEnabled' \in BOOLEAN
      BY <1>12, SetCloseType DEF LoseLastLife, TypeOK
    <2>3. /\ highScore' \in 0..MaxScore
          /\ disk' \in (0..MaxScore) \cup {NoFile}
      BY <1>12 DEF LoseLastLife, UpdateHighScore, TypeOK
    <2>4. TypeOK'
      BY <1>12, <2>1, <2>2, <2>3 DEF LoseLastLife, LoopDone, BackToMainLoop,
                                     TypeOK
    <2> QED
      BY <1>12, <2>1, <2>4 DEF LoseLastLife, LoopDone, BackToMainLoop, TypeOK
  <1>13. CASE UNCHANGED vars
    <2>1. Wheel!TypeOK' /\ playerCrashed' = playerCrashed
      BY <1>13, WheelTypes DEF vars, TypeOK, steerVars
    <2> QED
      BY <1>13, <2>1 DEF vars, TypeOK
  <1> QED
    BY <1>1, <1>2, <1>3, <1>4, <1>5, <1>6, <1>7, <1>8, <1>9, <1>10, <1>11,
       <1>12, <1>13
       DEF Next, UserStep, TimerStep, TimerStart, TimerBody

(* Every variable keeps its type, whatever the delays, the number of cars  *)
(* and the order of ticks, keys and clicks.                                *)
THEOREM TypeCorrect == Spec => []TypeOK
  <1>1. IInv => TypeOK
    BY DEF IInv
  <1> QED
    BY <1>1, InitIInv, StepIInv, PTL DEF Spec

-----------------------------------------------------------------------------
(* The inductive invariant holds in every state of every behaviour: the    *)
(* phases of the game, its countdowns and its lives stay consistent        *)
(* through every order of callbacks.                                       *)
THEOREM InductiveAlways == Spec => []IInv
  BY InitIInv, StepIInv, PTL DEF Spec

-----------------------------------------------------------------------------
LEMMA StepNeverFrozen == IInv /\ NeverFrozen /\ [Next]_vars => NeverFrozen'
  <1> SUFFICES ASSUME IInv, NeverFrozen, [Next]_vars PROVE NeverFrozen'
    OBVIOUS
  <1> USE DEF NeverFrozen, Playing
  <1>0. timers \in Nat
    BY DEF IInv, TypeOK
  <1>1. CASE ClickPlay \/ KeyRestart
    BY <1>0, <1>1 DEF ClickPlay, KeyRestart
  <1>2. CASE ClickQuit \/ KeyQuit \/ CloseWindow
    BY <1>2 DEF ClickQuit, KeyQuit, CloseWindow, Exit
  <1>3. CASE Steer
    BY <1>3 DEF Steer, screenVars, loopVars
  <1>4. CASE TimerMenu
    BY <1>4 DEF TimerMenu, screenVars
  <1>5. CASE TimerCrashed
    BY <1>5, Zenon DEF TimerCrashed, TimerFires, screenVars
  <1>6. CASE TimerGameOver
    BY <1>6, Zenon DEF TimerGameOver
  <1>7. CASE TimerDrive
    BY <1>7 DEF TimerDrive
  <1>8. CASE MoveCar
    BY <1>8 DEF MoveCar
  <1>9. CASE NoCollision
    BY <1>0, <1>9 DEF NoCollision
  <1>10. ASSUME NEW c \in Released, Crash(c) PROVE NeverFrozen'
    BY <1>0, <1>10 DEF Crash
  <1>11. ASSUME NEW c \in Released, LoseLastLife(c) PROVE NeverFrozen'
    BY <1>11 DEF LoseLastLife
  <1>12. CASE UNCHANGED vars
    BY <1>12 DEF vars, screenVars, loopVars
  <1> QED
    BY <1>1, <1>2, <1>3, <1>4, <1>5, <1>6, <1>7, <1>8, <1>9, <1>10, <1>11,
       <1>12 DEF Next, UserStep, TimerStep, TimerStart, TimerBody

(* A started game never freezes: however keys, clicks and ticks follow     *)
(* each other, a running game has a tick queued.                           *)
THEOREM NeverFreezes == Spec => []NeverFrozen
  <1>1. Init => NeverFrozen
    BY DEF Init, NeverFrozen, Playing
  <1> QED
    BY <1>1, InductiveAlways, StepNeverFrozen, PTL DEF Spec

-----------------------------------------------------------------------------
(* Steps that touch neither the player's crash nor what is drawn of it.    *)
LEMMA CrashFrame ==
  ASSUME \/ ClickPlay /\ ~gameOver
         \/ ClickQuit \/ KeyQuit \/ CloseWindow \/ Steer
         \/ TimerMenu \/ TimerGameOver \/ TimerDrive
         \/ MoveCar \/ NoCollision
         \/ \E c \in Released : LoseLastLife(c)
         \/ UNCHANGED vars
  PROVE  UNCHANGED <<playerCrashed, playerVisible, respawnTimer>>
  BY Zenon DEF ClickPlay, ClickQuit, KeyQuit, CloseWindow, Exit, Steer,
     Wheel!KeyLeft, Wheel!KeyRight, TimerMenu, TimerGameOver, TimerDrive,
     MoveCar, NoCollision, LoseLastLife, vars, steerVars, crashVars

LEMMA StepVisible ==
  IInv /\ VisibleWhenDriven /\ [Next]_vars => VisibleWhenDriven'
  <1> SUFFICES ASSUME IInv, VisibleWhenDriven, [Next]_vars
               PROVE  VisibleWhenDriven'
    OBVIOUS
  <1>1. CASE \/ ClickPlay /\ ~gameOver
             \/ ClickQuit \/ KeyQuit \/ CloseWindow \/ Steer
             \/ TimerMenu \/ TimerGameOver \/ TimerDrive
             \/ MoveCar \/ NoCollision
             \/ \E c \in Released : LoseLastLife(c)
             \/ UNCHANGED vars
    <2>1. UNCHANGED <<playerCrashed, playerVisible, respawnTimer>>
      BY <1>1, CrashFrame, Zenon
    <2> QED
      BY <2>1, Zenon DEF VisibleWhenDriven
  <1>2. CASE NewGame
    BY <1>2, Zenon DEF NewGame, Wheel!BackToStart, VisibleWhenDriven
  <1>3. CASE TimerCrashed
    <2>1. CASE playerVisible' = TRUE /\ Wheel!Recover
      BY <2>1, Zenon DEF Wheel!Recover, VisibleWhenDriven
    <2>2. CASE /\ playerVisible' = (respawnTimer' < RespawnDelay \div 2)
               /\ UNCHANGED steerVars
      BY <1>3, <2>2, Zenon DEF TimerCrashed, steerVars, VisibleWhenDriven
    <2> QED
      BY <1>3, <2>1, <2>2, Zenon DEF TimerCrashed
  <1>4. ASSUME NEW c \in Released, Crash(c) PROVE VisibleWhenDriven'
    <2>1. playerCrashed' /\ ~playerVisible' /\ respawnTimer' = RespawnDelay
      BY <1>4 DEF Crash, Wheel!CrashHere
    <2>2. ~(RespawnDelay < RespawnDelay \div 2)
      BY SessionAssumption
    <2> QED
      BY <2>1, <2>2 DEF VisibleWhenDriven
  <1>5. CASE ClickPlay \/ KeyRestart
    BY <1>1, <1>2, <1>5 DEF ClickPlay, KeyRestart
  <1> QED
    BY <1>1, <1>3, <1>4, <1>5
       DEF Next, UserStep, TimerStep, TimerStart, TimerBody

(* The player's car is drawn exactly when it is not in the first half of a *)
(* crash, whatever respawnTimer an abandoned crash has left behind.        *)
THEOREM DrivenIsVisible == Spec => []VisibleWhenDriven
  <1>1. Init => VisibleWhenDriven
    BY Zenon DEF Init, Wheel!Init, VisibleWhenDriven
  <1> QED
    BY <1>1, InductiveAlways, StepVisible, PTL DEF Spec

-----------------------------------------------------------------------------
LEMMA StepSilent == IInv /\ SilentGameOver /\ [Next]_vars => SilentGameOver'
  <1> SUFFICES ASSUME IInv, SilentGameOver, [Next]_vars, gameOver'
               PROVE  ~crashMusicPlaying'
    BY DEF SilentGameOver
  <1>1. \/ gameOver /\ ~playerCrashed /\ ~crashMusicPlaying
        \/ \E c \in Released : LoseLastLife(c)
    BY Zenon DEF IInv, CrashCountdown, SilentGameOver, Next, UserStep,
       TimerStep, TimerStart, TimerBody, ClickPlay, KeyRestart, NewGame,
       ClickQuit, KeyQuit, CloseWindow, Exit, Steer, TimerMenu, TimerCrashed,
       TimerGameOver, TimerDrive, MoveCar, NoCollision, Crash, vars, screenVars
  <1> QED
    BY <1>1, Zenon DEF IInv, LoopInv, LoopDone, Next, UserStep,
       TimerStep, TimerStart, TimerBody, ClickPlay, KeyRestart, NewGame,
       ClickQuit, KeyQuit, CloseWindow, Exit, Steer, TimerMenu, TimerCrashed,
       TimerGameOver, TimerDrive, TickPrefix, HandleAudio, MoveCar,
       NoCollision, Crash, LoseLastLife, vars

(* No crash sound plays under the game-over screen: the last crash of a    *)
(* game happens on a tick that found the player not crashed and stopped    *)
(* the sound.                                                              *)
THEOREM GameOverIsSilent == Spec => []SilentGameOver
  <1>1. Init => SilentGameOver
    BY DEF Init, SilentGameOver
  <1> QED
    BY <1>1, InductiveAlways, StepSilent, PTL DEF Spec

-----------------------------------------------------------------------------
(* Who writes the score and the record: the loop over the cars counts the  *)
(* score up, a restart clears it, and the last crash updates the record.   *)
LEMMA ScoreWriters ==
  ASSUME [Next]_vars
  PROVE  \/ UNCHANGED <<score, highScore, disk, gameOver>>
         \/ MoveCar
         \/ NewGame
         \/ \E c \in Released : LoseLastLife(c)
  BY Zenon DEF Next, UserStep, TimerStep, TimerStart, TimerBody, ClickPlay,
     KeyRestart, ClickQuit, KeyQuit, CloseWindow, Exit, Steer, TimerMenu,
     TimerCrashed, TimerGameOver, TimerDrive, NoCollision, Crash, vars,
     scoreVars, screenVars

LEMMA StepDurable == IInv /\ HighScoreDurable /\ [Next]_vars => HighScoreDurable'
  <1> SUFFICES ASSUME IInv, HighScoreDurable, [Next]_vars,
                      DiskReadable = {TRUE}, DiskWritable = {TRUE}
               PROVE  Loaded(disk') = highScore'
    BY DEF HighScoreDurable, Loaded
  <1>1. Loaded(disk) = highScore
    BY DEF HighScoreDurable
  <1>2. CASE UNCHANGED <<highScore, disk>>
    BY <1>1, <1>2
  <1>3. ASSUME NEW c \in Released, LoseLastLife(c)
        PROVE  Loaded(disk') = highScore'
    <2>1. CASE score > highScore
      <3>1. highScore' = score /\ disk' = score
        BY <1>3, <2>1 DEF LoseLastLife, UpdateHighScore
      <3>2. score # NoFile
        BY SessionAssumption DEF IInv, TypeOK, NoFile
      <3> QED
        BY <3>1, <3>2 DEF Loaded
    <2>2. CASE ~(score > highScore)
      BY <1>1, <1>3, <2>2 DEF LoseLastLife, UpdateHighScore
    <2> QED
      BY <2>1, <2>2
  <1> QED
    BY <1>2, <1>3, ScoreWriters DEF MoveCar, NewGame

(* When the file can be read and written, what the game-over screen shows  *)
(* as the record is what the next launch will load.                        *)
THEOREM RecordIsDurable == Spec => []HighScoreDurable
  <1>1. Init => HighScoreDurable
    BY Zenon DEF Init, LoadHighScore, HighScoreDurable
  <1> QED
    BY <1>1, InductiveAlways, StepDurable, PTL DEF Spec

-----------------------------------------------------------------------------
(* Who greys the close box, and who gives it back.                         *)
LEMMA CloseWriters ==
  ASSUME [Next]_vars
  PROVE  \/ UNCHANGED <<closeEnabled, gameOver>>
         \/ SetClose(TRUE) /\ gameOver' = FALSE
         \/ SetClose(FALSE) /\ gameOver' = TRUE
  <1>1. CASE NewGame
    BY <1>1 DEF NewGame
  <1>2. ASSUME NEW c \in Released, LoseLastLife(c)
        PROVE  SetClose(FALSE) /\ gameOver' = TRUE
    BY <1>2 DEF LoseLastLife
  <1> HIDE DEF EndGame
  <1>3. \/ UNCHANGED <<closeEnabled, gameOver>>
        \/ NewGame
        \/ \E c \in Released : LoseLastLife(c)
    BY Zenon DEF Next, UserStep, TimerStep, TimerStart, TimerBody, ClickPlay,
       KeyRestart, ClickQuit, KeyQuit, CloseWindow, Exit, Steer, TimerMenu,
       TimerCrashed, TimerGameOver, TimerDrive, MoveCar, NoCollision, Crash,
       vars, screenVars
  <1> QED
    BY <1>1, <1>2, <1>3

LEMMA StepClose ==
  CloseGreyedAtGameOver /\ [Next]_vars => CloseGreyedAtGameOver'
  <1> SUFFICES ASSUME CloseGreyedAtGameOver, [Next]_vars, WindowLookup = {TRUE}
               PROVE  closeEnabled' <=> ~gameOver'
    BY DEF CloseGreyedAtGameOver
  <1>1. closeEnabled <=> ~gameOver
    BY DEF CloseGreyedAtGameOver
  <1>2. CASE UNCHANGED <<closeEnabled, gameOver>>
    BY <1>1, <1>2
  <1>3. CASE SetClose(TRUE) /\ gameOver' = FALSE
    BY <1>3 DEF SetClose
  <1>4. CASE SetClose(FALSE) /\ gameOver' = TRUE
    BY <1>4 DEF SetClose
  <1> QED
    BY <1>2, <1>3, <1>4, CloseWriters

(* No restart path leaves the player with a window that cannot be closed,  *)
(* and no game ends with the close box still enabled, unless the window    *)
(* was not found.                                                          *)
THEOREM CloseBoxFollowsGameOver == Spec => []CloseGreyedAtGameOver
  <1>1. Init => CloseGreyedAtGameOver
    BY DEF Init, CloseGreyedAtGameOver
  <1> QED
    BY <1>1, StepClose, PTL DEF Spec

-----------------------------------------------------------------------------
(* Who writes the traffic ledger.                                          *)
LEMMA LedgerWriters ==
  ASSUME [Next]_vars
  PROVE  \/ UNCHANGED <<active, activeOppositeCars, gameOver, lives>>
         \/ TickPrefix /\ UNCHANGED <<active, gameOver, lives>>
         \/ NewGame
         \/ \E c \in Released : Crash(c) \/ LoseLastLife(c)
  BY Zenon DEF Next, UserStep, TimerStep, TimerStart, TimerBody, ClickPlay,
     KeyRestart, ClickQuit, KeyQuit, CloseWindow, Exit, Steer, TimerMenu,
     TimerCrashed, TimerGameOver, TimerDrive, MoveCar, NoCollision, vars,
     crashVars, rampVars, screenVars

LEMMA HiddenFinite == IsFiniteSet(Hidden) /\ IsFiniteSet(Hidden')
  <1>1. IsFiniteSet(Cars)
    BY SessionAssumption, FS_Interval DEF Cars
  <1>2. Hidden \subseteq Cars /\ Hidden' \subseteq Cars
    BY DEF Hidden
  <1> QED
    BY <1>1, <1>2, FS_Subset

LEMMA StepHidden ==
  IInv /\ HiddenMatchesLives /\ [Next]_vars => HiddenMatchesLives'
  <1> SUFFICES ASSUME IInv, HiddenMatchesLives, [Next]_vars
               PROVE  HiddenMatchesLives'
    OBVIOUS
  <1>1. TypeOK /\ Lives \in Nat /\ lives \in 0..Lives
    BY SessionAssumption DEF IInv, TypeOK
  <1>2. CASE UNCHANGED <<active, activeOppositeCars, gameOver, lives>>
    BY <1>2, Zenon DEF HiddenMatchesLives, Hidden, Released
  <1>3. CASE TickPrefix /\ UNCHANGED <<active, gameOver, lives>>
    <2>1. Hidden' = Hidden
      BY <1>3, Zenon DEF Hidden
    <2>2. Released \subseteq Released'
      BY <1>1, <1>3, TickTypes DEF Released, Cars, TypeOK
    <2> QED
      BY <1>3, <2>1, <2>2, Zenon DEF HiddenMatchesLives
  <1>4. CASE NewGame
    <2>1. Hidden' = {}
      BY <1>4 DEF NewGame, Hidden
    <2>2. lives' = Lives /\ gameOver' = FALSE
      BY <1>4 DEF NewGame
    <2>3. Cardinality(Hidden') = 0
      BY <2>1, FS_EmptySet
    <2> QED
      BY <1>1, <2>1, <2>2, <2>3, SessionAssumption DEF HiddenMatchesLives
  <1>5. ASSUME NEW c \in Released, Crash(c) PROVE HiddenMatchesLives'
    <2>1. /\ active[c] /\ active' = [active EXCEPT ![c] = FALSE]
          /\ lives' = lives - 1 /\ lives' > 0 /\ gameOver' = gameOver
          /\ activeOppositeCars' = activeOppositeCars
      BY <1>5 DEF Crash, screenVars, rampVars
    <2>2. ~gameOver
      BY <1>5 DEF Crash, LoopDone, IInv, LoopInv
    <2>3. c \in Cars /\ c \notin Hidden /\ Hidden' = Hidden \cup {c}
      BY <1>1, <2>1 DEF Hidden, Released, TypeOK
    <2>4. Cardinality(Hidden') = Cardinality(Hidden) + 1
      BY <2>3, HiddenFinite, FS_AddElement
    <2>5. Hidden' \subseteq Released'
      BY <2>1, <2>3 DEF HiddenMatchesLives, Released
    <2> QED
      BY <1>1, <2>1, <2>2, <2>4, <2>5 DEF HiddenMatchesLives
  <1>6. ASSUME NEW c \in Released, LoseLastLife(c) PROVE HiddenMatchesLives'
    <2>1. /\ active' = active /\ activeOppositeCars' = activeOppositeCars
          /\ lives' = lives - 1 /\ lives' <= 0 /\ gameOver' = TRUE
      BY <1>6 DEF LoseLastLife, rampVars
    <2>2. ~gameOver
      BY <1>6 DEF LoseLastLife, LoopDone, IInv, LoopInv
    <2>3. lives = 1
      BY <1>1, <2>1, <2>2 DEF HiddenMatchesLives
    <2> QED
      BY <2>1, <2>2, <2>3 DEF HiddenMatchesLives, Hidden, Released
  <1> QED
    BY <1>2, <1>3, <1>4, <1>5, <1>6, LedgerWriters

LEMMA InitHidden == Init => HiddenMatchesLives
  <1> SUFFICES ASSUME Init PROVE HiddenMatchesLives
    OBVIOUS
  <1>1. Hidden = {}
    BY DEF Init, Hidden
  <1> QED
    BY <1>1, FS_EmptySet, SessionAssumption DEF Init, HiddenMatchesLives

(* The cars hidden by crashes are exactly the lives lost, and all of them  *)
(* have been released, through crashes, restarts and game over alike.      *)
THEOREM TrafficLedger == Spec => []HiddenMatchesLives
  BY InitHidden, InductiveAlways, StepHidden, PTL DEF Spec

-----------------------------------------------------------------------------
(* Session implements GameRules: initial states map to initial states, and *)
(* every step of a callback maps to a move of the rules or a stutter.      *)

(* What a step changes of the state the rules speak of.                    *)
ruleState == <<showMenu, gameOver, exited, playerCrashed, lives, score,
               highScore>>

LEMMA StutterOfRules ==
  ASSUME UNCHANGED ruleState
  PROVE  UNCHANGED Rules!ruleVars
  BY Zenon DEF ruleState, Rules!ruleVars, Mode

(* The moves of the rules, by the mode before and after them.              *)
LEMMA StepImplementsRules ==
  IInv /\ [Next]_vars => [Rules!Next]_(Rules!ruleVars)
  <1> SUFFICES ASSUME IInv, [Next]_vars
               PROVE  Rules!Next \/ UNCHANGED Rules!ruleVars
    OBVIOUS
  <1>1. CASE ClickPlay
    <2>1. CASE gameOver /\ NewGame
      <3>1. Mode = "over" /\ Mode' = "driving"
        BY <1>1, <2>1, Zenon
           DEF ClickPlay, NewGame, Wheel!BackToStart, Dispatch, IInv,
               LivesInv, Mode
      <3> QED
        BY <2>1, <3>1 DEF NewGame, Rules!Next, Rules!Restart
    <2>2. CASE ~gameOver /\ UNCHANGED <<steerVars, gameOver, crashVars, scoreVars>>
      <3>1. Mode = "menu" /\ Mode' = "driving"
        BY <1>1, <2>2, Zenon
           DEF ClickPlay, Dispatch, IInv, CrashCountdown, steerVars, Mode
      <3> QED
        BY <2>2, <3>1
           DEF crashVars, scoreVars, Rules!Next, Rules!Start
    <2> QED
      BY <1>1, <2>1, <2>2, Zenon DEF ClickPlay
  <1>2. CASE KeyRestart
    <2>1. Mode \in {"driving", "crashed"} /\ Mode' = "driving"
      BY <1>2 DEF KeyRestart, NewGame, Wheel!BackToStart, Dispatch, Mode
    <2> QED
      BY <1>2, <2>1 DEF KeyRestart, NewGame, Rules!Next, Rules!Restart
  <1>3. CASE ClickQuit \/ KeyQuit \/ CloseWindow
    <2>1. Exit /\ ~exited
      BY <1>3 DEF ClickQuit, KeyQuit, CloseWindow, Dispatch
    <2>2. Mode # "exited" /\ Mode' = "exited"
      BY <2>1 DEF Exit, Mode
    <2> QED
      BY <2>1, <2>2 DEF Exit, crashVars, scoreVars, Rules!Next, Rules!Leave
  <1>4. CASE Steer \/ TimerMenu \/ TimerDrive \/ NoCollision \/ UNCHANGED vars
    <2>1. UNCHANGED ruleState
      BY <1>4, Zenon
         DEF Steer, Wheel!KeyLeft, Wheel!KeyRight, TimerMenu, TimerDrive,
             NoCollision, vars, steerVars, screenVars, crashVars, scoreVars,
             ruleState
    <2> QED
      BY <2>1, StutterOfRules
  <1>5. CASE TimerCrashed
    <2>1. CASE Wheel!Recover
      <3>1. Mode = "crashed" /\ Mode' = "driving"
        BY <1>5, <2>1, Zenon
           DEF TimerCrashed, TimerFires, Dispatch, Wheel!Recover, screenVars,
               IInv, CrashCountdown, Mode
      <3>2. UNCHANGED <<lives, score, highScore>>
        BY <1>5, Zenon DEF TimerCrashed, scoreVars
      <3> QED
        BY <3>1, <3>2 DEF Rules!Next, Rules!Recover
    <2>2. CASE UNCHANGED steerVars
      <3>1. UNCHANGED ruleState
        BY <1>5, <2>2, Zenon
           DEF TimerCrashed, steerVars, screenVars, scoreVars, ruleState
      <3> QED
        BY <3>1, StutterOfRules
    <2> QED
      BY <1>5, <2>1, <2>2, Zenon DEF TimerCrashed
  <1>6. CASE TimerGameOver
    <2>1. UNCHANGED <<showMenu, gameOver, playerCrashed, lives, score, highScore>>
      BY <1>6, Zenon DEF TimerGameOver, steerVars, crashVars, scoreVars
    <2>2. CASE exited'
      <3>1. Mode # "exited" /\ Mode' = "exited"
        BY <1>6, <2>2 DEF TimerGameOver, TimerFires, Dispatch, Mode
      <3> QED
        BY <2>1, <3>1 DEF Rules!Next, Rules!Leave
    <2>3. CASE UNCHANGED exited
      <3>1. UNCHANGED ruleState
        BY <2>1, <2>3, Zenon DEF ruleState
      <3> QED
        BY <3>1, StutterOfRules
    <2> QED
      BY <1>6, <2>2, <2>3, Zenon DEF TimerGameOver
  <1>7. CASE MoveCar
    <2>1. Mode = "driving" /\ Mode' = "driving"
      BY <1>7, Zenon
         DEF MoveCar, IInv, LoopInv, steerVars, screenVars, Mode
    <2>2. UNCHANGED <<lives, highScore>>
      BY <1>7, Zenon DEF MoveCar, crashVars
    <2>3. score \in 0..MaxScore /\ MaxScore \in Nat
      BY SessionAssumption DEF IInv, TypeOK
    <2>4. score' = score \/ (score' = score + 1 /\ score' <= MaxScore)
      BY <1>7, <2>3 DEF MoveCar, AtMost
    <2>5. CASE score' = score
      BY <2>1, <2>2, <2>5 DEF Rules!ruleVars
    <2>6. CASE score' = score + 1 /\ score' <= MaxScore
      BY <2>1, <2>2, <2>6 DEF Rules!Next, Rules!Pass
    <2> QED
      BY <2>4, <2>5, <2>6
  <1>8. ASSUME NEW c \in Released, Crash(c)
        PROVE  Rules!Next
    <2>1. Mode = "driving" /\ Mode' = "crashed"
      BY <1>8, Zenon
         DEF Crash, LoopDone, Wheel!CrashHere, IInv, LoopInv, screenVars, Mode
    <2>2. lives' = lives - 1 /\ lives > 1 /\ UNCHANGED <<score, highScore>>
      BY <1>8, SessionAssumption DEF Crash, scoreVars, IInv, TypeOK
    <2> QED
      BY <2>1, <2>2 DEF Rules!Next, Rules!Hit
  <1>9. ASSUME NEW c \in Released, LoseLastLife(c)
        PROVE  Rules!Next
    <2>1. Mode = "driving" /\ Mode' = "over"
      BY <1>9, Zenon DEF LoseLastLife, LoopDone, IInv, LoopInv, Mode
    <2>2. lives = 1 /\ lives' = 0 /\ UNCHANGED score
      <3>1. ~gameOver /\ lives \in 0..Lives /\ Lives \in Nat
        BY <1>9, SessionAssumption
           DEF LoseLastLife, LoopDone, IInv, LoopInv, TypeOK
      <3> QED
        BY <1>9, <3>1 DEF LoseLastLife, IInv, LivesInv
    <2>3. highScore' = IF score > highScore THEN score ELSE highScore
      BY <1>9 DEF LoseLastLife, UpdateHighScore
    <2> QED
      BY <2>1, <2>2, <2>3 DEF Rules!Next, Rules!LastHit
  <1> QED
    BY <1>1, <1>2, <1>3, <1>4, <1>5, <1>6, <1>7, <1>8, <1>9
       DEF Next, UserStep, TimerStep, TimerStart, TimerBody

LEMMA InitImplementsRules == Init => Rules!Init
  <1> SUFFICES ASSUME Init PROVE Rules!Init
    OBVIOUS
  <1>1. Mode = "menu" /\ lives = Lives /\ score = 0
    BY DEF Init, Mode
  <1>2. highScore \in 0..MaxScore
    BY SessionAssumption DEF Init, LoadHighScore, Loaded, NoFile
  <1> QED
    BY <1>1, <1>2 DEF Rules!Init

(* The callbacks implement the rules of the game, for any delays, number   *)
(* of cars and lives, and any order of ticks, keys and clicks.             *)
THEOREM SessionImplementsRules == Spec => ImplementsRules
  BY InitImplementsRules, StepImplementsRules, InductiveAlways, PTL
     DEF Spec, ImplementsRules, Rules!Spec
=============================================================================
