---------------------------- MODULE PacingProofs ----------------------------
(***************************************************************************)
(* Proofs about the tick chains and the pace of the game (Pacing), for     *)
(* every value of the constants of Session.                                *)
(***************************************************************************)
EXTENDS Pacing, SessionProofs

(* A step of Pacing is one of Session or leaves it alone.                  *)
LEMMA PacedSession == [PacedNext]_pacedVars => [Next]_vars
  <1>1. GameBegins \/ TimerBody \/ TimerStart => Next
    BY Zenon DEF GameBegins, Next, UserStep, TimerStep
  <1>2. ClickQuit \/ KeyQuit \/ CloseWindow \/ Steer => Next
    BY Zenon DEF Next, UserStep
  <1>3. Frame => UNCHANGED vars
    BY Zenon DEF Frame
  <1>4. UNCHANGED pacedVars => UNCHANGED vars
    BY Zenon DEF pacedVars
  <1> QED
    BY <1>1, <1>2, <1>3, <1>4 DEF PacedNext, Tick, StartGame, OtherStep

(* The clock counts up, and no more calls of timer() are to be made in a   *)
(* frame than are queued.                                                  *)
ClockOK ==
  /\ due \in Nat /\ sinceSpeedup \in Nat /\ sinceRelease \in Nat /\ extra \in Nat
  /\ due <= timers

(* The start menu precedes every chain and every car.                      *)
MenuIsFirst == showMenu => extra = 0 /\ activeOppositeCars = 0

(* On a single chain each counter of ticks runs behind the frames counted  *)
(* since it was reset, the call still due in this frame included.          *)
TicksBehindFrames ==
  extra = 0 =>
    /\ playerSpeedIncreaseTimer + due <= sinceSpeedup
    /\ activeOppositeCars > 0 =>
         AtMost(SpawnInterval, trafficIncreaseTimer + due) <= sinceRelease

(* Until the first car of a game is released, a frame that has passed has  *)
(* made a tick or is about to, and the ticks have not reached the delay.   *)
(* Of a restart's old count nothing is known until the next tick.          *)
FirstCarSoon ==
  Playing /\ activeOppositeCars = 0 =>
    \/ sinceRelease = 0
    \/ sinceRelease = 1 /\ due > 0
    \/ /\ trafficIncreaseTimer < InitialDelay
       /\ sinceRelease <= trafficIncreaseTimer + (IF due > 0 THEN 1 ELSE 0)

(* The countdown of a crash and the ticks it has had add up.               *)
CrashOnCourse ==
  /\ crashedTicks \in Nat
  /\ playerCrashed => crashedTicks + respawnTimer = RespawnDelay
  /\ pc = "cars" => crashedTicks = 0

PaceInv ==
  /\ IInv /\ ClockOK /\ MenuIsFirst /\ ChainLedger
  /\ TicksBehindFrames /\ FirstCarSoon /\ CrashOnCourse

-----------------------------------------------------------------------------
(* What a step does to the variables PaceInv speaks of.                    *)
ticks == <<activeOppositeCars, trafficIncreaseTimer, playerSpeedIncreaseTimer>>
phase == <<showMenu, gameOver, exited>>

(* Inside a frame, outside the tick: a collision check ends the loop and   *)
(* queues a tick or ends the game, or the player leaves, or nothing.       *)
LEMMA OtherEffects ==
  ASSUME IInv, OtherStep
  PROVE  /\ UNCHANGED <<due, sinceSpeedup, sinceRelease, extra, showMenu>>
         /\ UNCHANGED ticks
         /\ \/ exited' = TRUE /\ timers' = timers
            \/ UNCHANGED <<gameOver, exited, timers, pc>>
            \/ /\ pc = "cars" /\ pc' = "idle"
               /\ UNCHANGED <<gameOver, exited>> /\ timers' = timers + 1
            \/ /\ pc = "cars" /\ pc' = "idle"
               /\ gameOver' = TRUE /\ UNCHANGED <<exited, timers>>
  <1>1. CASE ClickQuit \/ KeyQuit \/ CloseWindow
    BY <1>1, Zenon DEF OtherStep, ClickQuit, KeyQuit, CloseWindow, Exit, rampVars,
       clockVars, ticks
  <1>2. CASE Steer \/ MoveCar
    <2>1. UNCHANGED <<ticks, phase, timers, pc>>
      BY <1>2, Zenon DEF Steer, MoveCar, screenVars, rampVars, loopVars, ticks,
         phase
    <2> QED
      BY <2>1 DEF OtherStep, clockVars, phase
  <1>3. ASSUME NoCollision \/ \E c \in Released : Crash(c)
        PROVE  /\ UNCHANGED <<ticks, phase>>
               /\ pc = "cars" /\ pc' = "idle" /\ timers' = timers + 1
    BY <1>3, Zenon DEF NoCollision, Crash, LoopDone, BackToMainLoop, QueueTick,
       screenVars, rampVars, ticks, phase
  <1>4. ASSUME NEW c \in Released, LoseLastLife(c)
        PROVE  /\ UNCHANGED <<ticks, showMenu, exited, timers>>
               /\ pc = "cars" /\ pc' = "idle" /\ gameOver' = TRUE
    BY <1>4, Zenon DEF LoseLastLife, EndGame, LoopDone, BackToMainLoop, rampVars,
       ticks
  <1> QED
    BY <1>1, <1>2, <1>3, <1>4 DEF OtherStep, TimerBody, clockVars, phase

(* A tick under the start menu ends the chain; any other one counts.       *)
LEMMA TickEffects ==
  ASSUME IInv, Tick
  PROVE  /\ pc = "idle" /\ ~exited /\ timers > 0 /\ due > 0
         /\ due' = due - 1 /\ UNCHANGED <<extra, showMenu, gameOver>>
         /\ \/ /\ showMenu /\ timers' = timers - 1
               /\ UNCHANGED <<ticks, exited, pc, sinceSpeedup, sinceRelease>>
            \/ /\ ~showMenu /\ RampTraffic /\ RampSpeed
               /\ \/ pc' = pc /\ UNCHANGED <<timers, exited>>
                  \/ pc' = "cars" /\ ~gameOver /\ timers' = timers - 1
                     /\ UNCHANGED exited
                  \/ gameOver /\ exited' = TRUE /\ timers' = timers - 1
  <1>1. /\ pc = "idle" /\ ~exited /\ timers > 0 /\ due > 0
        /\ due' = due - 1 /\ UNCHANGED extra
    BY Zenon DEF Tick, TimerStart, TimerMenu, TimerCrashed, TimerGameOver,
       TimerDrive, TimerFires, Dispatch
  <1>2. CASE TimerMenu
    <2>1. /\ showMenu /\ timers' = timers - 1
          /\ UNCHANGED <<ticks, showMenu, gameOver, exited, pc>>
      BY <1>2, Zenon DEF TimerMenu, screenVars, rampVars, loopVars, ticks
    <2>2. ~CarReleased /\ ~Speedup
      BY <2>1, SessionAssumption DEF CarReleased, Speedup, ticks, IInv, TypeOK
    <2>3. UNCHANGED <<sinceSpeedup, sinceRelease>>
      BY <2>2, Zenon DEF Tick
    <2> QED
      BY <1>1, <2>1, <2>3
  <1>3. CASE TimerCrashed
    BY <1>1, <1>3, Zenon DEF TimerCrashed, TickPrefix, screenVars, loopVars
  <1>4. CASE TimerGameOver
    BY <1>1, <1>4, Zenon DEF TimerGameOver, TickPrefix, loopVars
  <1>5. CASE TimerDrive
    BY <1>1, <1>5, Zenon DEF TimerDrive, TickPrefix, screenVars
  <1> QED
    BY <1>2, <1>3, <1>4, <1>5, Zenon DEF Tick, TimerStart

(* PLAY starts the first chain of a game, R one beside it.                 *)
LEMMA StartEffects ==
  ASSUME IInv, ClockOK, StartGame
  PROVE  /\ pc = "idle" /\ ~exited
         /\ UNCHANGED <<pc, exited, due, sinceSpeedup, trafficIncreaseTimer,
                        playerSpeedIncreaseTimer>>
         /\ showMenu' = FALSE /\ gameOver' = FALSE
         /\ timers' = timers + 1 /\ sinceRelease' = 0
         /\ \/ /\ showMenu /\ ~gameOver /\ extra' = extra + timers
               /\ UNCHANGED activeOppositeCars
            \/ /\ ~showMenu /\ gameOver /\ extra' = extra
               /\ activeOppositeCars' = 0
            \/ /\ ~showMenu /\ ~gameOver /\ extra' = extra + 1
               /\ activeOppositeCars' = 0
  <1>1. CASE KeyRestart
    <2>1. /\ pc = "idle" /\ ~exited /\ ~showMenu /\ ~gameOver
          /\ UNCHANGED <<pc, exited, trafficIncreaseTimer,
                         playerSpeedIncreaseTimer, showMenu>>
          /\ gameOver' = FALSE /\ timers' = timers + 1
          /\ activeOppositeCars' = 0
      BY <1>1, Zenon DEF KeyRestart, Dispatch, NewGame, QueueTick, loopVars
    <2>2. UNCHANGED <<due, sinceSpeedup>> /\ sinceRelease' = 0 /\ extra' = extra + 1
      BY <1>1, Zenon DEF StartGame
    <2> QED
      BY <2>1, <2>2
  <1>2. CASE ClickPlay
    <2>1. /\ pc = "idle" /\ ~exited
          /\ UNCHANGED <<pc, exited>>
          /\ showMenu' = FALSE /\ timers' = timers + 1
          /\ showMenu \/ gameOver
      BY <1>2, Zenon DEF ClickPlay, Dispatch, QueueTick, loopVars
    <2>2. \/ gameOver /\ NewGame
          \/ ~gameOver /\ UNCHANGED gameOver /\ UNCHANGED ticks
      BY <1>2, Zenon DEF ClickPlay, rampVars, ticks
    <2>3. showMenu <=> ~gameOver
      BY <2>1 DEF IInv, LivesInv
    <2>4. ~KeyRestart
      BY <2>1, <2>3, Zenon DEF KeyRestart
    <2>5. /\ UNCHANGED <<due, sinceSpeedup>> /\ sinceRelease' = 0
          /\ extra' = extra + (IF showMenu THEN timers ELSE 0)
      BY <2>4, Zenon DEF StartGame
    <2>6. CASE gameOver /\ NewGame
      <3>1. /\ gameOver' = FALSE /\ activeOppositeCars' = 0
            /\ UNCHANGED <<trafficIncreaseTimer, playerSpeedIncreaseTimer>>
        BY <2>6, Zenon DEF NewGame
      <3> QED
        BY <2>1, <2>3, <2>5, <2>6, <3>1 DEF ClockOK
    <2>7. CASE ~gameOver /\ UNCHANGED gameOver /\ UNCHANGED ticks
      BY <2>1, <2>3, <2>5, <2>7 DEF ticks, IInv, TypeOK
    <2> QED
      BY <2>2, <2>6, <2>7
  <1> QED
    BY <1>1, <1>2 DEF StartGame, GameBegins

(* The types the arithmetic needs.                                         *)
LEMMA Counters ==
  ASSUME PaceInv
  PROVE  /\ timers \in Nat /\ due \in Nat /\ extra \in Nat
         /\ sinceSpeedup \in Nat /\ sinceRelease \in Nat
         /\ activeOppositeCars \in Nat
         /\ trafficIncreaseTimer \in 0..SpawnInterval /\ SpawnInterval \in Nat
         /\ playerSpeedIncreaseTimer \in 0..(SpeedupInterval - 1)
         /\ SpeedupInterval \in Nat \ {0}
         /\ pc \in {"idle", "cars"}
         /\ due <= timers
  BY SessionAssumption DEF PaceInv, ClockOK, IInv, TypeOK

(* On a single chain of a game that waits there is one call queued, and    *)
(* none after a game.                                                      *)
LEMMA OneDue ==
  ASSUME PaceInv, extra = 0, ~exited, pc = "idle"
  PROVE  timers <= 1 /\ due <= 1 /\ (gameOver => timers = 0)
  BY Counters DEF PaceInv, ChainLedger, Playing

-----------------------------------------------------------------------------
LEMMA StepClock == PaceInv /\ [PacedNext]_pacedVars => ClockOK' /\ MenuIsFirst'
  <1> SUFFICES ASSUME PaceInv, [PacedNext]_pacedVars PROVE ClockOK' /\ MenuIsFirst'
    OBVIOUS
  <1>1. IInv /\ ClockOK /\ MenuIsFirst
    BY DEF PaceInv
  <1> USE Counters DEF ClockOK, MenuIsFirst
  <1>2. CASE Frame
    BY <1>1, <1>2 DEF Frame, AtMost, vars, screenVars, rampVars
  <1>3. CASE Tick
    <2>1. \/ sinceSpeedup' = sinceSpeedup \/ sinceSpeedup' = 0
      BY <1>3, Zenon DEF Tick
    <2>2. \/ sinceRelease' = sinceRelease \/ sinceRelease' = 0
      BY <1>3, Zenon DEF Tick
    <2>3. /\ due > 0 /\ due' = due - 1
          /\ extra' = extra /\ showMenu' = showMenu
          /\ timers' = timers \/ timers' = timers - 1
      BY <1>1, <1>3, TickEffects
    <2>4. showMenu => activeOppositeCars' = activeOppositeCars
      BY <1>1, <1>3, TickEffects DEF ticks
    <2> QED
      BY <1>1, <2>1, <2>2, <2>3, <2>4
  <1>4. CASE StartGame
    BY <1>1, <1>4, StartEffects
  <1>5. CASE OtherStep
    <2>1. /\ UNCHANGED <<due, sinceSpeedup, sinceRelease, extra, showMenu>>
          /\ activeOppositeCars' = activeOppositeCars
      BY <1>1, <1>5, OtherEffects DEF ticks
    <2>2. timers' = timers \/ timers' = timers + 1
      BY <1>1, <1>5, OtherEffects
    <2> QED
      BY <1>1, <2>1, <2>2
  <1>6. CASE UNCHANGED pacedVars
    BY <1>1, <1>6 DEF pacedVars, clockVars, vars, screenVars, rampVars
  <1> QED
    BY <1>2, <1>3, <1>4, <1>5, <1>6 DEF PacedNext

LEMMA StepChains == PaceInv /\ [PacedNext]_pacedVars => ChainLedger'
  <1> SUFFICES ASSUME PaceInv, [PacedNext]_pacedVars PROVE ChainLedger'
    OBVIOUS
  <1>1. /\ IInv /\ MenuIsFirst /\ ChainLedger
        /\ showMenu => ~gameOver
        /\ pc = "cars" => ~showMenu /\ ~gameOver /\ ~exited
    BY DEF PaceInv, IInv, LivesInv, LoopInv
  <1> USE Counters DEF ChainLedger, Playing, MenuIsFirst
  <1>2. CASE UNCHANGED <<vars, extra>>
    BY <1>1, <1>2 DEF vars, screenVars, loopVars
  <1>3. CASE Tick
    <2>1. /\ pc = "idle" /\ ~exited /\ extra' = extra
          /\ showMenu' = showMenu /\ gameOver' = gameOver
      BY <1>1, <1>3, TickEffects
    <2>2. CASE showMenu /\ timers' = timers - 1
      BY <1>1, <2>1, <2>2
    <2>3. CASE ~showMenu /\ pc' = pc /\ timers' = timers
      BY <1>1, <2>1, <2>3
    <2>4. CASE ~showMenu /\ ~gameOver /\ pc' = "cars" /\ timers' = timers - 1
      BY <1>1, <2>1, <2>4
    <2>5. CASE exited' = TRUE
      BY <2>5
    <2> QED
      BY <1>1, <1>3, <2>2, <2>3, <2>4, <2>5, TickEffects
  <1>4. CASE StartGame
    BY <1>1, <1>4, StartEffects DEF PaceInv
  <1>5. CASE OtherStep
    <2>1. extra' = extra /\ showMenu' = showMenu
      BY <1>1, <1>5, OtherEffects
    <2>2. CASE exited' = TRUE \/ UNCHANGED <<gameOver, exited, timers, pc>>
      BY <1>1, <2>1, <2>2
    <2>3. CASE /\ pc = "cars" /\ pc' = "idle"
               /\ UNCHANGED <<gameOver, exited>> /\ timers' = timers + 1
      BY <1>1, <2>1, <2>3
    <2>4. CASE /\ pc = "cars" /\ pc' = "idle"
               /\ gameOver' = TRUE /\ UNCHANGED <<exited, timers>>
      BY <1>1, <2>1, <2>4
    <2> QED
      BY <1>1, <1>5, <2>2, <2>3, <2>4, OtherEffects
  <1> QED
    BY <1>2, <1>3, <1>4, <1>5 DEF PacedNext, Frame, pacedVars, clockVars

(* A tick resets a counter of ticks only with the frames counted since.    *)
LEMMA TickPaces ==
  ASSUME PaceInv, Tick, extra = 0, ~showMenu
  PROVE  /\ playerSpeedIncreaseTimer' + due' <= sinceSpeedup'
         /\ activeOppositeCars' > 0 =>
              AtMost(SpawnInterval, trafficIncreaseTimer' + due') <= sinceRelease'
         /\ Speedup => sinceSpeedup >= SpeedupInterval
         /\ CarReleased /\ activeOppositeCars > 0 => sinceRelease >= SpawnInterval
  <1>1. /\ due = 1 /\ due' = 0
        /\ RampTraffic /\ RampSpeed
    <2>1. /\ pc = "idle" /\ ~exited /\ due > 0 /\ due' = due - 1
          /\ RampTraffic /\ RampSpeed
      BY TickEffects DEF PaceInv
    <2> QED
      BY <2>1, Counters, OneDue
  <1>2. /\ playerSpeedIncreaseTimer + due <= sinceSpeedup
        /\ activeOppositeCars > 0 =>
             AtMost(SpawnInterval, trafficIncreaseTimer + due) <= sinceRelease
    BY DEF PaceInv, TicksBehindFrames
  <1>3. /\ Speedup <=> playerSpeedIncreaseTimer' = 0
        /\ sinceSpeedup' = IF Speedup THEN 0 ELSE sinceSpeedup
        /\ sinceRelease' = IF CarReleased THEN 0 ELSE sinceRelease
    BY Zenon DEF Tick, Speedup
  <1>4. /\ playerSpeedIncreaseTimer' + due' <= sinceSpeedup'
        /\ Speedup => sinceSpeedup >= SpeedupInterval
    BY <1>1, <1>2, <1>3, Counters DEF RampSpeed, SpeedUpIf
  <1>5. CASE CarReleased
    <2>1. /\ trafficIncreaseTimer' = 0
          /\ activeOppositeCars > 0 => trafficIncreaseTimer + 1 >= SpawnInterval
      BY <1>1, <1>5, Counters DEF CarReleased, RampTraffic, ReleaseIf
    <2> QED
      BY <1>1, <1>2, <1>3, <1>4, <1>5, <2>1, Counters DEF AtMost
  <1>6. CASE ~CarReleased
    <2>1. /\ activeOppositeCars' = activeOppositeCars
          /\ trafficIncreaseTimer' = AtMost(SpawnInterval, trafficIncreaseTimer + 1)
      BY <1>1, <1>6, Counters DEF CarReleased, RampTraffic, ReleaseIf
    <2> QED
      BY <1>1, <1>2, <1>3, <1>4, <1>6, <2>1, Counters DEF AtMost
  <1> QED
    BY <1>5, <1>6

LEMMA StepPace == PaceInv /\ [PacedNext]_pacedVars => TicksBehindFrames'
  <1> SUFFICES ASSUME PaceInv, [PacedNext]_pacedVars, extra' = 0
               PROVE  /\ playerSpeedIncreaseTimer' + due' <= sinceSpeedup'
                      /\ activeOppositeCars' > 0 =>
                           AtMost(SpawnInterval, trafficIncreaseTimer' + due')
                             <= sinceRelease'
    BY Zenon DEF TicksBehindFrames, AtMost
  <1>1. IInv /\ MenuIsFirst /\ TicksBehindFrames
    BY DEF PaceInv
  <1>2. CASE Frame
    <2>1. /\ pc = "idle" /\ ~exited /\ due = 0 /\ extra = 0 /\ due' = timers
          /\ sinceSpeedup' = AtMost(SpeedupInterval, sinceSpeedup + 1)
          /\ sinceRelease' = AtMost(SpawnInterval, sinceRelease + 1)
          /\ UNCHANGED ticks
      BY <1>2, Zenon DEF Frame, Dispatch, vars, rampVars, ticks
    <2>2. timers <= 1
      BY <2>1, OneDue
    <2>3. playerSpeedIncreaseTimer' + due' <= sinceSpeedup'
      BY <1>1, <2>1, <2>2, Counters DEF TicksBehindFrames, ticks, AtMost
    <2>4. activeOppositeCars' > 0 =>
            AtMost(SpawnInterval, trafficIncreaseTimer' + due') <= sinceRelease'
      BY <1>1, <2>1, <2>2, Counters DEF TicksBehindFrames, ticks, AtMost
    <2> QED
      BY <2>3, <2>4
  <1>3. CASE Tick /\ ~showMenu
    <2>1. extra = 0
      BY <1>3, Zenon DEF Tick
    <2> QED
      BY <1>3, <2>1, TickPaces
  <1>4. CASE Tick /\ showMenu
    <2>1. /\ extra = 0 /\ due' = due - 1
          /\ UNCHANGED <<ticks, sinceSpeedup>>
      BY <1>1, <1>4, TickEffects
    <2> QED
      BY <1>1, <1>4, <2>1, Counters DEF TicksBehindFrames, MenuIsFirst, ticks
  <1>5. CASE StartGame
    <2>1. /\ pc = "idle" /\ ~exited
          /\ UNCHANGED <<due, sinceSpeedup, playerSpeedIncreaseTimer>>
          /\ activeOppositeCars' = 0 \/ activeOppositeCars' = activeOppositeCars
          /\ showMenu \/ activeOppositeCars' = 0
          /\ extra' >= extra
      BY <1>1, <1>5, StartEffects, Counters DEF PaceInv
    <2>2. extra = 0 /\ activeOppositeCars' = 0
      BY <1>1, <2>1, Counters DEF MenuIsFirst
    <2> QED
      BY <1>1, <2>1, <2>2 DEF TicksBehindFrames
  <1>6. CASE OtherStep
    BY <1>1, <1>6, OtherEffects DEF TicksBehindFrames, clockVars, ticks, AtMost
  <1>7. CASE UNCHANGED pacedVars
    BY <1>1, <1>7 DEF TicksBehindFrames, pacedVars, clockVars, vars, rampVars, AtMost
  <1> QED
    BY <1>2, <1>3, <1>4, <1>5, <1>6, <1>7 DEF PacedNext

(* A tick of a game without cars either releases the first one or counts   *)
(* below the delay.                                                        *)
LEMMA TickBeforeFirst ==
  ASSUME PaceInv, Tick, Playing, activeOppositeCars' = 0
  PROVE  /\ activeOppositeCars = 0
         /\ trafficIncreaseTimer' = trafficIncreaseTimer + 1
         /\ trafficIncreaseTimer' < InitialDelay
         /\ sinceRelease' = sinceRelease
  <1>1. RampTraffic
    BY TickEffects DEF PaceInv, Playing
  <1>2. /\ InitialDelay \in Nat \ {0} /\ InitialDelay <= SpawnInterval
        /\ NumCars \in Nat \ {0}
    BY SessionAssumption
  <1>3. /\ activeOppositeCars = 0
        /\ trafficIncreaseTimer' = trafficIncreaseTimer + 1
        /\ trafficIncreaseTimer' < InitialDelay
    BY <1>1, <1>2, Counters DEF RampTraffic, ReleaseIf, AtMost
  <1>4. ~CarReleased
    BY <1>3 DEF CarReleased
  <1> QED
    BY <1>3, <1>4, Zenon DEF Tick

LEMMA StepFirst == PaceInv /\ [PacedNext]_pacedVars => FirstCarSoon'
  <1> SUFFICES ASSUME PaceInv, [PacedNext]_pacedVars,
                      Playing', activeOppositeCars' = 0
               PROVE  \/ sinceRelease' = 0
                      \/ sinceRelease' = 1 /\ due' > 0
                      \/ /\ trafficIncreaseTimer' < InitialDelay
                         /\ sinceRelease' <= trafficIncreaseTimer'
                                               + (IF due' > 0 THEN 1 ELSE 0)
    BY Zenon DEF FirstCarSoon
  <1> USE Counters
  <1>1. CASE Frame
    <2>1. /\ pc = "idle" /\ due = 0 /\ due' = timers
          /\ sinceRelease' = AtMost(SpawnInterval, sinceRelease + 1)
          /\ UNCHANGED ticks /\ UNCHANGED <<showMenu, gameOver, exited>>
      BY <1>1, Zenon DEF Frame, Dispatch, vars, rampVars, screenVars, ticks
    <2>2. Playing /\ activeOppositeCars = 0
      BY <2>1 DEF Playing, ticks
    <2>3. due' > 0
      BY <2>1, <2>2 DEF PaceInv, ChainLedger, ClockOK, Playing
    <2>4. \/ sinceRelease = 0
          \/ /\ trafficIncreaseTimer < InitialDelay
             /\ sinceRelease <= trafficIncreaseTimer
      BY <2>1, <2>2 DEF PaceInv, FirstCarSoon
    <2>5. sinceRelease' <= sinceRelease + 1 /\ sinceRelease' \in Nat
      BY <2>1 DEF AtMost
    <2>6. trafficIncreaseTimer' = trafficIncreaseTimer
      BY <2>1 DEF ticks
    <2> QED
      BY <2>3, <2>4, <2>5, <2>6
  <1>2. CASE Tick
    <2>1. /\ showMenu' = showMenu /\ gameOver' = gameOver /\ ~exited
          /\ due > 0 /\ due' = due - 1
      BY <1>2, TickEffects DEF PaceInv
    <2>2. Playing
      BY <2>1 DEF Playing
    <2>3. /\ activeOppositeCars = 0
          /\ trafficIncreaseTimer' = trafficIncreaseTimer + 1
          /\ trafficIncreaseTimer' < InitialDelay
          /\ sinceRelease' = sinceRelease
      BY <1>2, <2>2, TickBeforeFirst
    <2>4. sinceRelease <= trafficIncreaseTimer + 1
      BY <2>1, <2>2, <2>3 DEF PaceInv, FirstCarSoon
    <2> QED
      BY <2>1, <2>3, <2>4
  <1>3. CASE StartGame
    BY <1>3, StartEffects DEF PaceInv
  <1>4. CASE OtherStep
    <2>1. /\ UNCHANGED <<due, sinceRelease>> /\ UNCHANGED ticks
      BY <1>4, OtherEffects DEF PaceInv
    <2>2. Playing
      <3>1. \/ exited' = TRUE
            \/ gameOver' = TRUE
            \/ UNCHANGED <<showMenu, gameOver, exited>>
        BY <1>4, OtherEffects DEF PaceInv
      <3> QED
        BY <3>1 DEF Playing
    <2> QED
      BY <2>1, <2>2 DEF PaceInv, FirstCarSoon, ticks
  <1>5. CASE UNCHANGED pacedVars
    <2>1. /\ UNCHANGED <<due, sinceRelease>> /\ UNCHANGED ticks
          /\ UNCHANGED <<showMenu, gameOver, exited>>
      BY <1>5, Zenon DEF pacedVars, clockVars, vars, rampVars, screenVars, ticks
    <2> QED
      BY <2>1 DEF PaceInv, FirstCarSoon, ticks, Playing
  <1> QED
    BY <1>1, <1>2, <1>3, <1>4, <1>5 DEF PacedNext

-----------------------------------------------------------------------------
LEMMA StepCourse == PaceInv /\ [PacedNext]_pacedVars => CrashOnCourse'
  <1> SUFFICES ASSUME PaceInv, [PacedNext]_pacedVars PROVE CrashOnCourse'
    OBVIOUS
  <1>1. /\ CrashOnCourse
        /\ respawnTimer \in Nat /\ RespawnDelay \in Nat
        /\ playerCrashed => ~showMenu /\ ~gameOver
        /\ pc = "cars" => ~playerCrashed
    BY SessionAssumption DEF PaceInv, IInv, TypeOK, CrashCountdown, LoopInv
  <1>2. CASE UNCHANGED <<vars, crashedTicks>>
    BY <1>1, <1>2 DEF CrashOnCourse, vars, steerVars, crashVars, loopVars
  <1>3. CASE Tick
    <2>1. /\ crashedTicks' = IF playerCrashed THEN crashedTicks + 1 ELSE 0
          /\ TimerStart
      BY <1>3, Zenon DEF Tick
    <2>2. CASE TimerMenu \/ TimerGameOver \/ TimerDrive
      <3>1. UNCHANGED playerCrashed
        BY <2>2, CrashFrame
      <3>2. ~playerCrashed
        BY <1>1, <2>2, Zenon DEF TimerMenu, TimerGameOver, TimerDrive
      <3> QED
        BY <2>1, <3>1, <3>2 DEF CrashOnCourse
    <2>3. CASE TimerCrashed
      <3>1. /\ playerCrashed /\ pc' = "idle"
            /\ respawnTimer' = respawnTimer - 1
        BY <2>3, Zenon DEF TimerCrashed, TimerFires, Dispatch, loopVars
      <3> QED
        BY <1>1, <2>1, <3>1 DEF CrashOnCourse
    <2> QED
      BY <2>1, <2>2, <2>3 DEF TimerStart
  <1>4. CASE StartGame
    <2>1. /\ pc' = "idle" /\ UNCHANGED crashedTicks
      BY <1>4, StartEffects, Zenon DEF PaceInv, StartGame
    <2>2. ~playerCrashed'
      <3>1. CASE NewGame
        BY <3>1 DEF NewGame, ResetPlayer, Wheel!BackToStart
      <3>2. CASE ClickPlay /\ ~gameOver
        BY <1>1, <3>2, CrashFrame, Zenon DEF ClickPlay
      <3> QED
        BY <1>4, <3>1, <3>2, Zenon DEF StartGame, GameBegins, KeyRestart, ClickPlay
    <2> QED
      BY <1>1, <2>1, <2>2 DEF CrashOnCourse
  <1>5. CASE OtherStep
    <2>1. UNCHANGED crashedTicks
      BY <1>5, Zenon DEF OtherStep, clockVars
    <2>2. ASSUME NEW c \in Released, Crash(c) PROVE CrashOnCourse'
      <3>1. pc = "cars" /\ pc' = "idle" /\ respawnTimer' = RespawnDelay
        BY <2>2, Zenon DEF Crash, StartRespawn, HoldUp, LoopDone, BackToMainLoop
      <3> QED
        BY <1>1, <2>1, <3>1 DEF CrashOnCourse
    <2>3. CASE \/ ClickQuit \/ KeyQuit \/ CloseWindow \/ Steer \/ MoveCar
               \/ NoCollision \/ \E c \in Released : LoseLastLife(c)
      <3>1. UNCHANGED <<playerCrashed, respawnTimer>>
        BY <2>3, CrashFrame, Zenon
      <3>2. pc' = pc \/ pc' = "idle"
        BY <2>3, Zenon DEF ClickQuit, KeyQuit, CloseWindow, Exit, Steer, MoveCar,
           NoCollision, LoseLastLife, EndGame, BackToMainLoop, loopVars
      <3> QED
        BY <1>1, <2>1, <3>1, <3>2 DEF CrashOnCourse
    <2> QED
      BY <1>5, <2>2, <2>3, Zenon DEF OtherStep, TimerBody
  <1> QED
    BY <1>2, <1>3, <1>4, <1>5 DEF PacedNext, Frame, pacedVars, clockVars

-----------------------------------------------------------------------------
(* Outside the start menu a tick counts down, or enters the loop.          *)
LEMMA TickMoves ==
  ASSUME IInv, TimerStart, ~showMenu
  PROVE  /\ pc = "idle"
         /\ ~UNCHANGED <<respawnTimer, gameOverTimer, pc>>
  <1>1. respawnTimer \in Int /\ gameOverTimer \in Int
    BY SessionAssumption DEF IInv, TypeOK
  <1>2. CASE TimerCrashed
    <2>1. pc = "idle" /\ respawnTimer' = respawnTimer - 1
      BY <1>2, Zenon DEF TimerCrashed, TimerFires, Dispatch
    <2> QED
      BY <1>1, <2>1
  <1>3. CASE TimerGameOver
    <2>1. pc = "idle" /\ gameOverTimer' = gameOverTimer - 1
      BY <1>3, Zenon DEF TimerGameOver, TimerFires, Dispatch
    <2> QED
      BY <1>1, <2>1
  <1>4. CASE TimerDrive
    BY <1>4 DEF TimerDrive, TimerFires, Dispatch
  <1> QED
    BY <1>2, <1>3, <1>4 DEF TimerStart, TimerMenu

LEMMA PaceInvAlways == PacedSpec => []PaceInv
  <1>1. PacedInit => PaceInv
    <2> SUFFICES ASSUME PacedInit PROVE PaceInv
      OBVIOUS
    <2>1. IInv
      BY InitIInv DEF PacedInit
    <2> QED
      BY <2>1, SessionAssumption
         DEF PacedInit, Init, PaceInv, ClockOK, MenuIsFirst, ChainLedger,
             Playing, TicksBehindFrames, FirstCarSoon, CrashOnCourse,
             Wheel!Init
  <1>2. PaceInv /\ [PacedNext]_pacedVars => PaceInv'
    BY PacedSession, StepIInv, StepClock, StepChains, StepPace, StepFirst,
       StepCourse DEF PaceInv
  <1> QED
    BY <1>1, <1>2, PTL DEF PacedSpec

(* The phase of the game decides which of its callbacks a step is.         *)
LEMMA TicksApart ==
  ASSUME PaceInv, [PacedNext]_pacedVars, ~(Tick /\ ~showMenu)
  PROVE  ~Speedup /\ ~CarReleased
  <1> USE Counters
  <1>1. CASE UNCHANGED vars
    <2>1. UNCHANGED <<respawnTimer, gameOverTimer, pc, activeOppositeCars>>
      BY <1>1, Zenon DEF vars, crashVars, rampVars, loopVars
    <2> QED
      BY <2>1, TickMoves DEF PaceInv, Speedup, CarReleased
  <1>2. CASE Tick /\ showMenu
    BY <1>2, TickEffects DEF PaceInv, Speedup, CarReleased, ticks
  <1>3. CASE StartGame
    <2>1. UNCHANGED <<respawnTimer, gameOverTimer, pc>>
      BY <1>3, Zenon DEF StartGame, GameBegins, KeyRestart, ClickPlay, NewGame,
         crashVars, loopVars
    <2>2. \/ activeOppositeCars' = activeOppositeCars
          \/ activeOppositeCars' = 0
      BY <1>3, StartEffects DEF PaceInv
    <2> QED
      BY <2>1, <2>2, TickMoves DEF PaceInv, Speedup, CarReleased
  <1>4. CASE OtherStep
    <2>1. activeOppositeCars' = activeOppositeCars
      BY <1>4, OtherEffects DEF PaceInv, ticks
    <2>2. pc = "cars" \/ UNCHANGED <<respawnTimer, gameOverTimer, pc>>
      BY <1>4, Zenon DEF OtherStep, TimerBody, MoveCar, NoCollision, Crash,
         LoseLastLife, LoopDone, ClickQuit, KeyQuit, CloseWindow, Exit, Steer,
         crashVars, loopVars
    <2> QED
      BY <2>1, <2>2, TickMoves DEF PaceInv, Speedup, CarReleased
  <1> QED
    BY <1>1, <1>2, <1>3, <1>4 DEF PacedNext, Frame, pacedVars

(* The ledger of tick chains: a game runs on one chain and those that R or *)
(* an early PLAY has added, and its end ends one of them.                  *)
THEOREM ChainsAddUp == PacedSpec => []ChainLedger
  <1>1. PaceInv => ChainLedger
    BY DEF PaceInv
  <1> QED
    BY <1>1, PaceInvAlways, PTL

(* On a single chain the game keeps its pace: speed-ups and, after the     *)
(* first, released cars are as many frames apart as the code counts ticks. *)
THEOREM PaceIsSteady == PacedSpec => SteadyPace
  <1> DEFINE Steady ==
        extra = 0 =>
          /\ Speedup => sinceSpeedup >= SpeedupInterval
          /\ CarReleased /\ activeOppositeCars > 0 => sinceRelease >= SpawnInterval
  <1>1. PaceInv /\ [PacedNext]_pacedVars => Steady
    <2> SUFFICES ASSUME PaceInv, [PacedNext]_pacedVars, extra = 0
                 PROVE  /\ Speedup => sinceSpeedup >= SpeedupInterval
                        /\ CarReleased /\ activeOppositeCars > 0
                             => sinceRelease >= SpawnInterval
      OBVIOUS
    <2>1. CASE Tick /\ ~showMenu
      BY <2>1, TickPaces
    <2>2. ASSUME ~(Tick /\ ~showMenu) PROVE ~Speedup /\ ~CarReleased
      BY <2>2, TicksApart
    <2> QED
      BY <2>1, <2>2
  <1> QED
    BY <1>1, PaceInvAlways, PTL DEF PacedSpec, SteadyPace

(* The first car of a game comes within the delay the code sets, whatever  *)
(* counts and chains a restart or the start menu has left.                 *)
THEOREM FirstCarComesInTime == PacedSpec => []FirstCarInTime
  <1>1. PaceInv => FirstCarInTime
    BY Counters, SessionAssumption DEF PaceInv, FirstCarSoon, FirstCarInTime
  <1> QED
    BY <1>1, PaceInvAlways, PTL

(* A crash that a tick ends has had all its ticks, whatever countdown an   *)
(* abandoned crash has left behind.                                        *)
THEOREM CrashesRunTheirCourse == PacedSpec => CrashRunsItsCourse
  <1> DEFINE Whole ==
        TimerCrashed /\ ~playerCrashed' => crashedTicks' = RespawnDelay
  <1>1. PaceInv /\ [PacedNext]_pacedVars => Whole
    <2> SUFFICES ASSUME PaceInv, [PacedNext]_pacedVars,
                        TimerCrashed, ~playerCrashed'
                 PROVE  crashedTicks' = RespawnDelay
      OBVIOUS
    <2>1. /\ pc = "idle" /\ playerCrashed /\ ~showMenu /\ ~gameOver
          /\ respawnTimer' = respawnTimer - 1
          /\ UNCHANGED <<pc, timers>>
      BY Zenon DEF TimerCrashed, TimerFires, Dispatch, loopVars, PaceInv, IInv,
         CrashCountdown
    <2>2. /\ crashedTicks + respawnTimer = RespawnDelay
          /\ crashedTicks \in Nat
          /\ respawnTimer \in 1..RespawnDelay /\ RespawnDelay \in Nat
      BY <2>1, SessionAssumption
         DEF PaceInv, CrashOnCourse, IInv, CrashCountdown
    <2>3. respawnTimer' <= 0
      BY <2>1, Zenon DEF TimerCrashed, steerVars
    <2>4. Tick
      <3>1. ~StartGame
        <4>1. ASSUME StartGame PROVE timers' = timers + 1
          BY <4>1, StartEffects DEF PaceInv
        <4> QED
          BY <2>1, <4>1, Counters
      <3>2. respawnTimer' # respawnTimer
        BY <2>1, <2>2
      <3>3. ~OtherStep
        BY <2>1, <3>2, Zenon DEF OtherStep, TimerBody, MoveCar, NoCollision,
           Crash, LoseLastLife, LoopDone, ClickQuit, KeyQuit, CloseWindow, Exit,
           Steer, crashVars
      <3>4. ~Frame /\ ~UNCHANGED pacedVars
        BY <3>2, Zenon DEF Frame, pacedVars, vars, crashVars
      <3> QED
        BY <3>1, <3>3, <3>4 DEF PacedNext
    <2>5. crashedTicks' = crashedTicks + 1
      BY <2>1, <2>4, Zenon DEF Tick
    <2> QED
      BY <2>1, <2>2, <2>3, <2>5
  <1> QED
    BY <1>1, PaceInvAlways, PTL DEF PacedSpec, CrashRunsItsCourse
=============================================================================
