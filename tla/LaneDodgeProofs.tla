--------------------------- MODULE LaneDodgeProofs ---------------------------
(***************************************************************************)
(* Proofs about the whole game, for every value of the constants: the      *)
(* callbacks with their cars implement Session, and the cars under these   *)
(* callbacks implement Traffic.  Each needs the other one's invariant:     *)
(* that a waiting car is not hit is a fact about positions, and that the   *)
(* loop runs in a game that is not over is one about callbacks.            *)
(***************************************************************************)
EXTENDS LaneDodge, SessionProofs

(* The lemmas of TrafficProofs, about the cars of the game.                *)
Facts == INSTANCE TrafficProofs WITH pc <- IF gameOver THEN "over" ELSE pc

LEMMA FleetFacts == Facts!TrafficAssumption
  BY FleetAssumption DEF Fleet!TrafficAssumption, Facts!TrafficAssumption

(* Facts speaks of the same cars as Fleet, definition by definition.       *)
LEMMA SameCars ==
  /\ Fleet!InitialFleets = Facts!InitialFleets
  /\ \A i : Fleet!Driven(i) = Facts!Driven(i)
  /\ \A i : Fleet!Hits(i) <=> Facts!Hits(i)
  /\ \A i : Fleet!FirstHit(i) <=> Facts!FirstHit(i)
  BY DEF Fleet!InitialFleets, Fleet!NewCar, Fleet!SpawnYs, Fleet!Driven,
     Fleet!Slide, Fleet!Advance, Fleet!Decide, Fleet!RearMostBlocked,
     Fleet!Blocked, Fleet!PlayerAhead, Fleet!Free, Fleet!SteerAside,
     Fleet!Others, Fleet!Top, Fleet!Distance, Fleet!Cars, Fleet!Lanes,
     Fleet!Hits, Fleet!FirstHit,
     Facts!InitialFleets, Facts!NewCar, Facts!SpawnYs, Facts!Driven,
     Facts!Slide, Facts!Advance, Facts!Decide, Facts!RearMostBlocked,
     Facts!Blocked, Facts!PlayerAhead, Facts!Free, Facts!SteerAside,
     Facts!Others, Facts!Top, Facts!Distance, Facts!Cars, Facts!Lanes,
     Facts!Hits, Facts!FirstHit

LEMMA SameDrive ==
  /\ Fleet!SkipHidden <=> Facts!SkipHidden
  /\ Fleet!Drive <=> Facts!Drive
  /\ Fleet!PassPlayer <=> Facts!PassPlayer
  <1>1. /\ \A c : Fleet!LeavesScreen(c) <=> Facts!LeavesScreen(c)
        /\ \A kind, lane, y : Fleet!NewCar(kind, lane, y) = Facts!NewCar(kind, lane, y)
        /\ \A f, i : Fleet!SomeClearSpot(f, i) <=> Facts!SomeClearSpot(f, i)
        /\ \A f, i, lane, y :
             Fleet!ClearSpot(f, i, lane, y) <=> Facts!ClearSpot(f, i, lane, y)
        /\ Fleet!Lanes = Facts!Lanes /\ Fleet!SpawnYs = Facts!SpawnYs
    BY DEF Fleet!LeavesScreen, Fleet!NewCar, Fleet!SomeClearSpot,
       Fleet!ClearSpot, Fleet!Others, Fleet!Distance, Fleet!Cars, Fleet!Lanes,
       Fleet!SpawnYs,
       Facts!LeavesScreen, Facts!NewCar, Facts!SomeClearSpot,
       Facts!ClearSpot, Facts!Others, Facts!Distance, Facts!Cars, Facts!Lanes,
       Facts!SpawnYs
  <1>2. Fleet!InLoop <=> Facts!InLoop
    BY DEF Fleet!InLoop, Facts!InLoop
  <1>3. Fleet!SkipHidden <=> Facts!SkipHidden
    BY <1>2 DEF Fleet!SkipHidden, Facts!SkipHidden
  <1>4. Fleet!Drive <=> Facts!Drive
    BY <1>1, <1>2, SameCars, Zenon DEF Fleet!Drive, Facts!Drive
  <1>5. Fleet!PassPlayer <=> Facts!PassPlayer
    BY <1>1, <1>2, SameCars DEF Fleet!PassPlayer, Facts!PassPlayer
  <1> QED
    BY <1>3, <1>4, <1>5

(* What holds of the game between any two steps.                           *)
GameInv == IInv /\ Facts!TypeOK /\ Facts!ParkedAbove

(* Only released cars are hit: the others are above the screen.            *)
LEMMA OnlyReleasedHit ==
  ASSUME GameInv, NEW c \in Cars, Fleet!Hits(c)
  PROVE  c \in Released
  <1>1. Facts!Hits(c)
    BY SameCars
  <1>2. c \in Facts!Cars /\ c \in Int /\ activeOppositeCars \in Int
    BY DEF GameInv, IInv, TypeOK, Cars, Facts!Cars
  <1>3. car[c].y \in Int
    BY <1>2 DEF GameInv, Facts!TypeOK, Facts!CarRecords
  <1>4. ~(car[c].y >= ScreenHeight)
    BY <1>1, <1>3, FleetFacts DEF Facts!Hits, Facts!TrafficAssumption
  <1> QED
    BY <1>2, <1>4 DEF GameInv, Facts!ParkedAbove, Released

(* Every step of the game is one that Session knows.                       *)
LEMMA GameStepSession == GameInv /\ [GameNext]_gameVars => [Next]_vars
  <1> SUFFICES ASSUME GameInv, [GameNext]_gameVars PROVE Next \/ UNCHANGED vars
    OBVIOUS
  <1>1. CASE Restart \/ CarsRest
    BY <1>1, Zenon DEF Restart, CarsRest, Next, UserStep, TimerStep
  <1>2. CASE DriveCar \/ PassCar \/ MissAll
    BY <1>2, Zenon DEF DriveCar, PassCar, MissAll, Next, TimerStep, TimerBody
  <1>3. CASE HitCar
    <2>1. PICK c \in Cars : Fleet!FirstHit(c) /\ (Crash(c) \/ LoseLastLife(c))
      BY <1>3 DEF HitCar
    <2>2. c \in Released
      BY <2>1, OnlyReleasedHit DEF Fleet!FirstHit
    <2> QED
      BY <2>1, <2>2, Zenon DEF Next, TimerStep, TimerBody
  <1>4. CASE UNCHANGED gameVars
    BY <1>4, Zenon DEF gameVars
  <1> QED
    BY <1>1, <1>2, <1>3, <1>4 DEF GameNext, LoopStep

-----------------------------------------------------------------------------
(* Steps that touch nothing the cars have to do with.                      *)
LEMMA FleetAlone ==
  ASSUME UNCHANGED <<car, active, activeOppositeCars, playerLane, gameOver, pc,
                     nextCar>>
  PROVE  UNCHANGED Facts!vars
  BY Zenon DEF Facts!vars

(* R during a game, or PLAY after it, brings every car back.               *)
LEMMA RestartBringsBack ==
  ASSUME Restart
  PROVE  Facts!Restart
  <1>1. /\ NewGame /\ Dispatch
        /\ UNCHANGED <<pc, nextCar>>
        /\ car' \in Facts!InitialFleets
    BY SameCars, Zenon DEF Restart, KeyRestart, ClickPlay, loopVars
  <1>2. /\ playerLane' = StartLane /\ gameOver' = FALSE
        /\ activeOppositeCars' = 0
        /\ active' = [c \in Cars |-> TRUE]
    BY <1>1, Zenon
       DEF NewGame, ResetPlayer, InitOppositeCars, Wheel!BackToStart
  <1> QED
    BY <1>1, <1>2 DEF Dispatch, Facts!Restart, Facts!Cars, Cars

(* The arrow keys move the player to a neighbouring lane of the road, or   *)
(* inside his lane.                                                        *)
LEMMA SteerSideways ==
  ASSUME GameInv, Steer, UNCHANGED car
  PROVE  Facts!Steer \/ UNCHANGED Facts!vars
  <1>1. /\ pc = "idle"
        /\ UNCHANGED <<car, active, activeOppositeCars, gameOver, pc, nextCar>>
    BY Zenon DEF Steer, Dispatch, screenVars, rampVars, loopVars
  <1>2. CASE playerLane' = playerLane
    BY <1>1, <1>2, FleetAlone
  <1>3. CASE playerLane' # playerLane
    <2>1. playerLane \in Facts!Lanes
      BY DEF GameInv, Facts!TypeOK
    <2>2. playerLane' \in {playerLane - 1, playerLane + 1} \cap Facts!Lanes
      BY <1>3, <2>1, RoadAssumption
         DEF Steer, Wheel!KeyLeft, Wheel!KeyRight, Facts!Lanes
    <2> QED
      BY <1>1, <2>2 DEF Facts!Steer
  <1> QED
    BY <1>2, <1>3

(* A tick of a crash, or after the game, releases a car or leaves them all *)
(* alone.                                                                  *)
LEMMA TickReleases ==
  ASSUME GameInv, TimerCrashed \/ TimerGameOver, UNCHANGED car
  PROVE  Facts!ReleaseOnly \/ UNCHANGED Facts!vars
  <1>1. /\ pc = "idle" /\ TickPrefix
        /\ UNCHANGED <<car, active, gameOver, pc, nextCar>>
    BY Zenon DEF TimerCrashed, TimerGameOver, TimerFires, Dispatch, screenVars,
                 loopVars
  <1>2. playerLane' = playerLane
    BY Zenon DEF TimerCrashed, TimerGameOver, Wheel!Recover, steerVars
  <1>3. activeOppositeCars \in 0..NumCars /\ NumCars \in Nat
    BY SessionAssumption DEF GameInv, IInv, TypeOK
  <1>4. \/ activeOppositeCars' = activeOppositeCars
        \/ /\ activeOppositeCars < NumCars
           /\ activeOppositeCars' = activeOppositeCars + 1
    BY <1>1, <1>3 DEF TickPrefix, RampTraffic, ReleaseIf
  <1>5. CASE activeOppositeCars' = activeOppositeCars
    BY <1>1, <1>2, <1>5, FleetAlone
  <1>6. CASE /\ activeOppositeCars < NumCars
             /\ activeOppositeCars' = activeOppositeCars + 1
    BY <1>1, <1>2, <1>6 DEF Facts!ReleaseOnly
  <1> QED
    BY <1>4, <1>5, <1>6

(* A tick of a running game enters the loop over the released cars.        *)
LEMMA TickBegins ==
  ASSUME GameInv, TimerDrive, UNCHANGED car
  PROVE  Facts!BeginTick
  <1>1. /\ pc = "idle" /\ pc' = "cars" /\ nextCar' = 0
        /\ ~gameOver /\ TickPrefix
        /\ UNCHANGED <<car, active, playerLane, gameOver>>
    BY Zenon DEF TimerDrive, TimerFires, Dispatch, screenVars, steerVars
  <1>2. activeOppositeCars \in 0..NumCars /\ NumCars \in Nat
    BY SessionAssumption DEF GameInv, IInv, TypeOK
  <1>3. /\ activeOppositeCars' \in {activeOppositeCars, activeOppositeCars + 1}
        /\ activeOppositeCars' <= NumCars
    BY <1>1, <1>2 DEF TickPrefix, RampTraffic, ReleaseIf
  <1> QED
    BY <1>1, <1>3 DEF Facts!BeginTick

(* The collision check ends the loop, in one of Traffic's outcomes.        *)
LEMMA CheckEnds ==
  ASSUME GameInv, MissAll \/ HitCar
  PROVE  Facts!NoCollision \/ Facts!Crash \/ Facts!GameOver
  <1>1. LoopDone /\ BackToMainLoop /\ UNCHANGED car
    BY Zenon DEF MissAll, HitCar, NoCollision, Crash, LoseLastLife, EndGame
  <1>2. Facts!LoopDone /\ ~gameOver /\ pc' = "idle" /\ nextCar' = 0
    BY <1>1 DEF LoopDone, BackToMainLoop, Facts!LoopDone, GameInv, IInv, LoopInv
  <1>3. CASE MissAll
    <2>1. UNCHANGED <<car, active, activeOppositeCars, playerLane, gameOver>>
      BY <1>3, Zenon DEF MissAll, NoCollision, screenVars, rampVars, steerVars
    <2>2. \A i \in Facts!Cars : ~Facts!Hits(i)
      BY <1>3, SameCars DEF MissAll, Cars, Facts!Cars
    <2> QED
      BY <1>2, <2>1, <2>2 DEF Facts!NoCollision
  <1>4. ASSUME NEW c \in Cars, Fleet!FirstHit(c), Crash(c)
        PROVE  Facts!Crash
    <2>1. /\ UNCHANGED <<activeOppositeCars, playerLane, gameOver>>
          /\ active' = [active EXCEPT ![c] = FALSE]
      BY <1>4, Zenon DEF Crash, StartRespawn, HoldUp, Wheel!CrashHere,
         screenVars, rampVars
    <2>2. c \in Facts!Cars /\ Facts!FirstHit(c)
      BY <1>4, SameCars DEF Cars, Facts!Cars
    <2> QED
      BY <1>1, <1>2, <2>1, <2>2 DEF Facts!Crash
  <1>5. ASSUME NEW c \in Cars, Fleet!FirstHit(c), LoseLastLife(c)
        PROVE  Facts!GameOver
    <2>1. /\ UNCHANGED <<active, activeOppositeCars, playerLane>>
          /\ gameOver' = TRUE
      BY <1>5, Zenon DEF LoseLastLife, EndGame, rampVars, steerVars
    <2>2. c \in Facts!Cars /\ Facts!Hits(c)
      BY <1>5, SameCars DEF Cars, Facts!Cars, Facts!FirstHit
    <2> QED
      BY <1>1, <1>2, <2>1, <2>2 DEF Facts!GameOver
  <1> QED
    BY <1>3, <1>4, <1>5, Zenon DEF HitCar

(* Every step of the game moves the cars as Traffic does, or not at all.   *)
LEMMA GameStepFleet ==
  GameInv /\ [GameNext]_gameVars => [Facts!Next]_(Facts!vars)
  <1> SUFFICES ASSUME GameInv, [GameNext]_gameVars
               PROVE  Facts!Next \/ UNCHANGED Facts!vars
    OBVIOUS
  <1> USE DEF Facts!Next, Facts!TimerStep
  <1>1. CASE Restart
    BY <1>1, RestartBringsBack, Zenon
  <1>2. CASE CarsRest
    <2>1. CASE \/ ClickPlay /\ ~gameOver
               \/ ClickQuit \/ KeyQuit \/ CloseWindow \/ TimerMenu
      <3>1. UNCHANGED <<car, active, activeOppositeCars, playerLane, gameOver,
                        pc, nextCar>>
        BY <1>2, <2>1, Zenon
           DEF CarsRest, ClickPlay, ClickQuit, KeyQuit, CloseWindow, Exit,
               TimerMenu, steerVars, screenVars, rampVars, loopVars
      <3> QED
        BY <3>1, FleetAlone
    <2>2. CASE Steer
      BY <1>2, <2>2, SteerSideways, Zenon DEF CarsRest
    <2>3. CASE TimerCrashed \/ TimerGameOver
      BY <1>2, <2>3, TickReleases, Zenon DEF CarsRest
    <2>4. CASE TimerDrive
      BY <1>2, <2>4, TickBegins, Zenon DEF CarsRest
    <2> QED
      BY <1>2, <2>1, <2>2, <2>3, <2>4, Zenon DEF CarsRest, TimerStart
  <1>3. CASE DriveCar \/ PassCar
    BY <1>3, SameDrive, Zenon DEF DriveCar, PassCar
  <1>4. CASE MissAll \/ HitCar
    BY <1>4, CheckEnds, Zenon
  <1>5. CASE UNCHANGED gameVars
    <2>1. UNCHANGED <<car, active, activeOppositeCars, playerLane, gameOver, pc,
                      nextCar>>
      BY <1>5, Zenon DEF gameVars, vars, steerVars, screenVars, rampVars, loopVars
    <2> QED
      BY <2>1, FleetAlone
  <1> QED
    BY <1>1, <1>2, <1>3, <1>4, <1>5, Zenon DEF GameNext, LoopStep

-----------------------------------------------------------------------------
LEMMA GameInitFleet == GameInit => Facts!Init
  BY SameCars DEF GameInit, Init, Wheel!Init, Facts!Init, Facts!Cars, Cars

LEMMA GameInvAlways == GameSpec => []GameInv
  <1>1. GameInit => GameInv
    BY FleetFacts, GameInitFleet, InitIInv, Facts!InitTypeOK, Facts!InitParked
       DEF GameInit, GameInv
  <1>2. GameInv /\ [GameNext]_gameVars => GameInv'
    BY FleetFacts, GameStepSession, GameStepFleet, StepIInv, Facts!StepTypeOK,
       Facts!StepParked
       DEF GameInv
  <1> QED
    BY <1>1, <1>2, PTL DEF GameSpec

(* What Session assumes of the traffic holds: with the real cars only      *)
(* released and visible ones are hit, only visible ones score, and the     *)
(* loop always ends in one of the outcomes Session knows.                  *)
THEOREM GameImplementsSession == GameSpec => SessionSafety
  <1>1. GameInit => Init
    BY DEF GameInit
  <1> QED
    BY <1>1, GameStepSession, GameInvAlways, PTL DEF GameSpec, SessionSafety

-----------------------------------------------------------------------------
(* A step of Facts is one of Fleet.                                        *)
LEMMA SameStep == [Facts!Next]_(Facts!vars) => [Fleet!Next]_(Fleet!vars)
  <1>1. UNCHANGED Facts!vars => UNCHANGED Fleet!vars
    BY DEF Facts!vars, Fleet!vars
  <1>2. Facts!BeginTick => Fleet!BeginTick
    BY DEF Facts!BeginTick, Fleet!BeginTick
  <1>3. Facts!NoCollision => Fleet!NoCollision
    BY SameCars DEF Facts!NoCollision, Fleet!NoCollision, Facts!LoopDone,
                    Fleet!LoopDone, Facts!Cars, Fleet!Cars
  <1>4. Facts!Crash => Fleet!Crash
    BY SameCars DEF Facts!Crash, Fleet!Crash, Facts!LoopDone, Fleet!LoopDone,
                    Facts!Cars, Fleet!Cars
  <1>5. Facts!GameOver => Fleet!GameOver
    BY SameCars DEF Facts!GameOver, Fleet!GameOver, Facts!LoopDone,
                    Fleet!LoopDone, Facts!Cars, Fleet!Cars
  <1>6. Facts!ReleaseOnly => Fleet!ReleaseOnly
    BY DEF Facts!ReleaseOnly, Fleet!ReleaseOnly
  <1>7. Facts!Steer => Fleet!Steer
    BY DEF Facts!Steer, Fleet!Steer, Facts!Lanes, Fleet!Lanes
  <1>8. Facts!Restart => Fleet!Restart
    BY SameCars DEF Facts!Restart, Fleet!Restart, Facts!Cars, Fleet!Cars
  <1>9. Facts!Next => Fleet!Next
    BY SameDrive, <1>2, <1>3, <1>4, <1>5, <1>6, <1>7, <1>8, Zenon
       DEF Facts!Next, Fleet!Next, Facts!TimerStep, Fleet!TimerStep
  <1> QED
    BY <1>1, <1>9

(* What Traffic assumes of the rest of the program holds: no callback      *)
(* moves, hides or releases a car in the middle of the loop, a restart     *)
(* brings every car back, and the cars of a finished game stand still.     *)
THEOREM GameImplementsTraffic == GameSpec => ImplementsTraffic
  <1>1. GameInit => Fleet!Init
    BY GameInitFleet, SameCars
       DEF Facts!Init, Fleet!Init, Facts!Cars, Fleet!Cars
  <1>2. GameInv /\ [GameNext]_gameVars => [Fleet!Next]_(Fleet!vars)
    BY GameStepFleet, SameStep
  <1> QED
    BY <1>1, <1>2, GameInvAlways, PTL DEF GameSpec, ImplementsTraffic, Fleet!Spec

(* So what is proved of either half holds of the whole game: it never      *)
(* freezes, its crash countdown and its ledger of hidden cars are sound,   *)
(* and waiting cars stay above the screen.                                 *)
THEOREM GameIsSound ==
  GameSpec => [](NeverFrozen /\ CrashCountdown /\ HiddenMatchesLives
                 /\ Facts!ParkedAbove /\ Facts!ChangesToNeighbour)
  <1> DEFINE Rest == NeverFrozen /\ HiddenMatchesLives /\ Facts!ChangesToNeighbour
  <1>1. GameInit => Rest
    BY FleetFacts, GameInitFleet, InitHidden, Facts!InitNeighbour
       DEF GameInit, Init, NeverFrozen, Playing
  <1>2. GameInv /\ Rest /\ [GameNext]_gameVars => Rest'
    BY FleetFacts, GameStepSession, GameStepFleet, StepNeverFrozen, StepHidden,
       Facts!StepNeighbour
       DEF GameInv
  <1>3. GameInv => CrashCountdown /\ Facts!ParkedAbove
    BY DEF GameInv, IInv
  <1> QED
    BY <1>1, <1>2, <1>3, GameInvAlways, PTL DEF GameSpec

(* No car gets past the player between two collision checks, whatever keys *)
(* are pressed between the ticks.                                          *)
THEOREM GameNothingLeaps == GameSpec => Facts!NoLeapPastPlayer
  <1>1. GameSpec => Facts!Spec
    BY GameInitFleet, GameStepFleet, GameInvAlways, PTL
       DEF GameSpec, Facts!Spec
  <1>2. Facts!Spec => Facts!NoLeapPastPlayer
    BY FleetFacts, Facts!NothingLeaps
  <1> QED
    BY <1>1, <1>2, PTL

(* Unless a respawn gives up after its twenty attempts, a car comes back   *)
(* to a place that no other car on the screen overlaps.                    *)
THEOREM GameRespawnsClear ==
  ASSUME MayGiveUp = FALSE
  PROVE  GameSpec => Facts!RespawnsClear
  <1>1. GameSpec => Facts!Spec
    BY GameInitFleet, GameStepFleet, GameInvAlways, PTL
       DEF GameSpec, Facts!Spec
  <1>2. Facts!Spec => Facts!RespawnsClear
    BY FleetFacts, Facts!RespawnsAreClear
  <1> QED
    BY <1>1, <1>2, PTL

(* The game is played by the rules, cars and positions included.           *)
THEOREM GamePlaysByRules == GameSpec => ImplementsRules
  <1>1. GameInit => Rules!Init
    BY InitImplementsRules DEF GameInit
  <1>2. GameInv /\ [GameNext]_gameVars => [Rules!Next]_(Rules!ruleVars)
    BY GameStepSession, StepImplementsRules DEF GameInv
  <1> QED
    BY <1>1, <1>2, GameInvAlways, PTL DEF GameSpec, ImplementsRules, Rules!Spec
=============================================================================
