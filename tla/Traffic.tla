------------------------------- MODULE Traffic -------------------------------
(***************************************************************************)
(* The oncoming traffic: oppositeCars[] of vehicle.cpp, the loop of        *)
(* timer() in utils.cpp that drives it, and checkCollision().              *)
(*                                                                         *)
(* The loop takes a step per iteration: car i decides on the new positions *)
(* of the cars before it and the old ones of those after it.  The rest of  *)
(* the program is the environment here: between two ticks the player may   *)
(* change lanes and the game may be restarted.                             *)
(*                                                                         *)
(* Positions are integers in a unit of the model.  Of x only the lane is   *)
(* kept (RoadGeometry: a car meets the player exactly when the lanes are   *)
(* equal; the code compares lane, not the drawn x, while a car slides      *)
(* over).  The direction of every car is -1.                               *)
(***************************************************************************)
EXTENDS Integers

CONSTANTS
  NumCars,          \* NUM_OPPOSITE_CARS
  NumLanes,         \* NUM_LANES
  StartLane,        \* playerLane at the start
  ScreenHeight,     \* SCREEN_HEIGHT
  SpawnDepth,       \* the 200 of rand() % 200
  PlayerY,          \* PLAYER_START_Y, never changed
  CarHeight,        \* CAR_HEIGHT
  Near,             \* CAR_HEIGHT + 10
  RespawnGap,       \* the 80 of the respawn test
  ChangeSteps,      \* ticks of a lane change: 1.0f / 0.02f
  Kinds,            \* car, bus and truck
  Height, Speed, Slow,  \* of each kind; Slow is 0.4 * lastSpeed
  MayGiveUp         \* 20 attempts at a clear spot for a respawn may all fail

ASSUME TrafficAssumption ==
  /\ NumCars \in Nat \ {0}
  /\ NumLanes \in Nat \ {0}
  /\ StartLane \in 0..(NumLanes - 1)
  /\ {ScreenHeight, PlayerY} \subseteq Nat
  /\ {SpawnDepth, CarHeight, Near, RespawnGap, ChangeSteps} \subseteq Nat \ {0}
  /\ PlayerY + CarHeight <= ScreenHeight
  /\ Kinds # {}
  /\ Height \in [Kinds -> Nat \ {0}]
  /\ Speed \in [Kinds -> Nat \ {0}]
  /\ Slow \in [Kinds -> Nat \ {0}]
  /\ \A k \in Kinds : Slow[k] <= Speed[k] /\ Speed[k] < CarHeight
  /\ \A k, l \in Kinds : Height[l] < Height[k] + RespawnGap
  /\ MayGiveUp \in BOOLEAN

VARIABLES
  car,                  \* oppositeCars[i] but for active
  active,               \* oppositeCars[i].active
  activeOppositeCars,
  playerLane,
  pc, nextCar           \* where timer() is, and its loop index

vars == <<car, active, activeOppositeCars, playerLane, pc, nextCar>>

Cars == 0..(NumCars - 1)
Lanes == 0..(NumLanes - 1)
SpawnYs == ScreenHeight..(ScreenHeight + SpawnDepth - 1)

(* changed is laneChangeProgress in ticks, 0 when the car is not changing; *)
(* slowed says whether speed is the slowed one or lastSpeed.               *)
NewCar(kind, lane, y) ==
  [kind |-> kind, lane |-> lane, y |-> y, isChangingLane |-> FALSE,
   targetLane |-> lane, changed |-> 0, slowed |-> FALSE, signalOn |-> FALSE]

(* What initOppositeCars may set up.                                       *)
InitialFleets ==
  {[i \in Cars |-> NewCar(kind[i], i % NumLanes, y[i])] :
     kind \in [Cars -> Kinds], y \in [Cars -> SpawnYs]}

Init ==
  /\ car \in InitialFleets
  /\ active = [i \in Cars |-> TRUE]
  /\ activeOppositeCars = 0
  /\ playerLane = StartLane
  /\ pc = "idle" /\ nextCar = 0

-----------------------------------------------------------------------------
(* What car i sees, in the fleet f whose car i has just slid sideways.     *)
Top(f, i) == f[i].y + Height[f[i].kind]

Distance(a, b) == IF a >= b THEN a - b ELSE b - a

(* The other visible cars of a lane.                                       *)
Others(f, i, lane) == {j \in Cars \ {i} : active[j] /\ f[j].lane = lane}

(* A car ahead, not overlapping, closer than Near.                         *)
Blocked(f, i) ==
  \E j \in Others(f, i, f[i].lane) :
    f[j].y < f[i].y /\ f[i].y - Top(f, j) \in 0..(Near - 1)

RearMostBlocked(f, i) ==
  /\ Blocked(f, i)
  /\ \A j \in Others(f, i, f[i].lane) : Blocked(f, j) => f[j].y <= f[i].y

(* timer()'s playerAhead, whose third test follows from the second.        *)
PlayerAhead(f, i) ==
  f[i].lane = playerLane /\ f[i].y < PlayerY /\ Top(f, i) > PlayerY

BugFreeBeyondKerb(f, i, lane) ==
  \A j \in Others(f, i, lane) : Distance(f[j].y, f[i].y) >= Near

Free(f, i, lane) ==
  /\ lane \in Lanes
  /\ \A j \in Others(f, i, lane) : Distance(f[j].y, f[i].y) >= Near
  /\ lane = playerLane => Distance(PlayerY, f[i].y) >= Near

-----------------------------------------------------------------------------
(* One iteration of the loop, as functions of the car.                     *)
BugSlideStaysChanging(c) ==
  IF ~c.isChangingLane THEN c
  ELSE IF c.changed + 1 < ChangeSteps THEN [c EXCEPT !.changed = @ + 1]
  ELSE [c EXCEPT !.changed = 0, !.lane = c.targetLane]

Slide(c) ==
  IF ~c.isChangingLane THEN c
  ELSE IF c.changed + 1 < ChangeSteps THEN [c EXCEPT !.changed = @ + 1]
  ELSE [c EXCEPT !.isChangingLane = FALSE, !.changed = 0,
                 !.lane = c.targetLane]

(* A lane is found: the change starts unless one is under way, to whatever *)
(* lane, and the indicator goes on.                                        *)
SteerAside(c, lane) ==
  IF c.isChangingLane THEN [c EXCEPT !.signalOn = TRUE]
  ELSE [c EXCEPT !.signalOn = TRUE, !.isChangingLane = TRUE,
                 !.targetLane = lane, !.changed = 0]

(* A car that is in the way of nobody drives on at its own speed; one that *)
(* should turn aside tries left, then right, and else slows down.          *)
Decide(f, i) ==
  LET c == [f[i] EXCEPT !.signalOn = FALSE]
  IN  IF ~(RearMostBlocked(f, i) \/ PlayerAhead(f, i))
      THEN [c EXCEPT !.slowed = FALSE]
      ELSE IF Free(f, i, c.lane - 1) THEN SteerAside(c, c.lane - 1)
      ELSE IF Free(f, i, c.lane + 1) THEN SteerAside(c, c.lane + 1)
      ELSE [c EXCEPT !.slowed = TRUE]

BugAdvanceSlowStops(c) ==
  IF c.slowed THEN c ELSE [c EXCEPT !.y = @ - Speed[c.kind]]

Advance(c) ==
  [c EXCEPT !.y = @ - (IF c.slowed THEN Slow[c.kind] ELSE Speed[c.kind])]

(* The respawn test, with the height the car had before setVehicleType.    *)
BugClearSpotTight(f, i, lane, y) ==
  \A j \in Others(f, i, lane) : Distance(f[j].y, y) >= 1

ClearSpot(f, i, lane, y) ==
  \A j \in Others(f, i, lane) :
    Distance(f[j].y, y) >= Height[f[i].kind] + RespawnGap

SomeClearSpot(f, i) == \E lane \in Lanes, y \in SpawnYs : ClearSpot(f, i, lane, y)

LeavesScreen(c) == c.y < -Height[c.kind]

(* What the iteration makes of car i before a respawn.                     *)
Driven(i) ==
  LET slid == [car EXCEPT ![i] = Slide(@)]
  IN  [slid EXCEPT ![i] = Advance(Decide(slid, i))]

-----------------------------------------------------------------------------
(* A tick during a crash, or of a tick chain left over after the game:     *)
(* only the head of timer() runs, and may release a car.                   *)
ReleaseOnly ==
  /\ pc \in {"idle", "over"}
  /\ activeOppositeCars < NumCars
  /\ activeOppositeCars' = activeOppositeCars + 1
  /\ UNCHANGED <<car, active, playerLane, pc, nextCar>>

(* A tick of a running game: one more car may be released.                 *)
BeginTick ==
  /\ pc = "idle"
  /\ pc' = "cars" /\ nextCar' = 0
  /\ activeOppositeCars' \in {activeOppositeCars, activeOppositeCars + 1}
  /\ activeOppositeCars' <= NumCars
  /\ UNCHANGED <<car, active, playerLane>>

BugInLoopAllCars == pc = "cars" /\ nextCar < NumCars

InLoop == pc = "cars" /\ nextCar < activeOppositeCars

(* A hidden car is skipped, and with it its respawn.                       *)
SkipHidden ==
  /\ InLoop /\ ~active[nextCar]
  /\ nextCar' = nextCar + 1
  /\ UNCHANGED <<car, active, activeOppositeCars, playerLane, pc>>

Drive ==
  /\ InLoop /\ active[nextCar]
  /\ LET f == Driven(nextCar)
     IN  /\ ~LeavesScreen(f[nextCar])
         /\ car' = f
  /\ nextCar' = nextCar + 1
  /\ UNCHANGED <<active, activeOppositeCars, playerLane, pc>>

(* The car has left the screen: the player scores, and the car comes back  *)
(* at a random spot.  Of at most 20 attempts at a clear one the last is    *)
(* taken as it is.                                                         *)
PassPlayer ==
  /\ InLoop /\ active[nextCar]
  /\ LET f == Driven(nextCar)
     IN  /\ LeavesScreen(f[nextCar])
         /\ \E lane \in Lanes, y \in SpawnYs, kind \in Kinds :
              /\ \/ ClearSpot(f, nextCar, lane, y)
                 \/ MayGiveUp \/ ~SomeClearSpot(f, nextCar)
              /\ car' = [f EXCEPT ![nextCar] = NewCar(kind, lane, y)]
  /\ nextCar' = nextCar + 1
  /\ UNCHANGED <<active, activeOppositeCars, playerLane, pc>>

LoopDone == pc = "cars" /\ nextCar >= activeOppositeCars

BugHitsInsideOnly(i) ==
  /\ active[i]
  /\ car[i].lane = playerLane
  /\ PlayerY < car[i].y /\ Top(car, i) < PlayerY + CarHeight

BugHitsLaneOnly(i) == active[i] /\ car[i].lane = playerLane

(* checkCollision() for one car, released or not.                          *)
Hits(i) ==
  /\ active[i]
  /\ car[i].lane = playerLane
  /\ PlayerY < car[i].y /\ car[i].y < PlayerY + CarHeight

FirstHit(i) == Hits(i) /\ \A j \in Cars : Hits(j) => i <= j

NoCollision ==
  /\ LoopDone
  /\ \A i \in Cars : ~Hits(i)
  /\ pc' = "idle" /\ nextCar' = 0
  /\ UNCHANGED <<car, active, activeOppositeCars, playerLane>>

(* The player has lives left: the car is hidden.  The ticks of the crash   *)
(* move no car.                                                            *)
Crash ==
  /\ LoopDone
  /\ \E i \in Cars : FirstHit(i) /\ active' = [active EXCEPT ![i] = FALSE]
  /\ pc' = "idle" /\ nextCar' = 0
  /\ UNCHANGED <<car, activeOppositeCars, playerLane>>

(* The last life: no tick until a restart.                                 *)
GameOver ==
  /\ LoopDone
  /\ \E i \in Cars : Hits(i)
  /\ pc' = "over" /\ nextCar' = 0
  /\ UNCHANGED <<car, active, activeOppositeCars, playerLane>>

(* The player moves to a neighbouring lane, also after the game is over.   *)
Steer ==
  /\ pc # "cars"
  /\ playerLane' \in {playerLane - 1, playerLane + 1} \cap Lanes
  /\ UNCHANGED <<car, active, activeOppositeCars, pc, nextCar>>

Restart ==
  /\ pc \in {"idle", "over"}
  /\ car' \in InitialFleets
  /\ active' = [i \in Cars |-> TRUE]
  /\ activeOppositeCars' = 0
  /\ playerLane' = StartLane
  /\ pc' = "idle"
  /\ UNCHANGED nextCar

TimerStep ==
  BeginTick \/ SkipHidden \/ Drive \/ PassPlayer \/ NoCollision \/ Crash \/ GameOver

Next == TimerStep \/ ReleaseOnly \/ Steer \/ Restart

Spec == Init /\ [][Next]_vars

-----------------------------------------------------------------------------
CarRecords ==
  [kind : Kinds, lane : Lanes, y : Int, isChangingLane : BOOLEAN,
   targetLane : Lanes, changed : 0..(ChangeSteps - 1), slowed : BOOLEAN,
   signalOn : BOOLEAN]

(* Type invariant: between two steps every car is on the screen, above it, *)
(* or has its top still on it.                                             *)
TypeOK ==
  /\ car \in [Cars -> CarRecords]
  /\ \A i \in Cars :
       -Height[car[i].kind] <= car[i].y /\ car[i].y < ScreenHeight + SpawnDepth
  /\ active \in [Cars -> BOOLEAN]
  /\ activeOppositeCars \in 0..NumCars
  /\ playerLane \in Lanes
  /\ pc \in {"idle", "cars", "over"}
  /\ nextCar \in 0..NumCars

(* Cars that have not been released wait above the screen, in no lane      *)
(* change and not hidden.  checkCollision() and the tests on other cars do *)
(* run over them, so a waiting car on the screen would be a ghost that     *)
(* stands still and can be hit.                                            *)
ParkedAbove ==
  \A i \in Cars : i >= activeOppositeCars =>
    active[i] /\ car[i].y >= ScreenHeight /\ ~car[i].isChangingLane

(* A lane change leads to a neighbouring lane of the road, and the         *)
(* indicator is on only while one is under way: also when it comes on for  *)
(* a lane other than the one the car is sliding to.                        *)
ChangesToNeighbour ==
  \A i \in Cars :
    /\ car[i].isChangingLane => Distance(car[i].targetLane, car[i].lane) = 1
    /\ car[i].signalOn => car[i].isChangingLane

(* No car gets past the player between two collision checks: a car that    *)
(* comes down from above the player in his lane is hit by checkCollision() *)
(* as soon as it is no longer above, however fast it is and wherever it    *)
(* was when it slid into the lane.                                         *)
NoLeapPastPlayer ==
  [][\A i \in Cars :
       car[i].y >= PlayerY + CarHeight /\ car'[i].lane = playerLane
         => car'[i].y >= PlayerY + CarHeight \/ Hits(i)']_vars

(* A car that comes back overlaps no visible car of its lane, unless the   *)
(* attempts ran out: the test uses the height of the vehicle it was, not   *)
(* of the one it becomes.                                                  *)
Overlap(f, i, j) == f[i].y < Top(f, j) /\ f[j].y < Top(f, i)

RespawnsClear ==
  [][PassPlayer /\ SomeClearSpot(Driven(nextCar), nextCar)
       => \A j \in Cars \ {nextCar} :
            active[j] /\ car'[j].lane = car'[nextCar].lane
              => ~Overlap(car', nextCar, j)]_vars
=============================================================================
