---------------------------- MODULE TrafficProofs ----------------------------
(***************************************************************************)
(* The safety of Traffic for every number of cars and lanes, every screen  *)
(* and every kind of vehicle that TrafficAssumption allows.  The loop of   *)
(* timer() changes one car per step, so the proofs rest on lemmas about    *)
(* what an iteration makes of that car: Slide, Decide and Advance.         *)
(***************************************************************************)
EXTENDS Traffic, TLAPS

(* The sizes one by one.                                                   *)
LEMMA Sizes ==
  /\ ScreenHeight \in Nat /\ PlayerY \in Nat
  /\ SpawnDepth \in Nat /\ SpawnDepth > 0
  /\ CarHeight \in Nat /\ CarHeight > 0
  /\ RespawnGap \in Nat /\ RespawnGap > 0
  /\ ChangeSteps \in Nat /\ ChangeSteps > 0
  /\ 0 \in 0..(ChangeSteps - 1)
  BY TrafficAssumption

(* Sliding sideways: a car keeps its place along the road and its kind,    *)
(* and is in its old lane or in the one it was heading for.                *)
LEMMA SlideKeeps ==
  ASSUME NEW c \in CarRecords
  PROVE  /\ Slide(c) \in CarRecords
         /\ Slide(c).y = c.y /\ Slide(c).kind = c.kind
         /\ Slide(c).isChangingLane =>
              /\ c.isChangingLane
              /\ Slide(c).lane = c.lane /\ Slide(c).targetLane = c.targetLane
  <1> USE Sizes DEF CarRecords
  <1>1. CASE ~c.isChangingLane
    BY <1>1 DEF Slide
  <1>2. CASE c.isChangingLane /\ c.changed + 1 < ChangeSteps
    BY <1>2 DEF Slide
  <1>3. CASE c.isChangingLane /\ ~(c.changed + 1 < ChangeSteps)
    BY <1>3 DEF Slide
  <1> QED
    BY <1>1, <1>2, <1>3

(* Turning aside into a lane of the road.                                  *)
LEMMA SteerAsideKeeps ==
  ASSUME NEW c \in CarRecords, NEW lane \in Lanes
  PROVE  /\ SteerAside(c, lane) \in CarRecords
         /\ SteerAside(c, lane).y = c.y /\ SteerAside(c, lane).kind = c.kind
         /\ SteerAside(c, lane).lane = c.lane
         /\ SteerAside(c, lane).isChangingLane
         /\ SteerAside(c, lane).targetLane =
              IF c.isChangingLane THEN c.targetLane ELSE lane
  BY Sizes DEF CarRecords, SteerAside

(* A decision leaves the car where it is, and at most starts a change into *)
(* a neighbouring lane; the indicator is on only during a change.          *)
LEMMA DecideKeeps ==
  ASSUME NEW f \in [Cars -> CarRecords], NEW i \in Cars
  PROVE  LET d == Decide(f, i)
         IN  /\ d \in CarRecords
             /\ d.y = f[i].y /\ d.kind = f[i].kind /\ d.lane = f[i].lane
             /\ d.signalOn => d.isChangingLane
             /\ d.isChangingLane =>
                  \/ f[i].isChangingLane /\ d.targetLane = f[i].targetLane
                  \/ d.targetLane \in {d.lane - 1, d.lane + 1}
  <1> DEFINE c == [f[i] EXCEPT !.signalOn = FALSE]
             d == Decide(f, i)
  <1>1. /\ c \in CarRecords /\ c.signalOn = FALSE
        /\ c.y = f[i].y /\ c.kind = f[i].kind /\ c.lane = f[i].lane
        /\ c.isChangingLane = f[i].isChangingLane
        /\ c.targetLane = f[i].targetLane
    BY DEF CarRecords
  <1>2. \/ d = [c EXCEPT !.slowed = FALSE]
        \/ c.lane - 1 \in Lanes /\ d = SteerAside(c, c.lane - 1)
        \/ c.lane + 1 \in Lanes /\ d = SteerAside(c, c.lane + 1)
        \/ d = [c EXCEPT !.slowed = TRUE]
    BY Zenon DEF Decide, Free
  <1> HIDE DEF c, d
  <1>3. CASE d = [c EXCEPT !.slowed = FALSE] \/ d = [c EXCEPT !.slowed = TRUE]
    <2>1. /\ d \in CarRecords /\ d.signalOn = FALSE
          /\ d.y = c.y /\ d.kind = c.kind /\ d.lane = c.lane
          /\ d.isChangingLane = c.isChangingLane /\ d.targetLane = c.targetLane
      BY <1>1, <1>3 DEF CarRecords
    <2> QED
      BY <1>1, <2>1 DEF d
  <1>4. CASE c.lane - 1 \in Lanes /\ d = SteerAside(c, c.lane - 1)
    BY <1>1, <1>4, SteerAsideKeeps DEF d
  <1>5. CASE c.lane + 1 \in Lanes /\ d = SteerAside(c, c.lane + 1)
    BY <1>1, <1>5, SteerAsideKeeps DEF d
  <1> QED
    BY <1>2, <1>3, <1>4, <1>5

(* An iteration of the loop changes car i only.  The car comes down by at  *)
(* least 1 and by less than CarHeight.                                     *)
LEMMA DrivenKeeps ==
  ASSUME TypeOK, NEW i \in Cars
  PROVE  /\ Driven(i) \in [Cars -> CarRecords]
         /\ \A j \in Cars \ {i} : Driven(i)[j] = car[j]
         /\ Driven(i)[i].kind = car[i].kind
         /\ Driven(i)[i].y < car[i].y
         /\ car[i].y < Driven(i)[i].y + CarHeight
  <1> DEFINE slid == [car EXCEPT ![i] = Slide(@)]
             d == Decide(slid, i)
  <1>1. car \in [Cars -> CarRecords] /\ car[i] \in CarRecords
    BY DEF TypeOK
  <1>2. slid \in [Cars -> CarRecords] /\ slid[i] = Slide(car[i])
    BY <1>1, SlideKeeps
  <1>3. d \in CarRecords /\ d.y = car[i].y /\ d.kind = car[i].kind
    BY <1>1, <1>2, SlideKeeps, DecideKeeps
  <1>4. Driven(i) = [slid EXCEPT ![i] = Advance(d)]
    BY DEF Driven
  <1> HIDE DEF slid, d
  <1>5. /\ Advance(d) \in CarRecords /\ Advance(d).kind = d.kind
        /\ Advance(d).y < d.y /\ d.y < Advance(d).y + CarHeight
    BY <1>3, TrafficAssumption DEF Advance, CarRecords
  <1>6. Driven(i)[i] = Advance(d) /\ Driven(i) \in [Cars -> CarRecords]
    BY <1>2, <1>4, <1>5
  <1>7. \A j \in Cars \ {i} : Driven(i)[j] = car[j]
    BY <1>1, <1>4 DEF slid
  <1> QED
    BY <1>3, <1>5, <1>6, <1>7

-----------------------------------------------------------------------------
(* A new car is on no way to another lane.                                 *)
LEMMA NewCarKeeps ==
  ASSUME NEW kind \in Kinds, NEW lane \in Lanes, NEW y \in SpawnYs
  PROVE  LET c == NewCar(kind, lane, y)
         IN  /\ c \in CarRecords
             /\ c.kind = kind /\ c.lane = lane /\ c.y = y
             /\ ~c.isChangingLane /\ ~c.signalOn
             /\ y \in Int /\ ScreenHeight <= y /\ y < ScreenHeight + SpawnDepth
             /\ -Height[kind] <= y
  <1>1. Height[kind] \in Nat
    BY TrafficAssumption
  <1> QED
    BY <1>1, Sizes DEF NewCar, CarRecords, SpawnYs

(* initOppositeCars() puts every car above the screen.                     *)
LEMMA FleetStarts ==
  ASSUME NEW f \in InitialFleets
  PROVE  /\ f \in [Cars -> CarRecords]
         /\ \A i \in Cars :
              /\ ScreenHeight <= f[i].y /\ f[i].y < ScreenHeight + SpawnDepth
              /\ -Height[f[i].kind] <= f[i].y
              /\ ~f[i].isChangingLane /\ ~f[i].signalOn
  <1>1. PICK kind \in [Cars -> Kinds], y \in [Cars -> SpawnYs] :
               f = [i \in Cars |-> NewCar(kind[i], i % NumLanes, y[i])]
    BY DEF InitialFleets
  <1>2. ASSUME NEW i \in Cars PROVE i % NumLanes \in Lanes
    <2>1. i \in Int /\ NumLanes \in Nat /\ NumLanes > 0
      BY TrafficAssumption DEF Cars
    <2>2. i % NumLanes \in 0..(NumLanes - 1)
      BY <2>1
    <2> QED
      BY <2>2 DEF Lanes
  <1>3. ASSUME NEW i \in Cars
        PROVE  /\ f[i] \in CarRecords
               /\ ScreenHeight <= f[i].y /\ f[i].y < ScreenHeight + SpawnDepth
               /\ -Height[f[i].kind] <= f[i].y
               /\ ~f[i].isChangingLane /\ ~f[i].signalOn
    <2>1. /\ f[i] = NewCar(kind[i], i % NumLanes, y[i])
          /\ kind[i] \in Kinds /\ y[i] \in SpawnYs /\ i % NumLanes \in Lanes
      BY <1>1, <1>2
    <2> QED
      BY <2>1, NewCarKeeps
  <1> QED
    BY <1>1, <1>3

(* What the types say of one car.                                          *)
CarOK(c) ==
  /\ c \in CarRecords
  /\ -Height[c.kind] <= c.y /\ c.y < ScreenHeight + SpawnDepth

LEMMA TypeParts ==
  ASSUME NEW f
  PROVE  (/\ f \in [Cars -> CarRecords]
          /\ \A i \in Cars :
               -Height[f[i].kind] <= f[i].y /\ f[i].y < ScreenHeight + SpawnDepth)
         <=> (/\ f \in [Cars -> CarRecords]
              /\ \A i \in Cars : CarOK(f[i]))
  BY DEF CarOK

(* The fleet keeps its type when one car of it is replaced.                *)
LEMMA FleetWith ==
  ASSUME TypeOK, NEW f \in [Cars -> CarRecords], NEW i \in Cars,
         \A j \in Cars \ {i} : f[j] = car[j], CarOK(f[i])
  PROVE  \A j \in Cars : CarOK(f[j])
  BY DEF TypeOK, CarOK

(* The car after an iteration that does not take it off the screen.        *)
LEMMA DrivenOK ==
  ASSUME TypeOK, NEW i \in Cars, ~LeavesScreen(Driven(i)[i])
  PROVE  CarOK(Driven(i)[i])
  <1>1. /\ Driven(i)[i] \in CarRecords
        /\ Driven(i)[i].y < car[i].y
        /\ car[i].y < ScreenHeight + SpawnDepth
        /\ Driven(i)[i].y \in Int /\ car[i].y \in Int
        /\ Driven(i)[i].kind \in Kinds
    BY DrivenKeeps DEF TypeOK, CarRecords
  <1>2. Height[Driven(i)[i].kind] \in Nat
    BY <1>1, TrafficAssumption
  <1> QED
    BY <1>1, <1>2, Sizes DEF CarOK, LeavesScreen

LEMMA InitTypeOK == Init => TypeOK
  <1> SUFFICES ASSUME Init PROVE TypeOK
    OBVIOUS
  <1> QED
    BY FleetStarts, TrafficAssumption DEF Init, TypeOK, Cars, Lanes

(* The loop index of an iteration is a released car.                       *)
LEMMA IndexReleased ==
  ASSUME TypeOK, InLoop
  PROVE  /\ nextCar \in Cars /\ nextCar < activeOppositeCars
         /\ nextCar + 1 \in 0..NumCars
  BY TrafficAssumption DEF TypeOK, InLoop, Cars

(* The fleet after an iteration with a respawn: the car is a new one, in a *)
(* clear spot if the attempts do not run out while there is one.           *)
LEMMA PassedCar ==
  ASSUME TypeOK, PassPlayer
  PROVE  \E lane \in Lanes, y \in SpawnYs, kind \in Kinds :
           /\ \/ ClearSpot(Driven(nextCar), nextCar, lane, y)
              \/ MayGiveUp \/ ~SomeClearSpot(Driven(nextCar), nextCar)
           /\ car' = [Driven(nextCar) EXCEPT ![nextCar] = NewCar(kind, lane, y)]
  BY Zenon DEF PassPlayer

LEMMA StepTypeOK == TypeOK /\ [Next]_vars => TypeOK'
  <1> SUFFICES ASSUME TypeOK, [Next]_vars PROVE TypeOK'
    OBVIOUS
  <1> USE TrafficAssumption
  <1>1. CASE BeginTick
    BY <1>1 DEF BeginTick, TypeOK
  <1>2. CASE SkipHidden
    BY <1>2, IndexReleased DEF SkipHidden, TypeOK
  <1>3. CASE Drive
    <2>1. /\ InLoop /\ car' = Driven(nextCar) /\ nextCar' = nextCar + 1
          /\ ~LeavesScreen(Driven(nextCar)[nextCar])
          /\ UNCHANGED <<active, activeOppositeCars, playerLane, pc>>
      BY <1>3, Zenon DEF Drive
    <2>2. car' \in [Cars -> CarRecords] /\ \A j \in Cars : CarOK(car'[j])
      BY <2>1, IndexReleased, DrivenKeeps, DrivenOK, FleetWith
    <2> QED
      BY <2>1, <2>2, IndexReleased, TypeParts DEF TypeOK
  <1>4. CASE PassPlayer
    <2>1. /\ InLoop /\ nextCar' = nextCar + 1
          /\ UNCHANGED <<active, activeOppositeCars, playerLane, pc>>
      BY <1>4, Zenon DEF PassPlayer
    <2>2. PICK lane \in Lanes, y \in SpawnYs, kind \in Kinds :
            car' = [Driven(nextCar) EXCEPT ![nextCar] = NewCar(kind, lane, y)]
      BY <1>4, PassedCar
    <2>3. CarOK(NewCar(kind, lane, y)) /\ NewCar(kind, lane, y) \in CarRecords
      BY NewCarKeeps DEF CarOK
    <2>4. /\ car' \in [Cars -> CarRecords] /\ CarOK(car'[nextCar])
          /\ \A j \in Cars \ {nextCar} : car'[j] = car[j]
      BY <2>1, <2>2, <2>3, IndexReleased, DrivenKeeps
    <2>5. \A j \in Cars : CarOK(car'[j])
      BY <2>1, <2>4, IndexReleased, FleetWith
    <2> QED
      BY <2>1, <2>4, <2>5, IndexReleased, TypeParts DEF TypeOK
  <1>5. CASE NoCollision
    BY <1>5 DEF NoCollision, TypeOK
  <1>6. CASE Crash
    BY <1>6 DEF Crash, TypeOK
  <1>7. CASE GameOver
    BY <1>7 DEF GameOver, TypeOK
  <1>8. CASE ReleaseOnly
    BY <1>8 DEF ReleaseOnly, TypeOK
  <1>9. CASE Steer
    BY <1>9 DEF Steer, TypeOK
  <1>10. CASE Restart
    <2>1. StartLane \in Lanes /\ 0 \in 0..NumCars
      BY DEF Lanes
    <2> QED
      BY <1>10, <2>1, FleetStarts DEF Restart, TypeOK
  <1>11. CASE UNCHANGED vars
    BY <1>11 DEF vars, TypeOK
  <1> QED
    BY <1>1, <1>2, <1>3, <1>4, <1>5, <1>6, <1>7, <1>8, <1>9, <1>10, <1>11
       DEF Next, TimerStep

(* Every car keeps its type and stays between the place where it comes     *)
(* back and the lower edge of the screen, through every order of ticks,    *)
(* crashes, restarts and lane changes.                                     *)
THEOREM CarsKeepTypes == Spec => []TypeOK
  BY InitTypeOK, StepTypeOK, PTL DEF Spec

-----------------------------------------------------------------------------
(* An iteration leaves all cars alone but the one of the loop index, which *)
(* has been released, is visible, and is driven on or comes back.          *)
LEMMA IterationChanges ==
  ASSUME TypeOK, Drive \/ PassPlayer
  PROVE  /\ nextCar \in Cars /\ nextCar < activeOppositeCars /\ active[nextCar]
         /\ UNCHANGED <<active, activeOppositeCars, playerLane>>
         /\ \A j \in Cars \ {nextCar} : car'[j] = car[j]
         /\ \/ car'[nextCar] = Driven(nextCar)[nextCar]
            \/ \E lane \in Lanes, y \in SpawnYs, kind \in Kinds :
                 car'[nextCar] = NewCar(kind, lane, y)
  <1>1. /\ InLoop /\ active[nextCar]
        /\ UNCHANGED <<active, activeOppositeCars, playerLane>>
    BY Zenon DEF Drive, PassPlayer
  <1>2. /\ nextCar \in Cars /\ nextCar < activeOppositeCars
    BY <1>1, IndexReleased
  <1>3. /\ Driven(nextCar) \in [Cars -> CarRecords]
        /\ \A j \in Cars \ {nextCar} : Driven(nextCar)[j] = car[j]
    BY <1>2, DrivenKeeps
  <1>4. CASE Drive
    <2>1. car' = Driven(nextCar)
      BY <1>4, Zenon DEF Drive
    <2> QED
      BY <1>1, <1>2, <1>3, <2>1
  <1>5. CASE PassPlayer
    <2>1. PICK lane \in Lanes, y \in SpawnYs, kind \in Kinds :
            car' = [Driven(nextCar) EXCEPT ![nextCar] = NewCar(kind, lane, y)]
      BY <1>5, PassedCar
    <2> QED
      BY <1>1, <1>2, <1>3, <2>1
  <1> QED
    BY <1>4, <1>5

(* The steps that leave the fleet as it is, or set it up anew.             *)
LEMMA OtherSteps ==
  ASSUME [Next]_vars, ~Drive, ~PassPlayer
  PROVE  UNCHANGED car \/ Restart
  BY Zenon DEF Next, TimerStep, BeginTick, SkipHidden, NoCollision, Crash,
     GameOver, ReleaseOnly, Steer, vars

-----------------------------------------------------------------------------
LEMMA StepParked == TypeOK /\ ParkedAbove /\ [Next]_vars => ParkedAbove'
  <1> SUFFICES ASSUME TypeOK, ParkedAbove, [Next]_vars,
                      NEW i \in Cars, i >= activeOppositeCars'
               PROVE  /\ active'[i] /\ car'[i].y >= ScreenHeight
                      /\ ~car'[i].isChangingLane
    BY DEF ParkedAbove
  <1>1. activeOppositeCars \in Int /\ i \in Int
    BY DEF TypeOK, Cars
  <1>2. CASE Drive \/ PassPlayer
    <2>1. nextCar < activeOppositeCars /\ UNCHANGED <<active, activeOppositeCars>>
      BY <1>2, IterationChanges
    <2>2. car'[i] = car[i]
      BY <1>1, <1>2, <2>1, IterationChanges DEF TypeOK
    <2> QED
      BY <2>1, <2>2 DEF ParkedAbove
  <1>3. CASE Restart
    <2>1. car' \in InitialFleets /\ active'[i]
      BY <1>3 DEF Restart
    <2>2. car'[i].y \in Int
      BY <2>1, FleetStarts DEF CarRecords
    <2> QED
      BY <2>1, <2>2, FleetStarts, Sizes
  <1>4. CASE Crash
    (* The car that is hit is on the screen, so it has been released.      *)
    <2>1. PICK c \in Cars : FirstHit(c) /\ active' = [active EXCEPT ![c] = FALSE]
      BY <1>4 DEF Crash
    <2>2. activeOppositeCars' = activeOppositeCars /\ car' = car
      BY <1>4 DEF Crash
    <2>3. car[c].y < PlayerY + CarHeight /\ car[c].y \in Int
      BY <2>1 DEF FirstHit, Hits, TypeOK, CarRecords
    <2>4. ~(car[c].y >= ScreenHeight)
      BY <2>3, Sizes, TrafficAssumption
    <2>5. c # i
      BY <2>2, <2>4 DEF ParkedAbove
    <2> QED
      BY <2>1, <2>2, <2>5 DEF ParkedAbove, TypeOK
  <1>5. CASE UNCHANGED <<car, active>> /\ ~Restart
    <2>1. activeOppositeCars' >= activeOppositeCars
      BY <1>1, <1>5 DEF Next, TimerStep, BeginTick, SkipHidden, Drive,
         PassPlayer, NoCollision, Crash, GameOver, ReleaseOnly, Steer, vars
    <2>2. activeOppositeCars' \in Int
      BY StepTypeOK DEF TypeOK
    <2> QED
      BY <1>1, <1>5, <2>1, <2>2 DEF ParkedAbove
  <1>6. \/ Drive \/ PassPlayer \/ Restart \/ Crash
        \/ UNCHANGED <<car, active>> /\ ~Restart
    BY Zenon DEF Next, TimerStep, BeginTick, SkipHidden, NoCollision,
       GameOver, ReleaseOnly, Steer, vars
  <1> QED
    BY <1>2, <1>3, <1>4, <1>5, <1>6

LEMMA InitParked == Init => ParkedAbove
  <1> SUFFICES ASSUME Init, NEW i \in Cars
               PROVE  /\ active[i] /\ car[i].y >= ScreenHeight
                      /\ ~car[i].isChangingLane
    BY DEF ParkedAbove
  <1>1. car \in InitialFleets /\ active[i]
    BY DEF Init
  <1>2. car[i].y \in Int
    BY <1>1, FleetStarts DEF CarRecords
  <1> QED
    BY <1>1, <1>2, FleetStarts, Sizes

(* Cars that have not been released wait above the screen, so that nothing *)
(* that runs over all cars, checkCollision() first of all, can meet them.  *)
THEOREM WaitingCarsStayAbove == Spec => []ParkedAbove
  BY InitParked, CarsKeepTypes, StepParked, PTL DEF Spec

-----------------------------------------------------------------------------
(* ChangesToNeighbour of one car.                                          *)
NeighbourOK(c) ==
  /\ c.isChangingLane => Distance(c.targetLane, c.lane) = 1
  /\ c.signalOn => c.isChangingLane

(* One look, and a slide of ChangeSteps ticks: a decision during the slide *)
(* may put the indicator on for another lane, but never changes the target.*)
LEMMA DrivenNeighbour ==
  ASSUME TypeOK, NEW i \in Cars, NeighbourOK(car[i])
  PROVE  NeighbourOK(Driven(i)[i])
  <1> DEFINE s == Slide(car[i])
             slid == [car EXCEPT ![i] = Slide(@)]
             d == Decide(slid, i)
  <1>1. /\ car[i] \in CarRecords /\ s \in CarRecords
        /\ slid \in [Cars -> CarRecords] /\ slid[i] = s
    BY SlideKeeps DEF TypeOK
  <1>2. s.isChangingLane => Distance(s.targetLane, s.lane) = 1
    BY <1>1, SlideKeeps DEF NeighbourOK
  <1>3. Driven(i) = [slid EXCEPT ![i] = Advance(d)]
    BY DEF Driven
  <1>4. /\ d \in CarRecords /\ d.lane = s.lane
        /\ d.signalOn => d.isChangingLane
        /\ d.isChangingLane =>
             \/ s.isChangingLane /\ d.targetLane = s.targetLane
             \/ d.targetLane \in {d.lane - 1, d.lane + 1}
    BY <1>1, DecideKeeps
  <1> HIDE DEF s, slid, d
  <1>5. d.lane \in Int
    BY <1>4 DEF CarRecords, Lanes
  <1>6. NeighbourOK(d)
    BY <1>2, <1>4, <1>5 DEF NeighbourOK, Distance
  <1>7. /\ Advance(d).isChangingLane = d.isChangingLane
        /\ Advance(d).signalOn = d.signalOn
        /\ Advance(d).lane = d.lane /\ Advance(d).targetLane = d.targetLane
    BY <1>4 DEF Advance, CarRecords
  <1> QED
    BY <1>1, <1>3, <1>6, <1>7 DEF NeighbourOK

LEMMA StepNeighbour ==
  TypeOK /\ ChangesToNeighbour /\ [Next]_vars => ChangesToNeighbour'
  <1> SUFFICES ASSUME TypeOK, \A j \in Cars : NeighbourOK(car[j]), [Next]_vars,
                      NEW i \in Cars
               PROVE  NeighbourOK(car'[i])
    BY Zenon DEF ChangesToNeighbour, NeighbourOK
  <1>1. CASE Drive \/ PassPlayer
    <2>1. CASE i = nextCar /\ car'[i] = Driven(i)[i]
      BY <2>1, DrivenNeighbour
    <2>2. CASE i = nextCar /\ \E lane \in Lanes, y \in SpawnYs, kind \in Kinds :
                                car'[i] = NewCar(kind, lane, y)
      BY <2>2, NewCarKeeps DEF NeighbourOK
    <2> QED
      BY <1>1, <2>1, <2>2, IterationChanges
  <1>2. CASE Restart
    BY <1>2, FleetStarts DEF Restart, NeighbourOK
  <1>3. CASE UNCHANGED car
    BY <1>3
  <1> QED
    BY <1>1, <1>2, <1>3, OtherSteps

LEMMA InitNeighbour == Init => ChangesToNeighbour
  BY FleetStarts DEF Init, ChangesToNeighbour

(* A lane change leads to a neighbouring lane, and the indicator is on     *)
(* only while one is under way.                                            *)
THEOREM ChangesLeadNextDoor == Spec => []ChangesToNeighbour
  BY InitNeighbour, CarsKeepTypes, StepNeighbour, PTL DEF Spec

-----------------------------------------------------------------------------
(* No car gets past the player between two collision checks, because an    *)
(* iteration moves it by less than the height of the collision window.     *)
THEOREM NothingLeaps == Spec => NoLeapPastPlayer
  <1> DEFINE Leapless ==
        \A i \in Cars :
          car[i].y >= PlayerY + CarHeight /\ car'[i].lane = playerLane
            => car'[i].y >= PlayerY + CarHeight \/ Hits(i)'
  <1>1. TypeOK /\ [Next]_vars => Leapless
    <2> SUFFICES ASSUME TypeOK, [Next]_vars, NEW i \in Cars,
                        car[i].y >= PlayerY + CarHeight,
                        car'[i].lane = playerLane,
                        ~(car'[i].y >= PlayerY + CarHeight)
                 PROVE  Hits(i)'
      OBVIOUS
    <2>1. car[i].y \in Int /\ car'[i].y \in Int
      BY StepTypeOK DEF TypeOK, CarRecords
    <2>2. CASE Drive \/ PassPlayer
      <3>1. i = nextCar /\ active[i] /\ UNCHANGED <<active, playerLane>>
        BY <2>2, IterationChanges
      <3>2. CASE car'[i] = Driven(i)[i]
        <4>1. car[i].y < car'[i].y + CarHeight
          BY <3>2, DrivenKeeps
        <4>2. PlayerY < car'[i].y /\ car'[i].y < PlayerY + CarHeight
          BY <2>1, <4>1, Sizes
        <4> QED
          BY <3>1, <4>2 DEF Hits
      <3>3. CASE \E lane \in Lanes, y \in SpawnYs, kind \in Kinds :
                   car'[i] = NewCar(kind, lane, y)
        BY <2>1, <3>3, NewCarKeeps, Sizes, TrafficAssumption
      <3> QED
        BY <2>2, <3>1, <3>2, <3>3, IterationChanges
    <2>3. CASE Restart
      <3>1. ScreenHeight <= car'[i].y
        BY <2>3, FleetStarts DEF Restart
      <3> QED
        BY <2>1, <3>1, Sizes, TrafficAssumption
    <2> QED
      BY <2>2, <2>3, OtherSteps
  <1> QED
    BY <1>1, CarsKeepTypes, PTL DEF Spec, NoLeapPastPlayer

-----------------------------------------------------------------------------
(* Cars that keep the distance of a clear spot do not overlap, whatever    *)
(* kind the one that comes back becomes.                                   *)
LEMMA ClearIsApart ==
  ASSUME NEW a \in CarRecords, NEW b \in CarRecords, NEW k \in Kinds,
         Distance(b.y, a.y) >= Height[k] + RespawnGap
  PROVE  ~(a.y < b.y + Height[b.kind] /\ b.y < a.y + Height[a.kind])
  <1>1. /\ a.y \in Int /\ b.y \in Int /\ a.kind \in Kinds /\ b.kind \in Kinds
    BY DEF CarRecords
  <1>2. /\ Height[a.kind] \in Nat /\ Height[b.kind] \in Nat /\ Height[k] \in Nat
        /\ Height[a.kind] < Height[k] + RespawnGap
        /\ Height[b.kind] < Height[k] + RespawnGap
    BY <1>1, TrafficAssumption
  <1> QED
    BY <1>1, <1>2, Sizes DEF Distance

(* As long as the attempts do not run out, a car that comes back overlaps  *)
(* no visible car of its lane, although the test measures with the height  *)
(* of the vehicle it was.                                                  *)
THEOREM RespawnsAreClear ==
  ASSUME MayGiveUp = FALSE
  PROVE  Spec => RespawnsClear
  <1> DEFINE Clear ==
        PassPlayer /\ SomeClearSpot(Driven(nextCar), nextCar)
          => \A j \in Cars \ {nextCar} :
               active[j] /\ car'[j].lane = car'[nextCar].lane
                 => ~Overlap(car', nextCar, j)
  <1>1. TypeOK /\ [Next]_vars => Clear
    <2> SUFFICES ASSUME TypeOK, PassPlayer,
                        SomeClearSpot(Driven(nextCar), nextCar),
                        NEW j \in Cars \ {nextCar},
                        active[j], car'[j].lane = car'[nextCar].lane
                 PROVE  ~Overlap(car', nextCar, j)
      OBVIOUS
    <2>1. PICK lane \in Lanes, y \in SpawnYs, kind \in Kinds :
            /\ ClearSpot(Driven(nextCar), nextCar, lane, y)
            /\ car' = [Driven(nextCar) EXCEPT ![nextCar] = NewCar(kind, lane, y)]
      BY PassedCar
    <2>2. nextCar \in Cars
      BY IterationChanges
    <2> DEFINE f == Driven(nextCar)
               a == NewCar(kind, lane, y)
    <2>3. /\ f \in [Cars -> CarRecords] /\ a \in CarRecords
          /\ a.lane = lane /\ a.y = y
      BY <2>2, DrivenKeeps, NewCarKeeps
    <2>4. car'[nextCar] = a /\ car'[j] = f[j]
      BY <2>1, <2>2, <2>3
    <2>5. f[nextCar].kind \in Kinds /\ f[j] \in CarRecords
      BY <2>2, <2>3 DEF CarRecords
    <2>6. Distance(f[j].y, a.y) >= Height[f[nextCar].kind] + RespawnGap
      BY <2>1, <2>3, <2>4 DEF ClearSpot, Others
    <2> HIDE DEF f, a
    <2>7. ~(a.y < f[j].y + Height[f[j].kind] /\ f[j].y < a.y + Height[a.kind])
      BY <2>3, <2>5, <2>6, ClearIsApart
    <2> QED
      BY <2>4, <2>7 DEF Overlap, Top
  <1> QED
    BY <1>1, CarsKeepTypes, PTL DEF Spec, RespawnsClear
=============================================================================
