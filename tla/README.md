# Lane Dodge Car Game: TLA+ development

The program is a small GLUT game in C++ (1248 lines in `src/*.cpp` and
`src/*.h`; everything below `src/include` and `src/lib` is vendored). The player
steers a car across four lanes, oncoming vehicles come down the screen, a
collision costs one of three lives, and a record is kept in `highscore.dat`.
There are no threads: freeglut's main loop dispatches callbacks one at a time.
What makes the program hard to test is that its whole state is global, every
callback writes it, and the game lives only as long as each call of `timer()`
remembers to queue the next one.

## 1. Inventory

| Component | State | Operations | Modelled in |
|---|---|---|---|
| Session control (`game.cpp`, `utils.cpp`, `input.cpp`) | `showMenu`, `gameOver`, `lives`, `score`, `playerCrashed`, `playerVisible`, `respawnTimer`, `gameOverTimer`, release and speed-up counters, queued calls of `timer()`, close box | `main`, `mouseMenu`, `keyboardUp`, `keyboard`, `timer` | `Session`, against `GameRules` |
| Steering (`input.cpp`) | `playerLane`, `playerLaneOffset`, `crashX`, `crashY` | `keyboard`, crash, recovery, restart | `Steering`, against `Track` |
| Tick chains and pacing | queued calls of `timer()`, frame by frame | `glutTimerFunc`, PLAY, R, early returns of `timer` | `Pacing` |
| Road geometry (`utils.cpp`) | none | `lanePosX`, horizontal half of `checkCollision` | `RoadGeometry` |
| High score (`hud.cpp`) | `highScore`, the file | `loadHighScore`, `updateHighScore`, `saveHighScore` | in `Session` for one process; `RecordFile`, against `RecordBook`, over launches, kills and several processes |
| Oncoming traffic (`utils.cpp` 377-558, `vehicle.cpp`) | `oppositeCars[]` | advance, block, change lane, respawn | `Traffic`; with the callbacks in `LaneDodge` |
| Lane dividers (`road.cpp`) | `laneDividers[]`, `playerBaseSpeed` | paint, scroll and wrap | `Road`; under the menus in `Scenery` |
| Audio (`utils.cpp` 29-66) | `crashMusicPlaying`, MCI aliases | `handleAudio`, `playMP3`, `stopMP3` | the flag in `Session`; the device in `Audio`, run by `Devices` |
| Menu buttons (`utils.cpp` 71-114, 225-271) | size of the window, mouse | `mouseMenu`'s hit test, `drawMenu` | `Menu`, run by `Scenery` |
| Drawing | the window's picture, a pending redisplay | `display`, `draw*`, `glutPostRedisplay` | `Screen`, run by `Devices`; shapes and colours not modelled |

How they interact: all through globals. `timer()` calls `handleAudio`,
`checkCollision`, `updateHighScore`; `mouseMenu` and `keyboardUp` repeat the same
restart block and call `initOppositeCars`. Every callback but `timer()` may run
between any two calls of `timer()`, in any state of the game.

Behaviours that are hard, and the property each asks for:

- *Tick chains.* PLAY and R always queue a tick, whether one is queued or not;
  the start menu and the last crash let theirs die. A running game must always
  have one (`NeverFrozen`); how many there are is `ChainLedger`.
- *Restarts at any moment.* R may come in the middle of a crash, with its
  countdown, sound and darkness under way. What the restart leaves behind must
  not reach into the next crash (`CrashRunsItsCourse`, `VisibleWhenDriven`,
  `CrashFindsSilence`), and the counts it leaves behind must not delay the next
  game (`FirstCarInTime`).
- *Lives, hidden cars, game over.* They are changed in different functions and
  must agree (`HiddenMatchesLives`, `ImplementsRules`).
- *The end of a game.* The last tick records the score, greys the close box and
  falls silent (`ImplementsRules`, `HighScoreDurable`, `CloseGreyedAtGameOver`,
  `SilentGameOver`); file and window lookup may fail.
- *Two coordinates for one place.* Lane numbers and pixels (`MeetIffSameLane`,
  `SpotsDistinct`), lane and sub-position (`ImplementsTrack`).
- *A fleet updated in place.* Each car decides on neighbours already moved or
  not, a lane change lasts 50 ticks after one look, waiting cars share the array
  with released ones (`ParkedAbove`, `ChangesToNeighbour`, `NoLeapPastPlayer`,
  `RespawnsClear`, `CarsLeave`).
- *State kept twice.* A flag and a sound device whose errors nobody reads
  (`NoAliasLeft`, `CrashFindsSilence`, `CrashIsHeard`), the globals and the
  picture in the window (`NeverStale`, `EndIsShown`), buttons drawn in one
  coordinate system and tested in another, from two copies of the numbers
  (`ButtonsWork`, `ButtonsNotSwapped`), a record in memory and one in a file that
  may not open and is truncated before it is written (`ImplementsRecordBook`,
  `OnlyStaleCopiesLower`), dividers that one restart repaints and another start
  does not (`GamesStartPainted`).
- *Everything together.* The callbacks and the cars share the fleet, the player's
  lane and the loop; the game must come to the next point or crash from whatever
  state restarts and crashes leave (`ImplementsTraffic`, `GameGoesOn`).

`PROJECT.json` lists every hazard with its line and the properties that cover it.

## 2. Modules

- `Steering` has one action per operation on the player's car. `Track` is what
  the driver is promised: a row of spots, single steps, stuck while crashed.
- `Session` instances `Steering` as `Wheel` and adds all other global state. One
  action per callback and phase of `timer()`: its early returns are the guards
  of `TimerMenu`, `TimerCrashed`, `TimerGameOver`, `TimerDrive`. A callback is
  atomic, except that the loop over the released cars takes a step per
  iteration (`MoveCar`), followed by one of `NoCollision`, `Crash(c)`,
  `LoseLastLife(c)`; no other callback may run until that step is done
  (`pc = "cars"`). Crashed is tested before game over, as in the code.
  `timers` counts what `glutTimerFunc` has queued.
- `GameRules` is the abstract game: menu, driving, crashed, over, exited, with
  lives, score and record. `Session!Rules` is the refinement mapping.
- `Pacing` extends `Session` with frames: a call queued by
  `glutTimerFunc(1000 / 60, ...)` is made in the next frame. Its other variables
  are history: frames since the last speed-up and the last release, ticks of the
  crash under way, and chains that were added.
- `RoadGeometry` extends `Steering` with one oncoming vehicle that may be anywhere
  and of any type, and states `lanePosX` and the overlap test in thirds of a
  pixel, so nothing is rounded.
- `Traffic` is the loop of `timer()` over `oppositeCars` with position, lane,
  type, lane change and speed: `Slide`, `Decide` and `Advance` are what an
  iteration does to a car, `Drive` and `PassPlayer` the iteration without and
  with a respawn, `Crash`, `GameOver` and `NoCollision` the outcomes of
  `checkCollision`. The rest of the program is its environment: `Steer`,
  `Restart`, and releases at any tick (`BeginTick`, `ReleaseOnly`), more than
  `Session` allows.
- `LaneDodge` extends `Session` with `Traffic`'s `car` and instances `Traffic` on
  Session's own `active`, `activeOppositeCars`, `playerLane`, `pc` and `nextCar`.
  An action is a Session action joined with what it does to the cars: `DriveCar`
  and `PassCar` are `MoveCar` decided by positions, `HitCar` is `Crash` or
  `LoseLastLife` of the first car `checkCollision` finds, `Restart` sets the fleet
  up anew, the rest leaves it alone. Two refinements close the circle: what
  happens is a behaviour of `Session` (`SessionSafety`) and one of `Traffic`
  (`ImplementsTraffic`), so what each module leaves open covers the other.
- `Audio` extends `Session` with the state of the MCI alias `crash`; `Sound` runs
  `playMP3` or `stopMP3` where `handleAudio` switches its flag.
- `Screen` extends `Session` with `posted`, a redisplay asked for, and `shown`, the
  picture last drawn. `Picture` is `display()`, as which things are drawn where.
  `Posts`, `LastCrashPosts` and `PostsNothing` sort the callbacks by whether they
  call `glutPostRedisplay`.
- `Devices` puts `Audio` and `Screen` together: a step is a callback with its sound
  (`CallbackRuns`) or a run of `display()` (`Redraw`).
- `Menu` holds both copies of the button coordinates: `HitPlay` and `HitQuit` are
  the numbers of `mouseMenu` (`utils.cpp:77-79`), `DrawnPlay` and `DrawnQuit` those
  of `drawMenu` (`utils.cpp:226-228`). `Hits` is `mouseMenu`'s test on window
  pixels, `PointsAt` what the user sees under the mouse.
- `Road` is `laneDividers[]`: `Scrolled` one divider of the loop at the head of
  `timer()`, in integers.
- `Scenery` puts `Menu` and `Road` together: which clicks, keys and ticks scroll the
  dividers and which paint them anew.
- `RecordFile` is `highscore.dat` under several processes. `Launch` reads it, or
  finds none, or cannot open it (`hud.cpp:12`); in the last case `highScore` stays 0
  with a number on the disk. `Record` opens the file for writing, or fails to, and
  truncates it; `Write` closes it. In between a process may be killed, the disk be
  full, or another process read or write; `WrittenOver` says what the file reads
  when two copies write from its start: the digits of a longer number stay behind
  a shorter one. `orderly`, chosen at the start and never changed, excludes
  overlapping copies, torn saves and an existing file that does not open for
  reading; it does not exclude failures to open for writing. `RecordBook` is the
  promise for orderly behaviours: a record that only rises. `fresh`, the copies
  that know what was last saved, is a history variable.
- `MC*` modules only name what is checked; `*Proofs` hold theorems.
- Operators named `Bug...` are mutants: each stands above the definition it
  changes, and `PROJECT.json` says which property it must violate.

Correspondence, beyond the names: `active[c]` is `oppositeCars[c].active`,
`Released` are the indices below `activeOppositeCars`, `disk` is the content of
`highscore.dat`, `closeEnabled` is `SC_CLOSE` of the system menu, `exited` is
`exit(0)` or the window gone. `crashPos` is the pair of lane and sub-position
instead of `(crashX, crashY)`; `SpotsDistinct` is why nothing is lost, and
`playerY` never changes.

Abstractions in `Session`: an iteration of the car loop may or may not take the
car off the screen, and any visible released car may be the one hit, or none.
This allows more than the program does, so safety carries over; `LaneDodge` says
which car it is. `crashedVehicleIdx`, `newHighScore`,
`playerMinSpeed`, `playerMaxSpeed` are written and never read, and
`playerBaseSpeed` is always `0.18 * playerKmh`; none has a variable. A malformed
`highscore.dat` reads as 0, like a missing one and one that cannot be opened
(`LoadHighScore`).

## 3. Runs

| Run | Bounds | What it shows |
|---|---|---|
| `road_geometry` | the program's constants: 4 lanes of 120, 4 sub-positions, widths 50, 60, 70 | types, `CrashBurstOnCar`, refinement of `Track`; `MeetIffSameLane`, `SpotsDistinct` |
| `session_safety` | 3 cars, 3 lives, 2 lanes, delays 2 to 4, at most 3 queued ticks, score to 2; file and window lookup may fail | types, `IInv`, `NeverFrozen`, `HiddenMatchesLives`, `VisibleWhenDriven`, `SilentGameOver`, refinement of `GameRules` |
| `devices` | 2 cars, 2 lives, 2 lanes, delays 1 and 2 (first car after 1, the next after 2), at most 2 queued ticks; file and window never fail, the sound clip may be missing | `HighScoreDurable`, `CloseGreyedAtGameOver`, `NoAliasLeft`, `CrashFindsSilence`, `CrashIsHeard`, `NeverStale`; under fairness `ImplementsFairRules`, `TrafficKeepsComing`, `EndIsShown` |
| `pacing` | 2 cars, 2 lives, delays 2 to 5, at most 3 queued ticks | `ChainLedger`, `FirstCarInTime`, `SteadyPace`, `CrashRunsItsCourse` |
| `traffic` | 2 cars of 2 kinds, 3 lanes, a screen of 9 units, lane change of 2 ticks | types, `ParkedAbove`, `ChangesToNeighbour`, `NoLeapPastPlayer`, `RespawnsClear` |
| `lane_dodge` | 3 cars of one kind, 3 lives, 2 lanes, first car after 1 tick and the next after 3, at most 2 queued ticks, score to 3, a screen of 8 units, respawns that fail | `SessionSafety`, `ImplementsTraffic`; under fairness `CarsLeave`, `GameGoesOn` |
| `record_file` | 2 copies, scores to 4 in numbers of one and of two digits, opens for reading and for writing that may fail, orderly or not | `ImplementsRecordBook`, `OnlyStaleCopiesLower` |
| `scenery` | the program's window and buttons, 5 window sizes, clicks on, beside and within every edge; 5 dividers 7 units apart, a screen of 24 units, speeds from 2 to 9 | `ButtonsWork`, `ButtonsNotSwapped`, `GamesStartPainted`, `MergesBySpeed` |
| `play_never_exits` | as `scenery`, speeds to 3 | disagreement of the menu's text with the code, below |
| `pacing_speedup`, `pacing_game_over` | as `pacing` | two disagreements of a comment and a text with the code, below |

Why the bounds are enough. Delays only count down, and what matters is their
order and whether one is under way when a callback comes: `RespawnDelay` of 4
has both halves of the blink, `InitialDelay < SpawnInterval` as in the program.
Three lives give crashes before and after another one, and the last. Three
queued ticks give two chains beside the first. `MaxTimers` disables PLAY and R
at the bound, and score, speed and `trafficIncreaseTimer` saturate, as comments
at the constants say. The car moves on a road of one spot where its place is
not the question. In `Traffic` a unit stands for about 25 pixels: cars are 3 and 4
high and advance 1 or 2 at a tick, so a fast car catches up with, blocks behind,
and drives past a slow one within a screen, and the collision window is wider
than a step, as in the program (70 pixels to 8). A middle lane has both a left
and a right neighbour; three cars are needed for a row whose rear-most alone may
turn aside. In `lane_dodge` three cars and three lives give an ordinary crash, a
crash after a crash and the last one while another car is still on the road;
restarts may come between any two ticks, a second tick chain is allowed, and
`MayGiveUp` lets cars come back on top of each other. A score of 3 has three
points to go on from, two of them with cars that have come back. In `devices` two
crashes and a restart in between are enough for every transition of sound and
picture, and two lanes for the picture to change with a key. In `record_file` one copy is more
recent than the other, whichever wrote last; `PlaceValues = {1, 3}` counts in base
three, so that 3 and 4 have two digits and a shorter number can be written over a
longer one. The sizes in `scenery` are the program's, the last widths on either side
at which no button does the other one's work, twice the width and half the
height. `Road`'s dividers are painted beyond the
screen, as in the program, where 15 of them 70 pixels apart reach to 980, and its
speed rises past their spacing. `CHECK_DEADLOCK FALSE` is set where the program may
end (the session, devices, pacing, scenery and composition configurations).

Fairness: Session's `Spec` assumes weak fairness of `TimerStep` only. `glutMainLoop`
dispatches every queued timer that is due, between and before other events, and
`timer()` terminates; nothing is assumed of the player. `LaneDodge` and `Devices`
assume it of the same steps with their own variables added (`TickStep`,
`TimerStep /\ CallbackRuns`): the cars' moves and the sound are part of `timer()`.
`Devices` adds weak fairness of `Redraw`: the main loop draws a posted window
before it waits. `Traffic`, `Pacing`, `RecordFile` and `Scenery` are checked for
safety only and need none.

Three runs end in a counterexample on purpose, each a comment or text of the
program that the code does not keep:

- `utils.cpp:340` "Increase player speed by 10 km/hr every 10 seconds": a second
  chain ticks and everything runs at double speed. In TLC's trace it comes from a
  PLAY clicked before `main()`'s first tick has run (`utils.cpp:106`); R during a
  game (`input.cpp:69`) adds one in the same way.
- `utils.cpp:276` "Click PLAY to Restart or QUIT to Exit": a chain that an early PLAY
  (again TLC's trace) or R has added outlives the game and counts `gameOverTimer`
  down to `exit(0)` under that menu. On a single chain the countdown is never run
  (`ChainLedger`).
- `utils.cpp:279` "Click PLAY to Start or QUIT to Exit": GLUT stretches the picture
  with the window, `mouseMenu` does not (`utils.cpp:75`, `utils.cpp:111`), and in a
  window 1200 wide a click on the drawn PLAY button exits. `ButtonsWork` is what
  holds at the initial size, `ButtonsNotSwapped` how far a resize may go.

Five properties state a limit of the code beside what it keeps.
`ImplementsRecordBook` holds of orderly behaviours only, because a kill between
truncating and writing the file (`hud.cpp:36-39`) loses the record, and so does a
launch that cannot open an existing file (`hud.cpp:12`). `OnlyStaleCopiesLower` says
who can lower the record when behaviours are not orderly: a copy that does not
know what was last saved, because it was launched before that or in the middle of a
save or could not read the file. Beside that, a save that is cut short loses the
record and overlapping saves may leave the digits of both; no property forbids it,
because the code does nothing against it. `SteadyPace` leaves out the first car of a
later game, which may come at once instead of after the "2 seconds" of
`utils.cpp:329`, because a restart keeps `trafficIncreaseTimer`; `FirstCarInTime` says
that it never comes later. `CloseGreyedAtGameOver` and `HighScoreDurable` are about
lookups and opens that succeed: after a failed one nothing in the code brings the
close box, or the file, back into step.

## 4. Proofs

Every safety property that a passing run checks is a theorem, for every value of
the constants: numbers of cars, lanes, lives and dividers, delays, sizes and
speeds. Assumed are the named ASSUMEs of the modules only, which the runs
evaluate: delays and counts are positive, `InitialDelay <= SpawnInterval`, the
start lies on the road; in `RoadGeometry`, that a vehicle fits in its lane and that
`2 * LaneWidth < 3 * CarWidth + 2 * w`, which the program meets by a few pixels; in
`Traffic`, that a vehicle advances less than the player's car is high and that
vehicles differ in height by less than the gap a respawn tests for. `LaneDodge`
assumes of its fleet what `Traffic` assumes (`FleetAssumption`). One theorem has a
hypothesis of its own: `RespawnsAreClear`, and with it `GameRespawnsClear`, is
about programs in which the 20 attempts of a respawn never run out while a clear
spot exists (`MayGiveUp = FALSE`, as in the run `traffic`); when they do, the code
puts one car on top of another, and the run `lane_dodge` allows it.

Each module below has its inductive invariant. `IInv` is an invariant of the run
`session_safety`; the others were checked by TLC on the run of their component
before they were proved.

- `SessionProofs`. `TypeOK` is not inductive: `respawnTimer` stays in its range only
  because a crashed player's countdown is positive, the tick count because the loop
  holds the tick it will queue again. `IInv` adds what the loop may rely on
  (`LoopInv`), that the menu, the lives and `gameOver` agree (`LivesInv`), that the
  countdown to `exit(0)` is running (`CountdownInv`), and `CrashCountdown`;
  `StepIInv` has a step per action. On top of it `TypeCorrect`, `InductiveAlways`,
  `NeverFreezes`, `DrivenIsVisible`, `GameOverIsSilent`, `RecordIsDurable`,
  `CloseBoxFollowsGameOver`, and `TrafficLedger`, with the cardinality of the hidden
  cars. Each first names the actions that write the state it is about (`ScoreWriters`, `CloseWriters`,
  `LedgerWriters`). `SessionImplementsRules` is the refinement of `GameRules`: a
  step of every action is a move of the rules or a stutter.
- `RoadGeometryProofs`: the car stays on the road, the burst on the car, and
  `Steering` implements `Track` for every number of lanes and sub-positions (the
  carry is a lemma about products); `CollisionIsByLane`, which puts two different
  lanes a lane's width apart; `SpotsAreDistinct`, for every lane wider than the
  car.
- `TrafficProofs`: `CarsKeepTypes` rests on a lemma for each stage of an iteration of
  the loop (`SlideKeeps`, `DecideKeeps`, `DrivenKeeps`), which the next properties
  reuse: driving moves the car of the iteration down, by its speed at most, and
  nothing else. `WaitingCarsStayAbove` and `ChangesLeadNextDoor` are inductive with
  `TypeOK`; `NothingLeaps` and `RespawnsAreClear` are about single steps from it.
- `LaneDodgeProofs`: the two halves of the whole game justify each other.
  `OnlyReleasedHit`, that `checkCollision` finds released cars only, needs
  `ParkedAbove`, a fact about the cars; that a collision check comes in a running
  game only (`CheckEnds`) needs `LoopInv`, a fact about the callbacks. Neither
  refinement can be proved before the other, so the invariant `GameInv` joins both
  and is kept by a step that is at once one of `Session` (`GameStepSession`) and of
  `Traffic` (`GameStepFleet`). `GameImplementsSession` and `GameImplementsTraffic` follow, and
  what is proved of a half then holds of the game: `GameIsSound`,
  `GameNothingLeaps`, `GameRespawnsClear`, `GamePlaysByRules`. (`Facts` is a second
  instance of `Traffic`, of the module that holds its theorems; `SameCars` and
  `SameStep` identify the two.)
- `DevicesProofs`: a callback with its sound, or a redraw, is a step of Session or a
  stutter, so `IInv` holds (`SessionInDevices`) and `ScreensTellTrue` and
  `DevicesKeepRules` follow. `NoAliasIsLeft` says one half of what `FlagFollowsDevice`
  keeps, that flag and device agree; the other half, that a set flag has an open
  device behind it, is what `CrashesAreHeard` needs. `CrashesFindSilence` rests on
  `LoopInv`: the tick that entered the loop has stopped the sound.
  `WindowIsNeverStale` is inductive as it stands: every action that changes
  `Picture` posts, but those the property leaves out.
- `RecordFileProofs`: `FileInv` says of a copy that its `fresh` mark is honest
  (`FreshKnows`) and that in an orderly behaviour the one copy that runs is fresh
  (`OneKnows`). From the first `FreshCopiesRaise`, from the second
  `OrderlyCopiesKeepRecord`, the refinement of `RecordBook`. Scores have no bound
  but the model's `MaxScore`, numbers any length; `Launches` has a case for each way
  the file may open or not, and `Overwriting` says that a save alone leaves its own
  number and that of an overlapping one a number.
- `PacingProofs`: `PaceInv` adds to `IInv` that the frame's due ticks are queued
  ones, that the start menu precedes every chain, `ChainLedger`, and
  `TicksBehindFrames`: on a single chain each of `timer()`'s counters is at most the
  number of frames since it was reset. `ChainLedger` and `TicksBehindFrames` need
  each other: at most one tick is due in a frame because there is one chain.
  `FirstCarSoon` compares the frames since a game began with the release counter,
  for `FirstCarComesInTime`, on however many chains; `CrashOnCourse`, that countdown
  and ticks of a crash add up to `RespawnDelay`, gives `CrashesRunTheirCourse`.
- `SceneryProofs`: `SceneryInv` says that the start menu still has the first road,
  which gives `GamesStartOnFreshRoad`, that no divider lies wholly below the screen,
  and that the speed is positive. The last two are what `DividersMergeBySpeed`
  needs: at speed 0 a divider at the upper edge would wait there for the next.
  `ButtonsAreWhereDrawn` first shows that `drawMenu`'s numbers are `mouseMenu`'s
  (`SameButtons`) and then cancels the stretching of the picture;
  `ResizedButtonsKeepApart` is about every other size.

Only model-checked: liveness, which TLAPS cannot prove under fairness
(`TrafficKeepsComing`, `CarsLeave`, `GameGoesOn`, `EndIsShown`, and the fairness in
`ImplementsFairRules`, whose safety half is `DevicesKeepRules`); and the three
disagreements of section 3, which hold of nothing.

## 5. Not modelled

- Everything below `src/include` and `src/lib`: the vendored headers and libraries
  of MinGW, the Windows driver kit, OpenGL and freeglut, some 394,000 of the
  repository's 395,000 lines. The program uses a dozen of their functions, which
  appear as external definitions. The game's own code is 1248 lines.
- Drawing but for `Screen`: shapes, colours and coordinates of what is drawn.
- Floats: `lanePosX` is exact here, rounded in the program; car and divider
  positions and speeds are small integers, a lane change of `0.02f` a tick is a
  count of ticks, and `playerKmh` and `playerBaseSpeed`, which grow without bound,
  saturate.
- The x coordinate of a car that is sliding between lanes. Only drawing reads it;
  `checkCollision` goes by the lane, which changes when the slide ends.
- Code that is never called: `updateLaneDividers`, `updateVehicleSpeedByType`.
- GLUT's timers are exact frames in `Pacing`, and unordered in `Session`; the
  background music, opened once by `main()`, has no state.

## 6. Plan

Every part of the program's own code has a module, and every safety property a
theorem. What is left are stronger statements:

1. `Pacing`, of any number of chains: the counters of `timer()` run at most
   `1 + extra` times as fast as the frames. `TicksBehindFrames` is the case 0.
2. `Road`: how much closer two dividers may come in one round of the screen.
3. `Traffic`: how many slides may end in the same place at the same time. The target
   lane is checked when a slide starts, and not again (`utils.cpp:474`).
