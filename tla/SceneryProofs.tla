---------------------------- MODULE SceneryProofs ----------------------------
(***************************************************************************)
(* Proofs about Road, Menu and Scenery, for every number of dividers,      *)
(* every speed, and every window and mouse that MenuAssumption allows.     *)
(***************************************************************************)
EXTENDS Scenery, TLAPS

(* The start menu keeps the first road.  No divider lies wholly below the  *)
(* screen, and the dividers always move: without either two of them could  *)
(* be brought together from far apart.                                     *)
SceneryInv ==
  /\ y \in [Dividers -> Int] /\ \A i \in Dividers : -Length <= y[i]
  /\ playerBaseSpeed \in Nat \ {0}
  /\ size \in Nat \X Nat
  /\ mode = "menu" => y = Painted /\ playerBaseSpeed = InitialSpeed

LEMMA PaintedOnScreen ==
  Painted \in [Dividers -> Int] /\ \A i \in Dividers : -Length <= Painted[i]
  <1>1. ASSUME NEW i \in Dividers
        PROVE  i * Spacing \in Int /\ -Length <= i * Spacing
    <2>1. i \in Nat /\ Spacing \in Nat /\ Length \in Nat
      BY RoadAssumption DEF Dividers
    <2>2. i * Spacing \in Nat
      BY <2>1
    <2> QED
      BY <2>1, <2>2
  <1> QED
    BY <1>1 DEF Painted

LEMMA InitScenery == Init => SceneryInv
  BY PaintedOnScreen, RoadAssumption, MenuAssumption
     DEF Init, RoadInit, MenuInit, InitialSize, SceneryInv

LEMMA StepScenery == SceneryInv /\ [Next]_sceneryVars => SceneryInv'
  <1> SUFFICES ASSUME SceneryInv, [Next]_sceneryVars PROVE SceneryInv'
    OBVIOUS
  <1> USE DEF SceneryInv
  <1>0. size' \in Nat \X Nat
    BY MenuAssumption
       DEF Next, ClickPlay, PressPlay, ClickQuit, PressQuit, KeyRestart,
           TimerTick, LastTick, Resize, sceneryVars, menuVars
  <1>1. CASE UNCHANGED roadVars /\ (mode' = "menu" => mode = "menu")
    BY <1>0, <1>1 DEF roadVars, Painted, Dividers
  <1>2. CASE Repaint
    <2>1. y' = Painted /\ playerBaseSpeed' = InitialSpeed
      BY <1>2 DEF Repaint
    <2>2. Painted' = Painted
      BY DEF Painted, Dividers
    <2>3. InitialSpeed \in Nat \ {0}
      BY RoadAssumption
    <2> HIDE DEF SceneryInv
    <2> QED
      BY <1>0, <2>1, <2>2, <2>3, PaintedOnScreen DEF SceneryInv
  <1>3. CASE Scroll /\ mode' # "menu"
    <2>1. \A i \in Dividers : Scrolled(i) \in Int /\ -Length <= Scrolled(i)
      BY RoadAssumption DEF Scrolled
    <2>2. y' \in [Dividers -> Int] /\ \A i \in Dividers : -Length <= y'[i]
      BY <1>3, <2>1 DEF Scroll
    <2>3. playerBaseSpeed' \in Nat \ {0}
      BY <1>3, RoadAssumption DEF Scroll
    <2> QED
      BY <1>0, <1>3, <2>2, <2>3
  <1>4. CASE ClickPlay
    BY <1>1, <1>2, <1>4 DEF ClickPlay, PressPlay
  <1>5. CASE ClickQuit
    BY <1>1, <1>5 DEF ClickQuit, PressQuit
  <1>6. CASE KeyRestart
    BY <1>2, <1>6 DEF KeyRestart
  <1>7. CASE TimerTick \/ LastTick
    BY <1>3, <1>7 DEF TimerTick, LastTick, menuVars
  <1>8. CASE Resize /\ UNCHANGED roadVars
    BY <1>1, <1>8 DEF Resize
  <1>9. CASE UNCHANGED sceneryVars
    BY <1>1, <1>9 DEF sceneryVars, menuVars
  <1> QED
    BY <1>4, <1>5, <1>6, <1>7, <1>8, <1>9 DEF Next

LEMMA SceneryAlways == Spec => []SceneryInv
  BY InitScenery, StepScenery, PTL DEF Spec

(* Every game started from a menu starts on the road as it was painted and *)
(* at the first speed: the start menu never scrolls, and PLAY paints       *)
(* under the game-over menu, where left-over ticks may.                    *)
THEOREM GamesStartOnFreshRoad == Spec => GamesStartPainted
  <1>1. SceneryInv /\ [Next]_sceneryVars
          => [mode # "game" /\ mode' = "game"
                => y' = Painted /\ playerBaseSpeed' = InitialSpeed]_sceneryVars
    <2> SUFFICES ASSUME SceneryInv, Next, mode # "game", mode' = "game"
                 PROVE  y' = Painted /\ playerBaseSpeed' = InitialSpeed
      OBVIOUS
    <2>1. ClickPlay
      BY DEF Next, ClickQuit, PressQuit, KeyRestart, TimerTick, LastTick,
             Resize, menuVars
    <2> QED
      BY <2>1 DEF ClickPlay, SceneryInv, Repaint, roadVars
  <1> QED
    BY <1>1, SceneryAlways, PTL DEF Spec, GamesStartPainted

-----------------------------------------------------------------------------
(* Two dividers that a tick brings together were put back together: one    *)
(* alone comes down on another only from above the screen.                 *)
THEOREM DividersMergeBySpeed == Spec => MergesBySpeed
  <1> DEFINE Merging(i, j) == y[i] # y[j] /\ y'[i] = y'[j]
             Close(i, j) == y[i] - y[j] \in (1 - playerBaseSpeed)..(playerBaseSpeed - 1)
  <1>1. SceneryInv =>
          [Scroll => \A i, j \in Dividers :
             Merging(i, j) => \/ Close(i, j)
                              \/ ScreenHeight < y[i] \/ ScreenHeight < y[j]]_roadVars
    <2> SUFFICES ASSUME SceneryInv, Scroll, NEW i \in Dividers, NEW j \in Dividers,
                        Merging(i, j)
                 PROVE  \/ Close(i, j)
                        \/ ScreenHeight < y[i] \/ ScreenHeight < y[j]
      OBVIOUS
    <2>1. Scrolled(i) = Scrolled(j)
      BY DEF Scroll
    <2> QED
      BY <2>1, RoadAssumption DEF Scrolled, SceneryInv
  <1> QED
    BY <1>1, SceneryAlways, PTL DEF MergesBySpeed
-----------------------------------------------------------------------------
(* Stretching by n and asking whether n times a number lies between n      *)
(* times two others is asking whether it lies between them.                *)
LEMMA Unstretched ==
  ASSUME NEW n \in Nat \ {0}, NEW a \in Int, NEW b \in Int
  PROVE  a * n <= b * n <=> a <= b
  <1>1. a * n \in Int /\ b * n \in Int /\ b * n - a * n = (b - a) * n
    OBVIOUS
  <1>2. a <= b => (b - a) * n >= 0
    OBVIOUS
  <1>3. b < a => (b - a) * n < 0
    OBVIOUS
  <1> QED
    BY <1>1, <1>2, <1>3

(* The two copies of the numbers agree.                                    *)
LEMMA SameButtons == HitPlay = DrawnPlay /\ HitQuit = DrawnQuit
  BY DEF HitPlay, HitQuit, HitButton, DrawnPlay, DrawnQuit, DrawnButton

(* The sides of the buttons, from the middle of the window.                *)
LEMMA Sides ==
  /\ WindowWidth \in Nat \ {0} /\ WindowHeight \in Nat \ {0}
  /\ WindowWidth \div 2 \in Int
  /\ DrawnPlay.x \in Int /\ DrawnPlay.x + DrawnPlay.w = WindowWidth \div 2 - 20
  /\ DrawnQuit.x = WindowWidth \div 2 + 20 /\ DrawnQuit.x + DrawnQuit.w \in Int
  /\ \A btn \in {DrawnPlay, DrawnQuit} :
       btn.y \in Int /\ btn.y + btn.h \in Int
  BY MenuAssumption DEF DrawnPlay, DrawnQuit, DrawnButton

(* In a window of its initial size, whatever that is, a click does what    *)
(* the picture under it says, and nothing anywhere else.                   *)
THEOREM ButtonsAreWhereDrawn == Spec => []ButtonsWork
  <1>1. ButtonsWork
    <2> SUFFICES ASSUME size = InitialSize, NEW p \in Pixels,
                        NEW btn \in {DrawnPlay, DrawnQuit}
                 PROVE  Hits(p, btn) <=> PointsAt(p, btn)
      BY SameButtons DEF ButtonsWork
    <2> DEFINE h == WindowHeight - p[2]
    <2>1. size[1] = WindowWidth /\ size[2] = WindowHeight
      BY DEF InitialSize
    <2>2. WindowWidth \in Nat \ {0} /\ WindowHeight \in Nat \ {0}
      BY MenuAssumption
    <2>3. p[1] \in Int /\ h \in Int
      BY <2>2, MenuAssumption
    <2>4. btn.x \in Int /\ btn.y \in Int
          /\ btn.x + btn.w \in Int /\ btn.y + btn.h \in Int
      BY Sides
    <2>5. Hits(p, btn) <=> /\ btn.x <= p[1] /\ p[1] <= btn.x + btn.w
                           /\ btn.y <= h /\ h <= btn.y + btn.h
      BY <2>3, <2>4 DEF Hits
    <2>6. PointsAt(p, btn) <=>
            /\ btn.x * WindowWidth <= p[1] * WindowWidth
            /\ p[1] * WindowWidth <= (btn.x + btn.w) * WindowWidth
            /\ btn.y * WindowHeight <= h * WindowHeight
            /\ h * WindowHeight <= (btn.y + btn.h) * WindowHeight
      BY <2>1 DEF PointsAt
    <2> HIDE DEF h
    <2> QED
      BY <2>2, <2>3, <2>4, <2>5, <2>6, Unstretched
  <1> QED
    BY <1>1, PTL

(* A resize that leaves the gap between the buttons open never makes one   *)
(* button do what the other one says.                                      *)
THEOREM ResizedButtonsKeepApart == Spec => []ButtonsNotSwapped
  <1>1. SceneryInv => ButtonsNotSwapped
    <2> DEFINE middle == WindowWidth \div 2
    <2> SUFFICES ASSUME SceneryInv, NEW p \in Pixels,
                        (middle - 20) * size[1] < (middle + 20) * WindowWidth,
                        (middle - 20) * WindowWidth < (middle + 20) * size[1]
                 PROVE  /\ Hits(p, DrawnPlay) => ~PointsAt(p, DrawnQuit)
                        /\ Hits(p, DrawnQuit) => ~PointsAt(p, DrawnPlay)
      BY SameButtons DEF ButtonsNotSwapped
    <2>1. /\ WindowWidth \in Nat \ {0} /\ middle \in Int
          /\ p[1] \in Int /\ size[1] \in Int
      BY Sides, MenuAssumption DEF SceneryInv
    <2>2. /\ (middle - 20) * size[1] \in Int /\ (middle - 20) * WindowWidth \in Int
          /\ (middle + 20) * size[1] \in Int /\ (middle + 20) * WindowWidth \in Int
          /\ p[1] * WindowWidth \in Int
      BY <2>1
    <2>3. ASSUME Hits(p, DrawnPlay), PointsAt(p, DrawnQuit) PROVE FALSE
      <3>1. p[1] <= middle - 20
        BY <2>1, <2>3, Sides DEF Hits
      <3>2. p[1] * WindowWidth <= (middle - 20) * WindowWidth
        BY <2>1, <3>1, Unstretched
      <3>3. (middle + 20) * size[1] <= p[1] * WindowWidth
        BY <2>3, Sides DEF PointsAt
      <3> HIDE DEF middle
      <3> QED
        BY <2>2, <3>2, <3>3
    <2>4. ASSUME Hits(p, DrawnQuit), PointsAt(p, DrawnPlay) PROVE FALSE
      <3>1. middle + 20 <= p[1]
        BY <2>1, <2>4, Sides DEF Hits
      <3>2. (middle + 20) * WindowWidth <= p[1] * WindowWidth
        BY <2>1, <3>1, Unstretched
      <3>3. p[1] * WindowWidth <= (middle - 20) * size[1]
        BY <2>4, Sides DEF PointsAt
      <3> HIDE DEF middle
      <3> QED
        BY <2>2, <3>2, <3>3
    <2> QED
      BY <2>3, <2>4
  <1> QED
    BY <1>1, SceneryAlways, PTL
=============================================================================
