-------------------------------- MODULE Menu --------------------------------
(***************************************************************************)
(* The buttons of the menu: drawMenu() draws them in the coordinates of    *)
(* the picture, mouseMenu() tests the mouse in the pixels of the window,   *)
(* each with its own copy of the numbers.  The program registers no        *)
(* reshape callback, so GLUT stretches the picture to a resized window.    *)
(***************************************************************************)
EXTENDS Integers

CONSTANTS
  WindowWidth, WindowHeight,    \* SCREEN_WIDTH, SCREEN_HEIGHT
  WindowSizes,                  \* sizes <<w, h>> the user may give the window
  Pixels                        \* window pixels <<x, y>> he may click at

ASSUME MenuAssumption ==
  /\ {WindowWidth, WindowHeight} \subseteq Nat \ {0}
  /\ WindowSizes \subseteq Nat \X Nat
  /\ Pixels \subseteq Int \X Int

VARIABLES size, mode

menuVars == <<size, mode>>

InitialSize == <<WindowWidth, WindowHeight>>

MenuInit == size = InitialSize /\ mode = "menu"

-----------------------------------------------------------------------------
(* The buttons as mouseMenu() tests them.                                  *)
HitButton(left) == [x |-> left, y |-> WindowHeight \div 2 - 40, w |-> 120, h |-> 40]

BugHitQuitNoGap == HitButton(WindowWidth \div 2)

HitPlay == HitButton(WindowWidth \div 2 - 120 - 20)

HitQuit == HitButton(WindowWidth \div 2 + 20)

(* And as drawMenu() draws them, from numbers of its own.                  *)
DrawnButton(left) == [x |-> left, y |-> WindowHeight \div 2 - 40, w |-> 120, h |-> 40]

BugDrawnPlayNoGap == DrawnButton(WindowWidth \div 2 - 120)

DrawnPlay == DrawnButton(WindowWidth \div 2 - 120 - 20)

DrawnQuit == DrawnButton(WindowWidth \div 2 + 20)

(* mouseMenu()'s test: window coordinates have their origin at the top.    *)
Hits(p, btn) ==
  /\ p[1] \in btn.x..(btn.x + btn.w)
  /\ WindowHeight - p[2] \in btn.y..(btn.y + btn.h)

(* The pixel is on the button in the picture, stretched to the window.     *)
PointsAt(p, btn) ==
  LET x == p[1] * WindowWidth
      y == (size[2] - p[2]) * WindowHeight
  IN  /\ btn.x * size[1] <= x /\ x <= (btn.x + btn.w) * size[1]
      /\ btn.y * size[2] <= y /\ y <= (btn.y + btn.h) * size[2]

-----------------------------------------------------------------------------
Resize == mode # "exited" /\ size' \in WindowSizes /\ UNCHANGED mode

(* mouseMenu(): the left button goes down on PLAY, or on QUIT.             *)
PressPlay(p) ==
  /\ mode \in {"menu", "over"} /\ Hits(p, HitPlay)
  /\ mode' = "game"
  /\ UNCHANGED size

PressQuit(p) ==
  /\ mode \in {"menu", "over"} /\ ~Hits(p, HitPlay) /\ Hits(p, HitQuit)
  /\ mode' = "exited"
  /\ UNCHANGED size

-----------------------------------------------------------------------------
(* In a window of its initial size a click does what the picture under it  *)
(* says, to the pixel, and nothing anywhere else: the two copies of the    *)
(* numbers agree, through the two directions of the y axis.                *)
ButtonsWork ==
  size = InitialSize =>
    \A p \in Pixels : /\ Hits(p, HitPlay) <=> PointsAt(p, DrawnPlay)
                      /\ Hits(p, HitQuit) <=> PointsAt(p, DrawnQuit)

(* How far a resize may go before a button does what the other one says:   *)
(* no further than the gap of 40 in the middle allows, which is to widths  *)
(* from 526 to 685 of the program's 600.                                   *)
ButtonsNotSwapped ==
  LET middle == WindowWidth \div 2
  IN  /\ (middle - 20) * size[1] < (middle + 20) * WindowWidth
      /\ (middle - 20) * WindowWidth < (middle + 20) * size[1]
      => \A p \in Pixels : /\ Hits(p, HitPlay) => ~PointsAt(p, DrawnQuit)
                           /\ Hits(p, HitQuit) => ~PointsAt(p, DrawnPlay)

(* "Click PLAY to Start or QUIT to Exit" (utils.cpp): a click on PLAY does *)
(* not exit.                                                               *)
PlayNeverExits ==
  [][\A p \in Pixels : PressQuit(p) => ~PointsAt(p, DrawnPlay)]_menuVars
=============================================================================
