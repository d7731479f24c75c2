----------------------------- MODULE MCScenery -----------------------------
(* Model-checks Scenery.  The window has the program's own size, the last  *)
(* widths at which no button does what the other says, twice its width, or *)
(* half its height; the mouse points at, beside, inside and between the    *)
(* edges of both buttons.  As in the program more dividers are painted     *)
(* than fit on the screen, and the speed rises past their spacing.         *)
EXTENDS Scenery

MCSizes ==
  {<<600, 800>>, <<526, 800>>, <<685, 800>>, <<1200, 800>>, <<600, 400>>}
MCPixels ==
  {0, 159, 160, 161, 279, 280, 281, 300, 319, 320, 321, 400, 439, 440, 441, 599}
    \X {0, 219, 360, 399, 400, 401, 420, 439, 440, 441, 799}
=============================================================================
