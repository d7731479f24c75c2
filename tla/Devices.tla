------------------------------ MODULE Devices ------------------------------
(***************************************************************************)
(* Session with what the player sees and hears of it: the picture in the   *)
(* window (Screen) and the sound of a crash (Audio).  Both lag behind the  *)
(* globals, each in its own way: the picture until display() runs, the     *)
(* sound until the next tick.                                              *)
(***************************************************************************)
EXTENDS Audio, Screen

deviceVars == <<vars, audioVars, pictureVars>>

DevicesInit == Init /\ AudioInit /\ ScreenInit

CallbackRuns == Callback /\ Sound

Redraw == Display /\ UNCHANGED audioVars

DevicesNext == CallbackRuns \/ Redraw

(* As in Session, and the main loop draws a posted window before it waits. *)
DevicesSpec ==
  /\ DevicesInit /\ [][DevicesNext]_deviceVars
  /\ WF_deviceVars(TimerStep /\ CallbackRuns) /\ WF_deviceVars(Redraw)
=============================================================================
