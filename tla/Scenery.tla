------------------------------ MODULE Scenery ------------------------------
(***************************************************************************)
(* The menu and the lane dividers together: when the dividers are scrolled *)
(* and when they are painted anew.  The start menu stops timer() before    *)
(* its loop over the dividers, so PLAY paints them only after a game; R    *)
(* paints them during one.  Under the game-over menu they are scrolled if  *)
(* a tick chain is left over (see Pacing).                                 *)
(***************************************************************************)
EXTENDS Road, Menu

sceneryVars == <<roadVars, menuVars>>

Init == RoadInit /\ MenuInit

-----------------------------------------------------------------------------
(* mouseMenu(): PLAY in the start menu, and after a game.                  *)
BugClickPlayPaintsNot ==
  (\E p \in Pixels : PressPlay(p)) /\ UNCHANGED roadVars

ClickPlay ==
  /\ \E p \in Pixels : PressPlay(p)
  /\ \/ mode = "menu" /\ UNCHANGED roadVars
     \/ mode = "over" /\ Repaint

ClickQuit == (\E p \in Pixels : PressQuit(p)) /\ UNCHANGED roadVars

(* keyboardUp('r').                                                        *)
KeyRestart == mode = "game" /\ Repaint /\ UNCHANGED menuVars

(* timer(): a tick, or the one that ends the game, with its head.          *)
TimerTick == mode \in {"game", "over"} /\ Scroll /\ UNCHANGED menuVars

LastTick == mode = "game" /\ Scroll /\ mode' = "over" /\ UNCHANGED size

Next ==
  \/ ClickPlay \/ ClickQuit \/ KeyRestart \/ TimerTick \/ LastTick
  \/ Resize /\ UNCHANGED roadVars

Spec == Init /\ [][Next]_sceneryVars

-----------------------------------------------------------------------------
(* Every game started from a menu starts on the road as it was painted and *)
(* at the first speed, whatever ran under the menu before it, and although *)
(* PLAY in the start menu paints nothing.                                  *)
GamesStartPainted ==
  [][mode # "game" /\ mode' = "game"
       => y' = Painted /\ playerBaseSpeed' = InitialSpeed]_sceneryVars
=============================================================================
