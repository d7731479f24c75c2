----------------------------- MODULE GameRules -----------------------------
(***************************************************************************)
(* The rules of the game as a player knows them: what the session of       *)
(* callbacks and timers promises.  A game is played from the menu, a crash *)
(* costs a life and holds the player up for a while, the last crash ends   *)
(* the game and records a new best score, and a restart begins afresh.     *)
(***************************************************************************)
EXTENDS Integers

CONSTANTS Lives, MaxScore

VARIABLES mode, lives, score, best

ruleVars == <<mode, lives, score, best>>

Init ==
  /\ mode = "menu"
  /\ lives = Lives
  /\ score = 0
  /\ best \in 0..MaxScore

(* PLAY in the start menu.                                                 *)
Start == mode = "menu" /\ mode' = "driving" /\ UNCHANGED <<lives, score, best>>

(* An oncoming car has been passed.                                        *)
Pass ==
  /\ mode = "driving"
  /\ score' = score + 1 /\ score' <= MaxScore
  /\ UNCHANGED <<mode, lives, best>>

(* A crash that costs one life of several.                                 *)
Hit ==
  /\ mode = "driving" /\ lives > 1
  /\ mode' = "crashed" /\ lives' = lives - 1
  /\ UNCHANGED <<score, best>>

(* The crash that costs the last life.                                     *)
LastHit ==
  /\ mode = "driving" /\ lives = 1
  /\ mode' = "over" /\ lives' = 0
  /\ best' = IF score > best THEN score ELSE best
  /\ UNCHANGED score

Recover ==
  /\ mode = "crashed"
  /\ mode' = "driving"
  /\ UNCHANGED <<lives, score, best>>

(* R during a game, or PLAY after it.                                      *)
Restart ==
  /\ mode \in {"driving", "crashed", "over"}
  /\ mode' = "driving" /\ lives' = Lives /\ score' = 0
  /\ UNCHANGED best

Leave == mode # "exited" /\ mode' = "exited" /\ UNCHANGED <<lives, score, best>>

Next == Start \/ Pass \/ Hit \/ LastHit \/ Recover \/ Restart \/ Leave

Spec == Init /\ [][Next]_ruleVars

(* A player who keeps watching a crash gets to drive on.                   *)
FairSpec == Spec /\ WF_ruleVars(Recover)
=============================================================================
