-------------------------------- MODULE Audio --------------------------------
(***************************************************************************)
(* For Devices: the sound device behind handleAudio(), playMP3() and       *)
(* stopMP3(): the MCI alias "crash", which playMP3 opens and plays and     *)
(* stopMP3 stops and closes.  The program ignores what mciSendString       *)
(* returns and keeps crashMusicPlaying instead, so flag and device must    *)
(* agree by themselves.  The alias "normal" is opened once, by main(),     *)
(* which sets normalMusicPlaying whatever the outcome: handleAudio never   *)
(* opens it again, and it has no variable.                                 *)
(***************************************************************************)
EXTENDS Session

VARIABLES
  clipFile,     \* audio/crashed.mp3 is there and can be played
  crashAlias    \* "open", while the clip plays and after it, or "closed"

audioVars == <<clipFile, crashAlias>>

AudioInit == clipFile \in BOOLEAN /\ crashAlias = "closed"

(* The device refuses to open an alias that is open; play goes on with it. *)
BugPlayMP3Unopened == UNCHANGED crashAlias

PlayMP3 ==
  crashAlias' = IF clipFile /\ crashAlias = "closed" THEN "open" ELSE crashAlias

BugStopMP3KeepsOpen == UNCHANGED crashAlias

StopMP3 == crashAlias' = "closed"

(* What handleAudio() tells the device when it switches its flag.          *)
Sound ==
  /\ \/ crashMusicPlaying' = crashMusicPlaying /\ UNCHANGED crashAlias
     \/ crashMusicPlaying' /\ ~crashMusicPlaying /\ PlayMP3
     \/ ~crashMusicPlaying' /\ crashMusicPlaying /\ StopMP3
  /\ UNCHANGED clipFile

-----------------------------------------------------------------------------
(* No alias is left open behind the flag's back: it could never be opened  *)
(* again, and every later crash of the session would be silent.            *)
NoAliasLeft == crashAlias = "open" => crashMusicPlaying

(* Every crash finds the alias closed, so that its sound starts afresh:    *)
(* also the crash of a game restarted in the middle of an earlier crash,   *)
(* whose sound only a tick of the new game can close.                      *)
CrashFindsSilence ==
  [][~playerCrashed /\ playerCrashed' => crashAlias = "closed"]_<<vars, audioVars>>

(* A crash is heard if the clip is there: the tick that lets the player    *)
(* drive on finds the clip opened for this crash, or opens it.  Only a     *)
(* restart can end a crash before it was heard.                            *)
CrashIsHeard ==
  [][playerCrashed /\ ~playerCrashed' /\ ~KeyRestart /\ clipFile
       => crashAlias' = "open"]_<<vars, audioVars>>
=============================================================================
