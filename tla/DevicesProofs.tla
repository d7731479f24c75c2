---------------------------- MODULE DevicesProofs ----------------------------
(***************************************************************************)
(* Proofs about the picture and the sound of the game (Screen and Audio,   *)
(* composed in Devices), for every value of the constants of Session.  A   *)
(* callback of Devices is one of Session, so the inductive invariant IInv  *)
(* of SessionProofs holds here too.                                        *)
(***************************************************************************)
EXTENDS Devices, SessionProofs

(* A step of Devices is one of Session or leaves it alone.                 *)
LEMMA DevicesSession == [DevicesNext]_deviceVars => [Next]_vars
  <1>1. Callback => Next
    BY Zenon DEF Callback, Posts, LastCrashPosts, PostsNothing, Next, UserStep,
                 TimerStep, TimerStart, TimerBody
  <1>2. Display => UNCHANGED vars
    BY Zenon DEF Display
  <1>3. UNCHANGED deviceVars => UNCHANGED vars
    BY Zenon DEF deviceVars
  <1> QED
    BY <1>1, <1>2, <1>3 DEF DevicesNext, CallbackRuns, Redraw

LEMMA SessionInDevices == DevicesSpec => []IInv
  <1>1. DevicesInit => IInv
    BY InitIInv DEF DevicesInit
  <1>2. IInv /\ [DevicesNext]_deviceVars => IInv'
    BY DevicesSession, StepIInv
  <1> QED
    BY <1>1, <1>2, PTL DEF DevicesSpec

(* What the screens say of the game stays true beside picture and sound:   *)
(* the record shown is the one on the disk, and the close box is greyed    *)
(* exactly under the game-over menu, when file and window can be had.      *)
THEOREM ScreensTellTrue == DevicesSpec => [](HighScoreDurable /\ CloseGreyedAtGameOver)
  <1> DEFINE Kept == HighScoreDurable /\ CloseGreyedAtGameOver
  <1>1. DevicesInit => Kept
    <2> SUFFICES ASSUME DevicesInit PROVE Kept
      OBVIOUS
    <2>1. DiskReadable = {TRUE} => highScore = Loaded(disk)
      BY DEF DevicesInit, Init, LoadHighScore
    <2> QED
      BY <2>1 DEF DevicesInit, Init, HighScoreDurable, CloseGreyedAtGameOver
  <1>2. IInv /\ Kept /\ [DevicesNext]_deviceVars => Kept'
    BY DevicesSession, StepDurable, StepClose
  <1> QED
    BY <1>1, <1>2, SessionInDevices, PTL DEF DevicesSpec

(* Seen and heard, the game is still played by the rules: the safety half  *)
(* of ImplementsFairRules, for every order of callbacks and redisplays.    *)
THEOREM DevicesKeepRules == DevicesSpec => ImplementsRules
  <1>1. DevicesInit => Rules!Init
    BY InitImplementsRules DEF DevicesInit
  <1>2. IInv /\ [DevicesNext]_deviceVars => [Rules!Next]_(Rules!ruleVars)
    BY DevicesSession, StepImplementsRules
  <1> QED
    BY <1>1, <1>2, SessionInDevices, PTL
       DEF DevicesSpec, ImplementsRules, Rules!Spec

-----------------------------------------------------------------------------
(* The flag and the device agree: the alias is open behind a set flag only, *)
(* and behind a set flag it is open if there is a clip to play.            *)
FlagFollowsDevice ==
  /\ crashAlias \in {"open", "closed"}
  /\ NoAliasLeft
  /\ clipFile /\ crashMusicPlaying => crashAlias = "open"

LEMMA StepAlias ==
  FlagFollowsDevice /\ [DevicesNext]_deviceVars => FlagFollowsDevice'
  <1> SUFFICES ASSUME FlagFollowsDevice, [DevicesNext]_deviceVars
               PROVE  FlagFollowsDevice'
    OBVIOUS
  <1>1. CASE Sound
    <2>1. CASE crashMusicPlaying' = crashMusicPlaying /\ UNCHANGED crashAlias
      BY <1>1, <2>1, Zenon DEF Sound, FlagFollowsDevice, NoAliasLeft
    <2>2. CASE crashMusicPlaying' /\ PlayMP3
      BY <1>1, <2>2 DEF Sound, PlayMP3, FlagFollowsDevice, NoAliasLeft
    <2>3. CASE ~crashMusicPlaying' /\ StopMP3
      BY <2>3 DEF StopMP3, FlagFollowsDevice, NoAliasLeft
    <2> QED
      BY <1>1, <2>1, <2>2, <2>3, Zenon DEF Sound
  <1>2. CASE UNCHANGED <<vars, audioVars>>
    BY <1>2, Zenon
       DEF vars, audioVars, FlagFollowsDevice, NoAliasLeft
  <1> QED
    BY <1>1, <1>2, Zenon DEF DevicesNext, CallbackRuns, Redraw, Display, deviceVars

LEMMA AliasFollowsFlag == DevicesSpec => []FlagFollowsDevice
  <1>1. DevicesInit => FlagFollowsDevice
    BY DEF DevicesInit, Init, AudioInit, FlagFollowsDevice, NoAliasLeft
  <1> QED
    BY <1>1, StepAlias, PTL DEF DevicesSpec

(* No alias is left open behind the flag's back, where no later crash      *)
(* could open it again.                                                    *)
THEOREM NoAliasIsLeft == DevicesSpec => []NoAliasLeft
  <1>1. FlagFollowsDevice => NoAliasLeft
    BY DEF FlagFollowsDevice
  <1> QED
    BY <1>1, AliasFollowsFlag, PTL

(* Only a collision crashes the player, and only a tick lets him drive on  *)
(* or a restart puts him back.                                             *)
LEMMA CrashWriters ==
  ASSUME [Next]_vars, playerCrashed' # playerCrashed
  PROVE  \/ ~playerCrashed /\ \E c \in Released : Crash(c)
         \/ TimerCrashed
         \/ KeyRestart
         \/ ClickPlay /\ gameOver
  <1>1. ASSUME NEW c \in Released, Crash(c) PROVE ~playerCrashed
    BY <1>1, Zenon DEF Crash, StartRespawn, HoldUp, Wheel!CrashHere
  <1> QED
    BY <1>1, Zenon
       DEF Next, UserStep, TimerStep, TimerStart, TimerBody, ClickPlay,
           ClickQuit, KeyQuit, CloseWindow, Exit, Steer, Wheel!KeyLeft,
           Wheel!KeyRight, TimerMenu, TimerGameOver, TimerDrive, MoveCar,
           NoCollision, LoseLastLife, EndGame, vars, steerVars

(* A crash finds the alias closed, so that its sound starts afresh: the    *)
(* tick that found the player driving stopped the sound before it moved    *)
(* the cars, whichever crash, ended or abandoned, had started it.          *)
THEOREM CrashesFindSilence == DevicesSpec => CrashFindsSilence
  <1> DEFINE Silence == ~playerCrashed /\ playerCrashed' => crashAlias = "closed"
  <1>1. IInv /\ FlagFollowsDevice /\ [DevicesNext]_deviceVars => Silence
    <2> SUFFICES ASSUME IInv, FlagFollowsDevice, [Next]_vars,
                        ~playerCrashed, playerCrashed'
                 PROVE  crashAlias = "closed"
      BY DevicesSession
    <2>1. playerCrashed' # playerCrashed
      OBVIOUS
    <2>2. PICK c \in Released : Crash(c)
      <3>1. ~TimerCrashed
        BY Zenon DEF TimerCrashed
      <3>2. ~NewGame
        BY Zenon DEF NewGame, ResetPlayer, Wheel!BackToStart
      <3> QED
        BY <2>1, <3>1, <3>2, CrashWriters DEF KeyRestart, ClickPlay
    <2>3. ~crashMusicPlaying
      BY <2>2 DEF Crash, LoopDone, IInv, LoopInv
    <2> QED
      BY <2>3 DEF FlagFollowsDevice, NoAliasLeft
  <1> QED
    BY <1>1, SessionInDevices, AliasFollowsFlag, PTL
       DEF DevicesSpec, CrashFindsSilence

(* A crash is heard if there is a clip: the tick that ends it, unless a    *)
(* restart does, opens the clip or finds it open.                          *)
THEOREM CrashesAreHeard == DevicesSpec => CrashIsHeard
  <1> DEFINE Heard ==
        playerCrashed /\ ~playerCrashed' /\ ~KeyRestart /\ clipFile
          => crashAlias' = "open"
  <1>1. IInv /\ FlagFollowsDevice /\ [DevicesNext]_deviceVars => Heard
    <2> SUFFICES ASSUME IInv, FlagFollowsDevice, [DevicesNext]_deviceVars,
                        playerCrashed, ~playerCrashed', ~KeyRestart, clipFile
                 PROVE  crashAlias' = "open"
      OBVIOUS
    <2>1. [Next]_vars /\ playerCrashed' # playerCrashed
      BY DevicesSession
    <2>2. ~gameOver
      BY DEF IInv, CrashCountdown
    <2>3. TimerCrashed
      BY <2>1, <2>2, CrashWriters
    <2>4. crashMusicPlaying' = playerCrashed
      BY <2>3, Zenon DEF TimerCrashed, TickPrefix, HandleAudio
    <2>5. FlagFollowsDevice' /\ clipFile' = clipFile
      BY StepAlias, Zenon
         DEF DevicesNext, CallbackRuns, Sound, Redraw, deviceVars, audioVars
    <2> QED
      BY <2>4, <2>5 DEF FlagFollowsDevice
  <1> QED
    BY <1>1, SessionInDevices, AliasFollowsFlag, PTL
       DEF DevicesSpec, CrashIsHeard

-----------------------------------------------------------------------------
(* What is drawn depends on the globals only.                              *)
LEMMA PictureStays == UNCHANGED vars => UNCHANGED Picture
  <1> SUFFICES ASSUME UNCHANGED vars PROVE UNCHANGED Picture
    OBVIOUS
  <1>1. /\ UNCHANGED <<playerLane, playerLaneOffset, playerCrashed, crashPos>>
        /\ UNCHANGED <<showMenu, gameOver, lives, playerVisible, respawnTimer>>
        /\ UNCHANGED <<score, highScore, active>>
    BY Zenon DEF vars, steerVars, screenVars, crashVars, scoreVars
  <1>2. UNCHANGED CarPicture
    BY <1>1, Zenon DEF CarPicture, Wheel!PlayerPos
  <1>3. UNCHANGED BurstPicture
    BY <1>1, Zenon DEF BurstPicture
  <1>4. UNCHANGED TrafficPicture
    BY <1>1, Zenon DEF TrafficPicture, Hidden
  <1>5. UNCHANGED HUD
    BY <1>1, Zenon DEF HUD
  <1>6. UNCHANGED RoadPicture
    BY <1>2, <1>3, <1>4, <1>5, Zenon DEF RoadPicture
  <1>7. \A over \in BOOLEAN : MenuPicture(over)' = MenuPicture(over)
    BY <1>1, Zenon DEF MenuPicture
  <1> QED
    BY <1>1, <1>6, <1>7, Zenon DEF Picture

LEMMA StepStale == NeverStale /\ [DevicesNext]_deviceVars => NeverStale'
  <1> SUFFICES ASSUME NeverStale, [DevicesNext]_deviceVars PROVE NeverStale'
    OBVIOUS
  <1>1. CASE Posts \/ LastCrashPosts
    BY <1>1, Zenon DEF Posts, LastCrashPosts, NeverStale
  <1>2. CASE PostsNothing /\ UNCHANGED shown
    <2>1. CASE ClickQuit \/ KeyQuit \/ CloseWindow
      BY <2>1, Zenon DEF ClickQuit, KeyQuit, CloseWindow, Exit, NeverStale
    <2>2. CASE TimerMenu
      <3>1. UNCHANGED <<pc, exited, posted, shown>>
        BY <1>2, <2>2, Zenon DEF PostsNothing, TimerMenu, screenVars, loopVars
      <3>2. UNCHANGED Picture
        BY <2>2, Zenon DEF TimerMenu, steerVars, screenVars, crashVars,
           scoreVars, Picture, MenuPicture
      <3> QED
        BY <3>1, <3>2, Zenon DEF NeverStale
    <2>3. CASE TimerDrive
      BY <2>3 DEF TimerDrive, NeverStale
    <2>4. CASE MoveCar
      BY <2>4 DEF MoveCar, NeverStale
    <2> QED
      BY <1>2, <2>1, <2>2, <2>3, <2>4, Zenon DEF PostsNothing
  <1>3. CASE Display
    <2>1. shown' = Picture /\ UNCHANGED Picture
      BY <1>3, PictureStays, Zenon DEF Display
    <2> QED
      BY <2>1, Zenon DEF NeverStale
  <1>4. CASE UNCHANGED deviceVars
    <2>1. UNCHANGED <<pc, exited, posted, shown, Picture>>
      BY <1>4, PictureStays, Zenon
         DEF deviceVars, vars, pictureVars, screenVars, loopVars
    <2> QED
      BY <2>1, Zenon DEF NeverStale
  <1> QED
    BY <1>1, <1>2, <1>3, <1>4, Zenon
       DEF DevicesNext, CallbackRuns, Redraw, Callback

(* The window is never stale: every callback that changes what display()   *)
(* reads has posted a redisplay by the time the main loop waits again.     *)
THEOREM WindowIsNeverStale == DevicesSpec => []NeverStale
  <1>1. DevicesInit => NeverStale
    BY DEF DevicesInit, ScreenInit, NeverStale
  <1> QED
    BY <1>1, StepStale, PTL DEF DevicesSpec
=============================================================================
