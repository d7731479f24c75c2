----------------------------- MODULE RecordFile -----------------------------
(***************************************************************************)
(* highscore.dat through launches, kills and several copies of the program *)
(* (hud.cpp).  A copy reads the file once, in main(), and compares scores  *)
(* with what it read.  saveHighScore() takes two steps: the constructor of *)
(* std::ofstream truncates the file, and close() writes the number.  Two   *)
(* copies may be in between at the same time: Windows lets both open the   *)
(* file, and each writes from its start, over what the other has written.  *)
(***************************************************************************)
EXTENDS Integers, FiniteSets

CONSTANTS
  Instances,        \* copies of the program
  PlaceValues,      \* of the digits of a number: 1, 10, 100, ...
  DiskReadable,     \* outcomes of opening an existing file for reading
  DiskWritable,     \* and of opening it for writing
  MaxScore          \* a bound of the model: a game ends its scoring here

ASSUME RecordFileAssumption ==
  /\ MaxScore \in Nat
  /\ PlaceValues \subseteq Nat \ {0}
  /\ DiskReadable \in (SUBSET BOOLEAN) \ {{}}
  /\ DiskWritable \in (SUBSET BOOLEAN) \ {{}}

VARIABLES
  orderly,          \* never changes: one copy runs at a time, each launch can
                    \* open the file if there is one, and no save is cut
                    \* short by a kill or a full disk
  file,             \* the number in the file, Empty, or NoFile
  pc,               \* of each copy: "off", "game", "saving" or "over"
  score, highScore,
  fresh             \* history: the copies that know what was last saved

vars == <<orderly, file, pc, score, highScore, fresh>>

NoFile == -1
Empty == -2

(* loadHighScore(): nothing read leaves the initial 0.                     *)
Loaded(content) == IF content < 0 THEN 0 ELSE content

Init ==
  /\ orderly \in BOOLEAN
  /\ file \in (0..MaxScore) \cup {NoFile}
  /\ pc = [p \in Instances |-> "off"]
  /\ score = [p \in Instances |-> 0]
  /\ highScore = [p \in Instances |-> 0]
  /\ fresh = {}

Goto(p, place) == pc' = [pc EXCEPT ![p] = place]

-----------------------------------------------------------------------------
(* main(): globals have their initial values, and loadHighScore() reads    *)
(* the file.  If there is none, if it cannot be opened, or if another copy *)
(* has just truncated it, highScore stays 0.                               *)
LaunchWith(p, opened, known) ==
  /\ pc[p] = "off" /\ (orderly => \A q \in Instances : pc[q] = "off")
  /\ orderly => opened \/ file = NoFile
  /\ Goto(p, "game")
  /\ score' = [score EXCEPT ![p] = 0]
  /\ highScore' = [highScore EXCEPT ![p] = known]
  /\ fresh' = IF file = NoFile \/ (opened /\ file # Empty)
              THEN fresh \cup {p} ELSE fresh
  /\ UNCHANGED file

BugLaunchUnread(p) == \E opened \in DiskReadable : LaunchWith(p, opened, 0)

Launch(p) ==
  \E opened \in DiskReadable :
    LaunchWith(p, opened, IF opened THEN Loaded(file) ELSE 0)

(* A car is passed.                                                        *)
Pass(p) ==
  /\ pc[p] = "game" /\ score[p] < MaxScore
  /\ score' = [score EXCEPT ![p] = @ + 1]
  /\ UNCHANGED <<file, pc, highScore, fresh>>

(* R, or PLAY after a game.                                                *)
Restart(p) ==
  /\ pc[p] \in {"game", "over"} /\ Goto(p, "game")
  /\ score' = [score EXCEPT ![p] = 0]
  /\ UNCHANGED <<file, highScore, fresh>>

(* updateHighScore()'s test.                                               *)
BugRecordBreaks(p) == score[p] # highScore[p]

RecordBreaks(p) == score[p] > highScore[p]

(* The game is over: updateHighScore() finds no record,                    *)
NoRecord(p) ==
  /\ pc[p] = "game" /\ ~RecordBreaks(p) /\ Goto(p, "over")
  /\ UNCHANGED <<file, score, highScore, fresh>>

(* or a record, and saveHighScore() opens the file, or fails to.           *)
Record(p) ==
  /\ pc[p] = "game" /\ RecordBreaks(p)
  /\ highScore' = [highScore EXCEPT ![p] = score[p]]
  /\ \E opened \in DiskWritable :
       IF opened THEN file' = Empty /\ Goto(p, "saving")
                 ELSE Goto(p, "over") /\ UNCHANGED file
  /\ UNCHANGED <<score, fresh>>

Length(number) == Cardinality({v \in PlaceValues : v <= number})

(* What the file reads after a number was written from its start: the      *)
(* digits of a longer number that another copy wrote since the truncation  *)
(* stay behind the new ones.                                               *)
WrittenOver(old, new) ==
  IF old < 0 \/ Length(old) <= Length(new) THEN {new}
  ELSE {(new * v) + (old % v) :
          v \in {u \in PlaceValues : Length(new * u) = Length(old)}}

(* The number reaches the file when it is closed; fresh follows it.        *)
Write(p) ==
  /\ pc[p] = "saving" /\ Goto(p, "over")
  /\ file' \in WrittenOver(file, highScore[p])
  /\ fresh' = IF file' = highScore[p] THEN {p} ELSE {}
  /\ UNCHANGED <<score, highScore>>

(* A full disk: the write fails and nobody looks.                          *)
FailWrite(p) ==
  /\ ~orderly
  /\ pc[p] = "saving" /\ Goto(p, "over")
  /\ UNCHANGED <<file, score, highScore, fresh>>

(* QUIT, the close box, or a kill.                                         *)
Stop(p) ==
  /\ pc[p] \in {"game", "over"} \cup (IF orderly THEN {} ELSE {"saving"})
  /\ Goto(p, "off")
  /\ fresh' = fresh \ {p}
  /\ UNCHANGED <<file, score, highScore>>

Next ==
  /\ \E p \in Instances :
       \/ Launch(p) \/ Pass(p) \/ Restart(p) \/ NoRecord(p) \/ Record(p)
       \/ Write(p) \/ FailWrite(p) \/ Stop(p)
  /\ UNCHANGED orderly

Spec == Init /\ [][Next]_vars

-----------------------------------------------------------------------------
Saving == {p \in Instances : pc[p] = "saving"}

(* The file as a record book: a number on its way to it counts as written. *)
Book == INSTANCE RecordBook WITH
  record <- IF ~orderly THEN 0
            ELSE IF Saving # {} THEN highScore[CHOOSE p \in Saving : TRUE]
            ELSE Loaded(file)

(* Copies that run one after the other, that can read the file and are     *)
(* never interrupted within a save keep the book: no launch, no kill at    *)
(* any other moment and no file that cannot be opened for writing ever     *)
(* lowers the record.  Of the others nothing is claimed here.              *)
ImplementsRecordBook == Book!Spec

(* With several copies, and with reads and saves that fail: a copy that    *)
(* knows what was last saved never opens the file to save less.  So the    *)
(* record is lost only to a copy that does not know it (launched before it *)
(* was saved, in the middle of a save, or unable to open the file) and to  *)
(* saves that are cut short or that overlap: the last to write wins, or    *)
(* the digits of both are left in the file.                                *)
OnlyStaleCopiesLower ==
  [][\A p \in fresh : pc'[p] = "saving" /\ pc[p] = "game"
       => highScore'[p] > Loaded(file)]_vars
=============================================================================
