--------------------------- MODULE RecordFileProofs ---------------------------
(***************************************************************************)
(* Proofs about RecordFile, for any number of copies of the program, any   *)
(* scores and any place values of their digits.                            *)
(***************************************************************************)
EXTENDS RecordFile, TLAPS

Places == {"off", "game", "saving", "over"}

TypeOK ==
  /\ orderly \in BOOLEAN
  /\ file \in Nat \cup {NoFile, Empty}
  /\ pc \in [Instances -> Places]
  /\ score \in [Instances -> 0..MaxScore]
  /\ highScore \in [Instances -> Nat]
  /\ fresh \subseteq Instances

(* A copy that knows what was last saved runs and knows at least what the  *)
(* file holds: a save by another copy ends its knowledge.                  *)
FreshKnows == \A p \in fresh : pc[p] # "off" /\ highScore[p] >= Loaded(file)

(* Orderly copies run alone, know at least what the file holds, and write  *)
(* over nothing.                                                           *)
OneKnows ==
  orderly => \A p \in Instances : pc[p] # "off" =>
    /\ \A q \in Instances \ {p} : pc[q] = "off"
    /\ highScore[p] >= Loaded(file)
    /\ pc[p] = "saving" => file = Empty

FileInv == TypeOK /\ FreshKnows /\ OneKnows

(* What the file holds is a number, or reads as 0.                         *)
LEMMA Numbers ==
  /\ MaxScore \in Nat
  /\ \A n \in Nat : Loaded(n) = n
  /\ Loaded(NoFile) = 0 /\ Loaded(Empty) = 0
  /\ \A n \in Nat \cup {NoFile, Empty} : Loaded(n) \in Nat
  BY RecordFileAssumption DEF Loaded, NoFile, Empty

(* Digits that stay behind a number leave a number; on a truncated file    *)
(* there are none.                                                         *)
LEMMA Overwriting ==
  ASSUME NEW old \in Nat \cup {NoFile, Empty}, NEW new \in Nat
  PROVE  /\ WrittenOver(old, new) \subseteq Nat
         /\ old = Empty => WrittenOver(old, new) = {new}
  <1>1. CASE old < 0
    BY <1>1 DEF WrittenOver
  <1>2. CASE old \in Nat
    <2>1. \A v \in PlaceValues : (new * v) + (old % v) \in Nat
      <3> SUFFICES ASSUME NEW v \in PlaceValues
                   PROVE  (new * v) + (old % v) \in Nat
        OBVIOUS
      <3>1. v \in Nat \ {0}
        BY RecordFileAssumption
      <3>2. new * v \in Nat
        BY <3>1
      <3>3. old % v \in Nat
        BY <1>2, <3>1
      <3> QED
        BY <3>2, <3>3
    <2>2. {(new * v) + (old % v) :
             v \in {u \in PlaceValues : Length(new * u) = Length(old)}}
            \subseteq Nat
      BY <2>1
    <2>3. old # Empty
      BY <1>2 DEF Empty
    <2> QED
      BY <2>2, <2>3 DEF WrittenOver
  <1> QED
    BY <1>1, <1>2 DEF NoFile, Empty

(* A launch knows nothing, or what the file holds.                         *)
LEMMA Launches ==
  ASSUME TypeOK, NEW p \in Instances, Launch(p)
  PROVE  \E opened \in BOOLEAN :
           /\ LaunchWith(p, opened, IF opened THEN Loaded(file) ELSE 0)
           /\ (IF opened THEN Loaded(file) ELSE 0) \in Nat
  BY RecordFileAssumption, Numbers DEF TypeOK, Launch

(* The moves of one copy.                                                  *)
Move(p) ==
  \/ Launch(p) \/ Pass(p) \/ Restart(p) \/ NoRecord(p) \/ Record(p)
  \/ Write(p) \/ FailWrite(p) \/ Stop(p)

LEMMA StepTypeOK ==
  ASSUME TypeOK, NEW p \in Instances, Move(p), UNCHANGED orderly
  PROVE  TypeOK'
  <1> USE Numbers DEF TypeOK, Goto, Places
  <1>1. CASE Launch(p)
    BY <1>1, Launches DEF LaunchWith
  <1>2. CASE Pass(p)
    BY <1>2 DEF Pass
  <1>3. CASE Restart(p) \/ NoRecord(p) \/ FailWrite(p) \/ Stop(p)
    BY <1>3 DEF Restart, NoRecord, FailWrite, Stop
  <1>4. CASE Record(p)
    BY <1>4 DEF Record
  <1>5. CASE Write(p)
    BY <1>5, Overwriting DEF Write
  <1> QED
    BY <1>1, <1>2, <1>3, <1>4, <1>5 DEF Move

LEMMA StepFresh ==
  ASSUME TypeOK, FreshKnows, NEW p \in Instances, Move(p)
  PROVE  FreshKnows'
  <1> USE Numbers DEF TypeOK, FreshKnows, Goto
  <1>1. CASE Launch(p)
    <2>1. PICK opened \in BOOLEAN :
            LaunchWith(p, opened, IF opened THEN Loaded(file) ELSE 0)
      BY <1>1, Launches
    <2>2. /\ file' = file /\ p \notin fresh
          /\ fresh' \subseteq fresh \cup {p}
          /\ pc'[p] = "game"
          /\ \A q \in Instances \ {p} :
               pc'[q] = pc[q] /\ highScore'[q] = highScore[q]
      BY <2>1 DEF LaunchWith
    <2>3. p \in fresh' => highScore'[p] = Loaded(file)
      BY <2>1, <2>2 DEF LaunchWith
    <2> QED
      BY <2>2, <2>3
  <1>2. CASE Pass(p) \/ Restart(p) \/ NoRecord(p) \/ FailWrite(p) \/ Stop(p)
    BY <1>2 DEF Pass, Restart, NoRecord, FailWrite, Stop
  <1>3. CASE Record(p)
    BY <1>3 DEF Record, RecordBreaks
  <1>4. CASE Write(p)
    BY <1>4, Overwriting DEF Write
  <1> QED
    BY <1>1, <1>2, <1>3, <1>4 DEF Move

LEMMA StepOneKnows ==
  ASSUME TypeOK, OneKnows, NEW p \in Instances, Move(p), UNCHANGED orderly
  PROVE  OneKnows'
  <1> SUFFICES ASSUME orderly
               PROVE  \A q \in Instances : pc'[q] # "off" =>
                        /\ \A r \in Instances \ {q} : pc'[r] = "off"
                        /\ highScore'[q] >= Loaded(file')
                        /\ pc'[q] = "saving" => file' = Empty
    BY DEF OneKnows, Loaded
  <1>1. \A q \in Instances \ {p} : pc[q] = "off"
    BY DEF Move, OneKnows, Launch, LaunchWith, Pass, Restart, NoRecord,
           Record, Write, FailWrite, Stop
  <1>2. \A q \in Instances \ {p} : pc'[q] = "off"
    BY <1>1 DEF Move, TypeOK, Goto, Launch, LaunchWith, Pass, Restart,
                NoRecord, Record, Write, FailWrite, Stop
  <1>3. pc'[p] # "off" => /\ highScore'[p] >= Loaded(file')
                          /\ pc'[p] = "saving" => file' = Empty
    <2> USE Numbers DEF TypeOK, OneKnows, Goto
    <2>1. CASE Launch(p)
      BY <2>1, Launches DEF LaunchWith
    <2>2. CASE Pass(p) \/ Restart(p) \/ NoRecord(p) \/ FailWrite(p) \/ Stop(p)
      BY <2>2 DEF Pass, Restart, NoRecord, FailWrite, Stop
    <2>3. CASE Record(p)
      BY <2>3 DEF Record, RecordBreaks
    <2>4. CASE Write(p)
      BY <2>4, Overwriting DEF Write
    <2> QED
      BY <2>1, <2>2, <2>3, <2>4 DEF Move
  <1> QED
    BY <1>2, <1>3

LEMMA FileInvAlways == Spec => []FileInv
  <1>1. Init => FileInv
    BY Numbers DEF Init, FileInv, TypeOK, FreshKnows, OneKnows, Places
  <1>2. FileInv /\ [Next]_vars => FileInv'
    <2>1. FileInv /\ Next => FileInv'
      BY StepTypeOK, StepFresh, StepOneKnows DEF FileInv, Next, Move
    <2>2. FileInv /\ UNCHANGED vars => FileInv'
      BY DEF FileInv, vars, TypeOK, FreshKnows, OneKnows, Loaded
    <2> QED
      BY <2>1, <2>2
  <1> QED
    BY <1>1, <1>2, PTL DEF Spec

-----------------------------------------------------------------------------
(* With several copies, and with reads and saves that fail: a copy that    *)
(* knows what was last saved never opens the file to save less.            *)
THEOREM FreshCopiesRaise == Spec => OnlyStaleCopiesLower
  <1> DEFINE Raises ==
        \A p \in fresh : pc'[p] = "saving" /\ pc[p] = "game"
          => highScore'[p] > Loaded(file)
  <1>1. FileInv /\ [Next]_vars => Raises
    <2> SUFFICES ASSUME FileInv, [Next]_vars, NEW p \in fresh,
                        pc'[p] = "saving", pc[p] = "game"
                 PROVE  highScore'[p] > Loaded(file)
      OBVIOUS
    <2>1. p \in Instances /\ pc' # pc
      BY DEF FileInv, TypeOK
    <2>2. PICK q \in Instances : Move(q)
      BY <2>1 DEF Next, Move, vars
    <2>3. Record(p)
      BY <2>1, <2>2 DEF Move, FileInv, TypeOK, Goto, Launch, LaunchWith, Pass,
                        Restart, NoRecord, Record, Write, FailWrite, Stop
    <2> QED
      BY <2>1, <2>3, Numbers
         DEF Record, RecordBreaks, FileInv, TypeOK, FreshKnows
  <1> QED
    BY <1>1, FileInvAlways, PTL DEF Spec, OnlyStaleCopiesLower

-----------------------------------------------------------------------------
(* The record of the book, when orderly copies run.                        *)
RecordIn(places, known, content) ==
  LET saving == {p \in Instances : places[p] = "saving"}
  IN  IF saving # {} THEN known[CHOOSE p \in saving : TRUE] ELSE Loaded(content)

record == IF ~orderly THEN 0 ELSE RecordIn(pc, highScore, file)

Rises == record' \in Nat /\ record' > record

(* Of copies of which one runs at most that one can be saving.             *)
LEMMA RecordAlone ==
  ASSUME NEW places, NEW known, NEW content, NEW p \in Instances,
         \A q \in Instances \ {p} : places[q] = "off"
  PROVE  RecordIn(places, known, content)
           = IF places[p] = "saving" THEN known[p] ELSE Loaded(content)
  <1> DEFINE saving == {q \in Instances : places[q] = "saving"}
  <1>1. CASE places[p] = "saving"
    <2>1. saving = {p}
      BY <1>1
    <2>2. saving # {} /\ (CHOOSE q \in saving : TRUE) = p
      BY <2>1
    <2> QED
      BY <1>1, <2>2 DEF RecordIn
  <1>2. CASE places[p] # "saving"
    <2>1. saving = {}
      BY <1>2
    <2> QED
      BY <1>2, <2>1 DEF RecordIn
  <1> QED
    BY <1>1, <1>2

(* Only the opening of the file for a higher score changes the book.       *)
LEMMA StepRaises ==
  ASSUME FileInv, orderly, NEW p \in Instances, Move(p), UNCHANGED orderly
  PROVE  Rises \/ record' = record
  <1> DEFINE before == IF pc[p] = "saving" THEN highScore[p] ELSE Loaded(file)
             after == IF pc'[p] = "saving" THEN highScore'[p] ELSE Loaded(file')
  <1>1. \A q \in Instances \ {p} : pc[q] = "off"
    BY DEF Move, FileInv, OneKnows, Launch, LaunchWith, Pass, Restart,
           NoRecord, Record, Write, FailWrite, Stop
  <1>2. \A q \in Instances \ {p} : pc'[q] = "off"
    BY <1>1 DEF Move, FileInv, TypeOK, Goto, Launch, LaunchWith, Pass,
                Restart, NoRecord, Record, Write, FailWrite, Stop
  <1>3. record = before
    BY <1>1, RecordAlone DEF record
  <1>4. record' = after
    <2>1. record' = RecordIn(pc', highScore', file')
      BY DEF record, RecordIn, Loaded
    <2> QED
      BY <1>2, <2>1, RecordAlone
  <1>5. (after \in Nat /\ after > before) \/ after = before
    <2> USE Numbers DEF FileInv, TypeOK, OneKnows, Goto
    <2>1. CASE Launch(p)
      BY <2>1, Launches DEF LaunchWith
    <2>2. CASE Pass(p) \/ Restart(p) \/ NoRecord(p) \/ FailWrite(p) \/ Stop(p)
      BY <2>2 DEF Pass, Restart, NoRecord, FailWrite, Stop
    <2>3. CASE Record(p)
      BY <2>3 DEF Record, RecordBreaks
    <2>4. CASE Write(p)
      BY <2>4, Overwriting DEF Write
    <2> QED
      BY <2>1, <2>2, <2>3, <2>4 DEF Move
  <1> QED
    BY <1>3, <1>4, <1>5 DEF Rises

(* Copies that run one after the other, that can read the file and are     *)
(* never interrupted within a save keep the book: no launch, no kill at    *)
(* another moment and no file that cannot be opened for writing ever       *)
(* lowers the record.                                                      *)
THEOREM OrderlyCopiesKeepRecord == Spec => ImplementsRecordBook
  <1>1. Init => record \in Nat
    <2> SUFFICES ASSUME Init PROVE record \in Nat
      OBVIOUS
    <2>1. Saving = {}
      BY DEF Init, Saving
    <2>2. Loaded(file) \in Nat
      BY Numbers DEF Init
    <2> QED
      BY <2>1, <2>2, Numbers DEF record, RecordIn, Saving
  <1>2. FileInv /\ [Next]_vars => Rises \/ record' = record
    <2> SUFFICES ASSUME FileInv, [Next]_vars
                 PROVE  Rises \/ record' = record
      OBVIOUS
    <2>1. CASE UNCHANGED vars
      BY <2>1 DEF vars, record, RecordIn, Loaded
    <2>2. CASE ~orderly /\ Next
      BY <2>2 DEF Next, record
    <2>3. CASE orderly /\ Next
      BY <2>3, StepRaises DEF Next, Move
    <2> QED
      BY <2>1, <2>2, <2>3
  <1>3. Init => Book!Init
    BY <1>1 DEF Book!Init, record, RecordIn, Saving
  <1>4. Rises \/ record' = record => Book!Raise \/ UNCHANGED record
    BY DEF Book!Raise, Rises, record, RecordIn, Saving
  <1> QED
    BY <1>2, <1>3, <1>4, FileInvAlways, PTL
       DEF Spec, ImplementsRecordBook, Book!Spec, record, RecordIn, Saving
=============================================================================
