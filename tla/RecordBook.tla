----------------------------- MODULE RecordBook -----------------------------
(* What a player expects of highscore.dat: a record that only rises,       *)
(* through games, failures and launches.                                   *)
EXTENDS Integers

VARIABLE record

Init == record \in Nat

Raise == record' \in Nat /\ record' > record

Spec == Init /\ [][Raise]_record
=============================================================================
