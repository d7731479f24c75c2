---------------------------- MODULE MCLaneDodge ----------------------------
(* Model-checks LaneDodge with three cars of one kind, which block each    *)
(* other in a row, and which may come back on top of each other.           *)
EXTENDS LaneDodge

MCHeight == [k \in Kinds |-> 3]
MCSpeed == [k \in Kinds |-> 2]
MCSlow == [k \in Kinds |-> 1]
=============================================================================
