----------------------------- MODULE MCTraffic -----------------------------
(* Model-checks Traffic on a short road of three lanes with two cars of    *)
(* two kinds, the fast one catching up with the slow one.                  *)
EXTENDS Traffic

MCHeight == [k \in Kinds |-> IF k = "car" THEN 3 ELSE 4]
MCSpeed == [k \in Kinds |-> IF k = "car" THEN 2 ELSE 1]
MCSlow == [k \in Kinds |-> 1]
=============================================================================
