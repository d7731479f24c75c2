--------------------------- MODULE MCRoadGeometry ---------------------------
(* Model-checks RoadGeometry with the program's own constants.             *)
EXTENDS RoadGeometry
=============================================================================
