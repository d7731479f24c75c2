------------------------------ MODULE MCPacing ------------------------------
(* Model-checks Pacing on small delays.                                    *)
EXTENDS Pacing
=============================================================================
