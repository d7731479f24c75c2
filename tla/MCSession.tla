----------------------------- MODULE MCSession -----------------------------
(* Model-checks Session on small delays and few cars.                      *)
EXTENDS Session
=============================================================================
