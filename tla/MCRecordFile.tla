---------------------------- MODULE MCRecordFile ----------------------------
(* Model-checks RecordFile with two copies of the program.                 *)
EXTENDS RecordFile
=============================================================================
