------------------------------- MODULE Track -------------------------------
(***************************************************************************)
(* What the driver is promised about steering: the road is a row of spots  *)
(* 0..Last, a key press moves the car to a neighbouring spot, a crashed    *)
(* car is stuck where it is, and a restart puts it back Home.              *)
(***************************************************************************)
EXTENDS Integers

CONSTANTS
  Last,    \* the right-most spot
  First,   \* the spot at launch
  Home     \* the spot after a restart

VARIABLES spot, stuck

Init == spot = First /\ stuck = FALSE

Step(d) ==
  /\ ~stuck
  /\ spot + d \in 0..Last
  /\ spot' = spot + d
  /\ UNCHANGED stuck

Stick == ~stuck /\ stuck' = TRUE /\ UNCHANGED spot

Release == stuck /\ stuck' = FALSE /\ UNCHANGED spot

Reset == spot' = Home /\ stuck' = FALSE

Next == Step(-1) \/ Step(1) \/ Stick \/ Release \/ Reset

Spec == Init /\ [][Next]_<<spot, stuck>>
=============================================================================
