---------------------------- MODULE MCExploreLoop ----------------------------
(* A small explore loop for TLC: readings on both sides of each threshold.   *)
EXTENDS ExploreLoop

Ultrasonic(d) == [sensor |-> "ultrasonic", distance |-> d]
Grayscale(vs) == [sensor |-> "grayscale", values |-> vs]

MCThreshold == 2

MCReadings ==
  {Ultrasonic(None), Ultrasonic(2), Ultrasonic(3),
   Grayscale({}), Grayscale({2, 3}), Grayscale({3, None})}
=============================================================================
