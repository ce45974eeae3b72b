---------------------------- MODULE MCPatrolLoop ----------------------------
(* Readings at the obstacle threshold (nearer than half a cell), at the      *)
(* grid's radius and beyond it.                                              *)
EXTENDS PatrolLoop

Ultrasonic(d) == [sensor |-> "ultrasonic", distance |-> d]
Grayscale(vs) == [sensor |-> "grayscale", values |-> vs]

MCReadings ==
  {Ultrasonic(None), Ultrasonic(1), Ultrasonic(5), Ultrasonic(6),
   Grayscale({2, 3}), Grayscale({3, None})}
=============================================================================
