---------------------------- MODULE MCDetection ----------------------------
(* For YOLO three boxes of which each overlaps the next, one apart from them *)
(* on both axes, and an empty one; for the DNN boxes that are in the frame,  *)
(* reach out of it, are outside, and have their corners the wrong way round. *)
EXTENDS Detection

Square(centre, edge) == [cx |-> centre, cy |-> centre, w |-> edge, h |-> edge]
WithScore(box, s) == [cx |-> box.cx, cy |-> box.cy, w |-> box.w, h |-> box.h, score |-> s]
Chained(cx) == [cx |-> cx, cy |-> 2, w |-> 4, h |-> 4]

MCYoloRows ==
  {WithScore(box, s) : box \in {Chained(2), Chained(3), Chained(4), Square(10, 4), Square(4, 0)},
                       s \in {20, 30, 60, 90}}

Corners(x1, y1, x2, y2) == [x1 |-> x1, y1 |-> y1, x2 |-> x2, y2 |-> y2]
Found(c, p, s) == [x1 |-> c.x1, y1 |-> c.y1, x2 |-> c.x2, y2 |-> c.y2, person |-> p, score |-> s]

MCDnnRows ==
  {Found(c, p, s) : c \in {Corners(1, 1, 4, 5), Corners(-2, 0, 3, 9), Corners(8, -4, 9, -1),
                           Corners(5, 5, 2, 2)},
                    p \in BOOLEAN, s \in {40, 50, 90}}

MCHogRows ==
  {[x |-> 1, y |-> y, w |-> 2, h |-> 4, weight |-> weight] : y \in 0 .. 2, weight \in {-2, 0, 1, 3}}

(* The percentages of the logistic function.                                 *)
MCLogistic == [weight \in {-2, 0, 1, 3} |->
                 CASE weight = -2 -> 12 [] weight = 0 -> 50 [] weight = 1 -> 73 [] weight = 3 -> 95]
=============================================================================
