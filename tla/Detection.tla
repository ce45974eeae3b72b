----------------------------- MODULE Detection -----------------------------
(***************************************************************************)
(* One poll of the follow routine's camera: a detector                     *)
(* (src/autonomon/perception/detector.py) makes boxes of what its network  *)
(* found in a frame, and VisionPerception                                  *)
(* (src/autonomon/perception/vision.py) makes an event of the best one.    *)
(*                                                                         *)
(* A frame is 2 * Size units wide and high, so that the centre of a box    *)
(* whose corners are on the grid of Size cells is a whole number; scores   *)
(* and thresholds are percentages, and a bearing is in 2 * Size-ths of a   *)
(* degree.  Distances are rounded down to whole centimetres.               *)
(***************************************************************************)
EXTENDS SequencesExt, FiniteSets, Rounding

CONSTANTS
  None,
  Size,
  YoloRows, DnnRows, HogRows,   (* what the networks can find                *)
  MaxRows,                      (* bound on the rows of one frame            *)
  YoloScore, DnnScore,          (* score_threshold                           *)
  IouThreshold,                 (* iou_threshold                             *)
  Logistic,                     (* a HOG weight's confidence                 *)
  ConfidenceThreshold, HFov, VFov,
  RangeReference,               (* range_ref_distance_cm * range_ref_box_height *)
  MinBoxHeight                  (* _MIN_BOX_HEIGHT                           *)

Percent == 0 .. 100
Boxes == [cx : Int, cy : Int, w : Nat, h : Nat, confidence : Percent]

(* No smallest box is higher than the frame, and a threshold of 0 would make *)
(* every two boxes overlap.                                                  *)
ASSUME DetectionAssumption ==
  /\ {Size, MinBoxHeight, RangeReference, HFov, VFov} \subseteq Nat \ {0}
  /\ MaxRows \in Nat /\ MinBoxHeight <= 2 * Size
  /\ {YoloScore, DnnScore, ConfidenceThreshold} \subseteq Percent /\ IouThreshold \in 1 .. 100
  /\ YoloRows \subseteq [cx : Int, cy : Int, w : Nat, h : Nat, score : Percent]
  /\ DnnRows \subseteq [x1 : Int, y1 : Int, x2 : Int, y2 : Int, person : BOOLEAN, score : Percent]
  /\ HogRows \subseteq [x : Int, y : Int, w : Nat, h : Nat, weight : DOMAIN Logistic]
  /\ Logistic \in [DOMAIN Logistic -> Percent]
  /\ None \notin Boxes

VARIABLES
  detector,   (* what _build_detector chose                                  *)
  phase,      (* of the poll: "frame", "rows", "boxes" or "done"             *)
  rows,       (* the network's output                                        *)
  todo,       (* what of it is still to be looked at                         *)
  detections, (* the boxes kept so far                                       *)
  event       (* what the poll emits                                         *)

vars == <<detector, phase, rows, todo, detections, event>>

Rows == [yolo |-> YoloRows, dnn |-> DnnRows, hog |-> HogRows]

Init ==
  /\ detector \in DOMAIN Rows
  /\ phase = "frame"
  /\ rows = <<>> /\ todo = <<>> /\ detections = <<>>
  /\ event = None

-----------------------------------------------------------------------------
(* _poll: the frame does not come, or the detector raises.                   *)
FrameFails ==
  /\ phase = "frame" /\ phase' = "done"
  /\ UNCHANGED <<detector, rows, todo, detections, event>>

(* detect: the network's output.  An undecodable frame has no rows with      *)
(* OpenCV; with pillow the detector raises.                                  *)
Infer ==
  /\ phase = "frame" /\ phase' = "rows"
  /\ rows' \in BoundedSeq(Rows[detector], MaxRows)
  /\ UNCHANGED <<detector, todo, detections, event>>

Box(row) == [cx |-> row.cx, cy |-> row.cy, w |-> row.w, h |-> row.h, confidence |-> row.score]

(* The boxes of these rows by falling score: argsort leaves open how equal   *)
(* scores are ordered.                                                       *)
ByScore(likely) ==
  {s \in {[k \in DOMAIN p |-> Box(rows[p[k]])] : p \in SetToSeqs(likely)} :
     \A j, k \in DOMAIN s : j < k => s[j].confidence >= s[k].confidence}

(* _postprocess, up to the suppression of non-maximal boxes.                 *)
Postprocess ==
  /\ phase = "rows" /\ phase' = "boxes"
  /\ IF detector = "yolo"
     THEN todo' \in ByScore({k \in DOMAIN rows : rows[k].score >= YoloScore})
     ELSE todo' = rows
  /\ UNCHANGED <<detector, rows, detections, event>>

-----------------------------------------------------------------------------
(* The extent two boxes share, on an axis on which they reach from x to x+w. *)
Shared(x, w, y, v) == Greater(Lesser(x + w, y + v) - Greater(x, y), 0)

Low(centre, extent) == centre - extent \div 2

Intersection(a, b) ==
  Shared(Low(a.cx, a.w), a.w, Low(b.cx, b.w), b.w) * Shared(Low(a.cy, a.h), a.h, Low(b.cy, b.h), b.h)

(* ~(iou < iou_threshold): boxes that share nothing never overlap, even when *)
(* both are empty (the 1e-9).                                                *)
Overlaps(a, b) ==
  LET inter == Intersection(a, b) IN
    inter > 0 /\ 100 * inter >= IouThreshold * (a.w * a.h + b.w * b.h - inter)

SuppressNext ==   (* mutant: only the next best box is compared *)
  /\ phase = "boxes" /\ detector = "yolo" /\ todo # <<>>
  /\ detections' = Append(detections, Head(todo))
  /\ todo' = IF Len(todo) > 1 /\ Overlaps(todo[1], todo[2]) THEN Tail(Tail(todo)) ELSE Tail(todo)
  /\ UNCHANGED <<detector, phase, rows, event>>

(* What a sequence has at these places (an array indexed by a mask).         *)
AtPlaces(s, places) ==
  [k \in 1 .. Cardinality(places) |->
     s[CHOOSE i \in places : Cardinality({j \in places : j <= i}) = k]]

(* _nms: one turn of its loop.                                               *)
Suppress ==
  /\ phase = "boxes" /\ detector = "yolo" /\ todo # <<>>
  /\ detections' = Append(detections, Head(todo))
  /\ todo' = AtPlaces(todo, {k \in 2 .. Len(todo) : ~Overlaps(Head(todo), todo[k])})
  /\ UNCHANGED <<detector, phase, rows, event>>

-----------------------------------------------------------------------------
Unclamped(corner) == corner   (* mutant: the corners are taken as they are *)

(* A corner in the frame, in cells.                                          *)
InFrame(corner) == Clamp(corner, 0, Size)

(* OpenCvDnnDetector.detect: the row's box.                                  *)
DnnBox(row) ==
  LET x1 == InFrame(row.x1)  y1 == InFrame(row.y1)  x2 == InFrame(row.x2)  y2 == InFrame(row.y2)
  IN  [cx |-> x1 + x2, cy |-> y1 + y2,
       w |-> Greater(2 * (x2 - x1), 0), h |-> Greater(2 * (y2 - y1), 0), confidence |-> row.score]

(* OpenCvHogDetector.detect: the rectangle's box.                            *)
HogBox(row) ==
  [cx |-> 2 * row.x + row.w, cy |-> 2 * row.y + row.h,
   w |-> 2 * row.w, h |-> 2 * row.h, confidence |-> Logistic[row.weight]]

StopAtOther ==   (* mutant: the first row of another class ends the loop *)
  /\ phase = "boxes" /\ detector = "dnn" /\ todo # <<>>
  /\ LET row == Head(todo)
         person == row.person /\ row.score >= DnnScore
     IN  /\ detections' = IF person THEN Append(detections, DnnBox(row)) ELSE detections
         /\ todo' = IF person THEN Tail(todo) ELSE <<>>
  /\ UNCHANGED <<detector, phase, rows, event>>

(* One turn of the DNN detector's loop.                                      *)
DnnRow ==
  /\ phase = "boxes" /\ detector = "dnn" /\ todo # <<>>
  /\ LET row == Head(todo)
     IN  detections' = IF row.person /\ row.score >= DnnScore
                       THEN Append(detections, DnnBox(row)) ELSE detections
  /\ todo' = Tail(todo)
  /\ UNCHANGED <<detector, phase, rows, event>>

(* One turn of the HOG detector's loop.                                      *)
HogRow ==
  /\ phase = "boxes" /\ detector = "hog" /\ todo # <<>>
  /\ detections' = Append(detections, HogBox(Head(todo)))
  /\ todo' = Tail(todo)
  /\ UNCHANGED <<detector, phase, rows, event>>

-----------------------------------------------------------------------------
(* _select: the first of those with the highest confidence.                  *)
Select(boxes) ==
  LET candidates == {k \in DOMAIN boxes : boxes[k].confidence >= ConfidenceThreshold}
      Highest(k) == \A j \in candidates :
                      LET c == boxes[j].confidence  d == boxes[k].confidence
                      IN  c < d \/ (c = d /\ k <= j)
  IN  IF candidates = {} THEN None ELSE boxes[CHOOSE k \in candidates : Highest(k)]

(* _build_event                                                              *)
BuildEvent(target) ==
  IF target = None THEN [detected |-> FALSE]
  ELSE [detected |-> TRUE,
        bearing  |-> (target.cx - Size) * HFov,
        vertical |-> (target.cy - Size) * VFov,
        distance |-> (RangeReference * 2 * Size) \div Greater(target.h, MinBoxHeight),
        confidence |-> target.confidence]

(* The rest of _poll.                                                        *)
Report ==
  /\ phase = "boxes" /\ phase' = "done" /\ todo = <<>>
  /\ event' = BuildEvent(Select(detections))
  /\ UNCHANGED <<detector, rows, todo, detections>>

Next ==
  \/ FrameFails
  \/ Infer
  \/ Postprocess
  \/ Suppress
  \/ DnnRow
  \/ HogRow
  \/ Report

Spec == Init /\ [][Next]_vars

-----------------------------------------------------------------------------
(* The grid cells of a box, by which overlap is defined here.                *)
Cells(box) ==
  (Low(box.cx, box.w) .. Low(box.cx, box.w) + box.w - 1)
    \X (Low(box.cy, box.h) .. Low(box.cy, box.h) + box.h - 1)

SamePerson(a, b) ==
  LET both == Cells(a) \cap Cells(b) IN
    both # {} /\ 100 * Cardinality(both) >= IouThreshold * Cardinality(Cells(a) \cup Cells(b))

(* YOLO reports every person once and forgets none: no two boxes kept are of *)
(* the same person, and each likely box that was dropped is of the same      *)
(* person as one that was kept and has at least its score; a box is never    *)
(* dropped for one that was dropped itself (_nms).                           *)
SuppressionIsGreedy ==
  detector = "yolo" /\ phase \in {"boxes", "done"} =>
    /\ \A j, k \in DOMAIN detections : j # k => ~SamePerson(detections[j], detections[k])
    /\ \A k \in DOMAIN rows :
         rows[k].score >= YoloScore =>
           LET box == Box(rows[k]) IN
             \/ box \in Range(detections) \cup Range(todo)
             \/ \E kept \in Range(detections) :
                  SamePerson(kept, box) /\ kept.confidence >= box.confidence

(* The network's confidence in a row, and whether the detector takes it for  *)
(* a person.                                                                 *)
Confidence(row) == IF detector = "hog" THEN Logistic[row.weight] ELSE row.score

Accepted(row) ==
  /\ detector = "yolo" => row.score >= YoloScore
  /\ detector = "dnn" => row.person /\ row.score >= DnnScore

(* A poll that got its frame reports a target exactly when some row of the   *)
(* network's output clears both thresholds, and then with the highest such   *)
(* confidence: no suppression, filter or order of rows loses the best one.   *)
BestIsReported ==
  event # None =>
    LET likely == {row \in Range(rows) : Accepted(row) /\ Confidence(row) >= ConfidenceThreshold} IN
      /\ event.detected <=> likely # {}
      /\ event.detected =>
           /\ \A row \in likely : Confidence(row) <= event.confidence
           /\ \E row \in likely : Confidence(row) = event.confidence

(* However malformed the box of a network that may place corners outside the *)
(* frame or in the wrong order, the target is within the field of view and   *)
(* at a distance between that of a full frame and that of the smallest box   *)
(* (the clamps of OpenCvDnnDetector.detect, _MIN_BOX_HEIGHT).                *)
TargetInView ==
  detector = "dnn" /\ event # None /\ event.detected =>
    /\ Abs(event.bearing) <= Size * HFov /\ Abs(event.vertical) <= Size * VFov
    /\ event.distance \in RangeReference .. (RangeReference * 2 * Size) \div MinBoxHeight
=============================================================================
