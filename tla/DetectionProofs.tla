-------------------------- MODULE DetectionProofs --------------------------
(***************************************************************************)
(* Proofs about Detection for every frame, every size of the grid and      *)
(* every threshold.                                                        *)
(***************************************************************************)
EXTENDS Detection, FiniteSetTheorems, NaturalsInduction, SequenceTheorems, TLAPS

(* Among naturals there is a least one.                                      *)
LEMMA LeastNat ==
  ASSUME NEW T, T \subseteq Nat, T # {}
  PROVE  \E x \in T : \A y \in T : x <= y
<1>1. PICK x \in T : \A y \in T : ~(<<y, x>> \in OpToRel(<, Nat))
  BY NatLessThanWellFounded, WFMin
<1>2. \A y \in T : ~(y < x)
  BY <1>1 DEF OpToRel
<1> QED
  BY <1>2

-----------------------------------------------------------------------------
(* AtPlaces keeps the elements at the places and their order.                *)
LEMMA AtPlacesKeeps ==
  ASSUME NEW S, NEW s \in Seq(S), NEW places, places \subseteq DOMAIN s
  PROVE  /\ AtPlaces(s, places) \in Seq(S)
         /\ \A i \in places : \E k \in DOMAIN AtPlaces(s, places) : AtPlaces(s, places)[k] = s[i]
         /\ \E at \in [DOMAIN AtPlaces(s, places) -> places] :
              /\ \A k \in DOMAIN AtPlaces(s, places) : AtPlaces(s, places)[k] = s[at[k]]
              /\ \A j, k \in DOMAIN AtPlaces(s, places) : j < k => at[j] < at[k]
<1> DEFINE Below(i) == {j \in places : j <= i}
           n == Cardinality(places)
           rank == [i \in places |-> Cardinality(Below(i))]
           at == [k \in 1 .. n |-> CHOOSE i \in places : Cardinality(Below(i)) = k]
           t == AtPlaces(s, places)
<1>1. Len(s) \in Nat /\ DOMAIN s = 1 .. Len(s) /\ places \subseteq 1 .. Len(s)
  BY LenProperties
<1>2. IsFiniteSet(places) /\ n \in Nat
  <2>1. IsFiniteSet(1 .. Len(s))
    BY <1>1, FS_Interval
  <2> QED
    BY <1>1, <2>1, FS_Subset, FS_CardinalityType
<1>3. \A i \in places : IsFiniteSet(Below(i)) /\ Cardinality(Below(i)) \in 1 .. n
  <2> SUFFICES ASSUME NEW i \in places
               PROVE  IsFiniteSet(Below(i)) /\ Cardinality(Below(i)) \in 1 .. n
    OBVIOUS
  <2>1. Below(i) \in SUBSET places
    OBVIOUS
  <2>2. IsFiniteSet(Below(i)) /\ Cardinality(Below(i)) <= n
    BY <1>2, <2>1, FS_Subset
  <2>3. i \in Below(i)
    BY <1>1
  <2>4. Cardinality(Below(i)) \in Nat /\ Cardinality(Below(i)) # 0
    BY <2>2, <2>3, FS_CardinalityType, FS_EmptySet
  <2> QED
    BY <1>2, <2>2, <2>4
<1>4. \A i, j \in places : i < j => rank[i] < rank[j]
  <2> SUFFICES ASSUME NEW i \in places, NEW j \in places, i < j PROVE rank[i] < rank[j]
    OBVIOUS
  <2>1. Below(i) \in SUBSET Below(j) /\ j \in Below(j) /\ j \notin Below(i)
    BY <1>1
  <2>2. Cardinality(Below(i)) <= Cardinality(Below(j)) /\ Cardinality(Below(i)) # Cardinality(Below(j))
    BY <1>3, <2>1, FS_Subset
  <2>3. Cardinality(Below(i)) \in Nat /\ Cardinality(Below(j)) \in Nat
    <3> HIDE DEF Below, n
    <3> QED
      BY <1>2, <1>3
  <2>4. Cardinality(Below(i)) < Cardinality(Below(j))
    BY <2>2, <2>3
  <2> QED
    BY <2>4
<1>5. rank \in [places -> 1 .. n]
  BY <1>3
<1>6. rank \in Injection(places, 1 .. n)
  <2>1. \A i, j \in places : i # j => rank[i] # rank[j]
    <3> SUFFICES ASSUME NEW i \in places, NEW j \in places, i # j PROVE rank[i] # rank[j]
      OBVIOUS
    <3>1. i < j \/ j < i
      BY <1>1
    <3>2. rank[i] \in Nat /\ rank[j] \in Nat
      BY <1>5
    <3> HIDE DEF rank
    <3> QED
      BY <1>4, <3>1, <3>2
  <2> HIDE DEF rank
  <2> QED
    BY <1>5, <2>1 DEF Injection, IsInjective
<1>7. rank \in Surjection(places, 1 .. n)
  <2>1. IsFiniteSet(1 .. n) /\ Cardinality(1 .. n) = n
    BY <1>2, FS_Interval
  <2> HIDE DEF rank
  <2> QED
    BY <1>2, <1>6, <2>1, FS_Injection
<1>8. \A k \in 1 .. n : \E i \in places : rank[i] = k
  <2> HIDE DEF rank
  <2> QED
    BY <1>7 DEF Surjection
<1>9. \A k \in 1 .. n : at[k] \in places /\ rank[at[k]] = k
  BY <1>8
<1>10. \A i \in places : rank[i] \in 1 .. n /\ at[rank[i]] = i
  <2> SUFFICES ASSUME NEW i \in places PROVE rank[i] \in 1 .. n /\ at[rank[i]] = i
    OBVIOUS
  <2>1. rank[i] \in 1 .. n
    BY <1>5
  <2>2. at[rank[i]] \in places /\ rank[at[rank[i]]] = rank[i]
    BY <1>9, <2>1
  <2> HIDE DEF rank, at
  <2>3. \A j \in places : rank[j] = rank[i] => j = i
    BY <1>6 DEF Injection, IsInjective
  <2> QED
    BY <2>1, <2>2, <2>3
<1>11. t = [k \in 1 .. n |-> s[at[k]]]
  BY DEF AtPlaces
<1> HIDE DEF t, rank, at, n
<1>12. \A k \in 1 .. n : at[k] \in 1 .. Len(s) /\ s[at[k]] \in S
  BY <1>1, <1>9, ElementOfSeq
<1>13. t \in Seq(S) /\ DOMAIN t = 1 .. n
  BY <1>2, <1>11, <1>12
<1>14. \A i \in places : \E k \in DOMAIN t : t[k] = s[i]
  BY <1>10, <1>11, <1>13
<1>15. at \in [DOMAIN t -> places]
  BY <1>9, <1>13 DEF at
<1>16. \A j, k \in DOMAIN t : j < k => at[j] < at[k]
  <2> SUFFICES ASSUME NEW j \in 1 .. n, NEW k \in 1 .. n, j < k PROVE at[j] < at[k]
    BY <1>13
  <2>1. /\ at[j] \in places /\ at[k] \in places
        /\ rank[at[j]] = j /\ rank[at[k]] = k
    BY <1>9
  <2>2. ~(at[k] < at[j]) /\ at[j] # at[k]
    BY <1>2, <1>4, <2>1
  <2> QED
    BY <1>1, <2>1, <2>2
<1> QED
  BY <1>11, <1>13, <1>14, <1>15, <1>16 DEF t

-----------------------------------------------------------------------------
(* The cells that two intervals share.                                       *)
LEMMA SharedCells ==
  ASSUME NEW x \in Int, NEW y \in Int, NEW w \in Nat, NEW v \in Nat
  PROVE  LET both == (x .. x + w - 1) \cap (y .. y + v - 1)
         IN  IsFiniteSet(both) /\ Cardinality(both) = Shared(x, w, y, v)
<1> DEFINE both == (x .. x + w - 1) \cap (y .. y + v - 1)
           low == Greater(x, y)
           high == Lesser(x + w, y + v) - 1
<1>1. low \in Int /\ high \in Int
  BY DEF Greater, Lesser
<1>2. both = low .. high
  BY DEF Greater, Lesser
<1>3. IsFiniteSet(low .. high) /\ Cardinality(low .. high) = IF low > high THEN 0 ELSE high - low + 1
  BY <1>1, FS_Interval
<1>4. Shared(x, w, y, v) = IF low > high THEN 0 ELSE high - low + 1
  BY DEF Shared, Greater, Lesser
<1> HIDE DEF low, high
<1> QED
  BY <1>2, <1>3, <1>4

(* The cells of a box.                                                       *)
LEMMA CellsOfBox ==
  ASSUME NEW box \in Boxes
  PROVE  /\ IsFiniteSet(Cells(box)) /\ Cardinality(Cells(box)) = box.w * box.h
         /\ Low(box.cx, box.w) \in Int /\ Low(box.cy, box.h) \in Int
<1> DEFINE x == Low(box.cx, box.w)
           y == Low(box.cy, box.h)
<1>1. x \in Int /\ y \in Int /\ box.w \in Nat /\ box.h \in Nat
  BY DEF Boxes, Low
<1> HIDE DEF x, y
<1>2. \A z \in Int, n \in Nat : IsFiniteSet(z .. z + n - 1) /\ Cardinality(z .. z + n - 1) = n
  <2> SUFFICES ASSUME NEW z \in Int, NEW n \in Nat
               PROVE  IsFiniteSet(z .. z + n - 1) /\ Cardinality(z .. z + n - 1) = n
    OBVIOUS
  <2>1. z + n - 1 \in Int
    OBVIOUS
  <2>2. IsFiniteSet(z .. z + n - 1) /\
        Cardinality(z .. z + n - 1) = IF z > z + n - 1 THEN 0 ELSE (z + n - 1) - z + 1
    BY <2>1, FS_Interval
  <2> QED
    BY <2>2
<1> DEFINE across == x .. x + box.w - 1
           down == y .. y + box.h - 1
<1>3. Cells(box) = across \X down
  BY DEF Cells, x, y
<1>4. /\ IsFiniteSet(across) /\ Cardinality(across) = box.w
      /\ IsFiniteSet(down) /\ Cardinality(down) = box.h
  BY <1>1, <1>2
<1> HIDE DEF across, down
<1>5. IsFiniteSet(Cells(box)) /\ Cardinality(Cells(box)) = box.w * box.h
  BY <1>3, <1>4, FS_Product
<1> QED
  BY <1>1, <1>5 DEF x, y

(* The formula of _nms says what the cells say.                              *)
LEMMA OverlapIsSamePerson ==
  ASSUME NEW a \in Boxes, NEW b \in Boxes
  PROVE  Overlaps(a, b) <=> SamePerson(a, b)
<1> DEFINE both == Cells(a) \cap Cells(b)
           ax == Low(a.cx, a.w)  ay == Low(a.cy, a.h)
           bx == Low(b.cx, b.w)  by == Low(b.cy, b.h)
           across == (ax .. ax + a.w - 1) \cap (bx .. bx + b.w - 1)
           down == (ay .. ay + a.h - 1) \cap (by .. by + b.h - 1)
<1>1. /\ IsFiniteSet(Cells(a)) /\ IsFiniteSet(Cells(b))
      /\ Cardinality(Cells(a)) = a.w * a.h /\ Cardinality(Cells(b)) = b.w * b.h
      /\ ax \in Int /\ ay \in Int /\ bx \in Int /\ by \in Int
      /\ a.w \in Nat /\ a.h \in Nat /\ b.w \in Nat /\ b.h \in Nat
  BY CellsOfBox DEF Boxes
<1>2. both = across \X down
  BY DEF Cells
<1> HIDE DEF ax, ay, bx, by
<1>3. /\ IsFiniteSet(across) /\ Cardinality(across) = Shared(ax, a.w, bx, b.w)
      /\ IsFiniteSet(down) /\ Cardinality(down) = Shared(ay, a.h, by, b.h)
  BY <1>1, SharedCells
<1>4. Intersection(a, b) = Shared(ax, a.w, bx, b.w) * Shared(ay, a.h, by, b.h)
  BY DEF Intersection, ax, ay, bx, by
<1> HIDE DEF across, down, both
<1>5. IsFiniteSet(both) /\ Cardinality(both) = Intersection(a, b)
  BY <1>2, <1>3, <1>4, FS_Product
<1>6. Cardinality(Cells(a) \cup Cells(b)) = a.w * a.h + b.w * b.h - Intersection(a, b)
  <2>1. Cardinality(Cells(a) \cup Cells(b)) =
          Cardinality(Cells(a)) + Cardinality(Cells(b)) - Cardinality(both)
    BY <1>1, FS_Union DEF both
  <2> QED
    BY <1>1, <1>5, <2>1
<1>7. Intersection(a, b) \in Nat /\ (both # {} <=> Intersection(a, b) > 0)
  BY <1>5, FS_CardinalityType, FS_EmptySet
<1> QED
  BY <1>5, <1>6, <1>7 DEF Overlaps, SamePerson, both

LEMMA SamePersonSymmetric == \A a, b : SamePerson(a, b) <=> SamePerson(b, a)
<1>1. \A S, T : S \cap T = T \cap S /\ S \cup T = T \cup S
  OBVIOUS
<1> QED
  BY <1>1 DEF SamePerson

-----------------------------------------------------------------------------
(* Among numbers of at most 100 there is a highest, and among its places a   *)
(* first.                                                                    *)
LEMMA FirstHighest ==
  ASSUME NEW places, NEW c \in [places -> 0 .. 100], places \subseteq Nat, places # {}
  PROVE  \E k \in places : \A j \in places : c[j] < c[k] \/ (c[j] = c[k] /\ k <= j)
<1> DEFINE short == {100 - c[k] : k \in places}
<1>1. short \subseteq Nat /\ short # {}
  <2>1. \A n \in 0 .. 100 : 100 - n \in Nat
    OBVIOUS
  <2>2. \A k \in places : c[k] \in 0 .. 100
    OBVIOUS
  <2> QED
    BY <2>1, <2>2
<1>2. PICK m \in short : \A n \in short : m <= n
  BY <1>1, LeastNat
<1> DEFINE best == {k \in places : 100 - c[k] = m}
<1>3. best \subseteq Nat /\ best # {}
  BY <1>2
<1>4. PICK k \in best : \A j \in best : k <= j
  BY <1>3, LeastNat
<1>5. ASSUME NEW j \in places
      PROVE  c[j] < c[k] \/ (c[j] = c[k] /\ k <= j)
  <2>1. m <= 100 - c[j]
    BY <1>2
  <2>2. k \in places /\ 100 - c[k] = m /\ c[j] \in 0 .. 100 /\ c[k] \in 0 .. 100
    BY <1>4
  <2>3. c[j] <= c[k]
    BY <2>1, <2>2
  <2>4. c[j] = c[k] => k <= j
    BY <1>4, <2>2
  <2> QED
    BY <2>2, <2>3, <2>4
<1> QED
  BY <1>4, <1>5

(* _select returns the first box of the highest confidence, if there is one. *)
LEMMA SelectIsBest ==
  ASSUME NEW boxes \in Seq(Boxes)
  PROVE  LET candidates == {k \in DOMAIN boxes : boxes[k].confidence >= ConfidenceThreshold} IN
           /\ candidates = {} => Select(boxes) = None
           /\ candidates # {} => \E k \in candidates :
                /\ Select(boxes) = boxes[k]
                /\ \A j \in candidates : boxes[j].confidence <= boxes[k].confidence
<1> DEFINE candidates == {k \in DOMAIN boxes : boxes[k].confidence >= ConfidenceThreshold}
           c == [k \in candidates |-> boxes[k].confidence]
           Highest(k) == \A j \in candidates :
                           boxes[j].confidence < boxes[k].confidence
                             \/ (boxes[j].confidence = boxes[k].confidence /\ k <= j)
<1>1. Select(boxes) = IF candidates = {} THEN None ELSE boxes[CHOOSE k \in candidates : Highest(k)]
  BY DEF Select
<1>2. \A k \in candidates : k \in Nat /\ boxes[k].confidence \in 0 .. 100
  <2> SUFFICES ASSUME NEW k \in candidates PROVE k \in Nat /\ boxes[k].confidence \in 0 .. 100
    OBVIOUS
  <2>1. k \in 1 .. Len(boxes) /\ Len(boxes) \in Nat
    BY LenProperties
  <2>2. boxes[k] \in Boxes
    BY <2>1, ElementOfSeq
  <2> QED
    BY <2>1, <2>2 DEF Boxes, Percent
<1> HIDE DEF candidates
<1>3. c \in [candidates -> 0 .. 100] /\ candidates \subseteq Nat
  BY <1>2
<1>4. \A k \in candidates : c[k] = boxes[k].confidence
  OBVIOUS
<1> HIDE DEF c
<1>5. ASSUME candidates # {} PROVE \E k \in candidates : Highest(k)
  <2>1. PICK k \in candidates : \A j \in candidates : c[j] < c[k] \/ (c[j] = c[k] /\ k <= j)
    BY <1>3, <1>5, FirstHighest
  <2>2. Highest(k)
    BY <1>4, <2>1
  <2> QED
    BY <2>2
<1>6. \A k \in candidates : Highest(k) => \A j \in candidates : boxes[j].confidence <= boxes[k].confidence
  <2> SUFFICES ASSUME NEW k \in candidates, Highest(k), NEW j \in candidates
               PROVE  boxes[j].confidence <= boxes[k].confidence
    OBVIOUS
  <2>1. c[j] < c[k] \/ c[j] = c[k]
    BY <1>4
  <2>2. c[j] \in 0 .. 100 /\ c[k] \in 0 .. 100
    BY <1>3
  <2>3. \A m, n \in 0 .. 100 : m < n \/ m = n => m <= n
    OBVIOUS
  <2>4. c[j] <= c[k]
    BY <2>1, <2>2, <2>3
  <2> QED
    BY <1>4, <2>4
<1> HIDE DEF Highest
<1>7. ASSUME candidates # {}
      PROVE  \E k \in candidates : Select(boxes) = boxes[k] /\ Highest(k)
  BY <1>1, <1>5, <1>7
<1> QED
  BY <1>1, <1>6, <1>7 DEF candidates

-----------------------------------------------------------------------------
(* The inductive invariant.                                                  *)
Source == IF detector = "yolo" THEN YoloRows ELSE IF detector = "dnn" THEN DnnRows ELSE HogRows

Remaining == IF detector = "yolo" THEN Boxes ELSE Source

TypeInv ==
  /\ detector \in {"yolo", "dnn", "hog"}
  /\ phase \in {"frame", "rows", "boxes", "done"}
  /\ rows \in Seq(Source) /\ todo \in Seq(Remaining) /\ detections \in Seq(Boxes)
  /\ phase \in {"frame", "rows"} => detections = <<>> /\ todo = <<>>
  /\ phase = "frame" => rows = <<>>
  /\ phase # "done" => event = None

(* No box kept is of the same person as another one, or as one still to be   *)
(* looked at; those are in the order of their scores.                        *)
KeptApart ==
  detector = "yolo" =>
    /\ \A j, k \in DOMAIN detections : j # k => ~SamePerson(detections[j], detections[k])
    /\ \A j \in DOMAIN detections, k \in DOMAIN todo : ~SamePerson(detections[j], todo[k])
    /\ \A j, k \in DOMAIN todo : j < k => todo[j].confidence >= todo[k].confidence

(* A likely box is still to be looked at, or kept, or one that is better is. *)
AccountedFor(box) ==
  \/ \E i \in DOMAIN todo : todo[i] = box
  \/ \E i \in DOMAIN detections : detections[i] = box
  \/ \E i \in DOMAIN detections :
       SamePerson(detections[i], box) /\ detections[i].confidence >= box.confidence

NoneForgotten ==
  detector = "yolo" /\ phase \in {"boxes", "done"} =>
    \A k \in DOMAIN rows : rows[k].score >= YoloScore => AccountedFor(Box(rows[k]))

(* The loops of the other detectors skip no row.                             *)
NoneSkipped ==
  detector # "yolo" /\ phase \in {"boxes", "done"} =>
    \A k \in DOMAIN rows : Accepted(rows[k]) =>
      \/ \E i \in DOMAIN todo : todo[i] = rows[k]
      \/ \E i \in DOMAIN detections : detections[i].confidence = Confidence(rows[k])

(* Nothing is invented: a detection has the confidence of an accepted row.   *)
Confidences == {Confidence(rows[k]) : k \in {j \in DOMAIN rows : Accepted(rows[j])}}

NoneInvented ==
  /\ \A i \in DOMAIN detections : detections[i].confidence \in Confidences
  /\ detector = "yolo" => \A i \in DOMAIN todo : todo[i].confidence \in Confidences
  /\ detector # "yolo" => \A i \in DOMAIN todo : \E k \in DOMAIN rows : todo[i] = rows[k]

(* The clamped corners leave a box within the frame.                         *)
Within(box) == {box.cx, box.cy, box.h} \subseteq 0 .. 2 * Size

Clamped == detector = "dnn" => \A i \in DOMAIN detections : Within(detections[i])

IInv ==
  /\ TypeInv /\ KeptApart /\ NoneForgotten /\ NoneSkipped /\ NoneInvented /\ Clamped
  /\ BestIsReported /\ TargetInView

-----------------------------------------------------------------------------
(* What a loop takes off one sequence and adds to another.                   *)
LEMMA Consumes ==
  ASSUME NEW S, NEW s \in Seq(S), s # <<>>
  PROVE  /\ Head(s) \in S /\ 1 \in DOMAIN s /\ Head(s) = s[1] /\ Tail(s) \in Seq(S)
         /\ \A i \in DOMAIN Tail(s) : i + 1 \in DOMAIN s /\ Tail(s)[i] = s[i + 1]
         /\ \A k \in DOMAIN s : s[k] = Head(s) \/ \E i \in DOMAIN Tail(s) : Tail(s)[i] = s[k]
<1>1. /\ Tail(s) \in Seq(S) /\ Len(Tail(s)) = Len(s) - 1 /\ Len(s) \in Nat /\ Len(s) >= 1
      /\ Head(s) = s[1] /\ Head(s) \in S
      /\ \A i \in 1 .. Len(Tail(s)) : Tail(s)[i] = s[i + 1]
  BY HeadTailProperties, LenProperties, EmptySeq
<1>2. DOMAIN s = 1 .. Len(s) /\ DOMAIN Tail(s) = 1 .. Len(s) - 1
  BY <1>1, LenProperties
<1>3. \A k \in DOMAIN s : s[k] = Head(s) \/ \E i \in DOMAIN Tail(s) : Tail(s)[i] = s[k]
  <2> SUFFICES ASSUME NEW k \in 1 .. Len(s), k # 1
               PROVE  \E i \in 1 .. Len(s) - 1 : Tail(s)[i] = s[k]
    BY <1>1, <1>2
  <2>1. k - 1 \in 1 .. Len(s) - 1 /\ (k - 1) + 1 = k
    BY <1>1
  <2>2. Tail(s)[k - 1] = s[(k - 1) + 1]
    BY <1>1, <2>1
  <2> QED
    BY <2>1, <2>2
<1> QED
  BY <1>1, <1>2, <1>3

LEMMA Gains ==
  ASSUME NEW S, NEW s \in Seq(S), NEW e \in S
  PROVE  /\ Append(s, e) \in Seq(S)
         /\ \A i \in DOMAIN s : i \in DOMAIN Append(s, e) /\ Append(s, e)[i] = s[i]
         /\ \E n \in DOMAIN Append(s, e) :
              /\ Append(s, e)[n] = e
              /\ \A i \in DOMAIN Append(s, e) : i = n \/ i \in DOMAIN s
<1>1. /\ Append(s, e) \in Seq(S) /\ Len(Append(s, e)) = Len(s) + 1 /\ Len(s) \in Nat
      /\ \A i \in 1 .. Len(s) : Append(s, e)[i] = s[i]
      /\ Append(s, e)[Len(s) + 1] = e
  BY AppendProperties, LenProperties
<1>2. DOMAIN s = 1 .. Len(s) /\ DOMAIN Append(s, e) = 1 .. Len(s) + 1
  BY <1>1, LenProperties
<1> QED
  BY <1>1, <1>2

LEMMA ConfidenceIsWhole == \A box \in Boxes : box.confidence \in Int
  BY DEF Boxes, Percent

(* What the rows are, and the boxes the detectors make of them.              *)
LEMMA YoloBox == \A row \in YoloRows : Box(row) \in Boxes /\ Box(row).confidence = row.score
  BY DetectionAssumption DEF Box, Boxes

LEMMA HogBoxes ==
  \A row \in HogRows : HogBox(row) \in Boxes /\ HogBox(row).confidence = Logistic[row.weight]
<1> SUFFICES ASSUME NEW row \in HogRows
             PROVE  HogBox(row) \in Boxes /\ HogBox(row).confidence = Logistic[row.weight]
  OBVIOUS
<1>1. /\ row.x \in Int /\ row.y \in Int /\ row.w \in Nat /\ row.h \in Nat
      /\ Logistic[row.weight] \in Percent
  BY DetectionAssumption
<1> QED
  BY <1>1 DEF HogBox, Boxes

LEMMA DnnBoxes ==
  \A row \in DnnRows :
    DnnBox(row) \in Boxes /\ DnnBox(row).confidence = row.score /\ Within(DnnBox(row))
<1> SUFFICES ASSUME NEW row \in DnnRows
             PROVE  DnnBox(row) \in Boxes /\ DnnBox(row).confidence = row.score /\ Within(DnnBox(row))
  OBVIOUS
<1> DEFINE x1 == InFrame(row.x1)  y1 == InFrame(row.y1)  x2 == InFrame(row.x2)  y2 == InFrame(row.y2)
<1>1. /\ row.x1 \in Int /\ row.y1 \in Int /\ row.x2 \in Int /\ row.y2 \in Int
      /\ row.score \in Percent /\ Size \in Nat
  BY DetectionAssumption
<1>2. \A n \in Int : InFrame(n) \in 0 .. Size
  BY <1>1 DEF InFrame, Clamp, Greater, Lesser
<1>3. x1 \in 0 .. Size /\ y1 \in 0 .. Size /\ x2 \in 0 .. Size /\ y2 \in 0 .. Size
  BY <1>1, <1>2
<1>4. DnnBox(row) = [cx |-> x1 + x2, cy |-> y1 + y2, w |-> Greater(2 * (x2 - x1), 0),
                     h |-> Greater(2 * (y2 - y1), 0), confidence |-> row.score]
  BY DEF DnnBox
<1> HIDE DEF x1, y1, x2, y2
<1>5. /\ x1 + x2 \in 0 .. 2 * Size /\ y1 + y2 \in 0 .. 2 * Size
      /\ Greater(2 * (x2 - x1), 0) \in Nat /\ Greater(2 * (y2 - y1), 0) \in 0 .. 2 * Size
  BY <1>1, <1>3 DEF Greater
<1> QED
  BY <1>1, <1>4, <1>5 DEF Boxes, Within

-----------------------------------------------------------------------------
LEMMA Initially == Init => IInv
<1> SUFFICES ASSUME Init PROVE IInv
  OBVIOUS
<1>1. detector \in {"yolo", "dnn", "hog"}
  BY DEF Init, Rows
<1>2. rows = <<>> /\ todo = <<>> /\ detections = <<>> /\ DOMAIN <<>> = {}
  BY EmptySeq DEF Init
<1>3. \A S : <<>> \in Seq(S)
  BY EmptySeq
<1>4. phase = "frame" /\ event = None
  BY DEF Init
<1>5. TypeInv
  BY <1>1, <1>2, <1>3, <1>4 DEF TypeInv
<1> QED
  BY <1>2, <1>4, <1>5
     DEF IInv, KeptApart, NoneForgotten, NoneSkipped, NoneInvented, Clamped, BestIsReported, TargetInView

(* What no step but Report tells of the event.                               *)
Untold == BestIsReported /\ TargetInView

LEMMA NoEvent == event = None => Untold
  BY DEF Untold, BestIsReported, TargetInView

LEMMA FrameFailsStep == ASSUME IInv, FrameFails PROVE IInv'
<1>1. /\ phase = "frame" /\ phase' = "done"
      /\ UNCHANGED <<detector, rows, todo, detections, event>>
      /\ rows = <<>> /\ detections = <<>> /\ todo = <<>> /\ event = None
  BY DEF FrameFails, IInv, TypeInv
<1>2. TypeInv'
  BY <1>1 DEF IInv, TypeInv, Source, Remaining
<1>3. DOMAIN rows = {}
  BY <1>1, EmptySeq
<1>4. KeptApart' /\ NoneForgotten' /\ NoneSkipped' /\ NoneInvented' /\ Clamped'
  BY <1>1, <1>3 DEF IInv, KeptApart, NoneForgotten, NoneSkipped, NoneInvented, Clamped, Confidences,
                    Accepted, Confidence
<1>5. BestIsReported' /\ TargetInView'
  BY <1>1 DEF BestIsReported, TargetInView
<1> QED
  BY <1>2, <1>4, <1>5 DEF IInv

LEMMA InferStep == ASSUME IInv, Infer PROVE IInv'
<1>1. /\ phase = "frame" /\ phase' = "rows"
      /\ UNCHANGED <<detector, todo, detections, event>>
      /\ detections = <<>> /\ todo = <<>> /\ event = None
      /\ rows' \in BoundedSeq(Rows[detector], MaxRows)
  BY DEF Infer, IInv, TypeInv
<1>2. DOMAIN todo = {} /\ DOMAIN detections = {}
  BY <1>1, EmptySeq
<1>3. detector \in {"yolo", "dnn", "hog"} /\ Rows[detector] = Source
  BY DEF IInv, TypeInv, Rows, Source
<1>4. rows' \in Seq(Source)
  <2>1. PICK n \in 0 .. MaxRows : rows' \in [1 .. n -> Source]
    BY <1>1, <1>3 DEF BoundedSeq, SeqOf
  <2>2. n \in Nat
    BY DetectionAssumption
  <2> QED
    BY <2>1, <2>2, SeqDef
<1>5. TypeInv'
  BY <1>1, <1>3, <1>4 DEF IInv, TypeInv, Source, Remaining
<1>6. KeptApart' /\ NoneForgotten' /\ NoneSkipped' /\ NoneInvented' /\ Clamped'
  BY <1>1, <1>2 DEF KeptApart, NoneForgotten, NoneSkipped, NoneInvented, Clamped
<1>7. BestIsReported' /\ TargetInView'
  BY <1>1 DEF BestIsReported, TargetInView
<1> QED
  BY <1>5, <1>6, <1>7 DEF IInv

(* The likely boxes, each once and by falling score.                         *)
LEMMA SortedBoxes ==
  ASSUME NEW likely, likely \subseteq DOMAIN rows, rows \in Seq(YoloRows),
         NEW s \in ByScore(likely)
  PROVE  /\ s \in Seq(Boxes)
         /\ \A i \in DOMAIN s : \E k \in likely : s[i] = Box(rows[k])
         /\ \A k \in likely : \E i \in DOMAIN s : s[i] = Box(rows[k])
         /\ \A j, k \in DOMAIN s : j < k => s[j].confidence >= s[k].confidence
<1> DEFINE n == Cardinality(likely)
<1>1. PICK p \in SetToSeqs(likely) : s = [k \in DOMAIN p |-> Box(rows[p[k]])]
  BY DEF ByScore
<1>2. IsFiniteSet(likely) /\ n \in Nat
  <2>1. IsFiniteSet(1 .. Len(rows)) /\ DOMAIN rows = 1 .. Len(rows)
    BY LenProperties, FS_Interval
  <2> QED
    BY <2>1, FS_Subset, FS_CardinalityType
<1>3. p \in [1 .. n -> likely] /\ \A i, j \in 1 .. n : i # j => p[i] # p[j]
  BY <1>1 DEF SetToSeqs
<1> HIDE DEF n
<1>4. p \in Injection(1 .. n, likely)
  BY <1>3 DEF Injection, IsInjective
<1>5. p \in Surjection(1 .. n, likely)
  <2>1. Cardinality(1 .. n) = n
    BY <1>2, FS_Interval
  <2> QED
    BY <1>2, <1>4, <2>1, FS_Injection DEF n
<1>6. DOMAIN s = 1 .. n /\ \A k \in 1 .. n : s[k] = Box(rows[p[k]])
  BY <1>1, <1>3
<1>7. \A k \in likely : rows[k] \in YoloRows
  BY LenProperties, ElementOfSeq
<1>8. s \in Seq(Boxes)
  <2>1. \A k \in 1 .. n : s[k] \in Boxes
    BY <1>3, <1>6, <1>7, YoloBox
  <2>2. s \in [1 .. n -> Boxes]
    BY <1>1, <1>3, <1>6, <2>1
  <2> QED
    BY <1>2, <2>2, SeqDef
<1>9. \A k \in likely : \E i \in 1 .. n : p[i] = k
  BY <1>5 DEF Surjection
<1>10. \A j, k \in DOMAIN s : j < k => s[j].confidence >= s[k].confidence
  BY DEF ByScore
<1> QED
  BY <1>3, <1>6, <1>8, <1>9, <1>10

LEMMA PostprocessStep == ASSUME IInv, Postprocess PROVE IInv'
<1>1. /\ phase = "rows" /\ phase' = "boxes"
      /\ UNCHANGED <<detector, rows, detections, event>>
      /\ detections = <<>> /\ event = None /\ detector \in {"yolo", "dnn", "hog"}
      /\ rows \in Seq(Source)
  BY DEF Postprocess, IInv, TypeInv
<1>2. DOMAIN detections = {} /\ <<>> \in Seq(Boxes)
  BY <1>1, EmptySeq
<1>3. Source' = Source /\ Remaining' = Remaining
      /\ Confidences' = Confidences
  BY <1>1 DEF Source, Remaining, Confidences, Confidence, Accepted
<1>4. BestIsReported' /\ TargetInView'
  BY <1>1 DEF BestIsReported, TargetInView
<1>5. CASE detector = "yolo"
  <2> DEFINE likely == {k \in DOMAIN rows : rows[k].score >= YoloScore}
  <2>1. todo' \in ByScore(likely) /\ rows \in Seq(YoloRows) /\ likely \subseteq DOMAIN rows
    BY <1>1, <1>5 DEF Postprocess, Source
  <2>2. /\ todo' \in Seq(Boxes)
        /\ \A i \in DOMAIN todo' : \E k \in likely : todo'[i] = Box(rows[k])
        /\ \A k \in likely : \E i \in DOMAIN todo' : todo'[i] = Box(rows[k])
        /\ \A j, k \in DOMAIN todo' : j < k => todo'[j].confidence >= todo'[k].confidence
    BY <2>1, SortedBoxes
  <2>3. TypeInv'
    BY <1>1, <1>2, <1>3, <1>5, <2>2 DEF TypeInv, Remaining
  <2>4. KeptApart' /\ NoneSkipped' /\ Clamped'
    BY <1>1, <1>2, <1>5, <2>2 DEF KeptApart, NoneSkipped, Clamped
  <2>5. NoneForgotten'
    BY <1>1, <1>5, <2>2 DEF NoneForgotten, AccountedFor
  <2>6. NoneInvented'
    <3>1. ASSUME NEW i \in DOMAIN todo' PROVE todo'[i].confidence \in Confidences
      <4>1. PICK k \in likely : todo'[i] = Box(rows[k])
        BY <2>2
      <4>2. todo'[i].confidence = rows[k].score
        BY <4>1 DEF Box
      <4>3. Accepted(rows[k]) /\ Confidence(rows[k]) = rows[k].score
        BY <1>1, <1>5 DEF Accepted, Confidence
      <4> QED
        BY <1>1, <4>2, <4>3 DEF Confidences
    <3> QED
      BY <1>1, <1>2, <1>3, <1>5, <3>1 DEF NoneInvented
  <2> QED
    BY <1>4, <2>3, <2>4, <2>5, <2>6 DEF IInv
<1>6. CASE detector # "yolo"
  <2>1. todo' = rows
    BY <1>6 DEF Postprocess
  <2>2. TypeInv'
    BY <1>1, <1>2, <1>3, <1>6, <2>1 DEF TypeInv, Remaining
  <2>3. KeptApart' /\ NoneForgotten' /\ NoneSkipped' /\ NoneInvented' /\ Clamped'
    BY <1>1, <1>2, <1>6, <2>1 DEF KeptApart, NoneForgotten, NoneSkipped, NoneInvented, Clamped
  <2> QED
    BY <1>4, <2>2, <2>3 DEF IInv
<1> QED
  BY <1>5, <1>6

-----------------------------------------------------------------------------
(* A turn of _nms.                                                           *)
LEMMA SuppressStep == ASSUME IInv, Suppress PROVE IInv'
<1> DEFINE best == Head(todo)
           spared == {k \in 2 .. Len(todo) : ~Overlaps(best, todo[k])}
<1>1. /\ phase = "boxes" /\ detector = "yolo" /\ todo # <<>>
      /\ detections' = Append(detections, best) /\ todo' = AtPlaces(todo, spared)
      /\ UNCHANGED <<detector, phase, rows, event>>
      /\ todo \in Seq(Boxes) /\ detections \in Seq(Boxes) /\ rows \in Seq(YoloRows)
      /\ event = None
  BY DEF Suppress, IInv, TypeInv, Remaining, Source
<1>2. best \in Boxes /\ 1 \in DOMAIN todo /\ best = todo[1]
  BY <1>1, Consumes
<1>3. DOMAIN todo = 1 .. Len(todo) /\ Len(todo) \in Nat /\ \A k \in DOMAIN todo : todo[k] \in Boxes
  BY <1>1, LenProperties, ElementOfSeq
<1>4. \A k \in DOMAIN todo : k \in spared <=> k # 1 /\ ~SamePerson(best, todo[k])
  <2> SUFFICES ASSUME NEW k \in DOMAIN todo
               PROVE  k \in spared <=> k # 1 /\ ~SamePerson(best, todo[k])
    OBVIOUS
  <2>1. Overlaps(best, todo[k]) <=> SamePerson(best, todo[k])
    BY <1>2, <1>3, OverlapIsSamePerson
  <2> QED
    BY <1>3, <2>1
<1>5. spared \subseteq DOMAIN todo
  BY <1>3
<1> HIDE DEF best, spared
<1>6. /\ todo' \in Seq(Boxes)
      /\ \A i \in spared : \E k \in DOMAIN todo' : todo'[k] = todo[i]
  BY <1>1, <1>5, AtPlacesKeeps
<1>7. PICK at \in [DOMAIN todo' -> spared] :
        /\ \A k \in DOMAIN todo' : todo'[k] = todo[at[k]]
        /\ \A j, k \in DOMAIN todo' : j < k => at[j] < at[k]
  <2> DEFINE t == AtPlaces(todo, spared)
  <2>1. \E at \in [DOMAIN t -> spared] :
          /\ \A k \in DOMAIN t : t[k] = todo[at[k]]
          /\ \A j, k \in DOMAIN t : j < k => at[j] < at[k]
    BY <1>1, <1>5, AtPlacesKeeps, Zenon
  <2>2. t = todo'
    BY <1>1
  <2> HIDE DEF t
  <2> QED
    BY <2>1, <2>2, Zenon
<1>8. /\ detections' \in Seq(Boxes)
      /\ \A i \in DOMAIN detections : i \in DOMAIN detections' /\ detections'[i] = detections[i]
  BY <1>1, <1>2, Gains
<1>9. PICK n \in DOMAIN detections' :
        detections'[n] = best /\ \A i \in DOMAIN detections' : i = n \/ i \in DOMAIN detections
  BY <1>1, <1>2, Gains
<1>10. /\ \A j, k \in DOMAIN detections : j # k => ~SamePerson(detections[j], detections[k])
       /\ \A j \in DOMAIN detections, k \in DOMAIN todo : ~SamePerson(detections[j], todo[k])
       /\ \A j, k \in DOMAIN todo : j < k => todo[j].confidence >= todo[k].confidence
  BY <1>1 DEF IInv, KeptApart
<1>11. Confidences' = Confidences
  BY <1>1 DEF Confidences, Confidence, Accepted
<1>12. TypeInv'
  BY <1>1, <1>6, <1>8 DEF IInv, TypeInv, Remaining, Source
<1>13. KeptApart'
  <2>1. ASSUME NEW j \in DOMAIN detections', NEW k \in DOMAIN detections', j # k
        PROVE  ~SamePerson(detections'[j], detections'[k])
    <3>1. CASE j \in DOMAIN detections /\ k \in DOMAIN detections
      BY <1>8, <1>10, <2>1, <3>1
    <3>2. CASE j = n /\ k \in DOMAIN detections
      BY <1>2, <1>8, <1>9, <1>10, <3>2, SamePersonSymmetric
    <3>3. CASE k = n /\ j \in DOMAIN detections
      BY <1>2, <1>8, <1>9, <1>10, <3>3
    <3> QED
      BY <1>9, <2>1, <3>1, <3>2, <3>3
  <2>2. ASSUME NEW j \in DOMAIN detections', NEW k \in DOMAIN todo'
        PROVE  ~SamePerson(detections'[j], todo'[k])
    <3>1. at[k] \in spared /\ at[k] \in DOMAIN todo /\ todo'[k] = todo[at[k]]
      BY <1>5, <1>7
    <3>2. CASE j = n
      BY <1>4, <1>9, <3>1, <3>2
    <3>3. CASE j \in DOMAIN detections
      BY <1>8, <1>10, <3>1, <3>3
    <3> QED
      BY <1>9, <3>2, <3>3
  <2>3. ASSUME NEW j \in DOMAIN todo', NEW k \in DOMAIN todo', j < k
        PROVE  todo'[j].confidence >= todo'[k].confidence
    <3>1. at[j] \in DOMAIN todo /\ at[k] \in DOMAIN todo /\ at[j] < at[k]
      BY <1>5, <1>7, <2>3
    <3>2. todo'[j] = todo[at[j]] /\ todo'[k] = todo[at[k]]
      BY <1>7
    <3> QED
      BY <1>10, <3>1, <3>2
  <2> QED
    BY <2>1, <2>2, <2>3 DEF KeptApart
<1>14. NoneForgotten'
  <2>1. ASSUME NEW k \in DOMAIN rows, rows[k].score >= YoloScore
        PROVE  \/ \E i \in DOMAIN todo' : todo'[i] = Box(rows[k])
               \/ \E i \in DOMAIN detections' : detections'[i] = Box(rows[k])
               \/ \E i \in DOMAIN detections' :
                    SamePerson(detections'[i], Box(rows[k]))
                      /\ detections'[i].confidence >= Box(rows[k]).confidence
    <3>1. AccountedFor(Box(rows[k]))
      BY <1>1, <2>1 DEF IInv, NoneForgotten
    <3>2. ASSUME NEW i \in DOMAIN todo, todo[i] = Box(rows[k])
          PROVE  \/ \E m \in DOMAIN todo' : todo'[m] = todo[i]
                 \/ detections'[n] = todo[i]
                 \/ /\ SamePerson(detections'[n], todo[i])
                    /\ detections'[n].confidence >= todo[i].confidence
      <4>1. CASE i \in spared
        BY <1>6, <4>1
      <4>2. CASE i = 1
        BY <1>2, <1>9, <4>2
      <4>3. CASE i # 1 /\ i \notin spared
        <5>1. SamePerson(best, todo[i])
          BY <1>4, <4>3
        <5>2. 1 < i
          BY <1>3, <4>3
        <5>3. todo[1].confidence >= todo[i].confidence
          BY <1>2, <1>10, <5>2
        <5> QED
          BY <1>2, <1>9, <5>1, <5>3
      <4> QED
        BY <4>1, <4>2, <4>3
    <3>3. CASE \E i \in DOMAIN todo : todo[i] = Box(rows[k])
      BY <3>2, <3>3
    <3>4. CASE \E i \in DOMAIN detections :
                 \/ detections[i] = Box(rows[k])
                 \/ /\ SamePerson(detections[i], Box(rows[k]))
                    /\ detections[i].confidence >= Box(rows[k]).confidence
      BY <1>8, <3>4
    <3> QED
      BY <3>1, <3>3, <3>4 DEF AccountedFor
  <2> QED
    BY <1>1, <2>1 DEF NoneForgotten, AccountedFor
<1>15. NoneInvented'
  <2>1. ASSUME NEW i \in DOMAIN todo PROVE todo[i].confidence \in Confidences
    BY <1>1 DEF IInv, NoneInvented
  <2>2. ASSUME NEW i \in DOMAIN todo' PROVE todo'[i].confidence \in Confidences
    <3>1. at[i] \in DOMAIN todo /\ todo'[i] = todo[at[i]]
      BY <1>5, <1>7
    <3> QED
      BY <2>1, <3>1
  <2>3. ASSUME NEW i \in DOMAIN detections' PROVE detections'[i].confidence \in Confidences
    <3>1. CASE i = n
      BY <1>2, <1>9, <2>1, <3>1
    <3>2. CASE i \in DOMAIN detections
      BY <1>8, <3>2 DEF IInv, NoneInvented
    <3> QED
      BY <1>9, <3>1, <3>2
  <2> QED
    BY <1>1, <1>11, <2>2, <2>3 DEF NoneInvented
<1>16. NoneSkipped' /\ Clamped' /\ BestIsReported' /\ TargetInView'
  BY <1>1 DEF NoneSkipped, Clamped, BestIsReported, TargetInView
<1> QED
  BY <1>12, <1>13, <1>14, <1>15, <1>16 DEF IInv

-----------------------------------------------------------------------------
(* A turn of the other detectors' loops over their rows.                     *)
LEMMA LoopStep ==
  ASSUME IInv, phase = "boxes", detector # "yolo", todo # <<>>,
         UNCHANGED <<detector, phase, rows, event>>, todo' = Tail(todo),
         \/ Accepted(Head(todo)) /\ \E box \in Boxes :
              /\ detections' = Append(detections, box)
              /\ box.confidence = Confidence(Head(todo))
              /\ detector = "dnn" => Within(box)
         \/ ~Accepted(Head(todo)) /\ detections' = detections
  PROVE  IInv'
<1>1. /\ detector \in {"dnn", "hog"} /\ rows \in Seq(Source) /\ todo \in Seq(Source)
      /\ detections \in Seq(Boxes) /\ event = None
      /\ Source' = Source /\ Remaining = Source /\ Remaining' = Source
      /\ Confidences' = Confidences
  BY DEF IInv, TypeInv, Source, Remaining, Confidences, Accepted, Confidence
<1>2. /\ Head(todo) \in Source /\ 1 \in DOMAIN todo /\ Head(todo) = todo[1]
      /\ todo' \in Seq(Source)
      /\ \A i \in DOMAIN todo' : i + 1 \in DOMAIN todo /\ todo'[i] = todo[i + 1]
      /\ \A k \in DOMAIN todo : todo[k] = Head(todo) \/ \E i \in DOMAIN todo' : todo'[i] = todo[k]
  BY <1>1, Consumes
<1>3. PICK k \in DOMAIN rows : Head(todo) = rows[k]
  BY <1>2 DEF IInv, NoneInvented
<1>4. /\ \A i \in DOMAIN detections : detections[i].confidence \in Confidences
      /\ detector = "dnn" => \A i \in DOMAIN detections : Within(detections[i])
      /\ \A i \in DOMAIN todo : \E j \in DOMAIN rows : todo[i] = rows[j]
  BY DEF IInv, NoneInvented, Clamped
<1>5. /\ detections' \in Seq(Boxes)
      /\ \A i \in DOMAIN detections : i \in DOMAIN detections' /\ detections'[i] = detections[i]
      /\ \A i \in DOMAIN detections' : detections'[i].confidence \in Confidences
      /\ detector = "dnn" => \A i \in DOMAIN detections' : Within(detections'[i])
      /\ Accepted(Head(todo)) =>
           \E i \in DOMAIN detections' : detections'[i].confidence = Confidence(Head(todo))
  <2>1. CASE ~Accepted(Head(todo))
    BY <1>1, <1>4, <2>1
  <2>2. CASE Accepted(Head(todo))
    <3>1. PICK box \in Boxes :
            /\ detections' = Append(detections, box)
            /\ box.confidence = Confidence(Head(todo))
            /\ detector = "dnn" => Within(box)
      BY <2>2
    <3>2. /\ detections' \in Seq(Boxes)
          /\ \A i \in DOMAIN detections : i \in DOMAIN detections' /\ detections'[i] = detections[i]
      BY <1>1, <3>1, Gains
    <3>3. PICK n \in DOMAIN detections' :
            detections'[n] = box /\ \A i \in DOMAIN detections' : i = n \/ i \in DOMAIN detections
      BY <1>1, <3>1, Gains
    <3>4. box.confidence \in Confidences
      BY <1>3, <2>2, <3>1 DEF Confidences
    <3>5. ASSUME NEW i \in DOMAIN detections'
          PROVE  detections'[i].confidence \in Confidences /\ (detector = "dnn" => Within(detections'[i]))
      <4>1. CASE i = n
        BY <3>1, <3>3, <3>4, <4>1
      <4>2. CASE i \in DOMAIN detections
        BY <1>4, <3>2, <4>2
      <4> QED
        BY <3>3, <4>1, <4>2
    <3> QED
      BY <3>1, <3>2, <3>3, <3>5
  <2> QED
    BY <2>1, <2>2
<1>6. TypeInv'
  BY <1>1, <1>2, <1>5 DEF IInv, TypeInv
<1>7. NoneSkipped'
  <2> SUFFICES ASSUME NEW j \in DOMAIN rows, Accepted(rows[j])
               PROVE  \/ \E i \in DOMAIN todo' : todo'[i] = rows[j]
                      \/ \E i \in DOMAIN detections' : detections'[i].confidence = Confidence(rows[j])
    BY DEF NoneSkipped, Accepted, Confidence
  <2>1. \/ \E i \in DOMAIN todo : todo[i] = rows[j]
        \/ \E i \in DOMAIN detections : detections[i].confidence = Confidence(rows[j])
    BY DEF IInv, NoneSkipped
  <2>2. CASE \E i \in DOMAIN todo : todo[i] = rows[j]
    <3>1. rows[j] = Head(todo) \/ \E i \in DOMAIN todo' : todo'[i] = rows[j]
      BY <1>2, <2>2
    <3> QED
      BY <1>5, <3>1
  <2>3. CASE \E i \in DOMAIN detections : detections[i].confidence = Confidence(rows[j])
    BY <1>5, <2>3
  <2> QED
    BY <2>1, <2>2, <2>3
<1>8. NoneInvented'
  <2>1. \A i \in DOMAIN todo' : \E j \in DOMAIN rows : todo'[i] = rows[j]
    BY <1>2, <1>4
  <2> QED
    BY <1>1, <1>5, <2>1 DEF NoneInvented
<1>9. Clamped'
  BY <1>5 DEF Clamped, Within
<1>10. KeptApart' /\ NoneForgotten' /\ BestIsReported' /\ TargetInView'
  BY <1>1 DEF KeptApart, NoneForgotten, BestIsReported, TargetInView
<1> QED
  BY <1>6, <1>7, <1>8, <1>9, <1>10 DEF IInv

LEMMA DnnRowStep == ASSUME IInv, DnnRow PROVE IInv'
<1>1. /\ phase = "boxes" /\ detector = "dnn" /\ todo # <<>> /\ todo' = Tail(todo)
      /\ UNCHANGED <<detector, phase, rows, event>>
      /\ detections' = IF Accepted(Head(todo)) THEN Append(detections, DnnBox(Head(todo))) ELSE detections
  BY DEF DnnRow, Accepted
<1>2. Head(todo) \in DnnRows
  BY <1>1, Consumes DEF IInv, TypeInv, Remaining, Source
<1>3. /\ DnnBox(Head(todo)) \in Boxes /\ DnnBox(Head(todo)).confidence = Confidence(Head(todo))
      /\ Within(DnnBox(Head(todo)))
  BY <1>1, <1>2, DnnBoxes DEF Confidence
<1> QED
  BY <1>1, <1>3, LoopStep

LEMMA HogRowStep == ASSUME IInv, HogRow PROVE IInv'
<1>1. /\ phase = "boxes" /\ detector = "hog" /\ todo # <<>> /\ todo' = Tail(todo)
      /\ UNCHANGED <<detector, phase, rows, event>>
      /\ Accepted(Head(todo)) /\ detections' = Append(detections, HogBox(Head(todo)))
  BY DEF HogRow, Accepted
<1>2. Head(todo) \in HogRows
  BY <1>1, Consumes DEF IInv, TypeInv, Remaining, Source
<1>3. HogBox(Head(todo)) \in Boxes /\ HogBox(Head(todo)).confidence = Confidence(Head(todo))
  BY <1>1, <1>2, HogBoxes DEF Confidence
<1> QED
  BY <1>1, <1>3, LoopStep

-----------------------------------------------------------------------------
(* The event of a box within the frame is within the field of view, and at a *)
(* distance between that of a full frame and that of the smallest box.       *)
LEMMA ScaledOffset ==
  ASSUME NEW n \in Nat, NEW f \in Nat, NEW c \in 0 .. 2 * n
  PROVE  Abs((c - n) * f) <= n * f
<1>1. CASE c >= n
  <2>1. PICK d \in Nat : c - n = d /\ d <= n
    <3>1. c - n \in Nat /\ c - n <= n
      BY <1>1
    <3> QED
      BY <3>1
  <2>2. PICK e \in Nat : n = d + e
    <3>1. n - d \in Nat /\ n = d + (n - d)
      BY <2>1
    <3> QED
      BY <3>1
  <2>3. d * f \in Nat /\ e * f \in Nat /\ (d + e) * f = d * f + e * f
    OBVIOUS
  <2>4. (c - n) * f = d * f /\ n * f = d * f + e * f
    BY <2>1, <2>2, <2>3
  <2> QED
    BY <2>3, <2>4 DEF Abs
<1>2. CASE c < n
  <2>1. PICK d \in Nat : c - n = -d /\ d <= n
    <3>1. n - c \in Nat /\ n - c <= n /\ c - n = -(n - c)
      BY <1>2
    <3> QED
      BY <3>1
  <2>2. PICK e \in Nat : n = d + e
    <3>1. n - d \in Nat /\ n = d + (n - d)
      BY <2>1
    <3> QED
      BY <3>1
  <2>3. /\ d * f \in Nat /\ e * f \in Nat /\ (d + e) * f = d * f + e * f
        /\ (-d) * f = -(d * f)
    OBVIOUS
  <2>4. (c - n) * f = -(d * f) /\ n * f = d * f + e * f
    BY <2>1, <2>2, <2>3
  <2> QED
    BY <2>3, <2>4 DEF Abs
<1> QED
  BY <1>1, <1>2

(* A quotient is at least what fits into it, and falls with the divisor.     *)
LEMMA Quotients ==
  ASSUME NEW n \in Nat, NEW d \in Nat \ {0}, NEW q \in Nat
  PROVE  n \div d \in Nat /\ (q * d <= n <=> q <= n \div d)
<1>1. n = d * (n \div d) + (n % d) /\ (n % d) \in 0 .. d - 1 /\ n \div d \in Nat
  OBVIOUS
<1> DEFINE m == n \div d
           r == n % d
<1> HIDE DEF m, r
<1>2. n = d * m + r /\ r \in 0 .. d - 1 /\ m \in Nat
  BY <1>1 DEF m, r
<1>3. CASE q <= m
  <2>1. PICK e \in Nat : m = q + e
    <3>1. m - q \in Nat /\ m = q + (m - q)
      BY <1>2, <1>3
    <3> QED
      BY <3>1
  <2>2. d * m = q * d + d * e /\ d * e \in Nat /\ q * d \in Nat
    BY <2>1
  <2>3. q * d <= n
    BY <1>2, <2>2
  <2> QED
    BY <1>2, <1>3, <2>3 DEF m
<1>4. CASE m < q
  <2>1. PICK e \in Nat : q = m + 1 + e
    <3>1. q - m - 1 \in Nat /\ q = m + 1 + (q - m - 1)
      BY <1>2, <1>4
    <3> QED
      BY <3>1
  <2>2. q * d = d * m + d + e * d /\ e * d \in Nat /\ d * m \in Nat /\ q * d \in Nat
    BY <1>2, <2>1
  <2>3. ~(q * d <= n)
    BY <1>2, <2>2
  <2>4. ~(q <= m)
    BY <1>2, <1>4
  <2> QED
    BY <1>2, <2>3, <2>4 DEF m
<1> QED
  BY <1>2, <1>3, <1>4

LEMMA DistanceInRange ==
  ASSUME NEW h \in 0 .. 2 * Size
  PROVE  (RangeReference * 2 * Size) \div Greater(h, MinBoxHeight)
           \in RangeReference .. (RangeReference * 2 * Size) \div MinBoxHeight
<1> DEFINE d == Greater(h, MinBoxHeight)
           n == RangeReference * 2 * Size
           far == n \div MinBoxHeight
           distance == n \div d
<1>1. /\ Size \in Nat /\ RangeReference \in Nat /\ MinBoxHeight \in Nat \ {0}
      /\ MinBoxHeight <= 2 * Size
  BY DetectionAssumption
<1>2. d \in Nat \ {0} /\ MinBoxHeight <= d /\ d <= 2 * Size
  BY <1>1 DEF Greater
<1> HIDE DEF d
<1>3. n \in Nat /\ n = RangeReference * (2 * Size)
  BY <1>1
<1> HIDE DEF n
<1>4. distance \in Nat /\ far \in Nat
  BY <1>1, <1>2, <1>3, Quotients
<1>5. RangeReference <= distance
  <2>1. PICK e \in Nat : 2 * Size = d + e
    <3>1. 2 * Size - d \in Nat /\ 2 * Size = d + (2 * Size - d)
      BY <1>1, <1>2
    <3> QED
      BY <3>1
  <2>2. n = RangeReference * d + RangeReference * e /\ RangeReference * e \in Nat /\ RangeReference * d \in Nat
    BY <1>1, <1>2, <1>3, <2>1
  <2>3. RangeReference * d <= n
    BY <2>2
  <2> QED
    BY <1>1, <1>2, <1>3, <2>3, Quotients
<1>6. distance <= far
  <2>1. distance * d <= n
    BY <1>2, <1>3, <1>4, Quotients
  <2> HIDE DEF distance
  <2>2. PICK e \in Nat : d = MinBoxHeight + e
    <3>1. d - MinBoxHeight \in Nat /\ d = MinBoxHeight + (d - MinBoxHeight)
      BY <1>1, <1>2
    <3> QED
      BY <3>1
  <2>3. /\ distance * d = distance * MinBoxHeight + distance * e
        /\ distance * e \in Nat /\ distance * MinBoxHeight \in Nat
    BY <1>1, <1>4, <2>2
  <2>4. distance * MinBoxHeight <= n
    BY <1>3, <2>1, <2>3
  <2> QED
    BY <1>1, <1>3, <1>4, <2>4, Quotients
<1> QED
  BY <1>1, <1>4, <1>5, <1>6 DEF d, n

-----------------------------------------------------------------------------
(* Once there is nothing left to look at, each accepted row has led to a     *)
(* detection of at least its confidence.                                     *)
LEMMA AllLookedAt ==
  ASSUME IInv, phase = "boxes", todo = <<>>, NEW k \in DOMAIN rows, Accepted(rows[k])
  PROVE  \E i \in DOMAIN detections : detections[i].confidence >= Confidence(rows[k])
<1>1. DOMAIN todo = {}
  BY EmptySeq
<1>2. rows[k] \in Source
  BY LenProperties, ElementOfSeq DEF IInv, TypeInv
<1>3. CASE detector = "yolo"
  <2>1. rows[k] \in YoloRows /\ rows[k].score >= YoloScore
    BY <1>2, <1>3 DEF Source, Accepted
  <2>2. Box(rows[k]) \in Boxes /\ Box(rows[k]).confidence = rows[k].score /\ rows[k].score \in Int
    BY <2>1, YoloBox DEF Boxes, Percent
  <2>3. AccountedFor(Box(rows[k]))
    BY <1>3, <2>1 DEF IInv, NoneForgotten
  <2>4. \E i \in DOMAIN detections : detections[i].confidence >= rows[k].score
    BY <1>1, <2>2, <2>3 DEF AccountedFor
  <2> QED
    BY <1>3, <2>4 DEF Confidence
<1>4. CASE detector # "yolo"
  <2>1. PICK i \in DOMAIN detections : detections[i].confidence = Confidence(rows[k])
    BY <1>1, <1>4 DEF IInv, NoneSkipped
  <2>2. detections[i].confidence \in Int
    <3>1. detections[i] \in Boxes
      BY LenProperties, ElementOfSeq DEF IInv, TypeInv
    <3> QED
      BY <3>1, ConfidenceIsWhole
  <2>3. detections[i].confidence >= Confidence(rows[k])
    BY <2>1, <2>2
  <2> QED
    BY <2>3
<1> QED
  BY <1>3, <1>4

LEMMA ReportStep == ASSUME IInv, Report PROVE IInv'
<1> DEFINE candidates == {k \in DOMAIN detections : detections[k].confidence >= ConfidenceThreshold}
           target == Select(detections)
<1>1. /\ phase = "boxes" /\ phase' = "done" /\ todo = <<>>
      /\ event' = BuildEvent(target)
      /\ UNCHANGED <<detector, rows, todo, detections>>
      /\ detections \in Seq(Boxes) /\ rows \in Seq(Source) /\ detector \in {"yolo", "dnn", "hog"}
  BY DEF Report, IInv, TypeInv
<1>2. TypeInv'
  BY <1>1 DEF IInv, TypeInv, Source, Remaining
<1>3. KeptApart' /\ NoneForgotten' /\ NoneSkipped' /\ NoneInvented' /\ Clamped'
  BY <1>1 DEF IInv, KeptApart, NoneForgotten, NoneSkipped, NoneInvented, Clamped, AccountedFor,
              Confidences, Accepted, Confidence, Within
<1>4. \A k \in DOMAIN detections : detections[k] \in Boxes /\ detections[k].confidence \in Int
  <2> SUFFICES ASSUME NEW k \in DOMAIN detections
               PROVE  detections[k] \in Boxes /\ detections[k].confidence \in Int
    OBVIOUS
  <2>1. detections[k] \in Boxes
    BY <1>1, LenProperties, ElementOfSeq
  <2> QED
    BY <2>1 DEF Boxes, Percent
<1>5. ConfidenceThreshold \in Int
  BY DetectionAssumption DEF Percent
<1>6. /\ candidates = {} => target = None
      /\ candidates # {} => \E k \in candidates :
           /\ target = detections[k]
           /\ \A j \in candidates : detections[j].confidence <= detections[k].confidence
  BY <1>1, SelectIsBest
<1>7. \A k \in DOMAIN detections : detections[k].confidence \in Confidences
  BY DEF IInv, NoneInvented
<1>8. \A r \in Range(rows) : Accepted(r) =>
        /\ Confidence(r) \in Int
        /\ \E i \in DOMAIN detections : detections[i].confidence >= Confidence(r)
  <2> SUFFICES ASSUME NEW k \in DOMAIN rows, Accepted(rows[k])
               PROVE  /\ Confidence(rows[k]) \in Int
                      /\ \E i \in DOMAIN detections : detections[i].confidence >= Confidence(rows[k])
    BY DEF Range
  <2>1. rows[k] \in Source
    BY <1>1, LenProperties, ElementOfSeq
  <2>2. Confidence(rows[k]) \in Int
    <3>1. CASE detector = "hog"
      <4>1. rows[k].weight \in DOMAIN Logistic /\ Logistic[rows[k].weight] \in Percent
        BY <2>1, <3>1, DetectionAssumption DEF Source
      <4> QED
        BY <3>1, <4>1 DEF Confidence, Percent
    <3>2. CASE detector \in {"yolo", "dnn"}
      <4>1. rows[k].score \in Percent
        BY <2>1, <3>2, DetectionAssumption DEF Source
      <4> QED
        BY <3>2, <4>1 DEF Confidence, Percent
    <3> QED
      BY <1>1, <3>1, <3>2
  <2> QED
    BY <1>1, <2>2, AllLookedAt
<1> DEFINE likely == {r \in Range(rows) : Accepted(r) /\ Confidence(r) >= ConfidenceThreshold}
<1>9. \A r \in likely : \E i \in candidates : detections[i].confidence >= Confidence(r)
  <2> SUFFICES ASSUME NEW r \in likely
               PROVE  \E i \in candidates : detections[i].confidence >= Confidence(r)
    OBVIOUS
  <2>1. Accepted(r) /\ Confidence(r) >= ConfidenceThreshold /\ Confidence(r) \in Int
    BY <1>8
  <2>2. PICK i \in DOMAIN detections : detections[i].confidence >= Confidence(r)
    BY <1>8
  <2>3. detections[i].confidence >= ConfidenceThreshold
    BY <1>4, <1>5, <2>1, <2>2
  <2> QED
    BY <2>2, <2>3
<1>10. \A i \in candidates : \E r \in likely : Confidence(r) = detections[i].confidence
  <2> SUFFICES ASSUME NEW i \in candidates
               PROVE  \E r \in likely : Confidence(r) = detections[i].confidence
    OBVIOUS
  <2>1. PICK k \in DOMAIN rows : Accepted(rows[k]) /\ Confidence(rows[k]) = detections[i].confidence
    BY <1>7 DEF Confidences
  <2>2. rows[k] \in Range(rows)
    BY DEF Range
  <2>3. rows[k] \in likely
    BY <2>1, <2>2
  <2> QED
    BY <2>1, <2>3
<1>11. None \notin Boxes
  BY DetectionAssumption
<1>12. CASE candidates = {}
  <2>1. event' = [detected |-> FALSE] /\ likely = {}
    BY <1>1, <1>6, <1>9, <1>12 DEF BuildEvent
  <2>2. ~event'.detected
    BY <2>1
  <2>3. BestIsReported'
    BY <1>1, <2>1, <2>2 DEF BestIsReported, Accepted, Confidence
  <2>4. TargetInView'
    BY <2>2 DEF TargetInView
  <2> QED
    BY <1>2, <1>3, <2>3, <2>4 DEF IInv
<1>13. CASE candidates # {}
  <2>1. PICK k \in candidates :
          /\ target = detections[k]
          /\ \A j \in candidates : detections[j].confidence <= detections[k].confidence
    BY <1>6, <1>13
  <2>2. target \in Boxes /\ target # None
    BY <1>4, <1>11, <2>1
  <2>3. /\ event'.detected = TRUE /\ event'.confidence = detections[k].confidence
        /\ event'.bearing = (target.cx - Size) * HFov
        /\ event'.vertical = (target.cy - Size) * VFov
        /\ event'.distance = (RangeReference * 2 * Size) \div Greater(target.h, MinBoxHeight)
    BY <1>1, <2>1, <2>2 DEF BuildEvent
  <2>4. /\ \A r \in likely : Confidence(r) <= detections[k].confidence
        /\ \E r \in likely : Confidence(r) = detections[k].confidence
    <3>1. ASSUME NEW r \in likely PROVE Confidence(r) <= detections[k].confidence
      <4>1. PICK i \in candidates : detections[i].confidence >= Confidence(r)
        BY <1>9
      <4>2. detections[i].confidence <= detections[k].confidence
        BY <2>1
      <4>3. Confidence(r) \in Int /\ detections[i].confidence \in Int /\ detections[k].confidence \in Int
        BY <1>4, <1>8
      <4> QED
        BY <4>1, <4>2, <4>3
    <3> QED
      BY <1>10, <3>1
  <2>5. BestIsReported'
    <3>1. likely # {}
      BY <2>4
    <3> QED
      BY <1>1, <2>3, <2>4, <3>1 DEF BestIsReported, Accepted, Confidence
  <2>6. TargetInView'
    <3> SUFFICES ASSUME detector = "dnn" PROVE TargetInView'
      BY <1>1 DEF TargetInView
    <3>1. Within(target)
      BY <2>1 DEF IInv, Clamped
    <3>2. target.cx \in 0 .. 2 * Size /\ target.cy \in 0 .. 2 * Size /\ target.h \in 0 .. 2 * Size
      BY <3>1 DEF Within
    <3>3. Size \in Nat /\ HFov \in Nat /\ VFov \in Nat
      BY DetectionAssumption
    <3>4. /\ Abs((target.cx - Size) * HFov) <= Size * HFov
          /\ Abs((target.cy - Size) * VFov) <= Size * VFov
      BY <3>2, <3>3, ScaledOffset
    <3>5. event'.distance \in RangeReference .. (RangeReference * 2 * Size) \div MinBoxHeight
      BY <2>3, <3>2, DistanceInRange
    <3> QED
      BY <2>3, <3>4, <3>5 DEF TargetInView
  <2> QED
    BY <1>2, <1>3, <2>5, <2>6 DEF IInv
<1> QED
  BY <1>12, <1>13

LEMMA StutterStep == ASSUME IInv, UNCHANGED vars PROVE IInv'
<1>1. UNCHANGED <<detector, phase, rows, todo, detections, event>>
  BY DEF vars
<1>2. TypeInv' /\ KeptApart' /\ Clamped'
  BY <1>1 DEF IInv, TypeInv, Source, Remaining, KeptApart, Clamped
<1>3. NoneForgotten' /\ NoneSkipped' /\ NoneInvented'
  BY <1>1 DEF IInv, NoneForgotten, NoneSkipped, NoneInvented, AccountedFor, Confidences, Accepted, Confidence
<1>4. BestIsReported' /\ TargetInView'
  BY <1>1 DEF IInv, BestIsReported, TargetInView, Accepted, Confidence
<1> QED
  BY <1>2, <1>3, <1>4 DEF IInv

-----------------------------------------------------------------------------
(* The invariant holds in every reachable state.                             *)
THEOREM Invariance == Spec => []IInv
<1>1. IInv /\ [Next]_vars => IInv'
  BY FrameFailsStep, InferStep, PostprocessStep, SuppressStep, DnnRowStep, HogRowStep, ReportStep,
     StutterStep DEF Next
<1> QED
  BY Initially, <1>1, PTL DEF Spec

(* YOLO's suppression keeps one box per person and forgets none, overlap     *)
(* being counted in cells: for every set of boxes, every number of rows and  *)
(* every threshold (_nms).                                                   *)
THEOREM OneBoxPerPerson == Spec => []SuppressionIsGreedy
<1>1. IInv => SuppressionIsGreedy
  <2> SUFFICES ASSUME IInv, detector = "yolo", phase \in {"boxes", "done"} PROVE SuppressionIsGreedy
    BY DEF SuppressionIsGreedy
  <2>1. \A j, k \in DOMAIN detections : j # k => ~SamePerson(detections[j], detections[k])
    BY DEF IInv, KeptApart
  <2>2. ASSUME NEW k \in DOMAIN rows, rows[k].score >= YoloScore
        PROVE  \/ Box(rows[k]) \in Range(detections) \cup Range(todo)
               \/ \E kept \in Range(detections) :
                    SamePerson(kept, Box(rows[k])) /\ kept.confidence >= Box(rows[k]).confidence
    <3>1. AccountedFor(Box(rows[k]))
      BY <2>2 DEF IInv, NoneForgotten
    <3> QED
      BY <3>1 DEF AccountedFor, Range
  <2> QED
    BY <2>1, <2>2 DEF SuppressionIsGreedy
<1> QED
  BY Invariance, <1>1, PTL

(* No suppression, filter or order of rows loses the most confident person,  *)
(* for every detector, every frame and every threshold (detect, _select).    *)
THEOREM NoBestIsLost == Spec => []BestIsReported
<1>1. IInv => BestIsReported
  BY DEF IInv
<1> QED
  BY Invariance, <1>1, PTL

(* Whatever corners a network gives a box, the target is within the field of *)
(* view and its distance in range, for every grid, field of view and         *)
(* reference (detect's clamps, _build_event).                                *)
THEOREM MalformedStaysInView == Spec => []TargetInView
<1>1. IInv => TargetInView
  BY DEF IInv
<1> QED
  BY Invariance, <1>1, PTL
=============================================================================
