-------------------------- MODULE FollowLoopProofs --------------------------
(***************************************************************************)
(* Proofs about FollowLoop for every queue capacity, time, gain, limit,    *)
(* roll of the camera and set of readings, and for any number of           *)
(* detections.                                                             *)
(***************************************************************************)
EXTENDS FollowLoop, SequenceTheorems, TLAPS

-----------------------------------------------------------------------------
(* The assumptions, one by one.                                              *)
LEMMA Types ==
  /\ Capacity \in Nat /\ LostTimeout \in Nat /\ UltrasonicMaxAge \in Nat
  /\ SteerBurst \in Nat /\ SearchInterval \in Nat
  /\ Unit \in Nat \ {0} /\ BearingEpsilon \in Nat \ {0}
  /\ DriveBurst \in Nat \ {0} /\ BodyRotateDuration \in Nat \ {0}
  /\ Smoothing \in Int /\ UltrasonicSmoothing \in Int /\ DistanceEpsilon \in Int
BY FollowAssumption

LEMMA AimTypes ==
  /\ Unit \in Nat \ {0}
  /\ TargetDistance \in Int /\ DistanceDeadband \in Int
  /\ SpeedKp \in Int /\ SteerGain \in Int /\ PanGain \in Int /\ TiltGain \in Int
  /\ CenterDeadband \in Int /\ CameraSteerCompGain \in Int
  /\ PanMin \in Int /\ PanMax \in Int /\ TiltMin \in Int /\ TiltMax \in Int /\ TiltAmp \in Int
  /\ PanMin <= PanMax /\ TiltMin <= TiltMax
  /\ SpeedQuantum \in Int /\ SteerQuantum \in Int
  /\ BodyRotateSteer \in Int /\ BodyRotateSpeed \in Int
  /\ MaxSteer \in Nat /\ MaxSteerStep \in Nat
  /\ MinDriveSpeed \in Nat /\ MaxSpeed \in Nat
  /\ Planner!Straight = 90
BY FollowAssumption DEF Planner!Straight

LEMMA TopSpeedIs == TopSpeed \in Nat /\ MinDriveSpeed <= TopSpeed /\ MaxSpeed <= TopSpeed
BY AimTypes DEF TopSpeed, Greater

LEMMA TravelIs ==
  /\ Pans = {90} \cup PanMin .. PanMax /\ Pans \subseteq Int
  /\ Tilts = {90} \cup TiltMin .. TiltMax /\ Tilts \subseteq Int
BY AimTypes DEF Pans, Tilts

LEMMA NoneIsNew == None \notin Int /\ None \notin Events /\ None \notin States /\ None \notin Commands
BY FollowAssumption

-----------------------------------------------------------------------------
(* What Append and Tail do to the length, the items and the last item.       *)
LEMMA AppendFacts ==
  ASSUME NEW S, NEW q \in Seq(S), NEW e \in S
  PROVE  /\ Append(q, e) \in Seq(S)
         /\ Append(q, e) # <<>>
         /\ Len(Append(q, e)) = Len(q) + 1
         /\ Len(q) \in Nat
         /\ \A i \in 1 .. Len(q) : Append(q, e)[i] = q[i]
         /\ Append(q, e)[Len(q) + 1] = e
BY AppendProperties, LenProperties

LEMMA TailFacts ==
  ASSUME NEW S, NEW q \in Seq(S), q # <<>>
  PROVE  /\ Tail(q) \in Seq(S)
         /\ Head(q) \in S
         /\ Head(q) = q[1]
         /\ Len(q) \in Nat \ {0}
         /\ Len(Tail(q)) = Len(q) - 1
         /\ \A i \in 1 .. Len(q) - 1 : Tail(q)[i] = q[i + 1]
         /\ Tail(q) = <<>> <=> Len(q) = 1
<1>1. Len(q) \in Nat \ {0}
  BY LenProperties, EmptySeq
<1>2. Tail(q) \in Seq(S) /\ Len(Tail(q)) = Len(q) - 1
  BY HeadTailProperties
<1>3. Tail(q) = <<>> <=> Len(q) = 1
  <2>1. Tail(q) = <<>> <=> Len(Tail(q)) = 0
    BY <1>2, EmptySeq
  <2>2. Len(Tail(q)) = 0 <=> Len(q) = 1
    BY <1>1, <1>2
  <2> QED
    BY <2>1, <2>2
<1>4. Head(q) = q[1]
  OBVIOUS
<1> QED
  BY <1>1, <1>2, <1>3, <1>4, HeadTailProperties

-----------------------------------------------------------------------------
(* round() keeps the order of what it rounds and leaves whole steps alone,   *)
(* so rounding to steps keeps within limits that are whole steps.            *)
LEMMA Division ==
  ASSUME NEW n \in Int, NEW d \in Nat \ {0}
  PROVE  n \div d \in Int /\ n % d \in 0 .. d - 1 /\ n = d * (n \div d) + (n % d)
  OBVIOUS

LEMMA ProductsKeepOrder ==
  ASSUME NEW d \in Nat, NEW m \in Int, NEW n \in Int, m <= n
  PROVE  d * m \in Int /\ d * n \in Int /\ d * m <= d * n
<1>1. \A x \in Nat, y \in Nat : x * y \in Nat
  OBVIOUS
<1>2. d * (n - m) \in Nat
  BY <1>1
<1>3. d * (n - m) = d * n - d * m
  OBVIOUS
<1>4. d * m \in Int /\ d * n \in Int
  OBVIOUS
<1> QED
  BY <1>2, <1>3, <1>4

LEMMA QuotientsKeepOrder ==
  ASSUME NEW m \in Int, NEW n \in Int, NEW d \in Nat \ {0}, m <= n
  PROVE  m \div d <= n \div d
<1> DEFINE p == m \div d
           q == n \div d
<1>1. p \in Int /\ m % d \in 0 .. d - 1 /\ m = d * p + (m % d)
  BY Division
<1>2. q \in Int /\ n % d \in 0 .. d - 1 /\ n = d * q + (n % d)
  BY Division
<1> HIDE DEF p, q
<1> SUFFICES ASSUME q + 1 <= p PROVE FALSE
  BY <1>1, <1>2 DEF p, q
<1>3. d * (q + 1) <= d * p /\ d * (q + 1) \in Int /\ d * p \in Int
  BY <1>1, <1>2, ProductsKeepOrder
<1>4. d * (q + 1) = d * q + d /\ d * q \in Int
  BY <1>2
<1> QED
  BY <1>1, <1>2, <1>3, <1>4

LEMMA RoundingKeepsOrder ==
  ASSUME NEW m \in Int, NEW n \in Int, NEW d \in Nat \ {0}, m <= n
  PROVE  Round(m, d) \in Int /\ Round(n, d) \in Int /\ Round(m, d) <= Round(n, d)
<1> DEFINE p == m \div d
           q == n \div d
<1>1. p \in Int /\ m % d \in 0 .. d - 1 /\ m = d * p + (m % d)
  BY Division
<1>2. q \in Int /\ n % d \in 0 .. d - 1 /\ n = d * q + (n % d)
  BY Division
<1>3. p <= q
  BY QuotientsKeepOrder
<1>4. /\ Round(m, d) = IF 2 * (m % d) > d \/ (2 * (m % d) = d /\ p % 2 = 1) THEN p + 1 ELSE p
      /\ Round(n, d) = IF 2 * (n % d) > d \/ (2 * (n % d) = d /\ q % 2 = 1) THEN q + 1 ELSE q
  BY DEF Round
<1> HIDE DEF p, q
<1>5. CASE p = q
  <2>1. m % d <= n % d
    BY <1>1, <1>2, <1>5
  <2> QED
    BY <1>1, <1>2, <1>4, <1>5, <2>1
<1>6. CASE p < q
  BY <1>1, <1>2, <1>4, <1>6
<1> QED
  BY <1>1, <1>2, <1>3, <1>5, <1>6

LEMMA MultiplesDivide ==
  ASSUME NEW k \in Int, NEW d \in Nat \ {0}
  PROVE  (d * k) % d = 0
<1> DEFINE n == d * k
           p == n \div d
           r == n % d
<1>1. n \in Int
  OBVIOUS
<1>2. p \in Int /\ r \in 0 .. d - 1 /\ n = d * p + r
  BY <1>1, Division
<1>3. CASE p + 1 <= k
  <2>1. d * (p + 1) <= d * k /\ d * (p + 1) = d * p + d /\ d * p \in Int
    BY <1>2, <1>3, ProductsKeepOrder
  <2> HIDE DEF p, r
  <2> QED
    BY <1>1, <1>2, <2>1
<1>4. CASE k + 1 <= p
  <2>1. d * (k + 1) <= d * p /\ d * (k + 1) = d * k + d /\ d * p \in Int
    BY <1>2, <1>4, ProductsKeepOrder
  <2> HIDE DEF p, r
  <2> QED
    BY <1>1, <1>2, <2>1
<1>5. CASE k = p
  <2> HIDE DEF p, r
  <2>1. d * p \in Int
    BY <1>2
  <2>2. n = d * p
    BY <1>5
  <2>3. r = 0
    BY <1>2, <2>1, <2>2
  <2> QED
    BY <2>3 DEF r
<1>6. k = p \/ p + 1 <= k \/ k + 1 <= p
  <2> HIDE DEF p
  <2> QED
    BY <1>2
<1> QED
  BY <1>3, <1>4, <1>5, <1>6

(* Rounding to steps takes the place of nothing or of a multiplication.      *)
LEMMA QuantiseIs ==
  ASSUME NEW value \in Int, NEW step \in Int
  PROVE  /\ Planner!Quantise(value, step) = Quantise(value, step)
         /\ Quantise(value, step) \in Int
         /\ step <= 0 => Quantise(value, step) = value
         /\ step > 0 => Round(value, step) \in Int /\ Quantise(value, step) = step * Round(value, step)
<1>1. Planner!Quantise(value, step) = Quantise(value, step)
  BY DEF Planner!Quantise, Planner!Round, Quantise, Round
<1>2. CASE step <= 0
  BY <1>1, <1>2 DEF Quantise
<1>3. CASE step > 0
  <2>1. Round(value, step) \in Int
    BY <1>3, RoundingKeepsOrder
  <2>2. Quantise(value, step) = Round(value, step) * step
    BY <1>3 DEF Quantise
  <2> QED
    BY <1>1, <1>3, <2>1, <2>2
<1> QED
  BY <1>2, <1>3

LEMMA QuantiseKeepsOrder ==
  ASSUME NEW m \in Int, NEW n \in Int, NEW step \in Int, m <= n
  PROVE  Quantise(m, step) <= Quantise(n, step)
<1>1. CASE step <= 0
  BY <1>1, QuantiseIs
<1>2. CASE step > 0
  <2>1. step \in Nat \ {0}
    BY <1>2
  <2>2. Round(m, step) <= Round(n, step) /\ Round(m, step) \in Int /\ Round(n, step) \in Int
    BY <2>1, RoundingKeepsOrder
  <2>3. step * Round(m, step) <= step * Round(n, step)
    BY <2>1, <2>2, ProductsKeepOrder
  <2> QED
    BY <1>2, <2>3, QuantiseIs
<1> QED
  BY <1>1, <1>2

(* What is on a step stays there.                                            *)
LEMMA OnStepStays ==
  ASSUME NEW n \in Int, NEW step \in Int, step <= 0 \/ n % step = 0
  PROVE  Quantise(n, step) = n
<1>1. CASE step <= 0
  BY <1>1, QuantiseIs
<1>2. CASE step > 0
  <2>1. step \in Nat \ {0} /\ n % step = 0
    BY <1>2
  <2>2. n \div step \in Int /\ n = step * (n \div step)
    BY <2>1, Division
  <2>3. Round(n, step) = n \div step
    BY <2>1 DEF Round
  <2> QED
    BY <1>2, <2>2, <2>3, QuantiseIs
<1> QED
  BY <1>1, <1>2

LEMMA QuantiseAgain ==
  ASSUME NEW n \in Int, NEW step \in Int
  PROVE  Quantise(Quantise(n, step), step) = Quantise(n, step)
<1> DEFINE k == Quantise(n, step)
<1>1. k \in Int
  BY QuantiseIs
<1>2. step <= 0 \/ k % step = 0
  <2>1. CASE step > 0
    <3>1. k = step * Round(n, step) /\ Round(n, step) \in Int /\ step \in Nat \ {0}
      BY <2>1, QuantiseIs
    <3> HIDE DEF k
    <3>2. (step * Round(n, step)) % step = 0
      BY <3>1, MultiplesDivide
    <3> QED
      BY <3>1, <3>2
  <2> QED
    BY <2>1
<1> HIDE DEF k
<1>3. Quantise(k, step) = k
  BY <1>1, <1>2, OnStepStays
<1> QED
  BY <1>3 DEF k

(* What lies within limits is rounded to one of the steps nearest to them.   *)
LEMMA QuantiseNearest ==
  ASSUME NEW value \in Int, NEW low \in Int, NEW high \in Int, NEW step \in Int, value \in low .. high
  PROVE  Quantise(value, step) \in Nearest(low, high, step)
<1>1. Quantise(low, step) <= Quantise(value, step) /\ Quantise(value, step) <= Quantise(high, step)
  BY QuantiseKeepsOrder
<1>2. Quantise(low, step) \in Int /\ Quantise(value, step) \in Int /\ Quantise(high, step) \in Int
  BY QuantiseIs
<1> QED
  BY <1>1, <1>2 DEF Nearest

(* And from there it is rounded to one of them again.                        *)
LEMMA NearestStays ==
  ASSUME NEW low \in Int, NEW high \in Int, NEW step \in Int, NEW value \in Nearest(low, high, step)
  PROVE  value \in Int /\ Quantise(value, step) \in Nearest(low, high, step)
<1>1. Quantise(low, step) \in Int /\ Quantise(high, step) \in Int
  BY QuantiseIs
<1>2. value \in Int /\ Quantise(low, step) <= value /\ value <= Quantise(high, step)
  BY <1>1 DEF Nearest
<1>3. /\ Quantise(Quantise(low, step), step) <= Quantise(value, step)
      /\ Quantise(value, step) <= Quantise(Quantise(high, step), step)
  BY <1>1, <1>2, QuantiseKeepsOrder
<1>4. Quantise(value, step) \in Int
  BY <1>2, QuantiseIs
<1> QED
  BY <1>1, <1>2, <1>3, <1>4, QuantiseAgain DEF Nearest

(* Rounding moves a value by half a step at most.                            *)
LEMMA HalfAStep ==
  ASSUME NEW n \in Int, NEW step \in Int
  PROVE  /\ 2 * (Quantise(n, step) - n) <= Greater(0, step)
         /\ 2 * (n - Quantise(n, step)) <= Greater(0, step)
<1>1. CASE step <= 0
  BY <1>1, QuantiseIs DEF Greater
<1>2. CASE step > 0
  <2> DEFINE q == n \div step
             r == n % step
             product == step * q
  <2>1. step \in Nat \ {0} /\ q \in Int /\ r \in 0 .. step - 1 /\ n = product + r
    BY <1>2, Division
  <2>2. Round(n, step) = IF 2 * r > step \/ (2 * r = step /\ q % 2 = 1) THEN q + 1 ELSE q
    BY DEF Round
  <2>3. Quantise(n, step) = step * Round(n, step)
    BY <1>2, QuantiseIs
  <2>4. step * (q + 1) = product + step /\ product \in Int
    BY <2>1
  <2>5. \/ 2 * r >= step /\ Quantise(n, step) = product + step
        \/ 2 * r <= step /\ Quantise(n, step) = product
    <3>1. CASE Round(n, step) = q + 1
      <4>1. 2 * r >= step
        <5> HIDE DEF q, r
        <5> QED
          BY <2>1, <2>2, <3>1
      <4> QED
        BY <2>3, <2>4, <3>1, <4>1
    <3>2. CASE Round(n, step) = q
      <4>1. 2 * r <= step
        <5> HIDE DEF q, r
        <5> QED
          BY <2>1, <2>2, <3>2
      <4> QED
        BY <2>3, <3>2, <4>1
    <3> QED
      BY <2>2, <3>1, <3>2
  <2> HIDE DEF q, r, product
  <2>6. Greater(0, step) = step
    BY <1>2 DEF Greater
  <2> QED
    BY <2>1, <2>4, <2>5, <2>6
<1> QED
  BY <1>1, <1>2

LEMMA QuantiseType ==
  ASSUME NEW value \in Int, NEW step \in Int
  PROVE  Planner!Quantise(value, step) \in Int
BY QuantiseIs

-----------------------------------------------------------------------------
(* What the planner computes lies within the limits.                         *)
LEMMA ScaleType ==
  ASSUME NEW gain \in Int, NEW n \in Int
  PROVE  Planner!Scale(gain, n) \in Int
<1>1. gain * n \in Int /\ Unit \in Nat \ {0}
  BY AimTypes
<1>2. (gain * n) \div Unit \in Int
  BY <1>1, Division
<1> QED
  BY <1>2 DEF Planner!Scale

LEMMA ClampInRange ==
  ASSUME NEW value \in Int, NEW low \in Int, NEW high \in Int, low <= high
  PROVE  Planner!Clamp(value, low, high) \in low .. high
BY DEF Planner!Clamp, Planner!Greater, Planner!Lesser

LEMMA AimedInRange ==
  ASSUME NEW low \in Int, NEW high \in Int, low <= high,
         NEW angle \in {90} \cup low .. high, NEW gain \in Int, NEW bearing \in Int
  PROVE  Planner!Aimed(angle, gain, bearing, low, high) \in {90} \cup low .. high
<1>1. angle + Planner!Scale(gain, bearing) \in Int
  BY ScaleType
<1>2. Planner!Clamp(angle + Planner!Scale(gain, bearing), low, high) \in low .. high
  BY <1>1, ClampInRange
<1> QED
  BY <1>2 DEF Planner!Aimed

LEMMA SteersAre ==
  /\ Steers = {90} \cup Nearest(90 - MaxSteer, 90 + MaxSteer, SteerQuantum)
  /\ Steers \subseteq Int
<1>1. Steers = {90} \cup Nearest(90 - MaxSteer, 90 + MaxSteer, SteerQuantum)
  BY AimTypes DEF Steers
<1>2. 90 - MaxSteer \in Int /\ 90 + MaxSteer \in Int
  BY AimTypes
<1>3. \A s \in Nearest(90 - MaxSteer, 90 + MaxSteer, SteerQuantum) : s \in Int
  BY <1>2, AimTypes, NearestStays
<1> QED
  BY <1>1, <1>3

LEMMA ClampedSteer ==
  ASSUME NEW angle \in Int
  PROVE  Planner!ClampSteer(angle) \in 90 - MaxSteer .. 90 + MaxSteer
<1>1. 90 - MaxSteer \in Int /\ 90 + MaxSteer \in Int /\ 90 - MaxSteer <= 90 + MaxSteer
  BY AimTypes
<1>2. Planner!Clamp(angle, 90 - MaxSteer, 90 + MaxSteer) \in 90 - MaxSteer .. 90 + MaxSteer
  BY <1>1, ClampInRange
<1> QED
  BY <1>2, AimTypes DEF Planner!ClampSteer

(* A ramp is between where it starts and where it leads, and so is what it   *)
(* is rounded to between their nearest steps: roundings do not add up.       *)
LEMMA SteerInRange ==
  ASSUME pan \in Int, steer \in Steers, NEW bearing \in Int
  PROVE  Planner!SteerTo(bearing) \in Steers
<1> DEFINE body == Planner!PanDir * (pan - Planner!Straight) + bearing
           wanted == Planner!Straight + Planner!Scale(SteerGain, body)
           target == Planner!ClampSteer(wanted)
           step == Planner!Clamp(target - steer, -MaxSteerStep, MaxSteerStep)
           low == 90 - MaxSteer
           high == 90 + MaxSteer
<1>1. Planner!PanDir \in Int
  BY DEF Planner!PanDir
<1>2. body \in Int
  BY <1>1, AimTypes
<1> HIDE DEF body
<1>3. wanted \in Int
  <2>1. Planner!Scale(SteerGain, body) \in Int
    BY <1>2, AimTypes, ScaleType
  <2> QED
    BY <2>1, AimTypes
<1> HIDE DEF wanted
<1>4. target \in low .. high
  BY <1>3, ClampedSteer
<1> HIDE DEF target
<1>5. low \in Int /\ high \in Int /\ 90 \in low .. high /\ steer \in Int /\ SteerQuantum \in Int
  BY AimTypes, SteersAre
<1>6. steer + step \in Int
      /\ (steer <= target => steer <= steer + step /\ steer + step <= target)
      /\ (target <= steer => target <= steer + step /\ steer + step <= steer)
  BY <1>4, <1>5, AimTypes DEF Planner!Clamp, Planner!Greater, Planner!Lesser
<1> HIDE DEF step
<1>7. Steers = {90} \cup Nearest(low, high, SteerQuantum)
  BY SteersAre
<1> HIDE DEF low, high
<1>8. Quantise(steer, SteerQuantum) \in Nearest(low, high, SteerQuantum)
  <2>1. CASE steer = 90
    BY <1>5, <2>1, QuantiseNearest
  <2>2. CASE steer \in Nearest(low, high, SteerQuantum)
    BY <1>5, <2>2, NearestStays
  <2> QED
    BY <1>7, <2>1, <2>2
<1>9. Quantise(target, SteerQuantum) \in Nearest(low, high, SteerQuantum)
  BY <1>4, <1>5, QuantiseNearest
<1>10. Quantise(steer + step, SteerQuantum) \in Nearest(low, high, SteerQuantum)
  <2> DEFINE from == Quantise(steer, SteerQuantum)
             to == Quantise(target, SteerQuantum)
             at == Quantise(steer + step, SteerQuantum)
  <2>1. target \in Int
    BY <1>4, <1>5
  <2>2. /\ from \in Int /\ to \in Int /\ at \in Int
        /\ Quantise(low, SteerQuantum) \in Int /\ Quantise(high, SteerQuantum) \in Int
    BY <1>5, <1>6, <2>1, QuantiseIs
  <2>6. /\ Quantise(low, SteerQuantum) <= from /\ from <= Quantise(high, SteerQuantum)
        /\ Quantise(low, SteerQuantum) <= to /\ to <= Quantise(high, SteerQuantum)
    BY <1>8, <1>9 DEF Nearest
  <2>3. CASE steer <= target
    <3>1. from <= at /\ at <= to
      BY <1>5, <1>6, <2>1, <2>3, QuantiseKeepsOrder
    <3> HIDE DEF from, to, at
    <3>2. at \in Quantise(low, SteerQuantum) .. Quantise(high, SteerQuantum)
      BY <2>2, <2>6, <3>1
    <3> QED
      BY <3>2 DEF Nearest, at
  <2>4. CASE target <= steer
    <3>1. to <= at /\ at <= from
      BY <1>5, <1>6, <2>1, <2>4, QuantiseKeepsOrder
    <3> HIDE DEF from, to, at
    <3>2. at \in Quantise(low, SteerQuantum) .. Quantise(high, SteerQuantum)
      BY <2>2, <2>6, <3>1
    <3> QED
      BY <3>2 DEF Nearest, at
  <2> QED
    BY <1>5, <2>1, <2>3, <2>4
<1>11. Planner!SteerTo(bearing) = Planner!Quantise(steer + step, SteerQuantum)
  BY DEF Planner!SteerTo, step, target, wanted, body
<1> QED
  BY <1>5, <1>6, <1>7, <1>10, <1>11, QuantiseIs

LEMMA PivotSteerInRange == Planner!Quantise(Planner!ClampSteer(BodyRotateSteer), SteerQuantum) \in Steers
<1>1. Planner!ClampSteer(BodyRotateSteer) \in 90 - MaxSteer .. 90 + MaxSteer
  BY AimTypes, ClampedSteer
<1>2. /\ Planner!ClampSteer(BodyRotateSteer) \in Int
      /\ 90 - MaxSteer \in Int /\ 90 + MaxSteer \in Int /\ SteerQuantum \in Int
  BY <1>1, AimTypes
<1> QED
  BY <1>1, <1>2, QuantiseIs, QuantiseNearest, SteersAre

LEMMA SpeedsAre ==
  /\ Speeds \subseteq Int
  /\ 0 \in Speeds
  /\ PivotSpeed \in Int /\ PivotSpeed = Planner!Quantise(BodyRotateSpeed, SpeedQuantum)
<1>1. /\ MinDriveSpeed \in Int /\ TopSpeed \in Int /\ -MinDriveSpeed \in Int /\ -TopSpeed \in Int
      /\ SpeedQuantum \in Int
  BY AimTypes, TopSpeedIs
<1>2. \A s \in Nearest(MinDriveSpeed, TopSpeed, SpeedQuantum) : s \in Int
  BY <1>1, NearestStays
<1>3. \A s \in Nearest(-TopSpeed, -MinDriveSpeed, SpeedQuantum) : s \in Int
  BY <1>1, NearestStays
<1> QED
  BY <1>2, <1>3, AimTypes, QuantiseIs DEF Speeds, PivotSpeed

LEMMA SpeedForInRange ==
  ASSUME NEW distance \in Int \cup {None}
  PROVE  Planner!SpeedFor(distance)
           \in {0} \cup MinDriveSpeed .. TopSpeed \cup -TopSpeed .. -MinDriveSpeed
<1> DEFINE error == distance - TargetDistance
           proportional == Planner!Clamp(Planner!Scale(SpeedKp, error), -MaxSpeed, MaxSpeed)
<1>1. CASE distance = None
  BY <1>1 DEF Planner!SpeedFor
<1>2. CASE distance \in Int
  <2>1. error \in Int
    BY <1>2, AimTypes
  <2>2. Planner!Scale(SpeedKp, error) \in Int
    BY <2>1, AimTypes, ScaleType
  <2>3. proportional \in -MaxSpeed .. MaxSpeed
    <3>1. -MaxSpeed \in Int /\ MaxSpeed \in Int /\ -MaxSpeed <= MaxSpeed
      BY AimTypes
    <3> HIDE DEF error
    <3> QED
      BY <2>2, <3>1, ClampInRange
  <2>4. Planner!SpeedFor(distance)
          \in {0, MinDriveSpeed, -MinDriveSpeed}
                \cup {v \in {proportional} : v = 0 \/ Planner!Abs(v) >= MinDriveSpeed}
    BY DEF Planner!SpeedFor
  <2> HIDE DEF proportional
  <2> QED
    BY <2>3, <2>4, AimTypes, TopSpeedIs DEF Planner!Abs
<1> QED
  BY <1>1, <1>2

LEMMA QuantisedSpeedInRange ==
  ASSUME NEW v \in {0} \cup MinDriveSpeed .. TopSpeed \cup -TopSpeed .. -MinDriveSpeed
  PROVE  Planner!Quantise(v, SpeedQuantum) \in Speeds
<1>1. v = 0 \/ v \in MinDriveSpeed .. TopSpeed \/ v \in -TopSpeed .. -MinDriveSpeed
  OBVIOUS
<1>2. /\ MinDriveSpeed \in Int /\ TopSpeed \in Int /\ -MinDriveSpeed \in Int /\ -TopSpeed \in Int
      /\ SpeedQuantum \in Int /\ 0 \in Int
  BY AimTypes, TopSpeedIs
<1>3. CASE v = 0
  <2>1. SpeedQuantum <= 0 \/ 0 % SpeedQuantum = 0
    BY <1>2
  <2>2. Quantise(0, SpeedQuantum) = 0
    BY <1>2, <2>1, OnStepStays
  <2> QED
    BY <1>2, <1>3, <2>2, QuantiseIs DEF Speeds
<1>4. CASE v \in MinDriveSpeed .. TopSpeed
  <2>1. v \in Int
    BY <1>2, <1>4
  <2>2. Quantise(v, SpeedQuantum) \in Nearest(MinDriveSpeed, TopSpeed, SpeedQuantum)
    BY <1>2, <1>4, <2>1, QuantiseNearest
  <2> QED
    BY <1>2, <2>1, <2>2, QuantiseIs DEF Speeds
<1>5. CASE v \in -TopSpeed .. -MinDriveSpeed
  <2>1. v \in Int
    BY <1>2, <1>5
  <2>2. Quantise(v, SpeedQuantum) \in Nearest(-TopSpeed, -MinDriveSpeed, SpeedQuantum)
    BY <1>2, <1>5, <2>1, QuantiseNearest
  <2> QED
    BY <1>2, <2>1, <2>2, QuantiseIs DEF Speeds
<1> QED
  BY <1>1, <1>3, <1>4, <1>5

LEMMA CompensatedInRange ==
  ASSUME NEW panAngle \in Int, NEW steerAngle \in Int
  PROVE  Planner!Compensated(panAngle, steerAngle) \in PanMin .. PanMax
<1>1. Planner!Scale(CameraSteerCompGain, steerAngle - Planner!Straight) \in Int
  BY AimTypes, ScaleType
<1>2. Planner!PanDir \in Int
  BY DEF Planner!PanDir
<1>3. panAngle - Planner!PanDir * Planner!Scale(CameraSteerCompGain, steerAngle - Planner!Straight) \in Int
  BY <1>1, <1>2
<1>4. PanMin \in Int /\ PanMax \in Int /\ PanMin <= PanMax
  BY AimTypes
<1> QED
  BY <1>3, <1>4, ClampInRange DEF Planner!Compensated

-----------------------------------------------------------------------------
(* Commands.  A turn that commands makes the plan's key the last command and *)
(* puts the plan, if at all, last in the queue.                              *)
Plans ==
  {p \in Commands :
     /\ p.pan # None => p.pan \in Pans /\ p.tilt \in Tilts
     /\ p.steer # None => p.steer \in Steers
     /\ IF p.kind = "search-rotate" THEN p.speed = PivotSpeed ELSE p.speed \in Speeds}

LEMMA KeyFacts ==
  ASSUME NEW p \in Commands
  PROVE  /\ Planner!Key(p) \in Commands
         /\ Planner!Key(p).kind = p.kind
         /\ Planner!Key(p).speed = p.speed
<1> DEFINE aimPan == IF p.pan = None THEN None ELSE Planner!Quantise(p.pan, Planner!CamQuantum)
           aimTilt == IF p.tilt = None THEN None ELSE Planner!Quantise(p.tilt, Planner!CamQuantum)
<1>1. p = [kind |-> p.kind, pan |-> p.pan, tilt |-> p.tilt, steer |-> p.steer, speed |-> p.speed]
      /\ p.kind \in Kinds /\ p.pan \in Int \cup {None} /\ p.tilt \in Int \cup {None}
      /\ p.steer \in Steers \cup {None} /\ p.speed \in Speeds \cup {PivotSpeed}
  BY DEF Commands
<1>2. Planner!CamQuantum \in Int
  BY DEF Planner!CamQuantum
<1>3. aimPan \in Int \cup {None} /\ aimTilt \in Int \cup {None}
  BY <1>1, <1>2, QuantiseType
<1>4. Planner!Key(p)
        = [kind |-> p.kind, pan |-> aimPan, tilt |-> aimTilt, steer |-> p.steer, speed |-> p.speed]
  <2>1. Planner!Key(p) = [[p EXCEPT !.pan = aimPan] EXCEPT !.tilt = aimTilt]
    BY <1>1 DEF Planner!Key
  <2> HIDE DEF aimPan, aimTilt
  <2> QED
    BY <1>1, <2>1
<1> HIDE DEF aimPan, aimTilt
<1> QED
  BY <1>1, <1>3, <1>4 DEF Commands

LEMMA PlanType ==
  ASSUME NEW kind \in Kinds,
         NEW s \in Steers \cup {None},
         NEW v, IF kind = "search-rotate" THEN v = PivotSpeed ELSE v \in Speeds,
         NEW p, NEW t, (p = None /\ t = None) \/ (p \in Pans /\ t \in Tilts)
  PROVE  /\ Planner!Plan(kind, p, t, s, v) \in Commands
         /\ Planner!Plan(kind, p, t, s, v) \in Plans
         /\ Planner!Plan(kind, p, t, s, v).kind = kind
         /\ Planner!Plan(kind, p, t, s, v).speed = v
<1>1. p \in Int \cup {None} /\ t \in Int \cup {None} /\ v \in Speeds \cup {PivotSpeed}
  BY TravelIs
<1>2. Planner!Plan(kind, p, t, s, v) = [kind |-> kind, pan |-> p, tilt |-> t, steer |-> s, speed |-> v]
  BY DEF Planner!Plan
<1>3. Planner!Plan(kind, p, t, s, v) \in Commands
  BY <1>1, <1>2 DEF Commands
<1>4. Planner!Plan(kind, p, t, s, v) \in Plans
  BY <1>1, <1>2, <1>3, NoneIsNew, TravelIs DEF Plans
<1> QED
  BY <1>2, <1>3, <1>4

LEMMA CommandFacts ==
  ASSUME NEW plan \in Plans, qPlan \in Seq(Plans), Len(qPlan) <= Capacity, Planner!Command(plan)
  PROVE  /\ lastCommand' = Planner!Key(plan)
         /\ lastCommand' \in Commands /\ lastCommand' # None
         /\ lastCommand'.kind = plan.kind /\ lastCommand'.speed = plan.speed
         /\ qPlan' \in Seq(Plans) /\ Len(qPlan') <= Capacity + 1
<1>1. lastCommand' = Planner!Key(plan)
  BY DEF Planner!Command
<1>2. plan \in Commands
  BY DEF Plans
<1>3. /\ Append(qPlan, plan) \in Seq(Plans) /\ Len(Append(qPlan, plan)) = Len(qPlan) + 1
      /\ Len(qPlan) \in Nat
  BY AppendFacts
<1>4. qPlan' = qPlan \/ qPlan' = Append(qPlan, plan)
  BY DEF Planner!Command
<1> QED
  BY <1>1, <1>2, <1>3, <1>4, KeyFacts, NoneIsNew, Types

-----------------------------------------------------------------------------
(* The inductive invariant.                                                  *)

(* A visible target has an estimate, a lost one none; it is visible as long  *)
(* as a detection is young enough.                                           *)
Estimated ==
  IF visible
  THEN estimate.bearing \in Int /\ estimate.vertical \in Int /\ estimate.distance \in Int \cup {None}
  ELSE estimate = World!Nothing
SightingKept == seenAge = sightedAge /\ (seenAge <= LostTimeout => visible)

(* What was last emitted is near the estimate, and the last the planner gets. *)
EmittedIsCurrent ==
  IF lastEmitted = None
  THEN visible = FALSE /\ lastState = None /\ qWorld = <<>>
  ELSE /\ lastEmitted.visible = visible /\ lastEmitted.seq <= visionSeq
       /\ visible => /\ Abs(estimate.bearing - lastEmitted.bearing) < BearingEpsilon
                     /\ Abs(estimate.vertical - lastEmitted.vertical) < BearingEpsilon
PlannerCatchesUp ==
  IF qWorld = <<>> THEN lastState = lastEmitted ELSE qWorld[Len(qWorld)] = lastEmitted

(* Of two states emitted one after the other, the later has no older frame,  *)
(* and a newer one if the target came in sight between them.                 *)
Follows(before, next) ==
  before.seq <= next.seq /\ (next.visible /\ ~before.visible => before.seq < next.seq)
Origin == [visible |-> FALSE, seq |-> 0]
Read == IF lastState = None THEN Origin ELSE lastState
Before(i) == IF i = 1 THEN Read ELSE qWorld[i - 1]
FramesAdvance == \A i \in 1 .. Len(qWorld) : Follows(Before(i), qWorld[i])

(* The last command and the search fit the state the planner has read, whose *)
(* frame it has tracked if the target is in it.                              *)
Unread == lastSeq = None /\ trackedSeq = 0 /\ lastCommand = None /\ searchPhase = "sweep" /\ driving = FALSE
Tracking ==
  /\ lastSeq = lastState.seq /\ trackedSeq = lastState.seq
  /\ searchPhase = "sweep"
  /\ lastCommand # None
  /\ lastCommand.kind \in {"track", "track-straight", "hold"} /\ (driving => lastCommand.kind # "hold")
  /\ lastCommand.speed = IF driving THEN speed ELSE 0
Searching ==
  /\ lastSeq = None /\ trackedSeq <= lastState.seq
  /\ lastCommand # None
  /\ searchPhase = "rotate" => lastCommand.kind = "search-rotate"
  /\ searchPhase = "sweep" => lastCommand.kind = "search-sweep" /\ lastCommand.speed = 0
PlannerFits ==
  /\ lastState = None => Unread
  /\ lastState # None => IF lastState.visible THEN Tracking ELSE Searching

(* The roll ends, and the ages of burst and rotation bound the driving time  *)
(* since they were begun.                                                    *)
SweepGoesOn == searchPhase = "sweep" => sweepStep < Len(Roll)
BurstTimed == driving /\ detectAge < DriveBurst => commitAge <= detectAge
RotationTimed ==
  searchPhase = "rotate" => searchAge # None /\ (searchAge < BodyRotateDuration => commitAge <= searchAge)

WorldInv == Estimated /\ SightingKept /\ EmittedIsCurrent
ChannelInv == PlannerCatchesUp /\ FramesAdvance
PlannerInv == qPlan \in Seq(Plans) /\ PlannerFits /\ SweepGoesOn /\ BurstTimed /\ RotationTimed

IInv == TypeOK /\ WorldInv /\ ChannelInv /\ PlannerInv

(* TypeOK by layers.                                                         *)
WorldTypeOK ==
  /\ visible \in BOOLEAN /\ echo \in Int \cup {None} /\ visionSeq \in Nat
  /\ seenAge \in 0 .. LostTimeout + 1 /\ echoAge \in 0 .. UltrasonicMaxAge + 1
  /\ sightedAge \in 0 .. LostTimeout + 1
ChannelTypeOK ==
  /\ qWorld \in Seq(States) /\ Len(qWorld) <= Capacity + 1
  /\ lastEmitted \in States \cup {None} /\ lastState \in States \cup {None}
PlannerTypeOK ==
  /\ driving \in BOOLEAN /\ straightened \in BOOLEAN
  /\ lastSeq \in Nat \cup {None} /\ trackedSeq \in Nat
  /\ detectAge \in 0 .. DriveBurst
  /\ searchPhase \in {"sweep", "rotate"} /\ sweepStep \in 0 .. Len(Roll)
  /\ searchAge \in 0 .. Greater(SearchInterval, BodyRotateDuration) \cup {None}
  /\ lastCommand \in Commands \cup {None}
  /\ pan \in Pans /\ tilt \in Tilts /\ commandedPan \in Pans
  /\ steer \in Steers /\ speed \in Speeds
  /\ commitAge \in 0 .. Longest
QueueTypeOK == qPerception \in Seq(Readings) /\ Len(qPerception) <= Capacity
PlansTypeOK == qPlan \in Seq(Commands) /\ Len(qPlan) <= Capacity + 1

LEMMA TypeByLayers ==
  TypeOK <=> WorldTypeOK /\ ChannelTypeOK /\ PlannerTypeOK /\ QueueTypeOK /\ PlansTypeOK
BY DEF TypeOK, WorldTypeOK, ChannelTypeOK, PlannerTypeOK, QueueTypeOK, PlansTypeOK

LEMMA PlansAreCommands ==
  ASSUME NEW q \in Seq(Plans)
  PROVE  q \in Seq(Commands)
<1>1. Plans \subseteq Commands
  BY DEF Plans
<1>2. Len(q) \in Nat /\ q = [i \in 1 .. Len(q) |-> q[i]]
  BY LenProperties
<1>3. \A i \in 1 .. Len(q) : q[i] \in Commands
  BY <1>1, ElementOfSeq
<1> QED
  BY <1>1, <1>2, <1>3, SeqDef

LEMMA StatesAre ==
  ASSUME NEW s \in States
  PROVE  /\ s # None
         /\ s.visible \in BOOLEAN /\ s.seq \in Nat
         /\ s.bearing \in Int \cup {None} /\ s.vertical \in Int \cup {None}
         /\ s.distance \in Int \cup {None}
         /\ s.visible => s.bearing \in Int /\ s.vertical \in Int
BY NoneIsNew DEF States

-----------------------------------------------------------------------------
(* The initial state.                                                        *)
LEMMA InitHolds == Init => IInv
<1> SUFFICES ASSUME Init PROVE IInv
  OBVIOUS
<1>1. qPerception = <<>> /\ qWorld = <<>> /\ qPlan = <<>>
  BY DEF Init
<1>2. WorldTypeOK /\ Estimated /\ SightingKept
  <2>1. /\ visible = FALSE /\ echo = None /\ visionSeq = 0
        /\ echoAge = UltrasonicMaxAge + 1 /\ seenAge = LostTimeout + 1 /\ sightedAge = LostTimeout + 1
    BY DEF Init, World!InitWorld
  <2>2. WorldTypeOK
    <3>1. visible \in BOOLEAN
      BY <2>1
    <3>2. echo \in Int \cup {None} /\ visionSeq \in Nat
      BY <2>1
    <3>3. seenAge \in 0 .. LostTimeout + 1 /\ sightedAge \in 0 .. LostTimeout + 1
      BY <2>1, Types
    <3>4. echoAge \in 0 .. UltrasonicMaxAge + 1
      BY <2>1, Types
    <3> QED
      BY <3>1, <3>2, <3>3, <3>4 DEF WorldTypeOK
  <2>3. Estimated
    BY DEF Init, World!InitWorld, Estimated
  <2>4. SightingKept
    BY <2>1, Types DEF SightingKept
  <2> QED
    BY <2>2, <2>3, <2>4
<1>3. lastEmitted = None /\ lastState = None /\ visible = FALSE
  BY DEF Init, World!InitWorld, Planner!InitPlanner
<1>4. <<>> \in Seq(Readings) /\ <<>> \in Seq(States) /\ <<>> \in Seq(Plans) /\ <<>> \in Seq(Commands)
      /\ Len(<<>>) = 0
  BY EmptySeq
<1>5. ChannelTypeOK /\ QueueTypeOK /\ PlansTypeOK /\ qPlan \in Seq(Plans)
  BY <1>1, <1>3, <1>4, Types DEF ChannelTypeOK, QueueTypeOK, PlansTypeOK
<1>6. EmittedIsCurrent /\ PlannerCatchesUp /\ FramesAdvance
  BY <1>1, <1>3, <1>4 DEF EmittedIsCurrent, PlannerCatchesUp, FramesAdvance
<1>7. Len(Roll) \in Nat \ {0}
  BY FollowAssumption, LenProperties, EmptySeq
<1>8. /\ pan = 90 /\ tilt = 90 /\ commandedPan = 90 /\ steer = 90 /\ speed = 0
      /\ driving = FALSE /\ straightened = FALSE /\ detectAge = DriveBurst
      /\ searchPhase = "sweep" /\ sweepStep = 0 /\ searchAge = None
      /\ lastSeq = None /\ lastCommand = None /\ trackedSeq = 0 /\ commitAge = Longest
  BY AimTypes DEF Init, Planner!InitPlanner
<1>9. PlannerTypeOK
  <2>1. pan \in Pans /\ tilt \in Tilts /\ commandedPan \in Pans
    BY <1>8, TravelIs
  <2>2. steer \in Steers /\ speed \in Speeds
    BY <1>8, SteersAre, SpeedsAre
  <2>3. commitAge \in 0 .. Longest /\ detectAge \in 0 .. DriveBurst /\ sweepStep \in 0 .. Len(Roll)
    BY <1>7, <1>8, Types DEF Longest, Greater
  <2> QED
    BY <1>8, <2>1, <2>2, <2>3 DEF PlannerTypeOK
<1>10. PlannerFits /\ SweepGoesOn /\ BurstTimed /\ RotationTimed
  BY <1>3, <1>7, <1>8 DEF PlannerFits, Unread, SweepGoesOn, BurstTimed, RotationTimed
<1> QED
  BY <1>2, <1>5, <1>6, <1>9, <1>10, TypeByLayers DEF IInv, WorldInv, ChannelInv, PlannerInv

-----------------------------------------------------------------------------
(* The world model's turns.                                                  *)
LEMMA EmaType ==
  ASSUME NEW prev \in Int \cup {None}, NEW measurement \in Int \cup {None}, NEW weight \in Int
  PROVE  /\ World!Ema(prev, measurement, weight) \in Int \cup {None}
         /\ measurement \in Int => World!Ema(prev, measurement, weight) \in Int
<1>1. CASE measurement = None \/ prev = None
  BY <1>1, NoneIsNew DEF World!Ema
<1>2. CASE measurement \in Int /\ prev \in Int
  <2>1. weight * measurement + (Unit - weight) * prev \in Int /\ Unit \in Nat \ {0}
    BY <1>2, Types
  <2>2. (weight * measurement + (Unit - weight) * prev) \div Unit \in Int
    BY <2>1, Division
  <2>3. World!Ema(prev, measurement, weight) = (weight * measurement + (Unit - weight) * prev) \div Unit
    BY <1>2, NoneIsNew DEF World!Ema
  <2> QED
    BY <2>2, <2>3
<1> QED
  BY <1>1, <1>2

LEMMA EventsAre ==
  ASSUME NEW event \in Events
  PROVE  /\ World!Detection(event) =>
              /\ event.sensor # "ultrasonic"
              /\ event["bearing"] \in Int /\ event["vertical"] \in Int
              /\ event["distance"] \in Int \cup {None}
         /\ event.sensor = "ultrasonic" => event.distance \in Int \cup {None}
BY DEF Events, World!Detection

(* A target that is seen.                                                    *)
LEMMA DetectFacts ==
  ASSUME WorldTypeOK, Estimated, NEW event \in Events, World!Detection(event),
         World!Detect(event), sightedAge' = 0
  PROVE  /\ WorldTypeOK' /\ Estimated' /\ SightingKept'
         /\ visible' = TRUE /\ visionSeq' = visionSeq + 1
<1>1. /\ visible' = TRUE /\ visionSeq' = visionSeq + 1 /\ seenAge' = 0
      /\ echo' = echo /\ echoAge' = echoAge
  BY DEF World!Detect
<1>2. WorldTypeOK'
  BY <1>1, Types DEF WorldTypeOK
<1>3. SightingKept'
  BY <1>1 DEF SightingKept
<1>4. DOMAIN World!Nothing = {"bearing", "vertical", "distance"}
  BY DEF World!Nothing
<1>5. /\ estimate'["bearing"] = World!Ema(estimate["bearing"], event["bearing"], Smoothing)
      /\ estimate'["vertical"] = World!Ema(estimate["vertical"], event["vertical"], Smoothing)
      /\ estimate'["distance"] = World!Ema(estimate["distance"], event["distance"], Smoothing)
  BY <1>4 DEF World!Detect
<1>6. /\ estimate["bearing"] \in Int \cup {None}
      /\ estimate["vertical"] \in Int \cup {None}
      /\ estimate["distance"] \in Int \cup {None}
  <2>1. CASE visible = TRUE
    BY <2>1 DEF Estimated
  <2>2. CASE visible = FALSE
    BY <2>2 DEF Estimated, World!Nothing
  <2> QED
    BY <2>1, <2>2 DEF WorldTypeOK
<1>7. /\ event["bearing"] \in Int /\ event["vertical"] \in Int /\ event["distance"] \in Int \cup {None}
  BY EventsAre
<1>8. Smoothing \in Int
  BY Types
<1>9. estimate'["bearing"] \in Int
  <2>1. World!Ema(estimate["bearing"], event["bearing"], Smoothing) \in Int
    BY <1>6, <1>7, <1>8, EmaType
  <2> QED
    BY <1>5, <2>1
<1>10. estimate'["vertical"] \in Int
  <2>1. World!Ema(estimate["vertical"], event["vertical"], Smoothing) \in Int
    BY <1>6, <1>7, <1>8, EmaType
  <2> QED
    BY <1>5, <2>1
<1>11. estimate'["distance"] \in Int \cup {None}
  BY <1>5, <1>6, <1>7, <1>8, EmaType
<1>12. Estimated'
  BY <1>1, <1>9, <1>10, <1>11 DEF Estimated
<1> QED
  BY <1>1, <1>2, <1>3, <1>12

(* A turn without it.                                                        *)
LEMMA AgeOutFacts ==
  ASSUME WorldTypeOK, Estimated, SightingKept, World!AgeOut, sightedAge' = sightedAge
  PROVE  /\ visible' \in BOOLEAN /\ visionSeq' = visionSeq /\ seenAge' = seenAge
         /\ Estimated' /\ SightingKept'
         /\ visible' => visible
         /\ visible' => estimate' = estimate
         /\ visible' <=> sightedAge' <= LostTimeout
<1>1. /\ visible' <=> visible /\ seenAge <= LostTimeout
      /\ visible' \in BOOLEAN
  BY DEF World!AgeOut
<1>2. visionSeq' = visionSeq /\ seenAge' = seenAge
  BY DEF World!AgeOut
<1>3. visible' => estimate' = estimate
  BY DEF World!AgeOut
<1>4. ~visible' => estimate' = World!Nothing
  BY DEF World!AgeOut
<1>5. Estimated'
  <2>1. CASE visible'
    BY <1>1, <1>3, <2>1 DEF Estimated
  <2>2. CASE ~visible'
    BY <1>4, <2>2 DEF Estimated, World!Nothing
  <2> QED
    BY <2>1, <2>2
<1>6. SightingKept'
  BY <1>1, <1>2 DEF SightingKept
<1>7. visible' <=> sightedAge' <= LostTimeout
  BY <1>1, <1>2 DEF SightingKept
<1> QED
  BY <1>1, <1>2, <1>3, <1>5, <1>6, <1>7

(* The state a turn may emit.                                                *)
LEMMA SnapshotFacts ==
  ASSUME WorldTypeOK', Estimated'
  PROVE  /\ World!Snapshot \in States
         /\ World!Snapshot.visible = visible'
         /\ World!Snapshot.seq = visionSeq'
         /\ World!Snapshot.bearing = estimate'.bearing
         /\ World!Snapshot.vertical = estimate'.vertical
<1>1. /\ World!Snapshot.visible = visible' /\ World!Snapshot.seq = visionSeq'
      /\ World!Snapshot.bearing = estimate'.bearing /\ World!Snapshot.vertical = estimate'.vertical
  BY DEF World!Snapshot
<1>2. CASE visible' = TRUE
  <2>1. /\ estimate'.bearing \in Int /\ estimate'.vertical \in Int
        /\ estimate'.distance \in Int \cup {None} /\ echo' \in Int \cup {None} /\ visionSeq' \in Nat
    BY <1>2 DEF Estimated, WorldTypeOK
  <2>2. World!EffectiveDistance \in Int \cup {None}
    BY <2>1 DEF World!EffectiveDistance
  <2>3. World!Snapshot = [visible |-> TRUE, bearing |-> estimate'.bearing, vertical |-> estimate'.vertical,
                          distance |-> World!EffectiveDistance, seq |-> visionSeq']
    BY <1>2 DEF World!Snapshot
  <2>4. World!Snapshot \in States
    BY <2>1, <2>2, <2>3 DEF States
  <2> QED
    BY <1>1, <2>4
<1>3. CASE visible' = FALSE
  <2>1. estimate'.bearing = None /\ estimate'.vertical = None /\ visionSeq' \in Nat
    BY <1>3 DEF Estimated, World!Nothing, WorldTypeOK
  <2>2. World!Snapshot = [visible |-> FALSE, bearing |-> None, vertical |-> None,
                          distance |-> None, seq |-> visionSeq']
    BY <1>3, <2>1 DEF World!Snapshot
  <2>3. World!Snapshot \in States
    BY <2>1, <2>2 DEF States
  <2> QED
    BY <1>1, <2>3
<1> QED
  BY <1>2, <1>3 DEF WorldTypeOK

(* A turn emits, or what it emitted last is near enough.                     *)
LEMMA EmissionFacts ==
  ASSUME WorldTypeOK', Estimated', ChannelTypeOK, World!MaybeEmit
  PROVE  \/ lastEmitted' = World!Snapshot /\ qWorld' = Append(qWorld, World!Snapshot)
         \/ /\ lastEmitted' = lastEmitted /\ qWorld' = qWorld
            /\ lastEmitted # None
            /\ lastEmitted.visible = visible'
            /\ visible' => /\ Abs(estimate'.bearing - lastEmitted.bearing) < BearingEpsilon
                           /\ Abs(estimate'.vertical - lastEmitted.vertical) < BearingEpsilon
<1>1. CASE World!ShouldEmit(World!Snapshot)
  BY <1>1 DEF World!MaybeEmit
<1>2. CASE ~World!ShouldEmit(World!Snapshot)
  <2>1. lastEmitted' = lastEmitted /\ qWorld' = qWorld
    BY <1>2 DEF World!MaybeEmit
  <2>2. /\ lastEmitted # None
        /\ World!Snapshot.visible = lastEmitted.visible
        /\ World!Snapshot.visible => ~World!Moved(World!Snapshot, lastEmitted)
    BY <1>2 DEF World!ShouldEmit
  <2>3. lastEmitted.visible = visible'
    BY <2>2, SnapshotFacts
  <2>4. ASSUME visible'
        PROVE  /\ Abs(estimate'.bearing - lastEmitted.bearing) < BearingEpsilon
               /\ Abs(estimate'.vertical - lastEmitted.vertical) < BearingEpsilon
    <3>1. /\ ~World!Exceeds(World!Snapshot.bearing, lastEmitted.bearing, BearingEpsilon)
          /\ ~World!Exceeds(World!Snapshot.vertical, lastEmitted.vertical, BearingEpsilon)
      BY <2>2, <2>3, <2>4 DEF World!Moved
    <3>2. /\ World!Snapshot.bearing = estimate'.bearing /\ World!Snapshot.vertical = estimate'.vertical
          /\ estimate'.bearing \in Int /\ estimate'.vertical \in Int
      BY <2>4, SnapshotFacts DEF Estimated
    <3>3. lastEmitted.bearing \in Int /\ lastEmitted.vertical \in Int
      BY <2>2, <2>3, <2>4, StatesAre DEF ChannelTypeOK
    <3>4. ASSUME NEW new \in Int, NEW old \in Int, ~World!Exceeds(new, old, BearingEpsilon)
          PROVE  Abs(new - old) < BearingEpsilon
      BY <3>4, NoneIsNew, Types DEF World!Exceeds, World!Abs, Abs
    <3> QED
      BY <3>1, <3>2, <3>3, <3>4
  <2> QED
    BY <2>1, <2>2, <2>3, <2>4
<1> QED
  BY <1>1, <1>2

-----------------------------------------------------------------------------
(* The channel from the world model to the planner.                          *)
Latest == IF lastEmitted = None THEN Origin ELSE lastEmitted

LEMMA LatestIsLast ==
  ASSUME ChannelTypeOK, EmittedIsCurrent, ChannelInv
  PROVE  /\ qWorld = <<>> => Read = Latest
         /\ qWorld # <<>> => Latest = qWorld[Len(qWorld)]
BY DEF EmittedIsCurrent, ChannelInv, PlannerCatchesUp, Latest, Read

LEMMA ChannelFills ==
  ASSUME WorldTypeOK, ChannelTypeOK, EmittedIsCurrent, ChannelInv, Len(qWorld) <= Capacity,
         WorldTypeOK', Estimated', World!MaybeEmit, lastState' = lastState,
         visionSeq <= visionSeq', visible' /\ ~visible => visionSeq < visionSeq'
  PROVE  /\ ChannelTypeOK' /\ EmittedIsCurrent' /\ ChannelInv'
         /\ lastEmitted'.visible = visible'
<1>1. CASE lastEmitted' = World!Snapshot /\ qWorld' = Append(qWorld, World!Snapshot)
  <2> DEFINE new == World!Snapshot
  <2>1. /\ new \in States /\ new.visible = visible' /\ new.seq = visionSeq'
        /\ new.bearing = estimate'.bearing /\ new.vertical = estimate'.vertical
    BY SnapshotFacts
  <2> HIDE DEF new
  <2>2. lastEmitted' = new /\ qWorld' = Append(qWorld, new)
    BY <1>1 DEF new
  <2>3. /\ qWorld \in Seq(States)
        /\ qWorld' \in Seq(States) /\ qWorld' # <<>>
        /\ Len(qWorld') = Len(qWorld) + 1 /\ Len(qWorld) \in Nat
        /\ \A i \in 1 .. Len(qWorld) : qWorld'[i] = qWorld[i]
        /\ qWorld'[Len(qWorld) + 1] = new
    BY <2>1, <2>2, AppendFacts DEF ChannelTypeOK
  <2>4. new # None
    BY <2>1, StatesAre
  <2>5. ChannelTypeOK'
    BY <2>1, <2>2, <2>3, Types DEF ChannelTypeOK
  <2>6. EmittedIsCurrent'
    <3>1. visible' => /\ Abs(estimate'.bearing - new.bearing) < BearingEpsilon
                      /\ Abs(estimate'.vertical - new.vertical) < BearingEpsilon
      BY <2>1, Types DEF Estimated, Abs
    <3>2. new.seq <= visionSeq'
      BY <2>1 DEF WorldTypeOK
    <3> QED
      BY <2>1, <2>2, <2>4, <3>1, <3>2 DEF EmittedIsCurrent
  <2>7. PlannerCatchesUp'
    BY <2>2, <2>3 DEF PlannerCatchesUp
  <2>8. Follows(Latest, new)
    <3>1. Latest.seq \in Nat /\ Latest.seq <= visionSeq /\ Latest.visible = visible
      <4>1. CASE lastEmitted = None
        <5>1. Latest.seq = 0 /\ Latest.visible = FALSE
          BY <4>1 DEF Latest, Origin
        <5>2. visible = FALSE
          BY <4>1 DEF EmittedIsCurrent
        <5>3. visionSeq \in Nat
          BY DEF WorldTypeOK
        <5>4. Latest.visible = visible
          BY <5>1, <5>2, Zenon
        <5>5. Latest.seq \in Nat /\ Latest.seq <= visionSeq
          BY <5>1, <5>3
        <5> QED
          BY <5>4, <5>5
      <4>2. CASE lastEmitted # None
        <5>1. Latest = lastEmitted
          BY <4>2 DEF Latest
        <5>2. lastEmitted.seq \in Nat
          BY <4>2, StatesAre DEF ChannelTypeOK
        <5> QED
          BY <4>2, <5>1, <5>2 DEF EmittedIsCurrent
      <4> QED
        BY <4>1, <4>2
    <3>2. visionSeq \in Nat /\ visionSeq' \in Nat
      BY DEF WorldTypeOK
    <3> QED
      BY <2>1, <3>1, <3>2 DEF Follows
  <2>9. FramesAdvance'
    <3>1. Read' = Read
      BY DEF Read
    <3> SUFFICES ASSUME NEW i \in 1 .. Len(qWorld')
                 PROVE  Follows(Before(i)', qWorld'[i])
      BY DEF FramesAdvance
    <3>2. CASE i <= Len(qWorld)
      <4>1. i \in 1 .. Len(qWorld) /\ qWorld'[i] = qWorld[i]
        BY <2>3, <3>2
      <4>2. Before(i)' = Before(i)
        BY <2>3, <3>1, <4>1 DEF Before
      <4>3. Follows(Before(i), qWorld[i])
        BY <4>1 DEF ChannelInv, FramesAdvance
      <4> QED
        BY <4>1, <4>2, <4>3
    <3>3. CASE i = Len(qWorld) + 1
      <4>1. qWorld'[i] = new
        BY <2>3, <3>3
      <4>2. CASE qWorld = <<>>
        <5>1. Len(qWorld) = 0
          BY <4>2, EmptySeq
        <5>2. Before(i)' = Latest
          BY <3>1, <3>3, <4>2, <5>1, LatestIsLast DEF Before
        <5> QED
          BY <2>8, <4>1, <5>2
      <4>3. CASE qWorld # <<>>
        <5>1. Len(qWorld) \in Nat \ {0}
          BY <2>3, <4>3, EmptySeq
        <5>2. Before(i)' = qWorld'[Len(qWorld)]
          BY <3>3, <5>1 DEF Before
        <5>3. qWorld'[Len(qWorld)] = qWorld[Len(qWorld)]
          BY <2>3, <5>1
        <5>4. Before(i)' = Latest
          BY <4>3, <5>2, <5>3, LatestIsLast
        <5> QED
          BY <2>8, <4>1, <5>4
      <4> QED
        BY <4>2, <4>3
    <3> QED
      BY <2>3, <3>2, <3>3
  <2>10. lastEmitted'.visible = visible'
    BY <2>1, <2>2
  <2> QED
    BY <2>5, <2>6, <2>7, <2>9, <2>10 DEF ChannelInv
<1>2. CASE /\ lastEmitted' = lastEmitted /\ qWorld' = qWorld
           /\ lastEmitted # None
           /\ lastEmitted.visible = visible'
           /\ visible' => /\ Abs(estimate'.bearing - lastEmitted.bearing) < BearingEpsilon
                          /\ Abs(estimate'.vertical - lastEmitted.vertical) < BearingEpsilon
  <2>1. ChannelTypeOK'
    BY <1>2 DEF ChannelTypeOK
  <2>2. ChannelInv'
    BY <1>2 DEF ChannelInv, PlannerCatchesUp, FramesAdvance, Before, Read
  <2>3. lastEmitted.seq <= visionSeq'
    <3>1. lastEmitted.seq <= visionSeq /\ lastEmitted.seq \in Nat
      BY <1>2, StatesAre DEF EmittedIsCurrent, ChannelTypeOK
    <3> QED
      BY <3>1 DEF WorldTypeOK
  <2>4. EmittedIsCurrent'
    BY <1>2, <2>3 DEF EmittedIsCurrent
  <2> QED
    BY <1>2, <2>1, <2>2, <2>4
<1> QED
  BY <1>1, <1>2, EmissionFacts

LEMMA ChannelEmpties ==
  ASSUME ChannelTypeOK, EmittedIsCurrent, ChannelInv,
         qWorld # <<>>, qWorld' = Tail(qWorld), lastState' = Head(qWorld),
         UNCHANGED <<lastEmitted, visible, estimate, visionSeq>>
  PROVE  /\ ChannelTypeOK' /\ EmittedIsCurrent' /\ ChannelInv'
         /\ lastState' \in States /\ Follows(Read, lastState')
<1>1. /\ qWorld' \in Seq(States) /\ lastState' \in States /\ lastState' = qWorld[1]
      /\ Len(qWorld) \in Nat \ {0} /\ Len(qWorld') = Len(qWorld) - 1
      /\ \A i \in 1 .. Len(qWorld) - 1 : qWorld'[i] = qWorld[i + 1]
      /\ qWorld' = <<>> <=> Len(qWorld) = 1
  BY TailFacts DEF ChannelTypeOK
<1>2. ChannelTypeOK'
  BY <1>1, Types DEF ChannelTypeOK
<1>3. EmittedIsCurrent'
  BY DEF EmittedIsCurrent
<1>4. qWorld[Len(qWorld)] = lastEmitted
  BY DEF ChannelInv, PlannerCatchesUp
<1>5. PlannerCatchesUp'
  <2>1. CASE Len(qWorld) = 1
    BY <1>1, <1>4, <2>1 DEF PlannerCatchesUp
  <2>2. CASE Len(qWorld) # 1
    <3>1. Len(qWorld') \in 1 .. Len(qWorld) - 1
      BY <1>1, <2>2
    <3>2. qWorld'[Len(qWorld')] = qWorld[Len(qWorld)]
      BY <1>1, <3>1
    <3> QED
      BY <1>1, <1>4, <2>2, <3>2 DEF PlannerCatchesUp
  <2> QED
    BY <2>1, <2>2
<1>6. Follows(Read, lastState')
  <2>1. Before(1) = Read
    BY DEF Before
  <2>2. 1 \in 1 .. Len(qWorld)
    BY <1>1
  <2> QED
    BY <1>1, <2>1, <2>2 DEF ChannelInv, FramesAdvance
<1>7. FramesAdvance'
  <2> SUFFICES ASSUME NEW i \in 1 .. Len(qWorld')
               PROVE  Follows(Before(i)', qWorld'[i])
    BY DEF FramesAdvance
  <2>1. i + 1 \in 1 .. Len(qWorld) /\ i \in 1 .. Len(qWorld) - 1 /\ qWorld'[i] = qWorld[i + 1]
    BY <1>1
  <2>2. Before(i)' = Before(i + 1)
    <3>1. Before(i + 1) = qWorld[i]
      BY DEF Before
    <3>2. CASE i = 1
      <4>1. lastState' # None
        BY <1>1, StatesAre
      <4> QED
        BY <1>1, <3>1, <3>2, <4>1 DEF Before, Read
    <3>3. CASE i # 1
      <4>1. i - 1 \in 1 .. Len(qWorld) - 1 /\ (i - 1) + 1 = i
        BY <1>1, <3>3
      <4>2. qWorld'[i - 1] = qWorld[i]
        BY <1>1, <4>1
      <4> QED
        BY <3>1, <3>3, <4>2 DEF Before
    <3> QED
      BY <3>2, <3>3
  <2> QED
    BY <2>1, <2>2 DEF ChannelInv, FramesAdvance
<1> QED
  BY <1>1, <1>2, <1>3, <1>5, <1>6, <1>7 DEF ChannelInv

-----------------------------------------------------------------------------
(* The planner's turns.  What a turn leaves: the invariant, a drive that is  *)
(* young enough, and a camera that moved for a new frame only.               *)
DriveTimed ==
  Drives(lastCommand') =>
    commitAge' < IF Rotating(lastCommand') THEN BodyRotateDuration ELSE DriveBurst
CameraAccounted ==
  <<pan, tilt>>' # <<pan, tilt>> /\ lastState'.visible =>
    lastState'.seq > trackedSeq /\ trackedSeq' = lastState'.seq
TurnKept ==
  PlannerTypeOK' /\ PlannerInv' /\ Len(qPlan') <= Capacity + 1 /\ DriveTimed /\ CameraAccounted

LEMMA LengthOfRoll ==
  /\ Len(Roll) \in Nat \ {0}
  /\ \A i \in 1 .. Len(Roll) : Roll[i].sin \in Int /\ Roll[i].cos \in Int
<1>1. Roll \in Seq([sin : Int, cos : Int]) /\ Roll # <<>>
  BY FollowAssumption
<1>2. Len(Roll) \in Nat \ {0}
  BY <1>1, LenProperties, EmptySeq
<1>3. \A i \in 1 .. Len(Roll) : Roll[i] \in [sin : Int, cos : Int]
  BY <1>1, ElementOfSeq
<1> QED
  BY <1>2, <1>3

LEMMA LongestIs ==
  /\ Longest \in Nat \ {0} /\ DriveBurst <= Longest /\ BodyRotateDuration <= Longest
  /\ Greater(SearchInterval, BodyRotateDuration) \in Nat
  /\ BodyRotateDuration <= Greater(SearchInterval, BodyRotateDuration)
BY Types DEF Longest, Greater

(* The search and the rotation before a turn.                                *)
LEMMA RotatesOnlyInSearch ==
  ASSUME PlannerTypeOK, PlannerFits
  PROVE  /\ searchPhase = "sweep" => ~Rotating(lastCommand)
         /\ searchPhase = "rotate" => Rotating(lastCommand)
<1>1. CASE lastState = None
  BY <1>1 DEF PlannerFits, Unread, Rotating
<1>2. CASE lastState # None /\ lastState.visible
  BY <1>2 DEF PlannerFits, Tracking, Rotating
<1>3. CASE lastState # None /\ ~lastState.visible
  BY <1>3 DEF PlannerFits, Searching, Rotating, PlannerTypeOK
<1> QED
  BY <1>1, <1>2, <1>3

(* A new frame.                                                              *)
LEMMA TrackKeeps ==
  ASSUME PlannerTypeOK, PlannerInv, lastState \in States \cup {None}, Len(qPlan) <= Capacity,
         NEW state \in States, state.visible, lastState' = state, state.seq # lastSeq,
         Follows(Read, state), Planner!Track(state), Commitments
  PROVE  TurnKept
<1>1. state.seq \in Nat /\ state # None /\ state.bearing \in Int /\ state.vertical \in Int
      /\ state.distance \in Int \cup {None}
  BY StatesAre
<1>2. state.seq > trackedSeq
  <2>1. CASE lastState = None
    <3>1. trackedSeq = 0
      BY <2>1 DEF PlannerInv, PlannerFits, Unread
    <3>2. Read.seq = 0 /\ Read.visible = FALSE
      BY <2>1 DEF Read, Origin
    <3> QED
      BY <1>1, <3>1, <3>2 DEF Follows
  <2>2. CASE lastState # None /\ lastState.visible
    <3>1. trackedSeq = lastState.seq /\ lastSeq = lastState.seq
      BY <2>2 DEF PlannerInv, PlannerFits, Tracking
    <3>2. Read = lastState /\ lastState.seq \in Nat
      BY <2>2, StatesAre DEF Read
    <3> QED
      BY <1>1, <3>1, <3>2 DEF Follows
  <2>3. CASE lastState # None /\ ~lastState.visible
    <3>1. trackedSeq <= lastState.seq /\ trackedSeq \in Nat
      BY <2>3 DEF PlannerInv, PlannerFits, Searching, PlannerTypeOK
    <3>2. Read = lastState /\ lastState.seq \in Nat
      BY <2>3, StatesAre DEF Read
    <3> QED
      BY <1>1, <2>3, <3>1, <3>2 DEF Follows
  <2> QED
    BY <2>1, <2>2, <2>3
<1>3. lastSeq' = state.seq /\ trackedSeq' = state.seq /\ commitAge' = 0
  <2>1. lastSeq' = state.seq
    BY DEF Planner!Track
  <2>2. lastSeq' # None
    BY <1>1, <2>1, NoneIsNew
  <2>3. trackedSeq' = state.seq
    BY <2>1, <2>2 DEF Commitments
  <2>4. trackedSeq \in Nat /\ trackedSeq' # trackedSeq
    BY <1>1, <1>2, <2>3 DEF PlannerTypeOK
  <2> QED
    BY <2>1, <2>3, <2>4 DEF Commitments
<1>4. Planner!OrZero(state.bearing) \in Int /\ Planner!OrZero(state.vertical) \in Int
  BY <1>1 DEF Planner!OrZero
<1>5. pan' \in Pans /\ tilt' \in Tilts
  <2>1. pan \in Pans /\ tilt \in Tilts
    BY DEF PlannerTypeOK
  <2>2. Planner!Aimed(pan, PanGain, Planner!OrZero(state.bearing), PanMin, PanMax) \in Pans
    BY <1>4, <2>1, AimTypes, TravelIs, AimedInRange
  <2>3. Planner!Aimed(tilt, TiltGain, Planner!OrZero(state.vertical), TiltMin, TiltMax) \in Tilts
    BY <1>4, <2>1, AimTypes, TravelIs, AimedInRange
  <2> QED
    BY <2>2, <2>3 DEF Planner!Track
<1>6. steer' \in Steers
  <2>1. pan \in Int /\ steer \in Steers
    BY TravelIs DEF PlannerTypeOK
  <2>2. Planner!SteerTo(Planner!OrZero(state.bearing)) \in Steers
    BY <1>4, <2>1, SteerInRange
  <2> QED
    BY <2>2 DEF Planner!Track
<1>7. speed' \in Speeds
  <2>1. Planner!SpeedFor(state.distance)
          \in {0} \cup MinDriveSpeed .. TopSpeed \cup -TopSpeed .. -MinDriveSpeed
    BY <1>1, SpeedForInRange
  <2>2. Planner!Quantise(Planner!SpeedFor(state.distance), SpeedQuantum) \in Speeds
    BY <2>1, QuantisedSpeedInRange
  <2> QED
    BY <2>2 DEF Planner!Track
<1>8. commandedPan' \in Pans
  <2>1. pan' \in Int /\ steer' \in Int
    BY <1>5, <1>6, TravelIs, SteersAre
  <2>2. Planner!Compensated(pan', steer') \in PanMin .. PanMax
    BY <2>1, CompensatedInRange
  <2> QED
    BY <2>2, TravelIs DEF Planner!Track
<1> DEFINE plan == Planner!Plan("track", commandedPan', tilt', steer', speed')
<1>9. plan \in Plans /\ plan.kind = "track" /\ plan.speed = speed'
  <2>1. "track" \in Kinds
    BY DEF Kinds
  <2> QED
    BY <1>5, <1>6, <1>7, <1>8, <2>1, PlanType
<1>10. Planner!Command(plan)
  BY DEF Planner!Track
<1> HIDE DEF plan
<1>11. /\ lastCommand' \in Commands /\ lastCommand' # None
       /\ lastCommand'.kind = "track" /\ lastCommand'.speed = speed'
       /\ qPlan' \in Seq(Plans) /\ Len(qPlan') <= Capacity + 1
  BY <1>9, <1>10, CommandFacts DEF PlannerInv
<1>12. /\ searchPhase' = "sweep" /\ sweepStep' = 0 /\ searchAge' = None /\ detectAge' = 0
       /\ straightened' = FALSE
  BY DEF Planner!Track, Planner!ResetSearch
<1>13. driving' \in BOOLEAN /\ (driving' <=> speed' # 0)
  BY DEF Planner!Track
<1>14. PlannerTypeOK'
  <2>1. lastSeq' \in Nat \cup {None} /\ trackedSeq' \in Nat /\ commitAge' \in 0 .. Longest
    BY <1>1, <1>3, LongestIs
  <2>2. detectAge' \in 0 .. DriveBurst /\ sweepStep' \in 0 .. Len(Roll)
    BY <1>12, Types, LengthOfRoll
  <2> QED
    BY <1>5, <1>6, <1>7, <1>8, <1>11, <1>12, <1>13, <2>1, <2>2 DEF PlannerTypeOK
<1>15. PlannerFits'
  <2>1. lastCommand'.speed = IF driving' THEN speed' ELSE 0
    BY <1>11, <1>13
  <2>2. Tracking'
    BY <1>3, <1>11, <1>12, <2>1 DEF Tracking
  <2> QED
    BY <1>1, <2>2 DEF PlannerFits
<1>16. SweepGoesOn' /\ BurstTimed' /\ RotationTimed'
  BY <1>3, <1>12, LengthOfRoll DEF SweepGoesOn, BurstTimed, RotationTimed
<1>17. DriveTimed
  BY <1>3, <1>11, Types DEF DriveTimed, Rotating
<1>18. CameraAccounted
  BY <1>2, <1>3 DEF CameraAccounted
<1> QED
  BY <1>11, <1>14, <1>15, <1>16, <1>17, <1>18 DEF TurnKept, PlannerInv

-----------------------------------------------------------------------------
(* A turn with nothing new of a visible target finds the planner tracking.   *)
LEMMA NothingNew ==
  ASSUME PlannerTypeOK, PlannerInv, lastState \in States \cup {None},
         NEW state \in States, state.visible, state = lastState \/ state.seq = lastSeq
  PROVE  Tracking /\ state.seq = lastSeq /\ lastSeq # None /\ lastState # None /\ lastState.visible
<1>1. state.seq \in Nat /\ state # None /\ state.seq # None
  BY StatesAre, NoneIsNew
<1>2. CASE state = lastState
  BY <1>1, <1>2 DEF PlannerInv, PlannerFits, Tracking
<1>3. CASE state.seq = lastSeq
  <2>1. lastSeq # None
    BY <1>1, <1>3
  <2>2. lastState # None
    BY <2>1 DEF PlannerInv, PlannerFits, Unread
  <2>3. lastState.visible
    BY <2>1, <2>2 DEF PlannerInv, PlannerFits, Searching
  <2> QED
    BY <1>3, <2>1, <2>2, <2>3 DEF PlannerInv, PlannerFits
<1> QED
  BY <1>2, <1>3

LEMMA TrackedOn ==
  ASSUME PlannerTypeOK, Tracking, lastSeq # None, lastSeq' = lastSeq, Commitments
  PROVE  /\ trackedSeq' = trackedSeq /\ trackedSeq = lastSeq
         /\ ~Rotating(lastCommand') => commitAge' = commitAge
BY DEF Tracking, Commitments

LEMMA HoldKeeps ==
  ASSUME PlannerTypeOK, PlannerInv, Tracking, lastSeq # None, Len(qPlan) <= Capacity,
         NEW state \in States, state.visible, lastState' = state, state.seq = lastSeq,
         Planner!Hold, Commitments
  PROVE  TurnKept
<1>1. /\ driving' = FALSE /\ lastSeq' = lastSeq
      /\ pan' = pan /\ tilt' = tilt /\ commandedPan' = commandedPan /\ steer' = steer /\ speed' = speed
      /\ straightened' = straightened /\ detectAge' = detectAge
      /\ searchPhase' = searchPhase /\ sweepStep' = sweepStep /\ searchAge' = searchAge
  BY DEF Planner!Hold, Planner!aimVars, Planner!searchVars
<1> DEFINE plan == Planner!Plan("hold", commandedPan, tilt, steer, 0)
<1>2. plan \in Plans /\ plan.kind = "hold" /\ plan.speed = 0
  <2>1. "hold" \in Kinds /\ 0 \in Speeds
    BY SpeedsAre DEF Kinds
  <2> QED
    BY <2>1, PlanType DEF PlannerTypeOK
<1>3. Planner!Command(plan)
  BY DEF Planner!Hold
<1> HIDE DEF plan
<1>4. /\ lastCommand' \in Commands /\ lastCommand' # None
      /\ lastCommand'.kind = "hold" /\ lastCommand'.speed = 0
      /\ qPlan' \in Seq(Plans) /\ Len(qPlan') <= Capacity + 1
  BY <1>2, <1>3, CommandFacts DEF PlannerInv
<1>5. trackedSeq' = trackedSeq /\ trackedSeq = lastSeq /\ commitAge' = commitAge
  BY <1>1, <1>4, TrackedOn DEF Rotating
<1>6. PlannerTypeOK'
  BY <1>1, <1>4, <1>5 DEF PlannerTypeOK
<1>7. PlannerFits'
  <2>1. Tracking'
    BY <1>1, <1>4, <1>5 DEF Tracking
  <2> QED
    BY <2>1, StatesAre DEF PlannerFits
<1>8. SweepGoesOn' /\ BurstTimed' /\ RotationTimed'
  BY <1>1, <1>5 DEF PlannerInv, SweepGoesOn, BurstTimed, RotationTimed
<1>9. DriveTimed /\ CameraAccounted
  BY <1>1, <1>4 DEF DriveTimed, CameraAccounted, Drives
<1> QED
  BY <1>4, <1>6, <1>7, <1>8, <1>9 DEF TurnKept, PlannerInv

LEMMA StraightenKeeps ==
  ASSUME PlannerTypeOK, PlannerInv, Tracking, lastSeq # None, Len(qPlan) <= Capacity,
         NEW state \in States, state.visible, lastState' = state, state.seq = lastSeq,
         Planner!SteeringOver, Planner!Straighten, Commitments
  PROVE  TurnKept
<1>1. /\ straightened' = TRUE /\ steer' = Planner!Straight /\ commandedPan' = pan
      /\ lastSeq' = lastSeq /\ pan' = pan /\ tilt' = tilt /\ speed' = speed
      /\ driving' = driving /\ detectAge' = detectAge
      /\ searchPhase' = searchPhase /\ sweepStep' = sweepStep /\ searchAge' = searchAge
  BY DEF Planner!Straighten, Planner!searchVars
<1>2. driving /\ detectAge < DriveBurst
  BY DEF Planner!SteeringOver
<1>3. Planner!Straight \in Steers
  BY SteersAre, AimTypes
<1> DEFINE plan == Planner!Plan("track-straight", pan, tilt, Planner!Straight, speed)
<1>4. plan \in Plans /\ plan.kind = "track-straight" /\ plan.speed = speed
  <2>1. "track-straight" \in Kinds
    BY DEF Kinds
  <2> QED
    BY <1>3, <2>1, PlanType DEF PlannerTypeOK
<1>5. Planner!Command(plan)
  BY DEF Planner!Straighten
<1> HIDE DEF plan
<1>6. /\ lastCommand' \in Commands /\ lastCommand' # None
      /\ lastCommand'.kind = "track-straight" /\ lastCommand'.speed = speed
      /\ qPlan' \in Seq(Plans) /\ Len(qPlan') <= Capacity + 1
  BY <1>4, <1>5, CommandFacts DEF PlannerInv
<1>7. trackedSeq' = trackedSeq /\ trackedSeq = lastSeq /\ commitAge' = commitAge
  BY <1>1, <1>6, TrackedOn DEF Rotating
<1>8. PlannerTypeOK'
  BY <1>1, <1>3, <1>6, <1>7 DEF PlannerTypeOK
<1>9. PlannerFits'
  <2>1. Tracking'
    BY <1>1, <1>2, <1>6, <1>7 DEF Tracking
  <2> QED
    BY <2>1, StatesAre DEF PlannerFits
<1>10. SweepGoesOn' /\ BurstTimed' /\ RotationTimed'
  BY <1>1, <1>7 DEF PlannerInv, SweepGoesOn, BurstTimed, RotationTimed
<1>11. DriveTimed
  <2>1. commitAge <= detectAge /\ commitAge \in Nat /\ detectAge \in Nat
    BY <1>2, LongestIs, Types DEF PlannerInv, BurstTimed, PlannerTypeOK
  <2> QED
    BY <1>2, <1>6, <1>7, <2>1, Types DEF DriveTimed, Rotating
<1>12. CameraAccounted
  BY <1>1 DEF CameraAccounted
<1> QED
  BY <1>6, <1>8, <1>9, <1>10, <1>11, <1>12 DEF TurnKept, PlannerInv

LEMMA KeepGoingKeeps ==
  ASSUME PlannerTypeOK, PlannerInv, Tracking, lastSeq # None, Len(qPlan) <= Capacity,
         NEW state \in States, state.visible, lastState' = state, state.seq = lastSeq,
         ~Planner!BurstOver, Planner!KeepGoing, Commitments
  PROVE  TurnKept
<1>1. /\ lastSeq' = lastSeq /\ lastCommand' = lastCommand /\ qPlan' = qPlan
      /\ pan' = pan /\ tilt' = tilt /\ commandedPan' = commandedPan /\ steer' = steer /\ speed' = speed
      /\ driving' = driving /\ straightened' = straightened /\ detectAge' = detectAge
      /\ searchPhase' = searchPhase /\ sweepStep' = sweepStep /\ searchAge' = searchAge
  BY DEF Planner!KeepGoing, Planner!aimVars, Planner!trackVars, Planner!searchVars
<1>2. ~Rotating(lastCommand) /\ ~Rotating(lastCommand')
  BY <1>1 DEF Tracking, Rotating
<1>3. trackedSeq' = trackedSeq /\ trackedSeq = lastSeq /\ commitAge' = commitAge
  BY <1>1, <1>2, TrackedOn
<1>4. PlannerTypeOK'
  BY <1>1, <1>3 DEF PlannerTypeOK
<1>5. PlannerFits'
  <2>1. Tracking'
    BY <1>1, <1>3 DEF Tracking
  <2> QED
    BY <2>1, StatesAre DEF PlannerFits
<1>6. SweepGoesOn' /\ BurstTimed' /\ RotationTimed'
  BY <1>1, <1>3 DEF PlannerInv, SweepGoesOn, BurstTimed, RotationTimed
<1>7. DriveTimed
  <2>1. Drives(lastCommand) => driving
    BY DEF Tracking, Drives
  <2>2. driving => commitAge < DriveBurst
    <3>1. commitAge \in Nat /\ detectAge \in Nat
      BY LongestIs, Types DEF PlannerTypeOK
    <3>2. driving => detectAge < DriveBurst
      BY <3>1, Types DEF Planner!BurstOver
    <3> QED
      BY <3>1, <3>2, Types DEF PlannerInv, BurstTimed
  <2> QED
    BY <1>1, <1>2, <1>3, <2>1, <2>2 DEF DriveTimed
<1>8. CameraAccounted
  BY <1>1 DEF CameraAccounted
<1>9. Len(qPlan') <= Capacity + 1
  BY <1>1, LenProperties, Types DEF PlannerInv
<1> QED
  BY <1>1, <1>4, <1>5, <1>6, <1>7, <1>8, <1>9 DEF TurnKept, PlannerInv

-----------------------------------------------------------------------------
(* A turn without a target.                                                  *)
LEMMA SearchKeeps ==
  ASSUME PlannerTypeOK, PlannerInv, lastState \in States \cup {None}, Len(qPlan) <= Capacity,
         NEW state \in States, ~state.visible, lastState' = state, Read.seq <= state.seq,
         Planner!Search, Commitments
  PROVE  TurnKept
<1>1. /\ lastSeq' = None
      /\ commandedPan' = commandedPan /\ steer' = steer /\ speed' = speed
      /\ driving' = driving /\ straightened' = straightened /\ detectAge' = detectAge
  BY DEF Planner!Search, Planner!trackVars
<1>2. trackedSeq' = trackedSeq /\ trackedSeq' \in Nat
  BY <1>1 DEF Commitments, PlannerTypeOK
<1>3. trackedSeq' <= state.seq
  <2>1. trackedSeq <= Read.seq
    <3>1. CASE lastState = None
      BY <3>1 DEF PlannerInv, PlannerFits, Unread, Read, Origin
    <3>2. CASE lastState # None
      <4>1. Read = lastState /\ lastState.seq \in Nat
        BY <3>2, StatesAre DEF Read
      <4> QED
        BY <3>2, <4>1 DEF PlannerInv, PlannerFits, Tracking, Searching
    <3> QED
      BY <3>1, <3>2
  <2>2. Read.seq \in Nat /\ state.seq \in Nat
    <3>1. state.seq \in Nat
      BY StatesAre
    <3>2. CASE lastState = None
      BY <3>1, <3>2 DEF Read, Origin
    <3>3. CASE lastState # None
      BY <3>1, <3>3, StatesAre DEF Read
    <3> QED
      BY <3>2, <3>3
  <2> QED
    BY <1>2, <2>1, <2>2
<1>4. state # None
  BY StatesAre
<1>5. Planner!AdvanceSearch /\ Planner!Command(Planner!SearchPlan)
  BY DEF Planner!Search
<1>6. commitAge' = 0 \/ commitAge' = commitAge
  BY DEF Commitments
<1>7. commitAge \in 0 .. Longest /\ commitAge' \in 0 .. Longest
  BY <1>6, LongestIs DEF PlannerTypeOK
<1>8. BurstTimed'
  BY <1>1, <1>6, <1>7, LongestIs, Types DEF PlannerInv, BurstTimed, PlannerTypeOK

(* The search's own step.                                                    *)
<1>9. /\ pan' \in Pans /\ tilt' \in Tilts
      /\ searchPhase' \in {"sweep", "rotate"} /\ sweepStep' \in 0 .. Len(Roll)
      /\ searchAge' \in 0 .. Greater(SearchInterval, BodyRotateDuration) \cup {None}
      /\ SweepGoesOn'
      /\ searchPhase' = "rotate" =>
           /\ searchAge' # None
           /\ \/ searchPhase = "sweep"
              \/ searchPhase = "rotate" /\ searchAge' = searchAge /\ searchAge < BodyRotateDuration
  <2>1. CASE Planner!SweepOn
    <3>1. /\ searchPhase = "sweep" /\ sweepStep' = sweepStep + 1 /\ searchAge' = 0
          /\ searchPhase' = IF sweepStep' = Len(Roll) THEN "rotate" ELSE "sweep"
      BY <2>1 DEF Planner!SweepOn
    <3>2. sweepStep' \in 1 .. Len(Roll)
      BY <3>1, LengthOfRoll DEF PlannerInv, SweepGoesOn, PlannerTypeOK
    <3>3. Roll[sweepStep'].sin \in Int /\ Roll[sweepStep'].cos \in Int
      BY <3>2, LengthOfRoll
    <3>4. (PanMax - PanMin) \div 2 \in Int /\ (PanMin + PanMax) \div 2 \in Int
      BY AimTypes
    <3>5. pan' \in Pans
      <4> DEFINE offset == Planner!Scale((PanMax - PanMin) \div 2, Roll[sweepStep'].sin)
      <4>1. offset \in Int
        BY <3>3, <3>4, ScaleType
      <4>2. pan' = Planner!Clamp((PanMin + PanMax) \div 2 + offset, PanMin, PanMax)
        BY <2>1 DEF Planner!SweepOn
      <4> HIDE DEF offset
      <4>3. (PanMin + PanMax) \div 2 + offset \in Int /\ PanMin \in Int /\ PanMax \in Int /\ PanMin <= PanMax
        BY <3>4, <4>1, AimTypes
      <4> QED
        BY <4>2, <4>3, ClampInRange, TravelIs
    <3>6. tilt' \in Tilts
      <4> DEFINE offset == Planner!Scale(TiltAmp, Roll[sweepStep'].cos)
      <4>1. offset \in Int
        BY <3>3, AimTypes, ScaleType
      <4>2. tilt' = Planner!Clamp(Planner!Straight - offset, TiltMin, TiltMax)
        BY <2>1 DEF Planner!SweepOn
      <4> HIDE DEF offset
      <4>3. Planner!Straight - offset \in Int /\ TiltMin \in Int /\ TiltMax \in Int /\ TiltMin <= TiltMax
        BY <4>1, AimTypes
      <4> QED
        BY <4>2, <4>3, ClampInRange, TravelIs
    <3>7. 0 # None
      BY NoneIsNew
    <3> QED
      BY <3>1, <3>2, <3>5, <3>6, <3>7, LengthOfRoll, LongestIs DEF SweepGoesOn
  <2>2. CASE Planner!RotateEnds
    BY <2>2, LengthOfRoll
       DEF Planner!RotateEnds, Planner!ResetSearch, PlannerTypeOK, SweepGoesOn
  <2>3. CASE Planner!Dwell
    <3>1. /\ pan' = pan /\ tilt' = tilt
          /\ searchPhase' = searchPhase /\ sweepStep' = sweepStep /\ searchAge' = searchAge
          /\ Planner!Dwelling
      BY <2>3 DEF Planner!Dwell, Planner!searchVars
    <3>2. searchPhase = "rotate" => searchAge # None /\ searchAge < BodyRotateDuration
      BY <3>1 DEF Planner!Dwelling
    <3>3. SweepGoesOn'
      BY <3>1 DEF PlannerInv, SweepGoesOn
    <3> QED
      BY <3>1, <3>2, <3>3 DEF PlannerTypeOK
  <2> QED
    BY <1>5, <2>1, <2>2, <2>3 DEF Planner!AdvanceSearch

<1>10. CASE searchPhase' = "rotate"
  <2> DEFINE turn == Planner!Quantise(Planner!ClampSteer(BodyRotateSteer), SteerQuantum)
             pace == Planner!Quantise(BodyRotateSpeed, SpeedQuantum)
             plan == Planner!Plan("search-rotate", None, None, turn, pace)
  <2>1. turn \in Steers
    BY PivotSteerInRange
  <2>2. pace = PivotSpeed
    BY SpeedsAre
  <2>3. Planner!SearchPlan = plan
    BY <1>10 DEF Planner!SearchPlan
  <2> HIDE DEF turn, pace
  <2>4. plan \in Plans /\ plan.kind = "search-rotate" /\ plan.speed = pace
    <3>1. "search-rotate" \in Kinds
      BY DEF Kinds
    <3> QED
      BY <2>1, <2>2, <3>1, PlanType
  <2>5. Planner!Command(plan)
    BY <1>5, <2>3
  <2> HIDE DEF plan
  <2>6. /\ lastCommand' \in Commands /\ lastCommand' # None
        /\ lastCommand'.kind = "search-rotate"
        /\ qPlan' \in Seq(Plans) /\ Len(qPlan') <= Capacity + 1
    BY <2>4, <2>5, CommandFacts DEF PlannerInv
  <2>7. Rotating(lastCommand')
    BY <2>6 DEF Rotating
  <2>8. commitAge' < BodyRotateDuration /\ (searchAge' < BodyRotateDuration => commitAge' <= searchAge')
    <3>1. CASE searchPhase = "sweep"
      <4>1. ~Rotating(lastCommand)
        BY <3>1, RotatesOnlyInSearch DEF PlannerInv
      <4>2. commitAge' = 0
        BY <2>7, <4>1 DEF Commitments
      <4>3. searchAge' \in Nat
        BY <1>9, <1>10, LongestIs
      <4> QED
        BY <4>2, <4>3, Types
    <3>2. CASE searchPhase = "rotate" /\ searchAge' = searchAge /\ searchAge < BodyRotateDuration
      <4>1. searchAge \in Nat /\ commitAge <= searchAge
        BY <1>9, <1>10, <3>2, LongestIs DEF PlannerInv, RotationTimed
      <4> QED
        BY <1>6, <1>7, <3>2, <4>1, LongestIs, Types
    <3> QED
      BY <1>9, <1>10, <3>1, <3>2
  <2>9. PlannerTypeOK'
    BY <1>1, <1>2, <1>7, <1>9, <2>6 DEF PlannerTypeOK
  <2>10. PlannerFits'
    <3>1. Searching'
      BY <1>1, <1>3, <1>10, <2>6 DEF Searching
    <3> QED
      BY <1>4, <3>1 DEF PlannerFits
  <2>11. RotationTimed'
    BY <1>9, <1>10, <2>8 DEF RotationTimed
  <2>12. DriveTimed
    BY <2>7, <2>8 DEF DriveTimed
  <2>13. CameraAccounted
    BY DEF CameraAccounted
  <2> QED
    BY <1>8, <1>9, <2>6, <2>9, <2>10, <2>11, <2>12, <2>13 DEF TurnKept, PlannerInv
<1>11. CASE searchPhase' = "sweep"
  <2> DEFINE plan == Planner!Plan("search-sweep", pan', tilt', None, 0)
  <2>1. Planner!SearchPlan = plan
    BY <1>11 DEF Planner!SearchPlan
  <2>2. plan \in Plans /\ plan.kind = "search-sweep" /\ plan.speed = 0
    <3>1. "search-sweep" \in Kinds /\ 0 \in Speeds
      BY SpeedsAre DEF Kinds
    <3>2. pan' \in Pans /\ tilt' \in Tilts
      BY <1>9
    <3>3. \A s \in Steers \cup {None}, p \in Pans, t \in Tilts :
            /\ Planner!Plan("search-sweep", p, t, s, 0) \in Plans
            /\ Planner!Plan("search-sweep", p, t, s, 0).kind = "search-sweep"
            /\ Planner!Plan("search-sweep", p, t, s, 0).speed = 0
      BY <3>1, PlanType
    <3>4. None \in Steers \cup {None}
      OBVIOUS
    <3> QED
      BY <3>2, <3>3, <3>4
  <2>3. Planner!Command(plan)
    BY <1>5, <2>1
  <2> HIDE DEF plan
  <2>4. /\ lastCommand' \in Commands /\ lastCommand' # None
        /\ lastCommand'.kind = "search-sweep" /\ lastCommand'.speed = 0
        /\ qPlan' \in Seq(Plans) /\ Len(qPlan') <= Capacity + 1
    BY <2>2, <2>3, CommandFacts DEF PlannerInv
  <2>5. PlannerTypeOK'
    BY <1>1, <1>2, <1>7, <1>9, <2>4 DEF PlannerTypeOK
  <2>6. PlannerFits'
    <3>1. Searching'
      BY <1>1, <1>3, <1>11, <2>4 DEF Searching
    <3> QED
      BY <1>4, <3>1 DEF PlannerFits
  <2>7. RotationTimed' /\ DriveTimed /\ CameraAccounted
    BY <1>11, <2>4 DEF RotationTimed, DriveTimed, Drives, CameraAccounted
  <2> QED
    BY <1>8, <1>9, <2>4, <2>5, <2>6, <2>7 DEF TurnKept, PlannerInv
<1> QED
  BY <1>9, <1>10, <1>11

(* A turn before the first update.                                           *)
LEMMA WaitingKeeps ==
  ASSUME PlannerTypeOK, PlannerInv, lastState = None, lastState' = None, Len(qPlan) <= Capacity,
         Planner!KeepGoing, Commitments
  PROVE  TurnKept
<1>1. /\ lastSeq' = lastSeq /\ lastCommand' = lastCommand /\ qPlan' = qPlan
      /\ pan' = pan /\ tilt' = tilt /\ commandedPan' = commandedPan /\ steer' = steer /\ speed' = speed
      /\ driving' = driving /\ straightened' = straightened /\ detectAge' = detectAge
      /\ searchPhase' = searchPhase /\ sweepStep' = sweepStep /\ searchAge' = searchAge
  BY DEF Planner!KeepGoing, Planner!aimVars, Planner!trackVars, Planner!searchVars
<1>2. Unread
  BY DEF PlannerInv, PlannerFits
<1>3. trackedSeq' = trackedSeq /\ commitAge' = commitAge
  BY <1>1, <1>2 DEF Commitments, Unread, Rotating
<1>4. PlannerTypeOK'
  BY <1>1, <1>3 DEF PlannerTypeOK
<1>5. PlannerFits'
  BY <1>1, <1>2, <1>3 DEF PlannerFits, Unread
<1>6. SweepGoesOn' /\ BurstTimed' /\ RotationTimed'
  BY <1>1, <1>3 DEF PlannerInv, SweepGoesOn, BurstTimed, RotationTimed
<1>7. DriveTimed /\ CameraAccounted
  BY <1>1, <1>2 DEF DriveTimed, CameraAccounted, Drives, Unread
<1>8. Len(qPlan') <= Capacity + 1
  BY <1>1, LenProperties, Types DEF PlannerInv
<1> QED
  BY <1>1, <1>4, <1>5, <1>6, <1>7, <1>8 DEF TurnKept, PlannerInv

(* The whole of _tick.                                                       *)
LEMMA TurnKeeps ==
  ASSUME PlannerTypeOK, PlannerInv, lastState \in States \cup {None}, Len(qPlan) <= Capacity,
         NEW state \in States \cup {None}, NEW dirty \in BOOLEAN, lastState' = state,
         IF dirty THEN state # None /\ Follows(Read, state) ELSE state = lastState,
         Planner!Turn(state, dirty), Commitments
  PROVE  TurnKept
<1>1. CASE state = None /\ Planner!KeepGoing
  BY <1>1, WaitingKeeps
<1>2. CASE state # None /\ ~state.visible /\ Planner!Search
  <2>1. state \in States
    BY <1>2
  <2>2. Read.seq <= state.seq
    <3>1. CASE dirty = TRUE
      BY <3>1 DEF Follows
    <3>2. CASE dirty = FALSE
      <4>1. Read = state /\ state.seq \in Nat
        BY <1>2, <2>1, <3>2, StatesAre DEF Read
      <4> QED
        BY <4>1
    <3> QED
      BY <3>1, <3>2
  <2> QED
    BY <1>2, <2>1, <2>2, SearchKeeps
<1>3. CASE state # None /\ state.visible /\ Planner!Fresh(state, dirty) /\ Planner!Track(state)
  <2>1. state \in States
    BY <1>3
  <2>2. dirty /\ state.seq # lastSeq
    BY <1>3 DEF Planner!Fresh
  <2> QED
    BY <1>3, <2>1, <2>2, TrackKeeps
<1>4. CASE state # None /\ state.visible /\ ~Planner!Fresh(state, dirty) /\ Planner!Continue
  <2>1. state \in States
    BY <1>4
  <2>2. state = lastState \/ state.seq = lastSeq
    BY <1>4 DEF Planner!Fresh
  <2>3. Tracking /\ state.seq = lastSeq /\ lastSeq # None
    BY <1>4, <2>1, <2>2, NothingNew
  <2>4. CASE Planner!BurstOver /\ Planner!Hold
    BY <1>4, <2>1, <2>3, <2>4, HoldKeeps
  <2>5. CASE Planner!SteeringOver /\ Planner!Straighten
    BY <1>4, <2>1, <2>3, <2>5, StraightenKeeps
  <2>6. CASE ~Planner!BurstOver /\ ~Planner!SteeringOver /\ Planner!KeepGoing
    BY <1>4, <2>1, <2>3, <2>6, KeepGoingKeeps
  <2> QED
    BY <1>4, <2>4, <2>5, <2>6 DEF Planner!Continue
<1> QED
  BY <1>1, <1>2, <1>3, <1>4 DEF Planner!Turn

-----------------------------------------------------------------------------
(* What the steps of one layer leave alone in the others.                    *)
LEMMA WorldStays ==
  ASSUME WorldTypeOK, WorldInv, UNCHANGED <<worldVars, sightedAge, lastState, qWorld>>
  PROVE  WorldTypeOK' /\ WorldInv'
<1>1. /\ visible' = visible /\ estimate' = estimate /\ echo' = echo /\ echoAge' = echoAge
      /\ visionSeq' = visionSeq /\ seenAge' = seenAge /\ lastEmitted' = lastEmitted
      /\ sightedAge' = sightedAge /\ lastState' = lastState /\ qWorld' = qWorld
  BY DEF worldVars
<1>2. WorldTypeOK'
  BY <1>1 DEF WorldTypeOK
<1>3. Estimated'
  <2>1. CASE visible
    BY <1>1, <2>1 DEF WorldInv, Estimated
  <2>2. CASE ~visible
    BY <1>1, <2>2 DEF WorldInv, Estimated, World!Nothing
  <2> QED
    BY <2>1, <2>2
<1>4. SightingKept'
  BY <1>1 DEF WorldInv, SightingKept
<1>5. EmittedIsCurrent'
  BY <1>1 DEF WorldInv, EmittedIsCurrent
<1> QED
  BY <1>2, <1>3, <1>4, <1>5 DEF WorldInv

LEMMA ChannelStays ==
  ASSUME ChannelTypeOK, ChannelInv, UNCHANGED <<qWorld, lastEmitted, lastState>>
  PROVE  ChannelTypeOK' /\ ChannelInv'
BY DEF ChannelTypeOK, ChannelInv, PlannerCatchesUp, FramesAdvance, Before, Read

LEMMA PlannerStays ==
  ASSUME PlannerTypeOK, PlannerInv, UNCHANGED <<plannerVars, trackedSeq, commitAge>>,
         qPlan' \in Seq(Plans)
  PROVE  PlannerTypeOK' /\ PlannerInv'
<1>1. /\ lastState' = lastState /\ lastSeq' = lastSeq /\ pan' = pan /\ tilt' = tilt
      /\ commandedPan' = commandedPan /\ steer' = steer /\ speed' = speed
      /\ driving' = driving /\ straightened' = straightened /\ detectAge' = detectAge
      /\ searchPhase' = searchPhase /\ sweepStep' = sweepStep /\ searchAge' = searchAge
      /\ lastCommand' = lastCommand /\ trackedSeq' = trackedSeq /\ commitAge' = commitAge
  BY DEF plannerVars, aimVars
<1>2. PlannerTypeOK'
  BY <1>1 DEF PlannerTypeOK
<1>3. PlannerFits'
  BY <1>1 DEF PlannerInv, PlannerFits, Unread, Tracking, Searching
<1>4. SweepGoesOn' /\ BurstTimed' /\ RotationTimed'
  BY <1>1 DEF PlannerInv, SweepGoesOn, BurstTimed, RotationTimed
<1> QED
  BY <1>2, <1>3, <1>4 DEF PlannerInv

LEMMA QueuesStay ==
  /\ QueueTypeOK /\ qPerception' = qPerception => QueueTypeOK'
  /\ PlansTypeOK /\ qPlan' = qPlan => PlansTypeOK'
BY DEF QueueTypeOK, PlansTypeOK

LEMMA InvariantJoins ==
  ASSUME WorldTypeOK', ChannelTypeOK', PlannerTypeOK', QueueTypeOK', PlansTypeOK',
         WorldInv', ChannelInv', PlannerInv'
  PROVE  IInv'
<1>1. TypeOK'
  BY DEF TypeOK, WorldTypeOK, ChannelTypeOK, PlannerTypeOK, QueueTypeOK, PlansTypeOK
<1> QED
  BY <1>1 DEF IInv

-----------------------------------------------------------------------------
(* The actions.                                                              *)
LEMMA PollKeeps ==
  ASSUME IInv, NEW event \in Readings, Poll(event)
  PROVE  IInv'
<1>1. /\ Len(qPerception) < Capacity /\ qPerception' = Append(qPerception, event)
      /\ qWorld' = qWorld /\ qPlan' = qPlan
      /\ UNCHANGED <<worldVars, plannerVars, historyVars>>
  BY DEF Poll
<1>2. lastState' = lastState /\ lastEmitted' = lastEmitted
      /\ UNCHANGED <<sightedAge, trackedSeq, commitAge>>
  BY <1>1 DEF plannerVars, worldVars, historyVars
<1>3. QueueTypeOK'
  <2>1. Append(qPerception, event) \in Seq(Readings) /\ Len(Append(qPerception, event)) = Len(qPerception) + 1
        /\ Len(qPerception) \in Nat
    BY AppendFacts, TypeByLayers DEF IInv, QueueTypeOK
  <2> QED
    BY <1>1, <2>1, Types DEF QueueTypeOK
<1>4. WorldTypeOK' /\ WorldInv'
  BY <1>1, <1>2, WorldStays, TypeByLayers DEF IInv
<1>5. ChannelTypeOK' /\ ChannelInv'
  BY <1>1, <1>2, ChannelStays, TypeByLayers DEF IInv
<1>6. PlannerTypeOK' /\ PlannerInv' /\ PlansTypeOK'
  BY <1>1, <1>2, PlannerStays, QueuesStay, TypeByLayers DEF IInv, PlannerInv
<1> QED
  BY <1>3, <1>4, <1>5, <1>6, InvariantJoins

LEMMA ExecuteKeeps ==
  ASSUME IInv, Execute
  PROVE  IInv'
<1>1. /\ qPlan # <<>> /\ qPlan' = Tail(qPlan)
      /\ qPerception' = qPerception /\ qWorld' = qWorld
      /\ UNCHANGED <<worldVars, plannerVars, historyVars>>
  BY DEF Execute
<1>2. lastState' = lastState /\ lastEmitted' = lastEmitted
      /\ UNCHANGED <<sightedAge, trackedSeq, commitAge>>
  BY <1>1 DEF plannerVars, worldVars, historyVars
<1>3. qPlan' \in Seq(Plans) /\ Len(qPlan') = Len(qPlan) - 1 /\ Len(qPlan) \in Nat \ {0}
  BY <1>1, TailFacts DEF IInv, PlannerInv
<1>4. PlansTypeOK'
  BY <1>3, PlansAreCommands, TypeByLayers, Types DEF IInv, PlansTypeOK
<1>5. WorldTypeOK' /\ WorldInv'
  BY <1>1, <1>2, WorldStays, TypeByLayers DEF IInv
<1>6. ChannelTypeOK' /\ ChannelInv'
  BY <1>1, <1>2, ChannelStays, TypeByLayers DEF IInv
<1>7. PlannerTypeOK' /\ PlannerInv' /\ QueueTypeOK'
  BY <1>1, <1>2, <1>3, PlannerStays, QueuesStay, TypeByLayers DEF IInv, PlannerInv
<1> QED
  BY <1>4, <1>5, <1>6, <1>7, InvariantJoins

(* A turn of the world model, by what it makes of its event.                 *)
LEMMA WorldTurnKeeps ==
  ASSUME IInv, Len(qWorld) <= Capacity, World!MaybeEmit,
         UNCHANGED <<qPlan, plannerVars, trackedSeq, commitAge>>, QueueTypeOK',
         WorldTypeOK', Estimated', SightingKept',
         visionSeq <= visionSeq', visible' /\ ~visible => visionSeq < visionSeq',
         visible' <=> sightedAge' <= LostTimeout
  PROVE  IInv' /\ (lastEmitted'.visible <=> sightedAge' <= LostTimeout)
<1>1. WorldTypeOK /\ ChannelTypeOK /\ PlannerTypeOK /\ PlansTypeOK
      /\ EmittedIsCurrent /\ ChannelInv /\ PlannerInv
  BY TypeByLayers DEF IInv, WorldInv
<1>2. lastState' = lastState
  BY DEF plannerVars
<1>3. /\ ChannelTypeOK' /\ EmittedIsCurrent' /\ ChannelInv'
      /\ lastEmitted'.visible = visible'
  BY <1>1, <1>2, ChannelFills
<1>4. PlannerTypeOK' /\ PlannerInv' /\ PlansTypeOK'
  BY <1>1, PlannerStays, QueuesStay DEF PlannerInv
<1> QED
  BY <1>3, <1>4, InvariantJoins DEF WorldInv

LEMMA WorldReceiveKeeps ==
  ASSUME IInv, WorldReceive
  PROVE  IInv' /\ (lastEmitted'.visible <=> sightedAge' <= LostTimeout)
<1> DEFINE event == Head(qPerception)
<1>1. WorldTypeOK /\ QueueTypeOK /\ Estimated /\ SightingKept
  BY TypeByLayers DEF IInv, WorldInv
<1>2. /\ qPerception # <<>> /\ Len(qWorld) <= Capacity /\ qPerception' = Tail(qPerception)
      /\ World!Observe(event) /\ World!MaybeEmit
      /\ UNCHANGED <<qPlan, plannerVars, trackedSeq, commitAge>>
  BY DEF WorldReceive, World!ReceiveEvent
<1>3. sightedAge' = IF World!Detection(event) THEN 0 ELSE sightedAge
  BY DEF WorldReceive, Detection
<1>4. /\ qPerception' \in Seq(Readings) /\ event \in Readings
      /\ Len(qPerception') = Len(qPerception) - 1 /\ Len(qPerception) \in Nat \ {0}
  BY <1>1, <1>2, TailFacts DEF QueueTypeOK
<1>5. QueueTypeOK'
  BY <1>1, <1>4, Types DEF QueueTypeOK
<1>6. event \in Events
  BY <1>4, FollowAssumption
<1> HIDE DEF event
<1>7. /\ WorldTypeOK' /\ Estimated' /\ SightingKept'
      /\ visionSeq <= visionSeq' /\ (visible' /\ ~visible => visionSeq < visionSeq')
      /\ visible' <=> sightedAge' <= LostTimeout
  <2>1. CASE World!Detection(event) /\ World!Detect(event)
    <3>1. sightedAge' = 0
      BY <1>3, <2>1
    <3>2. /\ WorldTypeOK' /\ Estimated' /\ SightingKept'
          /\ visible' = TRUE /\ visionSeq' = visionSeq + 1
      BY <1>1, <1>6, <2>1, <3>1, DetectFacts
    <3>3. visionSeq \in Nat
      BY <1>1 DEF WorldTypeOK
    <3> QED
      BY <3>1, <3>2, <3>3, Types
  <2>2. CASE /\ ~World!Detection(event) /\ World!AgeOut
             /\ echo' \in Int \cup {None} /\ echoAge' \in 0 .. UltrasonicMaxAge + 1
    <3>1. sightedAge' = sightedAge
      BY <1>3, <2>2
    <3>2. /\ visible' \in BOOLEAN /\ visionSeq' = visionSeq /\ seenAge' = seenAge
          /\ Estimated' /\ SightingKept' /\ (visible' => visible)
          /\ visible' <=> sightedAge' <= LostTimeout
      BY <1>1, <2>2, <3>1, AgeOutFacts
    <3>3. WorldTypeOK'
      BY <1>1, <2>2, <3>1, <3>2 DEF WorldTypeOK
    <3>4. visionSeq \in Nat
      BY <1>1 DEF WorldTypeOK
    <3> QED
      BY <3>2, <3>3, <3>4
  <2>3. CASE event.sensor = "ultrasonic" /\ World!Echo(event)
    <3>1. ~World!Detection(event) /\ event.distance \in Int \cup {None}
      BY <1>6, <2>3, EventsAre
    <3>2. World!Ema(echo, event.distance, UltrasonicSmoothing) \in Int \cup {None}
      BY <1>1, <3>1, Types, EmaType DEF WorldTypeOK
    <3>3. World!AgeOut /\ echo' \in Int \cup {None}
      BY <2>3, <3>2 DEF World!Echo
    <3>4. echoAge' \in 0 .. UltrasonicMaxAge + 1
      BY <1>1, <2>3, Types DEF World!Echo, WorldTypeOK
    <3> QED
      BY <2>2, <3>1, <3>3, <3>4
  <2>4. CASE ~World!Detection(event) /\ World!AgeOut /\ UNCHANGED <<echo, echoAge>>
    BY <1>1, <2>2, <2>4 DEF WorldTypeOK
  <2> QED
    BY <1>2, <2>1, <2>3, <2>4 DEF World!Observe
<1> QED
  BY <1>2, <1>5, <1>7, WorldTurnKeeps

LEMMA WorldIdleKeeps ==
  ASSUME IInv, WorldIdle
  PROVE  IInv' /\ (lastEmitted'.visible <=> sightedAge' <= LostTimeout)
<1>1. WorldTypeOK /\ QueueTypeOK /\ Estimated /\ SightingKept
  BY TypeByLayers DEF IInv, WorldInv
<1>2. /\ Len(qWorld) <= Capacity /\ World!AgeOut /\ World!MaybeEmit
      /\ qPerception' = qPerception /\ echo' = echo /\ echoAge' = echoAge
      /\ UNCHANGED <<qPlan, plannerVars, trackedSeq, commitAge>> /\ sightedAge' = sightedAge
  BY DEF WorldIdle, World!IdleTurn, historyVars
<1>3. /\ visible' \in BOOLEAN /\ visionSeq' = visionSeq /\ seenAge' = seenAge
      /\ Estimated' /\ SightingKept' /\ (visible' => visible)
      /\ visible' <=> sightedAge' <= LostTimeout
  BY <1>1, <1>2, AgeOutFacts
<1>4. WorldTypeOK' /\ visionSeq <= visionSeq'
  BY <1>1, <1>2, <1>3 DEF WorldTypeOK
<1>5. QueueTypeOK'
  BY <1>1, <1>2, QueuesStay
<1> QED
  BY <1>2, <1>3, <1>4, <1>5, WorldTurnKeeps

(* A turn of the planner.                                                    *)
LEMMA PlannerKeeps ==
  ASSUME IInv, TurnKept, UNCHANGED <<qPerception, worldVars, sightedAge>>,
         ChannelTypeOK', EmittedIsCurrent', ChannelInv'
  PROVE  IInv'
<1>1. /\ visible' = visible /\ estimate' = estimate /\ echo' = echo /\ echoAge' = echoAge
      /\ visionSeq' = visionSeq /\ seenAge' = seenAge
      /\ sightedAge' = sightedAge /\ qPerception' = qPerception
  BY DEF worldVars
<1>2. WorldTypeOK' /\ QueueTypeOK'
  BY <1>1, TypeByLayers, QueuesStay DEF IInv, WorldTypeOK
<1>3. Estimated'
  <2>1. CASE visible
    BY <1>1, <2>1 DEF IInv, WorldInv, Estimated
  <2>2. CASE ~visible
    BY <1>1, <2>2 DEF IInv, WorldInv, Estimated, World!Nothing
  <2> QED
    BY <2>1, <2>2
<1>4. SightingKept'
  BY <1>1 DEF IInv, WorldInv, SightingKept
<1>5. PlansTypeOK' /\ PlannerTypeOK' /\ PlannerInv'
  <2>1. qPlan' \in Seq(Plans) /\ Len(qPlan') <= Capacity + 1 /\ PlannerTypeOK' /\ PlannerInv'
    BY DEF TurnKept, PlannerInv
  <2>2. qPlan' \in Seq(Commands)
    BY <2>1, PlansAreCommands
  <2> QED
    BY <2>1, <2>2 DEF PlansTypeOK
<1> QED
  BY <1>2, <1>3, <1>4, <1>5, InvariantJoins DEF WorldInv

LEMMA PlannerReceiveKeeps ==
  ASSUME IInv, PlannerReceive
  PROVE  IInv' /\ DriveTimed /\ CameraAccounted
<1>1. /\ PlannerTypeOK /\ PlannerInv /\ ChannelTypeOK /\ ChannelInv /\ EmittedIsCurrent
      /\ lastState \in States \cup {None}
  BY TypeByLayers DEF IInv, WorldInv, ChannelTypeOK
<1>2. /\ qWorld # <<>> /\ Len(qPlan) <= Capacity /\ qWorld' = Tail(qWorld)
      /\ lastState' = Head(qWorld) /\ Planner!Turn(Head(qWorld), TRUE)
      /\ Commitments /\ qPerception' = qPerception /\ UNCHANGED worldVars
  BY DEF PlannerReceive, Planner!ReceiveUpdate
<1>3. UNCHANGED <<lastEmitted, visible, estimate, visionSeq>> /\ sightedAge' = sightedAge
  BY <1>2 DEF worldVars, Commitments
<1>4. /\ ChannelTypeOK' /\ EmittedIsCurrent' /\ ChannelInv'
      /\ lastState' \in States /\ Follows(Read, lastState')
  BY <1>1, <1>2, <1>3, ChannelEmpties
<1> DEFINE state == Head(qWorld)
<1>5. /\ state \in States /\ state # None /\ Follows(Read, state) /\ lastState' = state
      /\ Planner!Turn(state, TRUE)
  BY <1>2, <1>4, StatesAre
<1> HIDE DEF state
<1>6. TurnKept
  BY <1>1, <1>2, <1>5, TurnKeeps
<1>7. IInv'
  BY <1>2, <1>3, <1>4, <1>6, PlannerKeeps
<1> QED
  BY <1>6, <1>7 DEF TurnKept

LEMMA PlannerIdleKeeps ==
  ASSUME IInv, PlannerIdle
  PROVE  IInv' /\ DriveTimed /\ CameraAccounted
<1>1. /\ PlannerTypeOK /\ PlannerInv /\ ChannelTypeOK /\ ChannelInv /\ EmittedIsCurrent
      /\ lastState \in States \cup {None}
  BY TypeByLayers DEF IInv, WorldInv, ChannelTypeOK
<1>2. /\ Len(qPlan) <= Capacity /\ qWorld' = qWorld /\ lastState' = lastState
      /\ Planner!Turn(lastState, FALSE)
      /\ Commitments /\ qPerception' = qPerception /\ UNCHANGED worldVars
  BY DEF PlannerIdle, Planner!IdleTick
<1>3. UNCHANGED <<lastEmitted, visible, estimate, visionSeq>> /\ sightedAge' = sightedAge
  BY <1>2 DEF worldVars, Commitments
<1>4. ChannelTypeOK' /\ ChannelInv'
  BY <1>1, <1>2, <1>3, ChannelStays
<1>5. EmittedIsCurrent'
  BY <1>1, <1>2, <1>3 DEF EmittedIsCurrent
<1>6. TurnKept
  BY <1>1, <1>2, TurnKeeps
<1>7. IInv'
  BY <1>2, <1>3, <1>4, <1>5, <1>6, PlannerKeeps
<1> QED
  BY <1>6, <1>7 DEF TurnKept

(* The clock.                                                                *)
LEMMA TimePassesKeeps ==
  ASSUME IInv, TimePasses
  PROVE  IInv' /\ UNCHANGED <<pan, tilt>>
<1>1. /\ WorldTypeOK /\ ChannelTypeOK /\ PlannerTypeOK /\ QueueTypeOK /\ PlansTypeOK
      /\ Estimated /\ SightingKept /\ EmittedIsCurrent /\ ChannelInv /\ PlannerInv
  BY TypeByLayers DEF IInv, WorldInv
<1>2. /\ qPerception' = qPerception /\ qWorld' = qWorld /\ qPlan' = qPlan
      /\ visible' = visible /\ estimate' = estimate /\ echo' = echo /\ visionSeq' = visionSeq
      /\ lastEmitted' = lastEmitted /\ lastState' = lastState /\ lastSeq' = lastSeq
      /\ pan' = pan /\ tilt' = tilt /\ commandedPan' = commandedPan /\ steer' = steer /\ speed' = speed
      /\ driving' = driving /\ straightened' = straightened
      /\ searchPhase' = searchPhase /\ sweepStep' = sweepStep
      /\ lastCommand' = lastCommand /\ trackedSeq' = trackedSeq
  BY DEF TimePasses, aimVars
<1>3. /\ seenAge' = World!Lesser(seenAge + 1, LostTimeout + 1)
      /\ echoAge' = World!Lesser(echoAge + 1, UltrasonicMaxAge + 1)
      /\ sightedAge' = Lesser(sightedAge + 1, LostTimeout + 1)
  BY DEF TimePasses, World!SightingsAge
<1>4. /\ detectAge' = IF driving THEN Planner!Lesser(detectAge + 1, DriveBurst) ELSE detectAge
      /\ searchAge' = IF searchAge = None THEN None
                      ELSE Planner!Lesser(searchAge + 1, Planner!Greater(SearchInterval, BodyRotateDuration))
      /\ commitAge' = IF Drives(lastCommand) THEN Lesser(commitAge + 1, Longest) ELSE commitAge
  BY DEF TimePasses, Planner!BurstAge, Planner!SearchAges
<1>5. WorldTypeOK'
  BY <1>1, <1>2, <1>3, Types DEF WorldTypeOK, World!Lesser, Lesser
<1>6. Estimated'
  <2>1. CASE visible
    BY <1>1, <1>2, <2>1 DEF Estimated
  <2>2. CASE ~visible
    BY <1>1, <1>2, <2>2 DEF Estimated, World!Nothing
  <2> QED
    BY <2>1, <2>2
<1>7. SightingKept'
  BY <1>1, <1>2, <1>3, Types DEF SightingKept, WorldTypeOK, World!Lesser, Lesser
<1>8. EmittedIsCurrent'
  BY <1>1, <1>2 DEF EmittedIsCurrent
<1>9. ChannelTypeOK' /\ ChannelInv' /\ QueueTypeOK' /\ PlansTypeOK'
  BY <1>1, <1>2, ChannelStays, QueuesStay
<1>10. /\ commitAge \in Nat /\ commitAge' \in 0 .. Longest /\ commitAge' <= commitAge + 1
  BY <1>1, <1>4, LongestIs DEF PlannerTypeOK, Lesser
<1>11. /\ detectAge \in Nat /\ detectAge' \in 0 .. DriveBurst
       /\ driving => detectAge' = detectAge + 1 \/ detectAge' = DriveBurst
  BY <1>1, <1>4, Types DEF PlannerTypeOK, Planner!Lesser
<1>12. /\ searchAge' \in 0 .. Greater(SearchInterval, BodyRotateDuration) \cup {None}
       /\ searchAge = None => searchAge' = None
       /\ searchAge # None => /\ searchAge \in Nat
                              /\ \/ searchAge' = searchAge + 1
                                 \/ searchAge' = Greater(SearchInterval, BodyRotateDuration)
  <2>1. Planner!Greater(SearchInterval, BodyRotateDuration) = Greater(SearchInterval, BodyRotateDuration)
    BY DEF Planner!Greater, Greater
  <2>2. CASE searchAge = None
    BY <1>4, <2>2
  <2>3. CASE searchAge # None
    <3>1. searchAge \in 0 .. Greater(SearchInterval, BodyRotateDuration)
      BY <1>1, <2>3 DEF PlannerTypeOK
    <3> QED
      BY <1>4, <2>1, <2>3, <3>1, LongestIs DEF Planner!Lesser
  <2> QED
    BY <2>2, <2>3
<1>13. PlannerTypeOK'
  BY <1>1, <1>2, <1>10, <1>11, <1>12 DEF PlannerTypeOK
<1>14. PlannerFits' /\ SweepGoesOn'
  BY <1>1, <1>2 DEF PlannerInv, PlannerFits, Unread, Tracking, Searching, SweepGoesOn
<1>15. BurstTimed'
  BY <1>1, <1>2, <1>10, <1>11, Types DEF PlannerInv, BurstTimed
<1>16. RotationTimed'
  <2> SUFFICES ASSUME searchPhase = "rotate"
               PROVE  searchAge' # None /\ (searchAge' < BodyRotateDuration => commitAge' <= searchAge')
    BY <1>2 DEF RotationTimed
  <2>1. searchAge # None /\ (searchAge < BodyRotateDuration => commitAge <= searchAge)
    BY <1>1 DEF PlannerInv, RotationTimed
  <2>2. searchAge \in Nat
    BY <1>12, <2>1
  <2>3. CASE searchAge' = searchAge + 1
    <3>1. searchAge' \in Int
      BY <2>2, <2>3
    <3>2. searchAge' # None
      BY <3>1, NoneIsNew
    <3> QED
      BY <1>10, <2>1, <2>2, <2>3, <3>2, Types
  <2>4. CASE searchAge' = Greater(SearchInterval, BodyRotateDuration)
    <3>1. searchAge' \in Int /\ ~(searchAge' < BodyRotateDuration)
      BY <2>4, LongestIs, Types
    <3>2. searchAge' # None
      BY <3>1, NoneIsNew
    <3> QED
      BY <3>1, <3>2
  <2> QED
    BY <1>12, <2>1, <2>3, <2>4
<1>17. PlannerInv'
  BY <1>1, <1>2, <1>14, <1>15, <1>16 DEF PlannerInv
<1> QED
  BY <1>2, <1>5, <1>6, <1>7, <1>8, <1>9, <1>13, <1>17, InvariantJoins DEF WorldInv

LEMMA StutterKeeps ==
  ASSUME IInv, UNCHANGED vars
  PROVE  IInv'
<1>1. /\ qPerception' = qPerception /\ qWorld' = qWorld /\ qPlan' = qPlan
      /\ UNCHANGED <<worldVars, plannerVars, historyVars>>
  BY DEF vars
<1>2. lastState' = lastState /\ lastEmitted' = lastEmitted
      /\ UNCHANGED <<sightedAge, trackedSeq, commitAge>>
  BY <1>1 DEF plannerVars, worldVars, historyVars
<1>3. WorldTypeOK' /\ WorldInv'
  BY <1>1, <1>2, WorldStays, TypeByLayers DEF IInv
<1>4. ChannelTypeOK' /\ ChannelInv'
  BY <1>1, <1>2, ChannelStays, TypeByLayers DEF IInv
<1>5. PlannerTypeOK' /\ PlannerInv' /\ PlansTypeOK' /\ QueueTypeOK'
  BY <1>1, <1>2, PlannerStays, QueuesStay, TypeByLayers DEF IInv, PlannerInv
<1> QED
  BY <1>3, <1>4, <1>5, InvariantJoins

LEMMA NextKeeps == IInv /\ [Next]_vars => IInv'
<1> SUFFICES ASSUME IInv, [Next]_vars PROVE IInv'
  OBVIOUS
<1>1. CASE \E event \in Readings : Poll(event)
  BY <1>1, PollKeeps
<1>2. CASE WorldReceive
  BY <1>2, WorldReceiveKeeps
<1>3. CASE WorldIdle
  BY <1>3, WorldIdleKeeps
<1>4. CASE PlannerReceive
  BY <1>4, PlannerReceiveKeeps
<1>5. CASE PlannerIdle
  BY <1>5, PlannerIdleKeeps
<1>6. CASE TimePasses
  BY <1>6, TimePassesKeeps
<1>7. CASE Execute
  BY <1>7, ExecuteKeeps
<1>8. CASE UNCHANGED vars
  BY <1>8, StutterKeeps
<1> QED
  BY <1>1, <1>2, <1>3, <1>4, <1>5, <1>6, <1>7, <1>8 DEF Next

-----------------------------------------------------------------------------
(* IInv is an invariant of every run.                                        *)
THEOREM Invariance == Spec => []IInv
<1>1. Init => IInv
  BY InitHolds
<1>2. IInv /\ [Next]_vars => IInv'
  BY NextKeeps
<1> QED
  BY <1>1, <1>2, PTL DEF Spec

(* The type invariant: ages stay below their limits, queues below theirs,    *)
(* the camera within its travel, the wheels and the motor within theirs.     *)
THEOREM TypeCorrect == Spec => []TypeOK
<1>1. IInv => TypeOK
  BY DEF IInv
<1> QED
  BY <1>1, Invariance, PTL

(* A step nearest to something within limits is at most half a step outside. *)
LEMMA NearestIsNear ==
  ASSUME NEW low \in Int, NEW high \in Int, NEW step \in Int, NEW value \in Nearest(low, high, step)
  PROVE  AtMostHalfAStepOver(low, value, step) /\ AtMostHalfAStepOver(value, high, step)
<1>1. /\ Quantise(low, step) \in Int /\ Quantise(high, step) \in Int
      /\ Greater(0, step) \in Int
  BY QuantiseIs DEF Greater
<1>2. value \in Int /\ Quantise(low, step) <= value /\ value <= Quantise(high, step)
  BY <1>1 DEF Nearest
<1>3. 2 * (low - Quantise(low, step)) <= Greater(0, step)
  BY HalfAStep
<1>4. 2 * (Quantise(high, step) - high) <= Greater(0, step)
  BY HalfAStep
<1> QED
  BY <1>1, <1>2, <1>3, <1>4 DEF AtMostHalfAStepOver

LEMMA AbsIs == \A n \in Int : Abs(n) = IF n < 0 THEN -n ELSE n
BY DEF Abs

LEMMA SteersAreNear ==
  ASSUME NEW s \in Steers
  PROVE  AtMostHalfAStepOver(Abs(s - 90), MaxSteer, SteerQuantum)
<1>1. /\ 90 - MaxSteer \in Int /\ 90 + MaxSteer \in Int /\ MaxSteer \in Nat /\ SteerQuantum \in Int
      /\ s \in Int /\ Greater(0, SteerQuantum) \in Nat
  BY AimTypes, SteersAre DEF Greater
<1>2. CASE s = 90
  BY <1>1, <1>2, AbsIs DEF AtMostHalfAStepOver
<1>3. CASE s \in Nearest(90 - MaxSteer, 90 + MaxSteer, SteerQuantum)
  <2>1. /\ 2 * (90 - MaxSteer - s) <= Greater(0, SteerQuantum)
        /\ 2 * (s - (90 + MaxSteer)) <= Greater(0, SteerQuantum)
    BY <1>1, <1>3, NearestIsNear DEF AtMostHalfAStepOver
  <2>2. Abs(s - 90) = s - 90 \/ Abs(s - 90) = 90 - s
    BY <1>1, AbsIs
  <2> QED
    BY <1>1, <2>1, <2>2 DEF AtMostHalfAStepOver
<1> QED
  BY <1>2, <1>3, SteersAre

LEMMA SpeedsAreNear ==
  ASSUME NEW v \in Speeds
  PROVE  /\ AtMostHalfAStepOver(Abs(v), TopSpeed, SpeedQuantum)
         /\ v # 0 => AtMostHalfAStepOver(MinDriveSpeed, Abs(v), SpeedQuantum)
<1>1. /\ MinDriveSpeed \in Nat /\ TopSpeed \in Nat /\ MinDriveSpeed <= TopSpeed
      /\ -MinDriveSpeed \in Int /\ -TopSpeed \in Int
      /\ SpeedQuantum \in Int /\ v \in Int /\ Greater(0, SpeedQuantum) \in Nat
  BY AimTypes, TopSpeedIs, SpeedsAre DEF Greater
<1>2. Abs(v) = IF v < 0 THEN -v ELSE v
  BY <1>1, AbsIs
<1>3. CASE v = 0
  BY <1>1, <1>2, <1>3 DEF AtMostHalfAStepOver
<1>4. CASE v \in Nearest(MinDriveSpeed, TopSpeed, SpeedQuantum)
  <2>1. /\ 2 * (MinDriveSpeed - v) <= Greater(0, SpeedQuantum)
        /\ 2 * (v - TopSpeed) <= Greater(0, SpeedQuantum)
    BY <1>1, <1>4, NearestIsNear DEF AtMostHalfAStepOver
  <2>2. 0 <= v
    <3>1. Quantise(0, SpeedQuantum) = 0
      BY <1>1, OnStepStays
    <3>2. Quantise(0, SpeedQuantum) <= Quantise(MinDriveSpeed, SpeedQuantum)
      BY <1>1, QuantiseKeepsOrder
    <3>3. MinDriveSpeed \in Int /\ TopSpeed \in Int
      BY <1>1
    <3>4. Quantise(MinDriveSpeed, SpeedQuantum) \in Int /\ Quantise(TopSpeed, SpeedQuantum) \in Int
      BY <1>1, <3>3, QuantiseIs
    <3> QED
      BY <1>1, <1>4, <3>1, <3>2, <3>4 DEF Nearest
  <2> QED
    BY <1>1, <1>2, <2>1, <2>2 DEF AtMostHalfAStepOver
<1>5. CASE v \in Nearest(-TopSpeed, -MinDriveSpeed, SpeedQuantum)
  <2>1. /\ 2 * (-TopSpeed - v) <= Greater(0, SpeedQuantum)
        /\ 2 * (v + MinDriveSpeed) <= Greater(0, SpeedQuantum)
    BY <1>1, <1>5, NearestIsNear DEF AtMostHalfAStepOver
  <2>2. v <= 0
    <3>1. Quantise(0, SpeedQuantum) = 0
      BY <1>1, OnStepStays
    <3>2. Quantise(-MinDriveSpeed, SpeedQuantum) <= Quantise(0, SpeedQuantum)
      BY <1>1, QuantiseKeepsOrder
    <3>3. Quantise(-MinDriveSpeed, SpeedQuantum) \in Int /\ Quantise(-TopSpeed, SpeedQuantum) \in Int
      BY <1>1, QuantiseIs
    <3> QED
      BY <1>1, <1>5, <3>1, <3>2, <3>3 DEF Nearest
  <2>3. Abs(v) = -v
    BY <1>1, <1>2, <2>2
  <2> QED
    BY <1>1, <2>1, <2>3 DEF AtMostHalfAStepOver
<1> QED
  BY <1>3, <1>4, <1>5 DEF Speeds

LEMMA PivotIsNear == AtMostHalfAStepOver(Abs(PivotSpeed - BodyRotateSpeed), 0, SpeedQuantum)
<1>1. /\ PivotSpeed = Quantise(BodyRotateSpeed, SpeedQuantum) /\ PivotSpeed \in Int
      /\ BodyRotateSpeed \in Int /\ SpeedQuantum \in Int
  BY AimTypes, SpeedsAre, QuantiseIs
<1>2. /\ 2 * (PivotSpeed - BodyRotateSpeed) <= Greater(0, SpeedQuantum)
      /\ 2 * (BodyRotateSpeed - PivotSpeed) <= Greater(0, SpeedQuantum)
  BY <1>1, HalfAStep
<1>3. \/ Abs(PivotSpeed - BodyRotateSpeed) = PivotSpeed - BodyRotateSpeed
      \/ Abs(PivotSpeed - BodyRotateSpeed) = BodyRotateSpeed - PivotSpeed
  BY <1>1, AbsIs
<1> QED
  BY <1>1, <1>2, <1>3 DEF AtMostHalfAStepOver

(* The plans on their way, one by one.                                       *)
LEMMA PlansOnTheirWay ==
  ASSUME IInv, NEW i \in DOMAIN qPlan
  PROVE  qPlan[i] \in Plans
<1>1. DOMAIN qPlan = 1 .. Len(qPlan) /\ qPlan \in Seq(Plans)
  BY LenProperties DEF IInv, PlannerInv
<1> QED
  BY <1>1, ElementOfSeq

(* Every plan on its way to the action layer is within the camera's travel,  *)
(* and within half a rounding step of the limits of wheels and motor: a ramp *)
(* of rounded angles does not add the roundings up (the clamps, _quantise,   *)
(* the compensation).                                                        *)
THEOREM PlansAreInRange == Spec => []CommandsInRange
<1>1. IInv => CommandsInRange
  <2> SUFFICES ASSUME IInv, NEW i \in DOMAIN qPlan
               PROVE  LET p == qPlan[i] IN
                        /\ p.pan # None => p.pan \in Pans /\ p.tilt \in Tilts
                        /\ p.steer # None =>
                             AtMostHalfAStepOver(Abs(p.steer - Planner!Straight), MaxSteer, SteerQuantum)
                        /\ IF p.kind = "search-rotate"
                           THEN AtMostHalfAStepOver(Abs(p.speed - BodyRotateSpeed), 0, SpeedQuantum)
                           ELSE /\ AtMostHalfAStepOver(Abs(p.speed), TopSpeed, SpeedQuantum)
                                /\ p.speed # 0 =>
                                     AtMostHalfAStepOver(MinDriveSpeed, Abs(p.speed), SpeedQuantum)
    BY DEF CommandsInRange
  <2> DEFINE p == qPlan[i]
  <2>1. p \in Plans
    BY PlansOnTheirWay
  <2> HIDE DEF p
  <2>2. /\ p.pan # None => p.pan \in Pans /\ p.tilt \in Tilts
        /\ p.steer # None => p.steer \in Steers
        /\ IF p.kind = "search-rotate" THEN p.speed = PivotSpeed ELSE p.speed \in Speeds
    BY <2>1 DEF Plans
  <2>3. p.steer # None => AtMostHalfAStepOver(Abs(p.steer - Planner!Straight), MaxSteer, SteerQuantum)
    BY <2>2, SteersAreNear, AimTypes
  <2>4. p.kind = "search-rotate" => AtMostHalfAStepOver(Abs(p.speed - BodyRotateSpeed), 0, SpeedQuantum)
    BY <2>2, PivotIsNear
  <2>5. p.kind # "search-rotate" =>
          /\ AtMostHalfAStepOver(Abs(p.speed), TopSpeed, SpeedQuantum)
          /\ p.speed # 0 => AtMostHalfAStepOver(MinDriveSpeed, Abs(p.speed), SpeedQuantum)
    BY <2>2, SpeedsAreNear
  <2> QED
    BY <2>2, <2>3, <2>4, <2>5 DEF p
<1> QED
  BY <1>1, Invariance, PTL

(* The docstring's hard cap on the steering holds where both ends of its     *)
(* range are whole rounding steps, as those of the default 30 are: there is  *)
(* no step between such an end and half a step beyond it.                    *)
CapOnStep ==
  SteerQuantum <= 0 \/ ((90 - MaxSteer) % SteerQuantum = 0 /\ (90 + MaxSteer) % SteerQuantum = 0)

THEOREM WholeStepCapIsHard == ASSUME CapOnStep PROVE Spec => []SteerIsCapped
<1>1. 90 - MaxSteer \in Int /\ 90 + MaxSteer \in Int /\ MaxSteer \in Nat /\ SteerQuantum \in Int
  BY AimTypes
<1>2. /\ Quantise(90 - MaxSteer, SteerQuantum) = 90 - MaxSteer
      /\ Quantise(90 + MaxSteer, SteerQuantum) = 90 + MaxSteer
  BY <1>1, OnStepStays DEF CapOnStep
<1>3. Steers = {90} \cup 90 - MaxSteer .. 90 + MaxSteer
  BY <1>2, SteersAre DEF Nearest
<1>4. \A s \in Steers : Abs(s - 90) <= MaxSteer
  <2> SUFFICES ASSUME NEW s \in Steers PROVE Abs(s - 90) <= MaxSteer
    OBVIOUS
  <2>1. s \in 90 - MaxSteer .. 90 + MaxSteer
    BY <1>1, <1>3
  <2>2. s \in Int /\ (Abs(s - 90) = s - 90 \/ Abs(s - 90) = 90 - s)
    BY <1>1, <2>1, AbsIs
  <2> QED
    BY <1>1, <2>1, <2>2
<1>5. IInv => SteerIsCapped
  <2> SUFFICES ASSUME IInv, NEW i \in DOMAIN qPlan, qPlan[i].steer # None
               PROVE  Abs(qPlan[i].steer - Planner!Straight) <= MaxSteer
    BY DEF SteerIsCapped
  <2>1. qPlan[i].steer \in Steers
    BY PlansOnTheirWay DEF Plans
  <2> QED
    BY <1>4, <2>1, AimTypes
<1> QED
  BY <1>5, Invariance, PTL

(* Movements below the epsilon add up: with nothing between them, planner    *)
(* and estimate differ by less than an epsilon (_should_emit, _maybe_emit).  *)
THEOREM EstimateIsReported == Spec => []EstimateReported
<1>1. IInv => EstimateReported
  <2> SUFFICES ASSUME IInv, visible, qWorld = <<>>
               PROVE  /\ lastState.visible
                      /\ Abs(estimate.bearing - lastState.bearing) < BearingEpsilon
                      /\ Abs(estimate.vertical - lastState.vertical) < BearingEpsilon
    BY DEF EstimateReported
  <2>1. lastState = lastEmitted
    BY DEF IInv, ChannelInv, PlannerCatchesUp
  <2> QED
    BY <2>1 DEF IInv, WorldInv, EmittedIsCurrent
<1> QED
  BY <1>1, Invariance, PTL

(* Every turn of the world model leaves a target that was last called        *)
(* visible exactly while a detection is young enough (_age_out).             *)
THEOREM LossIsOnSchedule == Spec => LostOnSchedule
<1>1. IInv /\ [Next]_vars
        => [WorldReceive \/ WorldIdle => (lastEmitted'.visible <=> sightedAge' <= LostTimeout)]_vars
  BY WorldReceiveKeeps, WorldIdleKeeps
<1> QED
  BY <1>1, Invariance, PTL DEF Spec, LostOnSchedule

(* The camera moves on a visible target once per frame, and only for a frame *)
(* newer than all it has followed (_tick, _track).                           *)
THEOREM FramesAreFollowedOnce == Spec => FrameMovesCameraOnce
<1>1. IInv /\ [Next]_vars
        => [<<pan, tilt>>' # <<pan, tilt>> /\ lastState'.visible =>
              lastState'.seq > trackedSeq /\ trackedSeq' = lastState'.seq]_vars
  <2> SUFFICES ASSUME IInv, [Next]_vars
               PROVE  CameraAccounted
    BY DEF CameraAccounted
  <2>1. CASE PlannerReceive
    BY <2>1, PlannerReceiveKeeps
  <2>2. CASE PlannerIdle
    BY <2>2, PlannerIdleKeeps
  <2>3. CASE TimePasses
    BY <2>3, TimePassesKeeps DEF CameraAccounted
  <2>4. CASE UNCHANGED <<pan, tilt>>
    BY <2>4 DEF CameraAccounted
  <2>5. ASSUME (\E event \in Readings : Poll(event)) \/ WorldReceive \/ WorldIdle \/ Execute \/ UNCHANGED vars
        PROVE  UNCHANGED <<pan, tilt>>
    <3>1. UNCHANGED plannerVars
      BY <2>5 DEF Poll, WorldReceive, WorldIdle, Execute, vars
    <3> QED
      BY <3>1 DEF plannerVars, aimVars
  <2> QED
    BY <2>1, <2>2, <2>3, <2>4, <2>5 DEF Next
<1> QED
  BY <1>1, Invariance, PTL DEF Spec, FrameMovesCameraOnce

(* A robot that drives does so in a burst on a visible target or in the      *)
(* rotation of a search, and no turn of the planner leaves it driving for    *)
(* longer than either may last (_hold, _straighten, _advance_search).        *)
THEOREM DrivesAreAccounted == Spec => DriveIsAccounted
<1>1. IInv => DriveHasReason
  <2> SUFFICES ASSUME IInv, Drives(lastCommand)
               PROVE  IF lastState.visible
                      THEN /\ driving /\ lastCommand.kind \in {"track", "track-straight"}
                           /\ lastCommand.speed = speed
                      ELSE searchPhase = "rotate" /\ lastCommand.kind = "search-rotate"
    BY DEF DriveHasReason
  <2>1. lastCommand # None /\ lastCommand.speed # 0
    BY DEF Drives
  <2>2. lastState # None
    BY <2>1 DEF IInv, PlannerInv, PlannerFits, Unread
  <2>3. CASE lastState.visible
    <3>1. Tracking
      BY <2>2, <2>3 DEF IInv, PlannerInv, PlannerFits
    <3> QED
      BY <2>1, <2>3, <3>1 DEF Tracking
  <2>4. CASE ~lastState.visible
    <3>1. Searching
      BY <2>2, <2>4 DEF IInv, PlannerInv, PlannerFits
    <3>2. searchPhase \in {"sweep", "rotate"}
      BY DEF IInv, TypeOK
    <3> QED
      BY <2>1, <2>4, <3>1, <3>2 DEF Searching
  <2> QED
    BY <2>3, <2>4
<1>2. IInv /\ [Next]_vars => DriveIsTimed
  BY PlannerReceiveKeeps, PlannerIdleKeeps DEF DriveIsTimed, PlannerTurn, DriveTimed
<1>3. IInv' => DriveHasReason'
  BY <1>1, PTL
<1>4. IInv /\ IInv' /\ [Next]_vars => [DriveHasReason' /\ DriveIsTimed]_vars
  BY <1>2, <1>3
<1> QED
  BY <1>4, Invariance, PTL DEF Spec, DriveIsAccounted
=============================================================================
