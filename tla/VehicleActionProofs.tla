------------------------- MODULE VehicleActionProofs -------------------------
(***************************************************************************)
(* Proofs about VehicleAction for every set of plans, every timing and     *)
(* every number of retries: types, that motion nobody asks for any more    *)
(* lapses, and that an execution ends within the time of its attempts.     *)
(***************************************************************************)
EXTENDS VehicleAction, FiniteSetTheorems, SequenceTheorems, WellFoundedInduction, TLAPS

-----------------------------------------------------------------------------
(* Induction, stated of a set of numbers.                                    *)
LEMMA LeastNat ==
  ASSUME NEW T, T \subseteq Nat, T # {}
  PROVE  \E x \in T : \A y \in T : x <= y
<1>1. PICK x \in T : \A y \in T : ~(<<y, x>> \in OpToRel(<, Nat))
  BY NatLessThanWellFounded, WFMin
<1>2. \A y \in T : ~(y < x)
  BY <1>1 DEF OpToRel
<1> QED
  BY <1>2

LEMMA NatInductive ==
  ASSUME NEW S, 0 \in S, \A n \in Nat : n \in S => n + 1 \in S
  PROVE  Nat \subseteq S
<1> SUFFICES ASSUME Nat \ S # {} PROVE FALSE
  OBVIOUS
<1>1. PICK x \in Nat \ S : \A y \in Nat \ S : x <= y
  BY LeastNat
<1>2. x # 0 /\ x - 1 \in Nat
  BY <1>1
<1>3. x - 1 \in S
  BY <1>1, <1>2
<1> QED
  BY <1>1, <1>2, <1>3

-----------------------------------------------------------------------------
(* PowerOfTwo is well defined: every initial part of it exists, and two of   *)
(* them agree.                                                               *)
Doubles(n, h) ==
  /\ h \in [0 .. n -> Nat] /\ h[0] = 1
  /\ \A i \in 1 .. n : h[i] = 2 * h[i - 1]

LEMMA DoublesExists == \A n \in Nat : \E h : Doubles(n, h)
<1> DEFINE S == {n \in Nat : \E h : Doubles(n, h)}
<1>1. 0 \in S
  <2>1. Doubles(0, [i \in 0 .. 0 |-> 1])
    BY DEF Doubles
  <2> QED
    BY <2>1
<1>2. ASSUME NEW n \in Nat, n \in S
      PROVE  n + 1 \in S
  <2>1. PICK h : Doubles(n, h)
    BY <1>2
  <2> DEFINE k == [i \in 0 .. n + 1 |-> IF i = n + 1 THEN 2 * h[n] ELSE h[i]]
  <2>2. k \in [0 .. n + 1 -> Nat]
    BY <2>1 DEF Doubles
  <2>3. k[0] = 1
    BY <2>1 DEF Doubles
  <2>4. ASSUME NEW i \in 1 .. n + 1
        PROVE  k[i] = 2 * k[i - 1]
    BY <2>1 DEF Doubles
  <2> HIDE DEF k
  <2>5. Doubles(n + 1, k)
    BY <2>2, <2>3, <2>4 DEF Doubles
  <2> QED
    BY <2>5
<1> HIDE DEF S
<1>3. Nat \subseteq S
  BY <1>1, <1>2, NatInductive
<1> QED
  BY <1>3 DEF S

LEMMA DoublesUnique ==
  ASSUME NEW m \in Nat, NEW n \in Nat, NEW g, NEW h, Doubles(m, g), Doubles(n, h)
  PROVE  \A i \in Nat : i <= m /\ i <= n => g[i] = h[i]
<1> DEFINE S == {i \in Nat : i <= m /\ i <= n => g[i] = h[i]}
<1>1. 0 \in S
  BY DEF Doubles
<1>2. ASSUME NEW i \in Nat, i \in S
      PROVE  i + 1 \in S
  <2> SUFFICES ASSUME i + 1 <= m, i + 1 <= n
               PROVE  g[i + 1] = h[i + 1]
    OBVIOUS
  <2>1. g[i] = h[i]
    BY <1>2
  <2>2. i + 1 \in 1 .. m /\ i + 1 \in 1 .. n /\ (i + 1) - 1 = i
    OBVIOUS
  <2> QED
    BY <2>1, <2>2 DEF Doubles
<1> HIDE DEF S
<1>3. Nat \subseteq S
  BY <1>1, <1>2, NatInductive
<1> QED
  BY <1>3 DEF S

LEMMA PowerOfTwoUnfolds ==
  /\ PowerOfTwo[0] = 1
  /\ \A n \in Nat : PowerOfTwo[n + 1] = 2 * PowerOfTwo[n]
<1> DEFINE table(n) == CHOOSE h : Doubles(n, h)
           g == [n \in Nat |-> table(n)[n]]
           body(f) == [n \in Nat |-> IF n = 0 THEN 1 ELSE 2 * f[n - 1]]
<1>1. \A n \in Nat : Doubles(n, table(n))
  BY DoublesExists
<1> HIDE DEF table
<1>2. g = body(g)
  <2>1. ASSUME NEW n \in Nat
        PROVE  g[n] = IF n = 0 THEN 1 ELSE 2 * g[n - 1]
    <3>1. CASE n = 0
      BY <1>1, <3>1 DEF Doubles
    <3>2. CASE n # 0
      <4>1. n - 1 \in Nat /\ n \in 1 .. n /\ n - 1 <= n - 1 /\ n - 1 <= n
        BY <3>2
      <4>2. table(n)[n] = 2 * table(n)[n - 1]
        BY <1>1, <4>1 DEF Doubles
      <4>3. table(n)[n - 1] = table(n - 1)[n - 1]
        BY <1>1, <4>1, DoublesUnique
      <4> QED
        BY <3>2, <4>1, <4>2, <4>3
    <3> QED
      BY <3>1, <3>2
  <2> QED
    BY <2>1
<1>3. PowerOfTwo = CHOOSE f : f = body(f)
  BY DEF PowerOfTwo
<1> HIDE DEF g
<1>4. PowerOfTwo = body(PowerOfTwo)
  BY <1>2, <1>3
<1>5. \A n \in Nat : PowerOfTwo[n] = IF n = 0 THEN 1 ELSE 2 * PowerOfTwo[n - 1]
  BY <1>4
<1>6. ASSUME NEW n \in Nat
      PROVE  PowerOfTwo[n + 1] = 2 * PowerOfTwo[n]
  <2>1. n + 1 \in Nat /\ n + 1 # 0 /\ (n + 1) - 1 = n
    OBVIOUS
  <2> QED
    BY <1>5, <2>1
<1> QED
  BY <1>5, <1>6

LEMMA PowersPositive == \A n \in Nat : PowerOfTwo[n] \in Nat \ {0}
<1> DEFINE S == {n \in Nat : PowerOfTwo[n] \in Nat \ {0}}
<1>1. 0 \in S
  BY PowerOfTwoUnfolds
<1>2. ASSUME NEW n \in Nat, n \in S
      PROVE  n + 1 \in S
  BY <1>2, PowerOfTwoUnfolds
<1> HIDE DEF S
<1>3. Nat \subseteq S
  BY <1>1, <1>2, NatInductive
<1> QED
  BY <1>3 DEF S

LEMMA PowersGrow == \A m, n \in Nat : m <= n => PowerOfTwo[m] <= PowerOfTwo[n]
<1> DEFINE S == {n \in Nat : \A m \in Nat : m <= n => PowerOfTwo[m] <= PowerOfTwo[n]}
<1>1. 0 \in S
  BY PowersPositive
<1>2. ASSUME NEW n \in Nat, n \in S
      PROVE  n + 1 \in S
  <2> SUFFICES ASSUME NEW m \in Nat, m <= n + 1
               PROVE  PowerOfTwo[m] <= PowerOfTwo[n + 1]
    OBVIOUS
  <2>1. /\ PowerOfTwo[n + 1] = 2 * PowerOfTwo[n]
        /\ PowerOfTwo[n] \in Nat /\ PowerOfTwo[m] \in Nat /\ PowerOfTwo[n + 1] \in Nat
    BY PowerOfTwoUnfolds, PowersPositive
  <2>2. CASE m = n + 1
    BY <2>1, <2>2
  <2>3. CASE m <= n
    <3>1. PowerOfTwo[m] <= PowerOfTwo[n]
      BY <1>2, <2>3
    <3> QED
      BY <2>1, <3>1
  <2> QED
    BY <2>2, <2>3
<1> HIDE DEF S
<1>3. Nat \subseteq S
  BY <1>1, <1>2, NatInductive
<1> QED
  BY <1>3 DEF S

-----------------------------------------------------------------------------
(* What is left of an execution: all attempts of a request from the n-th on, *)
(* the stop that follows it, and the requests after it.                      *)
AttemptsFrom(n) ==
  Timeout * (MaxRetries + 1 - n) + Backoff * (PowerOfTwo[MaxRetries] - PowerOfTwo[n])
Halt(action) == IF action.method \in Motion THEN Timeout ELSE 0
Rest == todo \ {First(todo)}

LEMMA AttemptsCount ==
  /\ AttemptsFrom(0) = Request
  /\ \A n \in 0 .. MaxRetries : AttemptsFrom(n) \in Nat /\ AttemptsFrom(n) >= Timeout
  /\ \A n \in 0 .. MaxRetries :
       n < MaxRetries => AttemptsFrom(n) = Timeout + Backoff * PowerOfTwo[n] + AttemptsFrom(n + 1)
<1>1. MaxRetries \in Nat /\ Timeout \in Nat /\ Backoff \in Nat
  BY VehicleAssumption
<1>2. \A x, y, z \in Int : x * (y + z) = x * y + x * z /\ x * (y - z) = x * y - x * z
  OBVIOUS
<1>3. \A x, y \in Nat : x * y \in Nat
  OBVIOUS
<1>4. AttemptsFrom(0) = Request
  BY <1>1, PowerOfTwoUnfolds DEF AttemptsFrom, Request
<1>5. ASSUME NEW n \in 0 .. MaxRetries
      PROVE  AttemptsFrom(n) \in Nat /\ AttemptsFrom(n) >= Timeout
  <2>1. PowerOfTwo[MaxRetries] - PowerOfTwo[n] \in Nat /\ MaxRetries - n \in Nat
    BY <1>1, PowersGrow, PowersPositive
  <2>2. Timeout * (MaxRetries - n) \in Nat /\ Backoff * (PowerOfTwo[MaxRetries] - PowerOfTwo[n]) \in Nat
    BY <1>1, <1>3, <2>1
  <2>3. Timeout * (MaxRetries + 1 - n) = Timeout * (MaxRetries - n) + Timeout
    BY <1>1, <1>2
  <2> QED
    BY <1>1, <2>2, <2>3 DEF AttemptsFrom
<1>6. ASSUME NEW n \in 0 .. MaxRetries, n < MaxRetries
      PROVE  AttemptsFrom(n) = Timeout + Backoff * PowerOfTwo[n] + AttemptsFrom(n + 1)
  <2> DEFINE x == PowerOfTwo[n]
             y == PowerOfTwo[MaxRetries]
  <2>1. PowerOfTwo[n + 1] = 2 * x /\ x \in Nat /\ y \in Nat
    BY <1>1, PowerOfTwoUnfolds, PowersPositive
  <2>2. AttemptsFrom(n) = Timeout * (MaxRetries + 1 - n) + Backoff * (y - x)
    BY DEF AttemptsFrom
  <2>3. AttemptsFrom(n + 1) = Timeout * (MaxRetries + 1 - (n + 1)) + Backoff * (y - 2 * x)
    BY <2>1 DEF AttemptsFrom
  <2> HIDE DEF x, y
  <2>4. Backoff * (y - 2 * x) + Backoff * x = Backoff * (y - x)
    BY <1>1, <1>2, <2>1
  <2>5. Timeout * (MaxRetries + 1 - n) = Timeout * (MaxRetries + 1 - (n + 1)) + Timeout
    BY <1>1, <1>2
  <2>6. Backoff * x \in Nat /\ Backoff * (y - 2 * x) \in Int /\ Timeout * (MaxRetries + 1 - (n + 1)) \in Int
    BY <1>1, <2>1
  <2>7. AttemptsFrom(n) = Timeout + Backoff * x + AttemptsFrom(n + 1)
    BY <1>1, <2>2, <2>3, <2>4, <2>5, <2>6
  <2> QED
    BY <2>7 DEF x
<1> QED
  BY <1>4, <1>5, <1>6

(* A set of requests costs one of them and the others.                       *)
LEMMA CostSplits ==
  ASSUME NEW S, IsFiniteSet(S)
  PROVE  /\ Cost(S) \in Nat
         /\ \A x \in S : Cost(S) = Request + Halt(x) + Cost(S \ {x})
<1>1. Request \in Nat /\ Timeout \in Nat
  BY AttemptsCount, VehicleAssumption
<1> DEFINE Moves(T) == {a \in T : a.method \in Motion}
<1>2. IsFiniteSet(Moves(S)) /\ Cardinality(S) \in Nat /\ Cardinality(Moves(S)) \in Nat
  BY FS_Subset, FS_CardinalityType
<1>3. \A x, y \in Nat : x * y \in Nat
  OBVIOUS
<1>4. Cost(S) \in Nat
  BY <1>1, <1>2, <1>3 DEF Cost
<1>5. ASSUME NEW x \in S
      PROVE  Cost(S) = Request + Halt(x) + Cost(S \ {x})
  <2> DEFINE c == Cardinality(S \ {x})
             d == Cardinality(Moves(S \ {x}))
  <2>1. IsFiniteSet(S \ {x}) /\ Cardinality(S) = c + 1 /\ c \in Nat
    <3>1. IsFiniteSet(S \ {x}) /\ c = Cardinality(S) - 1
      BY FS_RemoveElement
    <3>2. c \in Nat
      BY <3>1, FS_CardinalityType
    <3> HIDE DEF c
    <3> QED
      BY <1>2, <3>1, <3>2
  <2>2. IsFiniteSet(Moves(S \ {x})) /\ d \in Nat
    BY <2>1, FS_Subset, FS_CardinalityType
  <2>3. x.method \in Motion => Cardinality(Moves(S)) = d + 1
    <3> SUFFICES ASSUME x.method \in Motion
                 PROVE  Cardinality(Moves(S)) = d + 1
      OBVIOUS
    <3>1. Moves(S \ {x}) = Moves(S) \ {x} /\ x \in Moves(S)
      OBVIOUS
    <3>2. Cardinality(Moves(S) \ {x}) = Cardinality(Moves(S)) - 1
      BY <1>2, <3>1, FS_RemoveElement
    <3> QED
      BY <1>2, <3>1, <3>2
  <2>4. x.method \notin Motion => Cardinality(Moves(S)) = d
    <3> SUFFICES ASSUME x.method \notin Motion
                 PROVE  Moves(S) = Moves(S \ {x})
      OBVIOUS
    <3> QED
      OBVIOUS
  <2>5. Cost(S \ {x}) = c * Request + d * Timeout
    BY DEF Cost
  <2>6. Cost(S) = Cardinality(S) * Request + Cardinality(Moves(S)) * Timeout
    BY DEF Cost
  <2> HIDE DEF c, d, Moves
  <2>7. (c + 1) * Request = c * Request + Request /\ (d + 1) * Timeout = d * Timeout + Timeout
    BY <1>1, <2>1, <2>2
  <2>8. c * Request \in Nat /\ d * Timeout \in Nat
    BY <1>1, <1>3, <2>1, <2>2
  <2>9. CASE x.method \in Motion
    BY <1>1, <2>1, <2>3, <2>5, <2>6, <2>7, <2>8, <2>9 DEF Halt
  <2>10. CASE x.method \notin Motion
    BY <1>1, <2>1, <2>4, <2>5, <2>6, <2>7, <2>8, <2>10 DEF Halt
  <2> QED
    BY <2>9, <2>10
<1> QED
  BY <1>4, <1>5

(* There is a request of the least priority, and First is one.               *)
LEMMA FirstIsOne ==
  ASSUME NEW S, IsFiniteSet(S), S # {}, \A a \in S : a.priority \in Nat
  PROVE  First(S) \in S
<1> DEFINE T == {a.priority : a \in S}
<1>1. PICK m \in T : \A n \in T : m <= n
  BY LeastNat
<1>2. \E a \in S : \A b \in S : a.priority <= b.priority
  BY <1>1
<1> QED
  BY <1>2 DEF First

-----------------------------------------------------------------------------
(* The inductive invariant.                                                  *)
Busy == pc \in {"post", "backoff", "halt"}

(* The plan that is retained, and renewed, is the last one taken, and what   *)
(* is under way are requests of it.                                          *)
Retained == lastPlan = newest
UnderWay ==
  /\ Busy => newest # None /\ todo \subseteq Requests(newest)
  /\ pc = "backoff" => attempt < MaxRetries
  /\ pc = "halt" => First(todo).method \in Motion

(* The time spent, the time left of the await and the most that follows it.  *)
WithinBudget ==
  newest # None =>
    /\ busy <= Cost(Requests(newest))
    /\ pc = "post" =>
         busy + wait + (AttemptsFrom(attempt) - Timeout) + Halt(First(todo)) + Cost(Rest)
           <= Cost(Requests(newest))
    /\ pc = "backoff" =>
         busy + wait + AttemptsFrom(attempt + 1) + Halt(First(todo)) + Cost(Rest)
           <= Cost(Requests(newest))
    /\ pc = "halt" => busy + wait + Cost(Rest) <= Cost(Requests(newest))

IInv == TypeOK /\ Retained /\ UnderWay /\ WithinBudget /\ StaleMotionLapses

(* The part of it that is about what the task is doing.                      *)
TaskOK ==
  /\ pc \in {"get", "post", "backoff", "halt", "over"}
  /\ wait \in Nat
  /\ sinceCommand \in 0 .. Renew
  /\ lastPlan # None => todo \subseteq Requests(lastPlan)
  /\ todo = {} <=> pc \in {"get", "over"}
  /\ attempt \in 0 .. MaxRetries
  /\ wire \in {"none", "sent", "taken"}
  /\ UnderWay
  /\ WithinBudget

(* Requests are finitely many and are posted in the order of their priority. *)
LEMMA SomeRequests ==
  ASSUME NEW p \in Plans, NEW S, S \subseteq Requests(p)
  PROVE  /\ IsFiniteSet(S) /\ Cost(S) \in Nat
         /\ S # {} => /\ First(S) \in S
                      /\ IsFiniteSet(S \ {First(S)})
                      /\ Halt(First(S)) \in {0, Timeout}
                      /\ Cost(S \ {First(S)}) \in Nat
                      /\ Cost(S) = Request + Halt(First(S)) + Cost(S \ {First(S)})
<1>1. S \subseteq p /\ IsFiniteSet(p) /\ \A a \in S : a.priority \in Nat
  BY VehicleAssumption DEF Requests
<1>2. IsFiniteSet(S)
  BY <1>1, FS_Subset
<1>3. Cost(S) \in Nat /\ \A x \in S : Cost(S) = Request + Halt(x) + Cost(S \ {x})
  BY <1>2, CostSplits
<1>4. ASSUME S # {}
      PROVE  /\ First(S) \in S
             /\ IsFiniteSet(S \ {First(S)})
             /\ Cost(S \ {First(S)}) \in Nat
  <2>1. First(S) \in S
    BY <1>1, <1>2, <1>4, FirstIsOne
  <2>2. IsFiniteSet(S \ {First(S)})
    BY <1>2, FS_Subset
  <2> QED
    BY <2>1, <2>2, CostSplits
<1> QED
  BY <1>2, <1>3, <1>4 DEF Halt

(* Going on with some requests keeps within what they may cost.              *)
LEMMA Continues ==
  ASSUME NEW requests, NEW since \in 0 .. Renew,
         newest' \in Plans, lastPlan' = newest', requests \subseteq Requests(newest'),
         busy' \in Nat, busy' + Cost(requests) <= Cost(Requests(newest')),
         Continue(requests, since)
  PROVE  TaskOK'
<1>1. /\ MaxRetries \in Nat /\ Timeout \in Nat /\ Poll \in Nat
      /\ newest' # None
      /\ todo' = requests /\ sinceCommand' = since /\ attempt' = 0
      /\ Cost(requests) \in Nat /\ Cost(Requests(newest')) \in Nat
  BY VehicleAssumption, SomeRequests DEF Continue, Send
<1>2. CASE requests = {}
  <2>1. pc' \in {"get", "over"} /\ wait' \in Nat /\ wire' = "none"
    BY <1>1, <1>2 DEF Continue, NextTurn
  <2>2. WithinBudget'
    BY <1>1, <2>1 DEF WithinBudget
  <2> QED
    BY <1>1, <1>2, <2>1, <2>2 DEF TaskOK, UnderWay, Busy
<1>3. CASE requests # {}
  <2>1. pc' = "post" /\ wait' = Timeout /\ wire' = "sent"
    BY <1>3 DEF Continue, Send
  <2> DEFINE others == requests \ {First(requests)}
             stopped == Halt(First(requests))
  <2>2. /\ Cost(requests) = Request + stopped + Cost(others)
        /\ Cost(others) \in Nat /\ stopped \in Nat
    BY <1>1, <1>3, SomeRequests
  <2>3. AttemptsFrom(attempt') = Request /\ Request \in Nat
    BY <1>1, AttemptsCount
  <2>4. Halt(First(todo))' = stopped /\ Rest' = others
    BY <1>1 DEF Rest, Halt
  <2>5. busy' + wait' + (AttemptsFrom(attempt') - Timeout) + Halt(First(todo))' + Cost(Rest')
          <= Cost(Requests(newest'))
    <3> HIDE DEF others, stopped
    <3> QED
      BY <1>1, <2>1, <2>2, <2>3, <2>4
  <2>6. WithinBudget'
    BY <1>1, <2>1, <2>5 DEF WithinBudget, Rest, Halt
  <2> QED
    BY <1>1, <1>3, <2>1, <2>6 DEF TaskOK, UnderWay, Busy
<1> QED
  BY <1>2, <1>3

(* Going on with the next action, and retrying or giving up.                 *)
Same == UNCHANGED <<queue, lastPlan, renewing, device, newest, sinceTaken, disturbed, busy, callVars>>

LEMMA UnderWayFacts ==
  ASSUME IInv, Busy
  PROVE  /\ newest \in Plans /\ lastPlan = newest /\ newest # None
         /\ todo # {} /\ todo \subseteq Requests(newest) /\ Rest \subseteq Requests(newest)
         /\ First(todo) \in todo
         /\ Halt(First(todo)) \in {0, Timeout} /\ Halt(First(todo)) \in Nat
         /\ Cost(Rest) \in Nat /\ Cost(Requests(newest)) \in Nat
         /\ busy \in Nat /\ wait \in Nat /\ sinceCommand \in 0 .. Renew
         /\ attempt \in 0 .. MaxRetries
<1>1. newest # None /\ todo \subseteq Requests(newest) /\ lastPlan = newest
  BY DEF IInv, UnderWay, Retained
<1>2. newest \in Plans /\ todo # {}
  BY <1>1 DEF IInv, TypeOK, Busy
<1>3. /\ busy \in Nat /\ wait \in Nat /\ sinceCommand \in 0 .. Renew
      /\ attempt \in 0 .. MaxRetries /\ Timeout \in Nat
  BY VehicleAssumption DEF IInv, TypeOK
<1>4. Rest \subseteq Requests(newest)
  BY <1>1 DEF Rest
<1>5. /\ First(todo) \in todo /\ Halt(First(todo)) \in {0, Timeout} /\ Cost(Rest) \in Nat
      /\ Cost(Requests(newest)) \in Nat
  BY <1>1, <1>2, SomeRequests DEF Rest
<1> QED
  BY <1>1, <1>2, <1>3, <1>4, <1>5

LEMMA GoesOn ==
  ASSUME IInv, pc \in {"post", "halt"}, NextAction
  PROVE  TaskOK' /\ Same
<1>1. Busy /\ Renew \in Nat /\ Timeout \in Nat
  BY VehicleAssumption DEF Busy
<1>2. /\ newest \in Plans /\ lastPlan = newest /\ newest # None
      /\ Rest \subseteq Requests(newest) /\ Halt(First(todo)) \in Nat
      /\ Cost(Rest) \in Nat /\ Cost(Requests(newest)) \in Nat
      /\ busy \in Nat /\ wait \in Nat /\ sinceCommand \in 0 .. Renew
      /\ attempt \in 0 .. MaxRetries
  BY <1>1, UnderWayFacts
<1>3. Same /\ Continue(Rest, IF renewing THEN sinceCommand ELSE 0)
  BY DEF NextAction, Same, Rest
<1>4. newest' = newest /\ lastPlan' = lastPlan /\ busy' = busy
  BY <1>3 DEF Same
<1>5. busy + Cost(Rest) <= Cost(Requests(newest))
  <2>1. CASE pc = "post"
    <3>1. busy + wait + (AttemptsFrom(attempt) - Timeout) + Halt(First(todo)) + Cost(Rest)
            <= Cost(Requests(newest))
      BY <1>2, <2>1 DEF IInv, WithinBudget
    <3>2. AttemptsFrom(attempt) \in Nat /\ AttemptsFrom(attempt) >= Timeout
      BY <1>2, AttemptsCount
    <3> QED
      BY <1>1, <1>2, <3>1, <3>2
  <2>2. CASE pc = "halt"
    BY <1>2, <2>2 DEF IInv, WithinBudget
  <2> QED
    BY <2>1, <2>2
<1>6. (IF renewing THEN sinceCommand ELSE 0) \in 0 .. Renew
  BY <1>1, <1>2
<1>7. TaskOK'
  BY <1>2, <1>3, <1>4, <1>5, <1>6, Continues
<1> QED
  BY <1>3, <1>7

LEMMA Retries ==
  ASSUME IInv, pc = "post", Retry
  PROVE  TaskOK' /\ Same
<1>1. /\ Busy /\ Timeout \in Nat /\ Backoff \in Nat /\ MaxRetries \in Nat
      /\ PowerOfTwo[attempt] \in Nat
  BY VehicleAssumption, PowersPositive DEF Busy, IInv, TypeOK
<1>2. /\ newest \in Plans /\ lastPlan = newest /\ newest # None
      /\ todo # {} /\ todo \subseteq Requests(newest)
      /\ Halt(First(todo)) \in Nat
      /\ Cost(Rest) \in Nat /\ Cost(Requests(newest)) \in Nat
      /\ busy \in Nat /\ wait \in Nat /\ sinceCommand \in 0 .. Renew
      /\ attempt \in 0 .. MaxRetries
  BY <1>1, UnderWayFacts
<1>3. busy + wait + (AttemptsFrom(attempt) - Timeout) + Halt(First(todo)) + Cost(Rest)
        <= Cost(Requests(newest))
  BY <1>2 DEF IInv, WithinBudget
<1>4. busy <= Cost(Requests(newest))
  BY <1>2 DEF IInv, WithinBudget
<1>5. AttemptsFrom(attempt) \in Nat /\ AttemptsFrom(attempt) >= Timeout
  BY <1>2, AttemptsCount
<1> DEFINE unchanged == /\ Same
                        /\ todo' = todo /\ lastPlan' = lastPlan /\ newest' = newest
                        /\ sinceCommand' = sinceCommand /\ busy' = busy
<1>6. CASE attempt < MaxRetries
  <2>1. /\ pc' = "backoff" /\ wait' = Backoff * PowerOfTwo[attempt] /\ wire' = "none"
        /\ attempt' = attempt /\ unchanged
    BY <1>6 DEF Retry, Same, historyVars
  <2>2. AttemptsFrom(attempt) = Timeout + wait' + AttemptsFrom(attempt + 1)
    BY <1>2, <1>6, <2>1, AttemptsCount
  <2>3. attempt + 1 \in 0 .. MaxRetries /\ wait' \in Nat
    BY <1>1, <1>2, <1>6, <2>1
  <2>4. AttemptsFrom(attempt + 1) \in Nat
    BY <2>3, AttemptsCount
  <2>5. busy + wait' + AttemptsFrom(attempt + 1) + Halt(First(todo)) + Cost(Rest)
          <= Cost(Requests(newest))
    BY <1>1, <1>2, <1>3, <2>2, <2>3, <2>4
  <2>6. Halt(First(todo))' = Halt(First(todo)) /\ Rest' = Rest
    BY <2>1 DEF Halt, Rest
  <2>7. WithinBudget'
    BY <1>4, <2>1, <2>5, <2>6 DEF WithinBudget
  <2> QED
    BY <1>2, <1>6, <2>1, <2>3, <2>7 DEF TaskOK, UnderWay, Busy
<1>7. CASE ~(attempt < MaxRetries) /\ First(todo).method \in Motion
  <2>1. /\ pc' = "halt" /\ wait' = Timeout /\ wire' = "sent"
        /\ attempt' = attempt /\ unchanged
    BY <1>7 DEF Retry, Send, Same, historyVars
  <2>2. Halt(First(todo)) = Timeout
    BY <1>7 DEF Halt
  <2>3. busy + wait' + Cost(Rest) <= Cost(Requests(newest))
    BY <1>1, <1>2, <1>3, <1>5, <2>1, <2>2
  <2>4. Rest' = Rest
    BY <2>1 DEF Rest
  <2>5. WithinBudget'
    BY <1>4, <2>1, <2>3, <2>4 DEF WithinBudget
  <2> QED
    BY <1>1, <1>2, <1>7, <2>1, <2>5 DEF TaskOK, UnderWay, Busy
<1>8. CASE ~(attempt < MaxRetries) /\ First(todo).method \notin Motion
  <2>1. NextAction
    BY <1>8 DEF Retry
  <2> QED
    BY <2>1, GoesOn
<1> QED
  BY <1>6, <1>7, <1>8

-----------------------------------------------------------------------------
(* The device and the network.                                               *)
DeviceType == [Motion -> [value : Values, lease : 0 .. Lease]]

LEMMA IdleTyped == Idle \in [value : Values, lease : 0 .. Lease]
  BY VehicleAssumption DEF Idle, Values

(* A body is a stop or carries the argument of a request, under the lease.   *)
LEMMA BodyCases ==
  ASSUME NEW b \in Bodies
  PROVE  b = StopBody \/ \E p \in Plans : \E a \in Requests(p) : b = Body(a)
  BY DEF Bodies

LEMMA BodyTyped ==
  ASSUME NEW b \in Bodies
  PROVE  b.arg \in Values /\ b.lease \in 0 .. Lease
<1>0. Lease \in Nat
  BY VehicleAssumption
<1>1. CASE b = StopBody
  BY <1>0, <1>1 DEF StopBody, Values
<1>2. CASE \E p \in Plans : \E a \in Requests(p) : b = Body(a)
  <2>1. PICK p \in Plans : \E a \in Requests(p) : b = Body(a)
    BY <1>2
  <2>2. PICK a \in Requests(p) : b = Body(a)
    BY <2>1
  <2>3. b.arg = a.arg /\ b.lease = Lease /\ a \in UNION Plans
    BY <2>2 DEF Body, Requests
  <2> QED
    BY <1>0, <2>3 DEF Values
<1> QED
  BY <1>1, <1>2, BodyCases

(* What a body does to the device, case by case.                             *)
LEMMA ObeyCases ==
  ASSUME NEW b
  PROVE  /\ b.method \in Motion =>
              Obey(b) = [device EXCEPT ![b.method] = [value |-> b.arg, lease |-> b.lease]]
         /\ b.method = "stop" => Obey(b) = [device EXCEPT !["drive"] = Idle]
         /\ b.method \notin Motion /\ b.method # "stop" => Obey(b) = device
<1>1. "stop" \notin Motion
  BY DEF Motion
<1>2. ASSUME b.method \in Motion
      PROVE  Obey(b) = [device EXCEPT ![b.method] = [value |-> b.arg, lease |-> b.lease]]
  <2>1. b.method # "stop"
    BY <1>1, <1>2
  <2> QED
    BY <1>2, <2>1, Zenon DEF Obey
<1>3. ASSUME b.method = "stop"
      PROVE  Obey(b) = [device EXCEPT !["drive"] = Idle]
  <2>1. b.method \notin Motion
    BY <1>1, <1>3
  <2> QED
    BY <1>3, <2>1, Zenon DEF Obey
<1>4. ASSUME b.method \notin Motion, b.method # "stop"
      PROVE  Obey(b) = device
  BY <1>4, Zenon DEF Obey
<1> QED
  BY <1>2, <1>3, <1>4

LEMMA ObeyTyped ==
  ASSUME device \in DeviceType, NEW b \in Bodies
  PROVE  Obey(b) \in DeviceType
<1>1. b.arg \in Values /\ b.lease \in 0 .. Lease
  BY BodyTyped
<1>2. CASE b.method \in Motion
  <2> DEFINE channel == [value |-> b.arg, lease |-> b.lease]
  <2>1. channel \in [value : Values, lease : 0 .. Lease]
    BY <1>1
  <2>2. Obey(b) = [device EXCEPT ![b.method] = channel]
    BY <1>2, ObeyCases
  <2> HIDE DEF channel
  <2> QED
    BY <2>1, <2>2 DEF DeviceType
<1>3. CASE b.method = "stop"
  BY <1>3, ObeyCases, IdleTyped DEF DeviceType
<1>4. CASE b.method \notin Motion /\ b.method # "stop"
  BY <1>4, ObeyCases
<1> QED
  BY <1>2, <1>3, <1>4

LEMMA Abandoned ==
  ASSUME late \in [Bodies -> Nat], Abandon
  PROVE  late' \in [Bodies -> Nat]
  BY DEF Abandon

-----------------------------------------------------------------------------
LEMMA InitOK == Init => IInv
<1> SUFFICES ASSUME Init PROVE IInv
  OBVIOUS
<1>1. {Capacity, Poll, Renew, Lease, MaxRetries, Watch} \subseteq Nat
  BY VehicleAssumption
<1>2. device \in DeviceType
  BY IdleTyped DEF Init, DeviceType
<1>3. queue \in Seq(Plans) /\ Len(queue) <= Capacity
  BY <1>1 DEF Init
<1>4. sinceCommand \in 0 .. Renew /\ attempt \in 0 .. MaxRetries /\ sinceTaken \in 0 .. Lease
      /\ sincePut \in 0 .. Watch /\ wait \in Nat /\ busy \in Nat
  BY <1>1 DEF Init
<1>5. late \in [Bodies -> Nat]
  BY DEF Init
<1>6. TypeOK
  BY <1>2, <1>3, <1>4, <1>5 DEF Init, TypeOK, DeviceType
<1> QED
  BY <1>6 DEF Init, IInv, Retained, UnderWay, Busy, WithinBudget, StaleMotionLapses

(* The parts of the invariant a step of the task need show.                  *)
CallOK ==
  /\ queue \in Seq(Plans) /\ Len(queue) <= Capacity
  /\ lastPlan \in Plans \cup {None} /\ newest \in Plans \cup {None}
  /\ renewing \in BOOLEAN /\ stopping \in BOOLEAN /\ disturbed \in BOOLEAN
  /\ sinceTaken \in 0 .. Lease /\ busy \in Nat
  /\ lastPut \in Plans \cup {None} /\ sincePut \in 0 .. Watch
  /\ Retained

LEMMA PartsOfIInv ==
  IInv <=> /\ TaskOK /\ CallOK /\ late \in [Bodies -> Nat] /\ device \in DeviceType
           /\ StaleMotionLapses
  BY DEF IInv, TypeOK, TaskOK, CallOK, DeviceType

LEMMA PartsOfIInvPrimed ==
  ASSUME TaskOK', CallOK', late' \in [Bodies -> Nat], device' \in DeviceType,
         StaleMotionLapses'
  PROVE  IInv'
  BY DEF IInv, TypeOK, TaskOK, CallOK, DeviceType

(* A step that leaves the plans and the device alone.                        *)
LEMMA Elsewhere ==
  ASSUME IInv, Same
  PROVE  CallOK' /\ device' \in DeviceType /\ StaleMotionLapses'
<1>1. CallOK /\ device \in DeviceType /\ StaleMotionLapses
  BY PartsOfIInv
<1>2. CallOK'
  BY <1>1 DEF CallOK, Retained, Same, callVars
<1>3. StaleMotionLapses'
  BY <1>1 DEF StaleMotionLapses, Live, Same
<1> QED
  BY <1>1, <1>2, <1>3 DEF Same

(* A step that leaves the task alone.                                        *)
LEMMA TaskIdles ==
  ASSUME IInv, UNCHANGED <<pc, wait, lastPlan, sinceCommand, todo, attempt, newest, busy>>,
         wire' \in {"none", "sent", "taken"}
  PROVE  TaskOK'
<1>1. TaskOK
  BY PartsOfIInv
<1>2. WithinBudget'
  BY <1>1 DEF TaskOK, WithinBudget, Rest, Halt
<1> QED
  BY <1>1, <1>2 DEF TaskOK, UnderWay, Busy

LEMMA PlanArrivesStep == ASSUME IInv, NEW plan \in Plans, PlanArrives(plan) PROVE IInv'
<1>1. TaskOK'
  BY TaskIdles DEF PlanArrives, clientVars, historyVars, IInv, TypeOK
<1>2. CallOK
  BY PartsOfIInv
<1>3. queue' \in Seq(Plans) /\ Len(queue') <= Capacity
  <2>1. queue \in Seq(Plans) /\ Capacity \in Nat
    BY VehicleAssumption DEF IInv, TypeOK
  <2>2. queue' \in Seq(Plans) /\ Len(queue') = Len(queue) + 1 /\ Len(queue) \in Nat
    BY <2>1, AppendProperties, LenProperties DEF PlanArrives
  <2> QED
    BY <2>1, <2>2 DEF PlanArrives
<1>4. CallOK'
  BY <1>2, <1>3, VehicleAssumption DEF CallOK, Retained, PlanArrives, clientVars, historyVars
<1>5. late' \in [Bodies -> Nat] /\ device' \in DeviceType
  BY DEF PlanArrives, IInv, TypeOK, DeviceType
<1>6. StaleMotionLapses'
  BY DEF PlanArrives, IInv, StaleMotionLapses, Live, historyVars
<1> QED
  BY <1>1, <1>4, <1>5, <1>6, PartsOfIInvPrimed

LEMMA TakePlanStep == ASSUME IInv, TakePlan PROVE IInv'
<1> DEFINE plan == Head(queue)
<1>1. Lease \in Nat /\ Renew \in Nat
  BY VehicleAssumption
<1>2. plan \in Plans /\ queue' \in Seq(Plans) /\ Len(queue') <= Capacity
  <2>1. queue \in Seq(Plans) /\ queue # <<>> /\ Len(queue) <= Capacity /\ Capacity \in Nat
    BY VehicleAssumption DEF IInv, TypeOK, TakePlan
  <2>2. plan \in Plans /\ queue' \in Seq(Plans) /\ Len(queue') = Len(queue) - 1 /\ Len(queue) \in Nat
    BY <2>1, HeadTailProperties, LenProperties DEF TakePlan
  <2> QED
    BY <2>1, <2>2
<1>3. /\ newest' = plan /\ lastPlan' = plan /\ busy' = 0 /\ sinceTaken' = 0
      /\ renewing' = FALSE /\ disturbed' = FALSE
      /\ Continue(Requests(plan), 0) /\ UNCHANGED <<late, device, callVars>>
  BY DEF TakePlan
<1>4. Cost(Requests(plan)) \in Nat
  BY <1>2, SomeRequests
<1> HIDE DEF plan
<1>5. TaskOK'
  <2>1. 0 \in 0 .. Renew
    BY <1>1
  <2> QED
    BY <1>2, <1>3, <1>4, <2>1, Continues
<1>6. CallOK'
  <2>1. CallOK /\ 0 \in 0 .. Lease
    BY <1>1, PartsOfIInv
  <2> QED
    BY <1>2, <1>3, <2>1 DEF CallOK, Retained, callVars
<1>7. late' \in [Bodies -> Nat] /\ device' \in DeviceType
  BY <1>3 DEF IInv, TypeOK, DeviceType
<1>8. StaleMotionLapses'
  <2>1. \A ch \in Motion : device'[ch].lease \in 0 .. Lease
    BY <1>7 DEF DeviceType
  <2> QED
    BY <1>1, <1>3, <2>1 DEF StaleMotionLapses
<1> QED
  BY <1>5, <1>6, <1>7, <1>8, PartsOfIInvPrimed

LEMMA IdlePollStep == ASSUME IInv, IdlePoll PROVE IInv'
<1>1. Lease \in Nat /\ Renew \in Nat /\ Poll \in Nat
  BY VehicleAssumption
<1>2. TaskOK /\ CallOK /\ lastPlan = newest
  BY PartsOfIInv DEF CallOK, Retained
<1>3. UNCHANGED <<queue, lastPlan, late, device, newest, sinceTaken, disturbed, callVars>>
  BY DEF IdlePoll
<1>4. ASSUME RenewalDue
      PROVE  TaskOK' /\ renewing' \in BOOLEAN /\ busy' \in Nat
  <2>1. renewing' = TRUE /\ busy' = 0 /\ Continue(Requests(lastPlan), 0)
    BY <1>4 DEF IdlePoll
  <2>2. newest' \in Plans /\ lastPlan' = newest' /\ lastPlan = newest'
    BY <1>2, <1>3, <1>4 DEF CallOK, RenewalDue
  <2>3. 0 \in 0 .. Renew /\ Requests(newest') \subseteq Requests(newest')
    BY <1>1
  <2>4. Cost(Requests(newest')) \in Nat
    BY <2>2, <2>3, SomeRequests
  <2>5. TaskOK'
    BY <2>1, <2>2, <2>3, <2>4, Continues
  <2> QED
    BY <2>1, <2>5
<1>5. ASSUME ~RenewalDue
      PROVE  TaskOK' /\ renewing' \in BOOLEAN /\ busy' \in Nat
  <2>1. pc = "get" /\ NextTurn /\ UNCHANGED <<renewing, todo, sinceCommand, attempt, wire, busy>>
    BY <1>5 DEF IdlePoll
  <2>2. pc' \in {"get", "over"} /\ wait' \in Nat
    BY <1>1, <2>1 DEF NextTurn
  <2>3. WithinBudget'
    BY <1>2, <1>3, <2>1, <2>2 DEF TaskOK, WithinBudget
  <2>4. TaskOK'
    BY <1>2, <1>3, <2>1, <2>2, <2>3 DEF TaskOK, UnderWay, Busy
  <2>5. renewing' \in BOOLEAN /\ busy' \in Nat
    BY <1>2, <2>1 DEF CallOK
  <2> QED
    BY <2>4, <2>5
<1>6. TaskOK' /\ renewing' \in BOOLEAN /\ busy' \in Nat
  BY <1>4, <1>5
<1>7. CallOK'
  BY <1>2, <1>3, <1>6 DEF CallOK, Retained, callVars
<1>8. late' \in [Bodies -> Nat] /\ device' \in DeviceType /\ StaleMotionLapses'
  BY <1>3 DEF IInv, TypeOK, DeviceType, StaleMotionLapses, Live
<1> QED
  BY <1>6, <1>7, <1>8, PartsOfIInvPrimed

(* The request under way is one of the newest plan's, or the safety stop.    *)
LEMMA AwaitedBody ==
  ASSUME IInv, pc \in {"post", "halt"}
  PROVE  /\ Awaited \in Bodies
         /\ pc = "post" => Awaited.arg \in Asked(newest, Awaited.method)
         /\ pc = "halt" => Awaited = StopBody
<1>1. CASE pc = "post"
  <2>1. newest \in Plans /\ First(todo) \in Requests(newest)
    BY <1>1, UnderWayFacts DEF Busy
  <2>2. Awaited = Body(First(todo))
    BY <1>1 DEF Awaited
  <2>3. Awaited.method = First(todo).method /\ Awaited.arg = First(todo).arg
    BY <2>2 DEF Body
  <2>4. Awaited.arg \in Asked(newest, Awaited.method)
    BY <2>1, <2>3 DEF Asked
  <2> QED
    BY <1>1, <2>1, <2>2, <2>4 DEF Bodies
<1>2. CASE pc = "halt"
  BY <1>2 DEF Awaited, Bodies
<1> QED
  BY <1>1, <1>2

LEMMA ReachStep == ASSUME IInv, Reach PROVE IInv'
<1>1. pc \in {"post", "halt"} /\ wire' = "taken" /\ device' = Obey(Awaited)
      /\ UNCHANGED <<queue, clientVars, late, newest, sinceTaken, disturbed, busy, callVars>>
  BY DEF Reach
<1>2. CallOK /\ device \in DeviceType /\ late \in [Bodies -> Nat] /\ StaleMotionLapses
  BY PartsOfIInv
<1>3. TaskOK'
  BY <1>1, TaskIdles DEF clientVars
<1>4. CallOK'
  BY <1>1, <1>2 DEF CallOK, Retained, clientVars, callVars
<1>5. device' \in DeviceType
  BY <1>1, <1>2, AwaitedBody, ObeyTyped
<1>6. ASSUME NEW ch \in Motion
      PROVE  \/ device'[ch] = device[ch]
             \/ device'[ch].value = None
             \/ device'[ch].value \in Asked(newest, ch)
  <2>1. CASE pc = "post" /\ Awaited.method \in Motion
    <3>1. Awaited.arg \in Asked(newest, Awaited.method)
      BY <2>1, AwaitedBody
    <3>2. device' = [device EXCEPT ![Awaited.method] =
                       [value |-> Awaited.arg, lease |-> Awaited.lease]]
      BY <1>1, <2>1, ObeyCases
    <3>3. CASE ch = Awaited.method
      <4>1. device'[ch] = [value |-> Awaited.arg, lease |-> Awaited.lease]
        BY <1>2, <3>2, <3>3 DEF DeviceType
      <4>2. device'[ch].value = Awaited.arg
        BY <4>1
      <4> QED
        BY <3>1, <3>3, <4>2
    <3>4. CASE ch # Awaited.method
      BY <1>2, <3>2, <3>4 DEF DeviceType
    <3> QED
      BY <3>3, <3>4
  <2>2. CASE Awaited.method = "stop"
    <3>1. device' = [device EXCEPT !["drive"] = Idle]
      BY <1>1, <2>2, ObeyCases
    <3>2. Idle.value = None
      BY DEF Idle
    <3> QED
      BY <1>2, <3>1, <3>2 DEF DeviceType
  <2>3. CASE Awaited.method \notin Motion /\ Awaited.method # "stop"
    BY <1>1, <2>3, ObeyCases
  <2>4. pc = "halt" => Awaited.method = "stop"
    BY <1>1, AwaitedBody DEF StopBody
  <2> QED
    BY <1>1, <2>1, <2>2, <2>3, <2>4
<1>7. StaleMotionLapses'
  BY <1>1, <1>2, <1>6 DEF StaleMotionLapses, Live
<1> QED
  BY <1>1, <1>2, <1>3, <1>4, <1>5, <1>7, PartsOfIInvPrimed

LEMMA TaskStep ==
  ASSUME IInv, TaskOK', Same, late' = late \/ Abandon
  PROVE  IInv'
<1>1. late' \in [Bodies -> Nat]
  BY Abandoned DEF IInv, TypeOK
<1> QED
  BY <1>1, Elsewhere, PartsOfIInvPrimed

LEMMA AnsweredStep == ASSUME IInv, Answered PROVE IInv'
  BY GoesOn, TaskStep DEF Answered

LEMMA RejectedStep == ASSUME IInv, Rejected PROVE IInv'
  BY GoesOn, TaskStep DEF Rejected

LEMMA FailedStep == ASSUME IInv, Failed PROVE IInv'
  BY Retries, TaskStep DEF Failed

LEMMA TimedOutStep == ASSUME IInv, TimedOut PROVE IInv'
  BY Retries, TaskStep DEF TimedOut

LEMMA SafetyStopEndsStep == ASSUME IInv, SafetyStopEnds PROVE IInv'
  BY GoesOn, TaskStep DEF SafetyStopEnds

LEMMA BackoffEndsStep == ASSUME IInv, BackoffEnds PROVE IInv'
<1>1. /\ pc = "backoff" /\ wait = 0 /\ pc' = "post" /\ attempt' = attempt + 1
      /\ wait' = Timeout /\ wire' = "sent"
      /\ UNCHANGED <<queue, lastPlan, sinceCommand, renewing, todo, late, device, historyVars,
                     callVars>>
  BY DEF BackoffEnds, Send
<1>2. Busy /\ Timeout \in Nat /\ MaxRetries \in Nat
  BY <1>1, VehicleAssumption DEF Busy
<1>3. /\ lastPlan = newest /\ newest # None
      /\ todo # {} /\ todo \subseteq Requests(newest)
      /\ Halt(First(todo)) \in Nat /\ Cost(Rest) \in Nat /\ Cost(Requests(newest)) \in Nat
      /\ busy \in Nat /\ sinceCommand \in 0 .. Renew /\ attempt \in 0 .. MaxRetries
  BY <1>2, UnderWayFacts
<1>4. attempt' \in 0 .. MaxRetries
  BY <1>1, <1>2, <1>3 DEF IInv, UnderWay
<1>5. /\ busy <= Cost(Requests(newest))
      /\ busy + wait + AttemptsFrom(attempt + 1) + Halt(First(todo)) + Cost(Rest)
           <= Cost(Requests(newest))
  BY <1>1, <1>3 DEF IInv, WithinBudget
<1>6. AttemptsFrom(attempt') \in Nat
  BY <1>4, AttemptsCount
<1>7. UNCHANGED <<newest, busy>> /\ Same
  BY <1>1 DEF Same, historyVars
<1>8. WithinBudget'
  <2>1. Halt(First(todo))' = Halt(First(todo)) /\ Rest' = Rest
    BY <1>1 DEF Halt, Rest
  <2>2. busy + wait' + (AttemptsFrom(attempt') - Timeout) + Halt(First(todo)) + Cost(Rest)
          <= Cost(Requests(newest))
    BY <1>1, <1>2, <1>3, <1>5, <1>6
  <2> QED
    BY <1>1, <1>5, <1>7, <2>1, <2>2 DEF WithinBudget
<1>9. TaskOK'
  BY <1>1, <1>2, <1>3, <1>4, <1>7, <1>8 DEF TaskOK, UnderWay, Busy
<1> QED
  BY <1>1, <1>7, <1>9, TaskStep

LEMMA LateArrivesStep == ASSUME IInv, NEW body \in Bodies, LateArrives(body) PROVE IInv'
<1>1. CallOK /\ device \in DeviceType /\ late \in [Bodies -> Nat]
  BY PartsOfIInv
<1>2. late[body] > 0 /\ late' = [late EXCEPT ![body] = @ - 1] /\ device' = Obey(body)
      /\ disturbed' = TRUE
      /\ UNCHANGED <<queue, clientVars, wire, newest, sinceTaken, busy, callVars>>
  BY DEF LateArrives, InNetwork
<1>3. late[body] - 1 \in Nat
  BY <1>1, <1>2
<1>4. late' \in [Bodies -> Nat]
  BY <1>1, <1>2, <1>3
<1>5. device' \in DeviceType
  BY <1>1, <1>2, ObeyTyped
<1>6. TaskOK'
  BY <1>2, TaskIdles DEF clientVars, IInv, TypeOK
<1>7. CallOK'
  BY <1>1, <1>2 DEF CallOK, Retained, clientVars, callVars
<1>8. StaleMotionLapses'
  BY <1>2 DEF StaleMotionLapses
<1> QED
  BY <1>4, <1>5, <1>6, <1>7, <1>8, PartsOfIInvPrimed

LEMMA StopStep == ASSUME IInv, Stop PROVE IInv'
<1>1. CallOK /\ device \in DeviceType /\ late \in [Bodies -> Nat] /\ StaleMotionLapses
  BY PartsOfIInv
<1>2. stopping' = TRUE
      /\ UNCHANGED <<queue, clientVars, wire, late, device, historyVars, lastPut, sincePut>>
  BY DEF Stop
<1>3. TaskOK'
  BY <1>2, TaskIdles DEF clientVars, historyVars, IInv, TypeOK
<1>4. CallOK'
  BY <1>1, <1>2 DEF CallOK, Retained, clientVars, historyVars
<1>5. StaleMotionLapses'
  BY <1>1, <1>2 DEF StaleMotionLapses, Live, historyVars
<1> QED
  BY <1>1, <1>2, <1>3, <1>4, <1>5, PartsOfIInvPrimed

LEMMA CrashStep == ASSUME IInv, Crash PROVE IInv'
<1>1. TaskOK
  BY PartsOfIInv
<1>2. /\ pc' = "over" /\ wait' = 0 /\ attempt' = 0 /\ todo' = {} /\ wire' = "none" /\ Abandon
      /\ UNCHANGED <<queue, lastPlan, sinceCommand, renewing, device, historyVars, callVars>>
  BY DEF Crash
<1>3. Same
  BY <1>2 DEF Same, historyVars
<1>4. 0 \in 0 .. MaxRetries
  BY VehicleAssumption
<1>5. WithinBudget'
  BY <1>1, <1>2 DEF TaskOK, WithinBudget, historyVars
<1>6. TaskOK'
  BY <1>1, <1>2, <1>4, <1>5 DEF TaskOK, UnderWay, Busy
<1> QED
  BY <1>2, <1>3, <1>6, TaskStep

LEMMA UpToTyped ==
  ASSUME NEW bound \in Nat, NEW n \in 0 .. bound
  PROVE  UpTo(bound, n) \in 0 .. bound
  BY DEF UpTo

LEMMA WatchdogCases ==
  ASSUME NEW c \in [value : Values, lease : 0 .. Lease]
  PROVE  /\ Watchdog(c) \in [value : Values, lease : 0 .. Lease]
         /\ \/ Watchdog(c) = Idle
            \/ /\ Watchdog(c).value = c.value
               /\ c.lease > 1 /\ Watchdog(c).lease = c.lease - 1
<1>1. Lease \in Nat
  BY VehicleAssumption
<1>2. CASE c.lease \in {0, 1}
  BY <1>2, IdleTyped DEF Watchdog
<1>3. CASE c.lease \notin {0, 1}
  <2>1. Watchdog(c) = [c EXCEPT !.lease = c.lease - 1]
    BY <1>3 DEF Watchdog
  <2>2. c.lease - 1 \in 0 .. Lease /\ c.lease > 1
    BY <1>1, <1>3
  <2>3. Watchdog(c).value = c.value /\ Watchdog(c).lease = c.lease - 1
    BY <2>1
  <2>4. Watchdog(c) \in [value : Values, lease : 0 .. Lease]
    BY <2>1, <2>2
  <2> QED
    BY <2>2, <2>3, <2>4
<1> QED
  BY <1>2, <1>3

(* Time passes: what the task has left of its await it has spent more.       *)
LEMMA TickStep == ASSUME IInv, Tick PROVE IInv'
<1>1. TaskOK /\ CallOK /\ device \in DeviceType /\ late \in [Bodies -> Nat] /\ StaleMotionLapses
  BY PartsOfIInv
<1>2. Lease \in Nat /\ Renew \in Nat /\ Watch \in Nat /\ Timeout \in Nat
  BY VehicleAssumption
<1>3. /\ pc # "over" => wait > 0
      /\ wait' = IF pc = "over" THEN 0 ELSE wait - 1
      /\ device' = [ch \in Motion |-> Watchdog(device[ch])]
      /\ sinceCommand' = UpTo(Renew, sinceCommand)
      /\ sinceTaken' = UpTo(Lease, sinceTaken)
      /\ busy' = IF pc \in {"get", "over"} THEN 0 ELSE busy + 1
      /\ sincePut' = IF lastPut = None THEN 0 ELSE UpTo(Watch, sincePut)
      /\ UNCHANGED <<queue, pc, lastPlan, renewing, todo, attempt, wire, late, newest,
                     disturbed, stopping, lastPut>>
  BY DEF Tick
<1>4. wait' \in Nat /\ busy' \in Nat
  BY <1>1, <1>3 DEF TaskOK, CallOK
<1>5. /\ sinceCommand' \in 0 .. Renew /\ sinceTaken' \in 0 .. Lease /\ sincePut' \in 0 .. Watch
  BY <1>1, <1>2, <1>3, UpToTyped DEF TaskOK, CallOK
<1>6. device' \in DeviceType
  BY <1>1, <1>3, WatchdogCases DEF DeviceType
<1>7. WithinBudget'
  <2>1. CASE Busy
    <3>1. busy' = busy + 1 /\ wait' = wait - 1 /\ busy' + wait' = busy + wait
      BY <1>1, <1>3, <2>1 DEF Busy, TaskOK, CallOK
    <3>2. /\ newest # None /\ Cost(Rest) \in Nat /\ Cost(Requests(newest)) \in Nat
          /\ Halt(First(todo)) \in Nat /\ attempt \in 0 .. MaxRetries
          /\ wait \in Nat /\ busy \in Nat /\ wait' \in Nat
      BY <1>4, <2>1, UnderWayFacts
    <3>3. Halt(First(todo))' = Halt(First(todo)) /\ Rest' = Rest
      BY <1>3 DEF Halt, Rest
    <3>4. AttemptsFrom(attempt) \in Nat /\ AttemptsFrom(attempt) >= Timeout
      BY <3>2, AttemptsCount
    <3>5. pc = "backoff" => AttemptsFrom(attempt + 1) \in Nat
      <4>1. pc = "backoff" => attempt + 1 \in 0 .. MaxRetries
        BY <1>1, <3>2, VehicleAssumption DEF TaskOK, UnderWay
      <4> QED
        BY <4>1, AttemptsCount
    <3>6. ASSUME pc = "post"
          PROVE  WithinBudget'
      <4>1. busy + wait + (AttemptsFrom(attempt) - Timeout) + Halt(First(todo)) + Cost(Rest)
              <= Cost(Requests(newest))
        BY <1>1, <3>2, <3>6 DEF TaskOK, WithinBudget
      <4>2. /\ busy' <= Cost(Requests(newest))
            /\ busy' + wait' + (AttemptsFrom(attempt) - Timeout) + Halt(First(todo)) + Cost(Rest)
                 <= Cost(Requests(newest))
        BY <1>2, <1>4, <3>1, <3>2, <3>4, <4>1
      <4> QED
        BY <1>3, <3>3, <3>6, <4>2 DEF WithinBudget
    <3>7. ASSUME pc = "backoff"
          PROVE  WithinBudget'
      <4>1. busy + wait + AttemptsFrom(attempt + 1) + Halt(First(todo)) + Cost(Rest)
              <= Cost(Requests(newest))
        BY <1>1, <3>2, <3>7 DEF TaskOK, WithinBudget
      <4>2. /\ busy' <= Cost(Requests(newest))
            /\ busy' + wait' + AttemptsFrom(attempt + 1) + Halt(First(todo)) + Cost(Rest)
                 <= Cost(Requests(newest))
        BY <1>4, <3>1, <3>2, <3>5, <3>7, <4>1
      <4> QED
        BY <1>3, <3>3, <3>7, <4>2 DEF WithinBudget
    <3>8. ASSUME pc = "halt"
          PROVE  WithinBudget'
      <4>1. busy + wait + Cost(Rest) <= Cost(Requests(newest))
        BY <1>1, <3>2, <3>8 DEF TaskOK, WithinBudget
      <4>2. /\ busy' <= Cost(Requests(newest))
            /\ busy' + wait' + Cost(Rest) <= Cost(Requests(newest))
        BY <1>4, <3>1, <3>2, <4>1
      <4> QED
        BY <1>3, <3>3, <3>8, <4>2 DEF WithinBudget
    <3> QED
      BY <2>1, <3>6, <3>7, <3>8 DEF Busy
  <2>2. CASE ~Busy
    <3>1. pc' \in {"get", "over"} /\ busy' = 0
      BY <1>1, <1>3, <2>2 DEF Busy, TaskOK
    <3>2. newest' # None => Cost(Requests(newest')) \in Nat
      <4> SUFFICES ASSUME newest' # None PROVE Cost(Requests(newest')) \in Nat
        OBVIOUS
      <4>1. newest' \in Plans /\ Requests(newest') \subseteq Requests(newest')
        BY <1>1, <1>3 DEF CallOK
      <4> QED
        BY <4>1, SomeRequests
    <3> QED
      BY <3>1, <3>2 DEF WithinBudget
  <2> QED
    BY <2>1, <2>2
<1>8. TaskOK'
  BY <1>1, <1>3, <1>4, <1>5, <1>7 DEF TaskOK, UnderWay, Busy
<1>9. CallOK'
  BY <1>1, <1>3, <1>4, <1>5 DEF CallOK, Retained
<1>10. StaleMotionLapses'
  <2> SUFFICES ASSUME NEW ch \in Motion, newest' # None, ~disturbed', Live(ch)',
                      device'[ch].value \notin Asked(newest', ch)
               PROVE  sinceTaken' + device'[ch].lease <= Lease
    BY DEF StaleMotionLapses
  <2>1. device'[ch] = Watchdog(device[ch]) /\ device[ch] \in [value : Values, lease : 0 .. Lease]
    BY <1>1, <1>3 DEF DeviceType
  <2>2. /\ device'[ch].value = device[ch].value
        /\ device[ch].lease > 1 /\ device'[ch].lease = device[ch].lease - 1
    BY <2>1, WatchdogCases DEF Live, Idle
  <2>3. sinceTaken + device[ch].lease <= Lease
    BY <1>1, <1>3, <2>2 DEF StaleMotionLapses, Live
  <2>4. sinceTaken \in 0 .. Lease /\ device[ch].lease \in 0 .. Lease
    BY <1>1, <2>1 DEF CallOK
  <2> QED
    BY <1>2, <1>3, <2>2, <2>3, <2>4 DEF UpTo
<1> QED
  BY <1>1, <1>3, <1>6, <1>8, <1>9, <1>10, PartsOfIInvPrimed

LEMMA StutterStep == ASSUME IInv, UNCHANGED vars PROVE IInv'
<1>1. TaskOK'
  BY TaskIdles DEF vars, clientVars, historyVars, IInv, TypeOK
<1>2. Same /\ late' = late
  BY DEF Same, vars, clientVars, historyVars
<1> QED
  BY <1>1, <1>2, TaskStep

-----------------------------------------------------------------------------
(* The invariant holds throughout, whatever fails and whenever the layer is  *)
(* stopped or killed.                                                        *)
THEOREM Invariance == Spec => []IInv
<1>1. Init => IInv
  BY InitOK
<1>2. IInv /\ [Next]_vars => IInv'
  <2> SUFFICES ASSUME IInv, [Next]_vars PROVE IInv'
    OBVIOUS
  <2>1. ASSUME NEW plan \in Plans, PlanArrives(plan) PROVE IInv'
    BY <2>1, PlanArrivesStep
  <2>2. CASE TakePlan
    BY <2>2, TakePlanStep
  <2>3. CASE IdlePoll
    BY <2>3, IdlePollStep
  <2>4. CASE Reach
    BY <2>4, ReachStep
  <2>5. CASE Answered
    BY <2>5, AnsweredStep
  <2>6. CASE Rejected
    BY <2>6, RejectedStep
  <2>7. CASE Failed
    BY <2>7, FailedStep
  <2>8. CASE TimedOut
    BY <2>8, TimedOutStep
  <2>9. CASE BackoffEnds
    BY <2>9, BackoffEndsStep
  <2>10. CASE SafetyStopEnds
    BY <2>10, SafetyStopEndsStep
  <2>11. ASSUME NEW body \in Bodies, LateArrives(body) PROVE IInv'
    BY <2>11, LateArrivesStep
  <2>12. CASE Stop
    BY <2>12, StopStep
  <2>13. CASE Crash
    BY <2>13, CrashStep
  <2>14. CASE Tick
    BY <2>14, TickStep
  <2>15. CASE UNCHANGED vars
    BY <2>15, StutterStep
  <2> QED
    BY <2>1, <2>2, <2>3, <2>4, <2>5, <2>6, <2>7, <2>8, <2>9, <2>10, <2>11, <2>12, <2>13,
       <2>14, <2>15 DEF Next
<1> QED
  BY <1>1, <1>2, PTL DEF Spec

(* Every variable keeps its type, and nothing is under way but requests of   *)
(* the retained plan.                                                        *)
THEOREM TypeCorrect == Spec => []TypeOK
<1>1. IInv => TypeOK
  BY DEF IInv
<1> QED
  BY <1>1, Invariance, PTL

(* Motion the newest plan does not ask for is never renewed: it lapses       *)
(* within one lease of the plan's being taken, for every set of plans,       *)
(* every timing and every fault (run, _renew_if_due).                        *)
THEOREM StaleMotionEnds == Spec => []StaleMotionLapses
<1>1. IInv => StaleMotionLapses
  BY DEF IInv
<1> QED
  BY <1>1, Invariance, PTL

(* An execution keeps the next plan waiting no longer than the timeouts,     *)
(* backoffs and safety stops of its requests add up to, whatever fails       *)
(* (_execute, _post_with_retries, _backoff_sleep, _safety_stop).             *)
THEOREM ExecutionEnds == Spec => []ExecutionBounded
<1>1. IInv => ExecutionBounded
  BY DEF IInv, WithinBudget, ExecutionBounded
<1> QED
  BY <1>1, Invariance, PTL

-----------------------------------------------------------------------------
(* The timing while requests are prompt.  Left is how long the network may   *)
(* still keep the request under way, Work how long the execution may last.   *)
Left == wait - (Timeout - Latency)
Work == IF pc = "post" THEN Left + Cardinality(Rest) * Latency ELSE 0

(* The device has obeyed this request of the execution under way.            *)
Commanded(a) == a \notin todo \/ (a = First(todo) /\ wire = "taken")

Undisturbed ==
  /\ pc \in {"get", "post", "over"}
  /\ pc = "post" => wait <= Timeout /\ Left >= 0
  /\ pc # "over" =>
       /\ ~disturbed /\ \A b \in Bodies : late[b] = 0
       /\ \A ch \in Motion : Live(ch) => device[ch].lease > 0
  /\ pc = "post" => \A a \in Requests(newest) \ todo, b \in todo : a.priority < b.priority

Ahead(a) == {b \in todo : b.priority < a.priority}
Through(a) == {b \in Requests(newest) : b.priority <= a.priority}
Share(a) == Cardinality(Through(a)) * Latency
HeldFor(a, t) == device[a.method].value = a.arg /\ t < device[a.method].lease

(* A motion command that lasts is held for longer than it takes at most to   *)
(* command it again: what is left of the execution, of the interval and of   *)
(* the poll, and the requests up to it in the renewal.                       *)
HeldOf(a) ==
  /\ pc = "get" => HeldFor(a, wait + Share(a))
  /\ pc = "post" /\ Commanded(a) => HeldFor(a, Work + Poll + Share(a))
  /\ pc = "post" /\ Commanded(a) /\ ~renewing => HeldFor(a, Work + Renew - 1 + Poll + Share(a))
  /\ pc = "get" \/ (pc = "post" /\ Commanded(a) /\ renewing) =>
       (sinceCommand < Renew => HeldFor(a, Renew - 1 - sinceCommand + Poll + Share(a)))
  /\ pc = "post" /\ ~Commanded(a) /\ renewing /\ ~Undoes(newest, a) =>
       HeldFor(a, Left + Cardinality(Ahead(a)) * Latency)

Held == newest # None => \A a \in Lasting(newest) : HeldOf(a)

(* The planner's last plan is the last in the queue or the newest taken.     *)
LastPutIsLast ==
  /\ queue # <<>> => queue[Len(queue)] = lastPut
  /\ queue = <<>> /\ lastPut # None => newest = lastPut

(* What is queued and under way is done within the time of the backlog.      *)
OnTime ==
  lastPut # None /\ pc # "over" =>
    /\ queue # <<>> \/ (pc = "post" /\ ~renewing) =>
         sincePut + Len(queue) * (MostRequests * Latency) + Work <= Backlog
    /\ pc = "get" /\ queue # <<>> /\ wait = 0 => sincePut = 0
    /\ queue = <<>> /\ sinceTaken < Lease => sincePut <= Backlog + sinceTaken

(* A channel the newest plan has set is as it asks for, or idle.             *)
Settled ==
  pc # "over" /\ newest # None =>
    \A a \in Requests(newest), ch \in Motion :
      (renewing \/ Commanded(a)) /\ Sets(a, ch) =>
        device[ch].value \in Asked(newest, ch) \cup {None}

LEMMA Products ==
  \A c, d \in Nat :
    /\ c * Latency \in Nat
    /\ (c + 1) * Latency = c * Latency + Latency
    /\ (c + d) * Latency = c * Latency + d * Latency
    /\ c <= d => c * Latency <= d * Latency
<1>1. Latency \in Nat
  BY VehicleAssumption
<1>2. \A x, y, z \in Nat : x * z \in Nat /\ (x + y) * z = x * z + y * z /\ 1 * z = z
  OBVIOUS
<1>3. ASSUME NEW c \in Nat, NEW d \in Nat, c <= d
      PROVE  c * Latency <= d * Latency
  <2>1. PICK e \in Nat : d = c + e
    <3>1. d - c \in Nat /\ d = c + (d - c)
      BY <1>3
    <3> QED
      BY <3>1
  <2>2. d * Latency = c * Latency + e * Latency
    BY <1>1, <1>2, <2>1
  <2> QED
    BY <1>1, <1>2, <2>2
<1> QED
  BY <1>1, <1>2, <1>3

(* The request under way is ahead of all the others still to be posted.      *)
LEMMA FirstIsLeast ==
  ASSUME NEW S, IsFiniteSet(S), S # {}, \A a \in S : a.priority \in Nat
  PROVE  \A b \in S : First(S).priority <= b.priority
<1> DEFINE T == {a.priority : a \in S}
<1>1. PICK m \in T : \A n \in T : m <= n
  BY LeastNat
<1>2. \E a \in S : \A b \in S : a.priority <= b.priority
  BY <1>1
<1> QED
  BY <1>2 DEF First

LEMMA Posting ==
  ASSUME IInv, pc = "post"
  PROVE  /\ newest \in Plans /\ newest # None /\ lastPlan = newest
         /\ todo \subseteq Requests(newest) /\ IsFiniteSet(Requests(newest))
         /\ First(todo) \in todo /\ IsFiniteSet(Rest) /\ Cardinality(Rest) \in Nat
         /\ Cardinality(todo) = Cardinality(Rest) + 1
         /\ \A a \in Requests(newest) : a.priority \in Nat
         /\ \A b \in Rest : First(todo).priority < b.priority
<1>1. /\ newest \in Plans /\ newest # None /\ lastPlan = newest
      /\ todo # {} /\ todo \subseteq Requests(newest) /\ First(todo) \in todo
  BY UnderWayFacts DEF Busy
<1>2. IsFiniteSet(Requests(newest)) /\ IsFiniteSet(todo)
  BY <1>1, SomeRequests
<1>3. \A a \in Requests(newest) : a \in newest /\ a.priority \in Nat
  BY <1>1, VehicleAssumption DEF Requests
<1>4. IsFiniteSet(Rest) /\ Cardinality(Rest) = Cardinality(todo) - 1 /\ Cardinality(todo) \in Nat
      /\ Cardinality(Rest) \in Nat
  BY <1>1, <1>2, FS_RemoveElement, FS_CardinalityType DEF Rest
<1>5. \A b \in todo : First(todo).priority <= b.priority
  BY <1>1, <1>2, <1>3, FirstIsLeast
<1>6. ASSUME NEW b \in Rest
      PROVE  First(todo).priority < b.priority
  <2>1. b \in todo /\ b # First(todo)
    BY DEF Rest
  <2>2. b \in newest /\ First(todo) \in newest
    BY <1>1, <1>3, <2>1
  <2>3. First(todo).priority # b.priority
    BY <1>1, <2>1, <2>2, VehicleAssumption
  <2>4. First(todo).priority \in Nat /\ b.priority \in Nat
    BY <1>1, <1>3, <2>1
  <2> QED
    BY <1>5, <2>1, <2>3, <2>4
<1> QED
  BY <1>1, <1>2, <1>3, <1>4, <1>6

(* What each step that leaves the task alive may be.                         *)
Quiet == UNCHANGED <<clientVars, wire, late, device, historyVars>>
Called ==
  (\E plan \in Plans : PlanArrives(plan)) \/ UNCHANGED <<queue, lastPut, sincePut>>

LEMMA OverForGood ==
  ASSUME [Next]_vars, pc = "over"
  PROVE  pc' = "over"
<1>1. CASE UNCHANGED vars
  BY <1>1 DEF vars, clientVars
<1>2. CASE \E plan \in Plans : PlanArrives(plan)
  BY <1>2 DEF PlanArrives, clientVars
<1>3. CASE \E body \in Bodies : LateArrives(body)
  BY <1>3 DEF LateArrives, clientVars
<1>4. CASE Stop
  BY <1>4 DEF Stop, clientVars
<1>5. CASE Tick
  BY <1>5 DEF Tick
<1>6. ~(Crash \/ TakePlan \/ IdlePoll \/ Reach \/ Answered \/ Rejected \/ Failed \/ TimedOut
        \/ BackoffEnds \/ SafetyStopEnds)
  BY DEF Crash, TakePlan, IdlePoll, Reach, Answered, Rejected, Failed, TimedOut, BackoffEnds,
         SafetyStopEnds
<1> QED
  BY <1>1, <1>2, <1>3, <1>4, <1>5, <1>6 DEF Next

LEMMA PromptSteps ==
  ASSUME Prompt, IInv, Undisturbed, [Next]_vars, pc' # "over"
  PROVE  /\ pc \in {"get", "post"}
         /\ (Quiet /\ Called) \/ TakePlan \/ IdlePoll \/ (pc = "post" /\ Reach) \/ Answered \/ Tick
<1>1. pc \in {"get", "post"}
  BY OverForGood DEF Undisturbed
<1>2. ~Rejected /\ ~Failed
  BY DEF Prompt, Rejected, Failed
<1>3. ~TimedOut
  BY VehicleAssumption DEF Prompt, Undisturbed, Left, TimedOut
<1>4. ~BackoffEnds /\ ~SafetyStopEnds /\ ~Crash
  BY <1>1 DEF BackoffEnds, SafetyStopEnds, Crash
<1>5. ASSUME NEW body \in Bodies PROVE ~LateArrives(body)
  BY <1>1 DEF Undisturbed, LateArrives, InNetwork
<1>6. CASE \E plan \in Plans : PlanArrives(plan)
  BY <1>1, <1>6 DEF PlanArrives, Quiet, Called
<1>7. CASE Stop
  BY <1>1, <1>7 DEF Stop, Quiet, Called
<1>8. CASE UNCHANGED vars
  BY <1>1, <1>8 DEF vars, callVars, Quiet, Called
<1>9. CASE Reach
  BY <1>1, <1>9 DEF Reach
<1> QED
  BY <1>1, <1>2, <1>3, <1>4, <1>5, <1>6, <1>7, <1>8, <1>9 DEF Next

(* The beginning of an execution, and the end of a request.                  *)
LEMMA Begins ==
  ASSUME TakePlan \/ (IdlePoll /\ RenewalDue), IInv, IInv', pc' # "over"
  PROVE  /\ pc = "get" /\ todo' = Requests(newest') /\ newest' = lastPlan'
         /\ UNCHANGED <<late, device, callVars>>
         /\ sinceCommand' = 0
         /\ todo' = {} => pc' = "get" /\ wait' = Poll
         /\ todo' # {} => pc' = "post" /\ wait' = Timeout /\ wire' = "sent"
<1>1. newest' = lastPlan' /\ lastPlan = newest
  BY DEF IInv, Retained
<1>2. CASE TakePlan
  BY <1>1, <1>2 DEF TakePlan, Continue, Send, NextTurn
<1>3. CASE IdlePoll /\ RenewalDue
  BY <1>1, <1>3 DEF IdlePoll, Continue, Send, NextTurn
<1> QED
  BY <1>2, <1>3

LEMMA Answers ==
  ASSUME Answered, pc' # "over"
  PROVE  /\ pc = "post" /\ wire = "taken" /\ todo' = Rest
         /\ UNCHANGED <<queue, lastPlan, renewing, device, newest, sinceTaken, disturbed, busy,
                        callVars, late>>
         /\ sinceCommand' = IF renewing THEN sinceCommand ELSE 0
         /\ Rest = {} => pc' = "get" /\ wait' = Poll
         /\ Rest # {} => pc' = "post" /\ wait' = Timeout /\ wire' = "sent"
  BY DEF Answered, NextAction, Continue, Send, NextTurn, Rest

LEMMA UndisturbedInit == Prompt /\ Init => Undisturbed
  BY DEF Prompt, Init, Undisturbed, Live, Idle

LEMMA UndisturbedStep ==
  ASSUME Prompt, IInv, IInv', Undisturbed, [Next]_vars
  PROVE  Undisturbed'
<1>1. Latency \in Nat /\ Timeout \in Nat /\ Poll \in Nat /\ Latency < Timeout
  BY VehicleAssumption DEF Prompt
<1>2. /\ device \in [Motion -> [value : Values, lease : 0 .. Lease]] /\ wait \in Nat
      /\ Lease \in Nat /\ Lease > 0
  BY VehicleAssumption DEF IInv, TypeOK, Prompt
<1>3. CASE pc' = "over"
  BY <1>3 DEF Undisturbed
<1>4. CASE pc' # "over"
  <2>1. pc \in {"get", "post"}
    BY <1>4, PromptSteps
  <2>2. CASE Quiet
    BY <2>2 DEF Quiet, clientVars, historyVars, Undisturbed, Left, Live
  <2>3. CASE TakePlan \/ (IdlePoll /\ RenewalDue)
    <3>1. /\ pc = "get" /\ todo' = Requests(newest') /\ UNCHANGED <<late, device>>
          /\ todo' = {} => pc' = "get"
          /\ todo' # {} => pc' = "post" /\ wait' = Timeout
      BY <1>4, <2>3, Begins
    <3>2. ~disturbed'
      BY <2>1, <2>3 DEF TakePlan, IdlePoll, Undisturbed
    <3>3. pc' = "post" => wait' <= Timeout /\ Left' >= 0
      BY <1>1, <3>1 DEF Left
    <3> QED
      BY <2>1, <3>1, <3>2, <3>3 DEF Undisturbed, Live
  <2>4. CASE IdlePoll /\ ~RenewalDue
    <3>1. pc' = "get" /\ UNCHANGED <<late, device, disturbed>>
      BY <1>4, <2>4 DEF IdlePoll, NextTurn
    <3> QED
      BY <2>1, <3>1 DEF Undisturbed, Live
  <2>5. CASE pc = "post" /\ Reach
    <3>1. /\ device' = Obey(Awaited) /\ Awaited \in Bodies
          /\ UNCHANGED <<clientVars, late, newest, disturbed>>
      BY <2>5, AwaitedBody DEF Reach
    <3>2. Awaited.method \in Motion => Awaited.lease = Lease
      BY <3>1, BodyCases DEF Body, StopBody, Motion
    <3>3. ASSUME NEW ch \in Motion, Live(ch)'
          PROVE  device'[ch].lease > 0
      <4>1. Live(ch) => device[ch].lease > 0
        BY <2>1 DEF Undisturbed
      <4>2. CASE Awaited.method \in Motion
        <5>1. device' = [device EXCEPT ![Awaited.method] =
                           [value |-> Awaited.arg, lease |-> Awaited.lease]]
          BY <3>1, <4>2, ObeyCases
        <5> QED
          BY <1>2, <3>2, <3>3, <4>1, <4>2, <5>1 DEF Live
      <4>3. CASE Awaited.method = "stop"
        <5>1. device' = [device EXCEPT !["drive"] = Idle]
          BY <3>1, <4>3, ObeyCases
        <5> QED
          BY <1>2, <3>3, <4>1, <5>1 DEF Live, Idle
      <4>4. CASE Awaited.method \notin Motion /\ Awaited.method # "stop"
        BY <3>1, <3>3, <4>1, <4>4, ObeyCases DEF Live
      <4> QED
        BY <4>2, <4>3, <4>4
    <3> QED
      BY <2>1, <3>1, <3>3 DEF Undisturbed, clientVars, Left
  <2>6. CASE Answered
    <3>1. /\ pc = "post" /\ todo' = Rest /\ UNCHANGED <<device, newest, disturbed, late>>
          /\ Rest = {} => pc' = "get"
          /\ Rest # {} => pc' = "post" /\ wait' = Timeout
      BY <1>4, <2>6, Answers
    <3>2. pc' = "post" => wait' <= Timeout /\ Left' >= 0
      BY <1>1, <3>1 DEF Left
    <3>3. ASSUME NEW a \in Requests(newest) \ Rest, NEW b \in Rest
          PROVE  a.priority < b.priority
      <4>1. CASE a = First(todo)
        BY <3>1, <4>1, Posting
      <4>2. CASE a # First(todo)
        BY <3>1, <4>2 DEF Rest, Undisturbed
      <4> QED
        BY <4>1, <4>2
    <3> QED
      BY <2>1, <3>1, <3>2, <3>3 DEF Undisturbed, Live
  <2>7. CASE Tick
    <3>1. /\ pc = "post" => Timeout - wait < Latency
          /\ wait > 0 /\ wait' = wait - 1
          /\ device' = [ch \in Motion |-> Watchdog(device[ch])]
          /\ UNCHANGED <<pc, todo, late, newest, disturbed>>
      BY <2>1, <2>7 DEF Tick
    <3>2. ASSUME NEW ch \in Motion, Live(ch)'
          PROVE  device'[ch].lease > 0
      <4>1. device'[ch] = Watchdog(device[ch]) /\ device[ch] \in [value : Values, lease : 0 .. Lease]
        BY <1>2, <3>1
      <4>2. device'[ch].value # None
        BY <3>2 DEF Live
      <4> QED
        BY <4>1, <4>2, WatchdogCases DEF Idle
    <3>3. pc' = "post" => wait' <= Timeout /\ Left' >= 0
      BY <1>1, <1>2, <3>1 DEF Undisturbed, Left
    <3> QED
      BY <2>1, <3>1, <3>2, <3>3 DEF Undisturbed
  <2> QED
    BY <1>4, <2>2, <2>3, <2>4, <2>5, <2>6, <2>7, PromptSteps
<1> QED
  BY <1>3, <1>4

LEMMA UndisturbedInvariance == ASSUME Prompt PROVE Spec => []Undisturbed
<1>1. Init => Undisturbed
  BY UndisturbedInit
<1>2. IInv /\ IInv' /\ Undisturbed /\ [Next]_vars => Undisturbed'
  BY UndisturbedStep
<1> QED
  BY <1>1, <1>2, Invariance, PTL DEF Spec

-----------------------------------------------------------------------------
LEMMA Shares ==
  ASSUME IInv, newest # None, NEW a \in Requests(newest)
  PROVE  /\ newest \in Plans /\ IsFiniteSet(Through(a)) /\ Cardinality(Through(a)) \in Nat
         /\ Share(a) \in Nat
<1>1. newest \in Plans
  BY DEF IInv, TypeOK
<1>2. IsFiniteSet(Requests(newest)) /\ Through(a) \subseteq Requests(newest)
  BY <1>1, SomeRequests DEF Through
<1>3. IsFiniteSet(Through(a)) /\ Cardinality(Through(a)) \in Nat
  BY <1>2, FS_Subset, FS_CardinalityType
<1> QED
  BY <1>1, <1>3, Products DEF Share

(* What is left of an execution fits a plan of most requests; and with the   *)
(* renewal of the request under way it takes that and one answer.            *)
LEMMA Fits ==
  ASSUME Prompt, IInv, Undisturbed, pc = "post"
  PROVE  /\ Left \in Nat /\ Left <= Latency
         /\ Work = Left + Cardinality(Rest) * Latency /\ Work \in Nat
         /\ Work <= MostRequests * Latency
         /\ Work + Share(First(todo)) <= (MostRequests + 1) * Latency
<1>1. Latency \in Nat /\ Timeout \in Nat /\ MostRequests \in Nat /\ wait \in Nat
  BY VehicleAssumption DEF Prompt, IInv, TypeOK
<1>2. Left \in Nat /\ Left <= Latency
  BY <1>1 DEF Undisturbed, Left
<1>3. Work = Left + Cardinality(Rest) * Latency
  BY DEF Work
<1> DEFINE f == First(todo)
<1>4. /\ newest \in Plans /\ newest # None /\ f \in todo /\ todo \subseteq Requests(newest)
      /\ IsFiniteSet(Requests(newest)) /\ IsFiniteSet(Rest) /\ Cardinality(Rest) \in Nat
      /\ Cardinality(todo) = Cardinality(Rest) + 1
      /\ \A b \in Requests(newest) : b.priority \in Nat
      /\ \A b \in Rest : f.priority < b.priority
  BY Posting
<1>5. Cardinality(Requests(newest)) \in Nat /\ Cardinality(Requests(newest)) <= MostRequests
  BY <1>4, FS_CardinalityType DEF Prompt
<1>6. Cardinality(Rest) + 1 <= MostRequests
  <2>1. Cardinality(todo) <= Cardinality(Requests(newest))
    BY <1>4, FS_Subset
  <2> QED
    BY <1>1, <1>4, <1>5, <2>1
<1>7. Cardinality(Rest) + Cardinality(Through(f)) <= MostRequests /\ Cardinality(Through(f)) \in Nat
  <2>1. IsFiniteSet(Through(f)) /\ Cardinality(Through(f)) \in Nat
    BY <1>4, Shares
  <2>2. Rest \cap Through(f) = {}
    <3>1. ASSUME NEW b \in Rest, b \in Through(f) PROVE FALSE
      BY <1>4, <3>1 DEF Through
    <3> QED
      BY <3>1
  <2>3. Cardinality(Rest \cup Through(f)) = Cardinality(Rest) + Cardinality(Through(f))
    <3>1. Cardinality(Rest \cup Through(f))
            = Cardinality(Rest) + Cardinality(Through(f)) - Cardinality(Rest \cap Through(f))
      BY <1>4, <2>1, FS_Union
    <3>2. Cardinality(Rest \cap Through(f)) = 0
      BY <2>2, FS_EmptySet
    <3> QED
      BY <1>4, <2>1, <3>1, <3>2
  <2>4. Rest \cup Through(f) \subseteq Requests(newest)
    BY <1>4 DEF Rest, Through
  <2>5. Cardinality(Rest \cup Through(f)) <= Cardinality(Requests(newest))
    BY <1>4, <2>4, FS_Subset
  <2> QED
    BY <1>1, <1>4, <1>5, <2>1, <2>3, <2>5
<1> DEFINE r == Cardinality(Rest)
           t == Cardinality(Through(f))
<1>8. Share(f) = t * Latency
  BY DEF Share
<1>9. /\ r * Latency \in Nat /\ t * Latency \in Nat
      /\ (r + 1) * Latency = r * Latency + Latency
      /\ (r + 1) * Latency <= MostRequests * Latency
      /\ (r + t) * Latency = r * Latency + t * Latency
      /\ (r + t) * Latency <= MostRequests * Latency
      /\ (MostRequests + 1) * Latency = MostRequests * Latency + Latency
      /\ MostRequests * Latency \in Nat
  <2>1. r + 1 \in Nat /\ r + t \in Nat /\ r \in Nat /\ t \in Nat
    BY <1>4, <1>7
  <2> HIDE DEF r, t
  <2> QED
    BY <1>1, <1>6, <1>7, <2>1, Products DEF r, t
<1> HIDE DEF r, t
<1>10. Work = Left + r * Latency
  BY <1>3 DEF r
<1> QED
  BY <1>1, <1>2, <1>3, <1>8, <1>9, <1>10

(* What is left of an execution shrinks as answers come and time passes.     *)
LEMMA WorkLess ==
  ASSUME Prompt, IInv, Undisturbed, Answered, pc' # "over"
  PROVE  Work' \in Nat /\ Work' <= Work
<1>1. /\ pc = "post" /\ todo' = Rest
      /\ Rest = {} => pc' = "get"
      /\ Rest # {} => pc' = "post" /\ wait' = Timeout
  BY Answers
<1>2. /\ Left \in Nat /\ Work \in Nat /\ Work = Left + Cardinality(Rest) * Latency
  BY <1>1, Fits
<1>3. CASE Rest = {}
  BY <1>1, <1>2, <1>3 DEF Work
<1>4. CASE Rest # {}
  <2> DEFINE n == Cardinality(Rest')
  <2>1. /\ newest \in Plans /\ Rest \subseteq Requests(newest)
        /\ IsFiniteSet(Rest) /\ Cardinality(Rest) \in Nat
    BY <1>1, Posting DEF Rest
  <2>2. Rest' = Rest \ {First(Rest)} /\ First(Rest) \in Rest
    BY <1>1, <1>4, <2>1, SomeRequests DEF Rest
  <2>3. n = Cardinality(Rest) - 1 /\ n \in Nat
    <3>1. IsFiniteSet(Rest') /\ n = Cardinality(Rest) - 1
      BY <2>1, <2>2, FS_RemoveElement
    <3> QED
      BY <3>1, FS_CardinalityType
  <2>4. Work' = Latency + n * Latency /\ Latency \in Nat
    BY <1>1, <1>4, VehicleAssumption DEF Work, Left
  <2> HIDE DEF n
  <2>5. Cardinality(Rest) = n + 1
    BY <2>1, <2>3
  <2>6. (n + 1) * Latency = n * Latency + Latency /\ n * Latency \in Nat
    BY <2>3, Products
  <2> QED
    BY <1>2, <2>4, <2>5, <2>6
<1> QED
  BY <1>3, <1>4

LEMMA WorkTicks ==
  ASSUME Prompt, IInv, Undisturbed, pc = "post", pc' = pc, wait > 0, wait' = wait - 1,
         todo' = todo, Timeout - wait < Latency
  PROVE  /\ Left \in Nat /\ Left > 0 /\ Left' = Left - 1
         /\ Work \in Nat /\ Work > 0 /\ Work' = Work - 1
<1>1. Left \in Nat /\ Work = Left + Cardinality(Rest) * Latency /\ Work \in Nat
      /\ Cardinality(Rest) \in Nat
  BY Fits, Posting
<1>2. Left > 0 /\ Left' = Left - 1
  BY VehicleAssumption DEF Left, IInv, TypeOK
<1>3. Work' = Left' + Cardinality(Rest) * Latency
  BY DEF Work, Rest
<1>4. Cardinality(Rest) * Latency \in Nat
  BY <1>1, Products
<1> QED
  BY <1>1, <1>2, <1>3, <1>4

(* A channel held for some time is held for a tick less when a tick passed.  *)
LEMMA HeldLess ==
  ASSUME device \in DeviceType, NEW a, a.method \in Motion, NEW t \in Nat, t > 0, HeldFor(a, t),
         device' = [ch \in Motion |-> Watchdog(device[ch])]
  PROVE  device'[a.method].value = a.arg /\ t - 1 < device'[a.method].lease
<1> DEFINE c == device[a.method]
<1>1. c \in [value : Values, lease : 0 .. Lease] /\ c.value = a.arg /\ t < c.lease
  BY DEF HeldFor, DeviceType
<1>2. device'[a.method] = Watchdog(c)
  OBVIOUS
<1> HIDE DEF c
<1>3. Lease \in Nat /\ c.lease \in 0 .. Lease
  BY <1>1, VehicleAssumption
<1>4. c.lease \notin {0, 1}
  BY <1>1, <1>3
<1>5. Watchdog(c) = [c EXCEPT !.lease = c.lease - 1]
  BY <1>4 DEF Watchdog
<1>6. Watchdog(c).value = c.value /\ Watchdog(c).lease = c.lease - 1
  BY <1>1, <1>5
<1> QED
  BY <1>1, <1>2, <1>3, <1>6

LEMMA HeldQuiet ==
  ASSUME Held, Quiet
  PROVE  Held'
<1> SUFFICES ASSUME newest' # None, NEW a \in Lasting(newest') PROVE HeldOf(a)'
  BY DEF Held
<1>1. HeldOf(a)
  BY DEF Held, Quiet, historyVars
<1>2. UNCHANGED <<pc, wait, sinceCommand, renewing, todo, attempt, wire, device, newest>>
  BY DEF Quiet, clientVars, historyVars
<1>3. /\ Commanded(a)' <=> Commanded(a)
      /\ Share(a)' = Share(a) /\ Work' = Work /\ Left' = Left /\ Ahead(a)' = Ahead(a)
  BY <1>2 DEF Commanded, Share, Through, Work, Left, Rest, Ahead
<1>4. \A t : HeldFor(a, t) <=> device'[a.method].value = a.arg /\ t < device'[a.method].lease
  BY <1>2 DEF HeldFor
<1> QED
  BY <1>1, <1>2, <1>3, <1>4 DEF HeldOf, HeldFor

LEMMA HeldTaken ==
  ASSUME IInv, IInv', TakePlan, pc' # "over"
  PROVE  Held'
<1> SUFFICES ASSUME newest' # None, NEW a \in Lasting(newest') PROVE HeldOf(a)'
  BY DEF Held
<1>1. a \in Requests(newest')
  BY DEF Lasting
<1>2. /\ todo' = Requests(newest') /\ ~renewing'
      /\ todo' # {} => pc' = "post" /\ wire' = "sent"
  BY Begins DEF TakePlan
<1>3. pc' = "post" /\ ~Commanded(a)'
  BY <1>1, <1>2 DEF Commanded
<1> QED
  BY <1>2, <1>3 DEF HeldOf

LEMMA HeldRenewed ==
  ASSUME Prompt, IInv, IInv', Held, IdlePoll, RenewalDue, pc' # "over"
  PROVE  Held'
<1> SUFFICES ASSUME newest' # None, NEW a \in Lasting(newest') PROVE HeldOf(a)'
  BY DEF Held
<1>1. a \in Requests(newest') /\ newest' = newest
  BY DEF Lasting, IdlePoll
<1>2. /\ todo' = Requests(newest') /\ device' = device
      /\ todo' # {} => pc' = "post" /\ wire' = "sent" /\ wait' = Timeout
  BY Begins
<1>3. pc' = "post" /\ ~Commanded(a)' /\ wait' = Timeout
  BY <1>1, <1>2 DEF Commanded
<1>4. HeldFor(a, wait + Share(a)) /\ wait = 0
  BY <1>1 DEF Held, HeldOf, IdlePoll
<1>5. Left' + Cardinality(Ahead(a)') * Latency = Share(a)
  <2>1. Left' = Latency
    BY <1>3, VehicleAssumption DEF Left
  <2>2. Ahead(a)' = Through(a) \ {a} /\ a \in Through(a)
    <3>1. /\ newest \in Plans /\ \A b \in Requests(newest) : b \in newest /\ b.priority \in Nat
      BY <1>1, Shares, VehicleAssumption DEF Requests
    <3>2. \A b \in Requests(newest) : b.priority = a.priority => b = a
      BY <1>1, <3>1, VehicleAssumption
    <3>3. Ahead(a)' = {b \in Requests(newest) : b.priority < a.priority}
      BY <1>1, <1>2 DEF Ahead
    <3>4. \A b \in Requests(newest) : b.priority < a.priority <=> b.priority <= a.priority /\ b # a
      BY <1>1, <3>1, <3>2
    <3> QED
      BY <1>1, <3>1, <3>3, <3>4 DEF Through
  <2>3. IsFiniteSet(Through(a)) /\ Cardinality(Through(a)) \in Nat
    BY <1>1, Shares
  <2> DEFINE n == Cardinality(Through(a) \ {a})
  <2>4. n = Cardinality(Through(a)) - 1 /\ n \in Nat
    <3>1. n = Cardinality(Through(a)) - 1 /\ IsFiniteSet(Through(a) \ {a})
      BY <2>2, <2>3, FS_RemoveElement
    <3> QED
      BY <3>1, FS_CardinalityType
  <2>5. Share(a) = Cardinality(Through(a)) * Latency
    BY DEF Share
  <2>6. Cardinality(Ahead(a)') = n
    BY <2>2
  <2> HIDE DEF n
  <2>7. Cardinality(Through(a)) = n + 1
    BY <2>3, <2>4
  <2>8. (n + 1) * Latency = n * Latency + Latency /\ n * Latency \in Nat /\ Latency \in Nat
    BY <2>4, Products, VehicleAssumption
  <2> QED
    BY <2>1, <2>5, <2>6, <2>7, <2>8
<1>6. Share(a) \in Nat
  BY <1>1, Shares
<1>7. HeldFor(a, Share(a))
  BY <1>4, <1>6
<1>8. HeldFor(a, Left + Cardinality(Ahead(a)) * Latency)'
  BY <1>2, <1>5, <1>7 DEF HeldFor
<1> QED
  BY <1>3, <1>8 DEF HeldOf

LEMMA HeldPolled ==
  ASSUME IInv, IInv', Held, IdlePoll, ~RenewalDue, pc' # "over"
  PROVE  Held'
<1> SUFFICES ASSUME newest' # None, NEW a \in Lasting(newest') PROVE HeldOf(a)'
  BY DEF Held
<1>1. /\ UNCHANGED <<newest, lastPlan, renewing, todo, sinceCommand, wire, device>>
      /\ pc = "get" /\ pc' = "get" /\ wait' = Poll
  BY DEF IdlePoll, NextTurn
<1>2. a \in Requests(newest) /\ HeldOf(a) /\ newest # None
  BY <1>1 DEF Held, Lasting
<1>3. sinceCommand < Renew /\ sinceCommand \in Nat /\ Renew \in Nat /\ Poll \in Nat
  <2>1. Renew \in Nat /\ Poll \in Nat
    BY VehicleAssumption
  <2>2. sinceCommand \in 0 .. Renew /\ lastPlan # None
    BY <1>2 DEF IInv, TypeOK, Retained
  <2> QED
    BY <2>1, <2>2 DEF RenewalDue
<1>4. Share(a)' = Share(a) /\ Share(a) \in Nat
  BY <1>1, <1>2, Shares DEF Share, Through
<1>5. HeldFor(a, Renew - 1 - sinceCommand + Poll + Share(a))
  BY <1>1, <1>2, <1>3 DEF HeldOf
<1>6. device[a.method].lease \in Int
  <2>1. a.method \in Motion
    BY DEF Lasting
  <2> QED
    BY <2>1 DEF IInv, TypeOK
<1>7. HeldFor(a, Poll + Share(a))
  BY <1>3, <1>4, <1>5, <1>6 DEF HeldFor
<1> QED
  BY <1>1, <1>3, <1>4, <1>5, <1>7 DEF HeldOf, HeldFor

(* A request that does not set a channel leaves it as it is.                 *)
LEMMA ReachSpares ==
  ASSUME IInv, pc = "post", Reach, NEW ch \in Motion, ~Sets(First(todo), ch)
  PROVE  device'[ch] = device[ch]
<1>1. device' = Obey(Awaited) /\ Awaited.method = First(todo).method /\ device \in DeviceType
  BY DEF Reach, Awaited, Body, IInv, TypeOK, DeviceType
<1>2. Awaited.method # ch /\ ~(Awaited.method = "stop" /\ ch = "drive")
  BY <1>1 DEF Sets
<1>3. CASE Awaited.method \in Motion
  <2>1. device' = [device EXCEPT ![Awaited.method] =
                     [value |-> Awaited.arg, lease |-> Awaited.lease]]
    BY <1>1, <1>3, ObeyCases
  <2> QED
    BY <1>1, <1>2, <2>1 DEF DeviceType
<1>4. CASE Awaited.method = "stop"
  <2>1. device' = [device EXCEPT !["drive"] = Idle] /\ ch # "drive"
    BY <1>1, <1>2, <1>4, ObeyCases
  <2> QED
    BY <1>1, <2>1 DEF DeviceType
<1>5. CASE Awaited.method \notin Motion /\ Awaited.method # "stop"
  BY <1>1, <1>5, ObeyCases
<1> QED
  BY <1>3, <1>4, <1>5

LEMMA HeldReached ==
  ASSUME Prompt, LeaseLasts, IInv, Undisturbed, Held, pc = "post", Reach
  PROVE  Held'
<1> SUFFICES ASSUME newest' # None, NEW a \in Lasting(newest') PROVE HeldOf(a)'
  BY DEF Held
<1> DEFINE f == First(todo)
<1>1. /\ UNCHANGED <<newest, pc, wait, renewing, todo, sinceCommand>>
      /\ wire = "sent" /\ wire' = "taken" /\ device' = Obey(Awaited)
  BY DEF Reach, clientVars
<1>2. /\ a \in Requests(newest) /\ a.method \in Motion /\ newest # None /\ HeldOf(a)
      /\ \A b \in Requests(newest) : b.priority > a.priority => ~Sets(b, a.method)
  BY <1>1 DEF Held, Lasting
<1>3. Share(a)' = Share(a) /\ Work' = Work /\ Left' = Left /\ Ahead(a)' = Ahead(a)
  BY <1>1 DEF Share, Through, Work, Left, Rest, Ahead
<1>4. f \in todo /\ f \in Requests(newest) /\ \A b \in Requests(newest) : b.priority \in Nat
  BY Posting
<1>5. CASE a = f
  <2>1. device'[a.method] = [value |-> a.arg, lease |-> Lease]
    <3>1. Awaited = Body(a)
      BY <1>5 DEF Awaited
    <3>2. Awaited.method = a.method /\ Awaited.arg = a.arg /\ Awaited.lease = Lease
      BY <3>1 DEF Body
    <3>3. device' = [device EXCEPT ![a.method] = [value |-> a.arg, lease |-> Lease]]
      BY <1>1, <1>2, <3>2, ObeyCases
    <3> QED
      BY <1>2, <3>3 DEF IInv, TypeOK
  <2>2. /\ Work \in Nat /\ Share(a) \in Nat
        /\ Work + Share(a) <= (MostRequests + 1) * Latency
    BY <1>2, <1>5, Fits, Shares
  <2>3. /\ Renew \in Nat /\ Poll \in Nat /\ Lease \in Nat /\ Renew > 0
        /\ (MostRequests + 1) * Latency \in Nat
        /\ Renew + Poll + (MostRequests + 1) * Latency <= Lease
    BY VehicleAssumption, Products DEF Prompt, LeaseLasts
  <2>4. sinceCommand \in Nat
    BY <2>3 DEF IInv, TypeOK
  <2>5. /\ Work + Poll + Share(a) < Lease
        /\ Work + Renew - 1 + Poll + Share(a) < Lease
        /\ Renew - 1 - sinceCommand + Poll + Share(a) < Lease
    BY <2>2, <2>3, <2>4
  <2>6. Commanded(a)'
    BY <1>1, <1>5 DEF Commanded
  <2>7. \A t : t < Lease => device'[a.method].value = a.arg /\ t < device'[a.method].lease
    BY <2>1
  <2> QED
    BY <1>1, <1>3, <2>5, <2>6, <2>7 DEF HeldOf, HeldFor
<1>6. CASE a # f
  <2>1. Commanded(a)' <=> Commanded(a)
    BY <1>1, <1>6 DEF Commanded
  <2>2. ASSUME Commanded(a) \/ ~Undoes(newest, a)
        PROVE  device'[a.method] = device[a.method]
    <3>1. ASSUME Commanded(a) PROVE ~Sets(f, a.method)
      <4>1. a \notin todo
        BY <1>6, <3>1 DEF Commanded
      <4>2. a.priority < f.priority
        BY <1>2, <1>4, <4>1 DEF Undisturbed
      <4> QED
        BY <1>2, <1>4, <4>2
    <3>2. ASSUME ~Undoes(newest, a) PROVE ~Sets(f, a.method)
      BY <1>4, <1>6, <3>2 DEF Undoes
    <3> QED
      BY <1>2, <2>2, <3>1, <3>2, ReachSpares
  <2> QED
    BY <1>1, <1>2, <1>3, <2>1, <2>2 DEF HeldOf, HeldFor
<1> QED
  BY <1>5, <1>6

LEMMA HeldAnswered ==
  ASSUME Prompt, LeaseLasts, IInv, Undisturbed, Held, Answered, pc' # "over"
  PROVE  Held'
<1> SUFFICES ASSUME newest' # None, NEW a \in Lasting(newest') PROVE HeldOf(a)'
  BY DEF Held
<1> DEFINE f == First(todo)
<1>1. /\ pc = "post" /\ wire = "taken" /\ todo' = Rest
      /\ UNCHANGED <<renewing, device, newest>>
      /\ sinceCommand' = IF renewing THEN sinceCommand ELSE 0
      /\ Rest = {} => pc' = "get" /\ wait' = Poll
      /\ Rest # {} => pc' = "post" /\ wait' = Timeout /\ wire' = "sent"
  BY Answers
<1>2. /\ a \in Requests(newest) /\ a.method \in Motion /\ newest # None /\ HeldOf(a)
  BY <1>1 DEF Held, Lasting
<1>3. Share(a)' = Share(a) /\ Share(a) \in Nat
  BY <1>1, <1>2, Shares DEF Share, Through
<1>4. /\ f \in todo /\ todo \subseteq Requests(newest)
      /\ IsFiniteSet(Rest) /\ Cardinality(Rest) \in Nat
      /\ \A b \in Requests(newest) : b.priority \in Nat
      /\ \A b \in Rest : f.priority < b.priority
  BY <1>1, Posting
<1>5. /\ Left \in Nat /\ Work \in Nat /\ Work = Left + Cardinality(Rest) * Latency
  BY <1>1, Fits
<1>6. /\ Renew \in Nat /\ Renew > 0 /\ Poll \in Nat /\ Latency \in Nat
      /\ sinceCommand \in 0 .. Renew /\ device[a.method].lease \in Nat
  BY <1>2, VehicleAssumption DEF LeaseLasts, IInv, TypeOK
<1>7. Commanded(a) <=> a \notin Rest
  BY <1>1, <1>4 DEF Commanded, Rest
<1>8. \A t \in Int, u \in Int : HeldFor(a, t) /\ u <= t => HeldFor(a, u)
  BY <1>1, <1>6 DEF HeldFor
<1>9. CASE Rest = {}
  <2>1. pc' = "get" /\ wait' = Poll /\ Commanded(a)
    BY <1>1, <1>7, <1>9
  <2>2. HeldFor(a, Work + Poll + Share(a))
    BY <1>1, <1>2, <2>1 DEF HeldOf
  <2>3. Poll + Share(a) <= Work + Poll + Share(a)
    BY <1>3, <1>5, <1>6
  <2>4. HeldFor(a, Poll + Share(a))
    BY <1>3, <1>5, <1>6, <1>8, <2>2, <2>3
  <2>5. ASSUME sinceCommand' < Renew
        PROVE  HeldFor(a, Renew - 1 - sinceCommand' + Poll + Share(a))
    <3>1. CASE renewing
      <4>1. sinceCommand' = sinceCommand
        BY <1>1, <3>1
      <4>2. HeldFor(a, Renew - 1 - sinceCommand + Poll + Share(a))
        BY <1>1, <1>2, <2>1, <2>5, <3>1, <4>1 DEF HeldOf
      <4> QED
        BY <1>1, <4>1, <4>2 DEF HeldFor
    <3>2. CASE ~renewing
      <4>1. sinceCommand' = 0
        BY <1>1, <3>2
      <4>2. HeldFor(a, Work + Renew - 1 + Poll + Share(a))
        BY <1>1, <1>2, <2>1, <3>2 DEF HeldOf
      <4>3. Renew - 1 - 0 + Poll + Share(a) <= Work + Renew - 1 + Poll + Share(a)
        BY <1>3, <1>5, <1>6
      <4>4. HeldFor(a, Renew - 1 - 0 + Poll + Share(a))
        BY <1>3, <1>5, <1>6, <1>8, <4>2, <4>3
      <4> QED
        BY <4>1, <4>4 DEF HeldFor
    <3> QED
      BY <3>1, <3>2
  <2> QED
    BY <1>1, <1>3, <2>1, <2>4, <2>5 DEF HeldOf, HeldFor
<1>10. CASE Rest # {}
  <2>1. pc' = "post" /\ wait' = Timeout /\ wire' = "sent" /\ todo' = Rest
    BY <1>1, <1>10
  <2>2. Commanded(a)' <=> Commanded(a)
    BY <1>7, <2>1 DEF Commanded
  <2>3. Left' = Latency
    BY <2>1, VehicleAssumption DEF Left
  <2>4. Work' \in Nat /\ Work' <= Work
    BY WorkLess
  <2>5. Commanded(a) => HeldFor(a, Work' + Poll + Share(a))
    <3>1. Work' + Poll + Share(a) <= Work + Poll + Share(a)
      BY <1>3, <1>5, <1>6, <2>4
    <3> QED
      BY <1>1, <1>2, <1>3, <1>5, <1>6, <1>8, <2>4, <3>1 DEF HeldOf
  <2>6. Commanded(a) /\ ~renewing => HeldFor(a, Work' + Renew - 1 + Poll + Share(a))
    <3>1. Work' + Renew - 1 + Poll + Share(a) <= Work + Renew - 1 + Poll + Share(a)
      BY <1>3, <1>5, <1>6, <2>4
    <3> QED
      BY <1>1, <1>2, <1>3, <1>5, <1>6, <1>8, <2>4, <3>1 DEF HeldOf
  <2>7. ASSUME Commanded(a), renewing, sinceCommand' < Renew
        PROVE  HeldFor(a, Renew - 1 - sinceCommand' + Poll + Share(a))
    <3>1. sinceCommand' = sinceCommand
      BY <1>1, <2>7
    <3>2. HeldFor(a, Renew - 1 - sinceCommand + Poll + Share(a))
      BY <1>1, <1>2, <2>7, <3>1 DEF HeldOf
    <3> QED
      BY <1>1, <3>1, <3>2 DEF HeldFor
  <2>8. ASSUME ~Commanded(a), renewing, ~Undoes(newest, a)
        PROVE  HeldFor(a, Left' + Cardinality(Ahead(a)') * Latency)
    <3> DEFINE n == Cardinality(Ahead(a)')
    <3>1. HeldFor(a, Left + Cardinality(Ahead(a)) * Latency)
      BY <1>1, <1>2, <2>8 DEF HeldOf
    <3>2. a \in Rest
      BY <1>7, <2>8
    <3>3. Ahead(a)' = Ahead(a) \ {f} /\ f \in Ahead(a)
      BY <1>4, <2>1, <3>2 DEF Ahead, Rest
    <3>4. IsFiniteSet(Ahead(a)) /\ Cardinality(Ahead(a)) \in Nat
      <4>1. IsFiniteSet(Requests(newest)) /\ Ahead(a) \subseteq Requests(newest)
        BY <1>1, <1>4, Posting DEF Ahead
      <4> QED
        BY <4>1, FS_Subset, FS_CardinalityType
    <3>5. n = Cardinality(Ahead(a)) - 1 /\ n \in Nat
      <4>1. IsFiniteSet(Ahead(a)') /\ n = Cardinality(Ahead(a)) - 1
        BY <3>3, <3>4, FS_RemoveElement
      <4> QED
        BY <4>1, FS_CardinalityType
    <3> HIDE DEF n
    <3>6. Cardinality(Ahead(a)) = n + 1
      BY <3>4, <3>5
    <3>7. (n + 1) * Latency = n * Latency + Latency /\ n * Latency \in Nat
      BY <3>5, Products
    <3>8. HeldFor(a, Latency + n * Latency)
      BY <1>5, <1>6, <1>8, <3>1, <3>6, <3>7
    <3> QED
      BY <2>3, <3>8 DEF n
  <2> QED
    BY <1>1, <1>3, <2>1, <2>2, <2>5, <2>6, <2>7, <2>8 DEF HeldOf, HeldFor
<1> QED
  BY <1>9, <1>10

LEMMA HeldTicked ==
  ASSUME Prompt, LeaseLasts, IInv, Undisturbed, Held, Tick, pc \in {"get", "post"}
  PROVE  Held'
<1> SUFFICES ASSUME newest' # None, NEW a \in Lasting(newest') PROVE HeldOf(a)'
  BY DEF Held
<1>1. /\ wait > 0 /\ wait' = wait - 1
      /\ pc = "post" => Timeout - wait < Latency
      /\ device' = [ch \in Motion |-> Watchdog(device[ch])]
      /\ sinceCommand' = UpTo(Renew, sinceCommand)
      /\ UNCHANGED <<pc, renewing, todo, wire, newest>>
  BY DEF Tick
<1>2. /\ a \in Requests(newest) /\ a.method \in Motion /\ newest # None /\ HeldOf(a)
  BY <1>1 DEF Held, Lasting
<1>3. /\ Share(a)' = Share(a) /\ Share(a) \in Nat /\ Ahead(a)' = Ahead(a)
      /\ Commanded(a)' <=> Commanded(a)
  BY <1>1, <1>2, Shares DEF Share, Through, Commanded, Ahead
<1>4. /\ Renew \in Nat /\ Renew > 0 /\ Poll \in Nat /\ Latency \in Nat /\ Timeout \in Nat
      /\ sinceCommand \in 0 .. Renew /\ wait \in Nat /\ device \in DeviceType
  BY VehicleAssumption DEF LeaseLasts, IInv, TypeOK, DeviceType
<1>5. ASSUME pc = "post"
      PROVE  /\ Left \in Nat /\ Left > 0 /\ Left' = Left - 1
             /\ Work \in Nat /\ Work > 0 /\ Work' = Work - 1
  BY <1>1, <1>5, WorkTicks
<1>6. ASSUME NEW t \in Nat, t > 0, HeldFor(a, t)
      PROVE  device'[a.method].value = a.arg /\ t - 1 < device'[a.method].lease
  BY <1>1, <1>2, <1>4, <1>6, HeldLess
<1>7. ASSUME sinceCommand' < Renew, HeldFor(a, Renew - 1 - sinceCommand + Poll + Share(a))
      PROVE  /\ device'[a.method].value = a.arg
             /\ Renew - 1 - sinceCommand' + Poll + Share(a) < device'[a.method].lease
  <2>1. sinceCommand' = sinceCommand + 1 /\ sinceCommand + 1 < Renew
    BY <1>1, <1>4, <1>7 DEF UpTo
  <2> DEFINE t == Renew - 1 - sinceCommand + Poll + Share(a)
  <2>2. t \in Nat /\ t > 0 /\ t - 1 = Renew - 1 - sinceCommand' + Poll + Share(a)
    BY <1>3, <1>4, <2>1
  <2>3. HeldFor(a, t)
    BY <1>7
  <2> HIDE DEF t
  <2> QED
    BY <1>6, <2>2, <2>3
<1>8. sinceCommand' < Renew => sinceCommand < Renew
  BY <1>1, <1>4 DEF UpTo
<1>9. CASE pc = "get"
  <2>1. HeldFor(a, wait + Share(a))
    BY <1>2, <1>9 DEF HeldOf
  <2>2. device'[a.method].value = a.arg /\ wait' + Share(a) < device'[a.method].lease
    <3> DEFINE t == wait + Share(a)
    <3>1. t \in Nat /\ t > 0 /\ t - 1 = wait' + Share(a)
      BY <1>1, <1>3, <1>4
    <3>2. HeldFor(a, t)
      BY <2>1
    <3> HIDE DEF t
    <3> QED
      BY <1>6, <3>1, <3>2
  <2>3. sinceCommand' < Renew => HeldFor(a, Renew - 1 - sinceCommand + Poll + Share(a))
    BY <1>2, <1>8, <1>9 DEF HeldOf
  <2> QED
    BY <1>1, <1>3, <1>7, <1>9, <2>2, <2>3 DEF HeldOf, HeldFor
<1>10. CASE pc = "post"
  <2>1. ASSUME Commanded(a)
        PROVE  device'[a.method].value = a.arg /\ Work' + Poll + Share(a) < device'[a.method].lease
    <3> DEFINE t == Work + Poll + Share(a)
    <3>1. t \in Nat /\ t > 0 /\ t - 1 = Work' + Poll + Share(a)
      BY <1>3, <1>4, <1>5, <1>10
    <3>2. HeldFor(a, t)
      BY <1>2, <1>10, <2>1 DEF HeldOf
    <3> HIDE DEF t
    <3> QED
      BY <1>6, <3>1, <3>2
  <2>2. ASSUME Commanded(a), ~renewing
        PROVE  /\ device'[a.method].value = a.arg
               /\ Work' + Renew - 1 + Poll + Share(a) < device'[a.method].lease
    <3> DEFINE t == Work + Renew - 1 + Poll + Share(a)
    <3>1. t \in Nat /\ t > 0 /\ t - 1 = Work' + Renew - 1 + Poll + Share(a)
      BY <1>3, <1>4, <1>5, <1>10
    <3>2. HeldFor(a, t)
      BY <1>2, <1>10, <2>2 DEF HeldOf
    <3> HIDE DEF t
    <3> QED
      BY <1>6, <3>1, <3>2
  <2>3. ASSUME Commanded(a), renewing, sinceCommand' < Renew
        PROVE  HeldFor(a, Renew - 1 - sinceCommand + Poll + Share(a))
    BY <1>2, <1>8, <1>10, <2>3 DEF HeldOf
  <2>4. ASSUME ~Commanded(a), renewing, ~Undoes(newest, a)
        PROVE  /\ device'[a.method].value = a.arg
               /\ Left' + Cardinality(Ahead(a)) * Latency < device'[a.method].lease
    <3> DEFINE n == Cardinality(Ahead(a)) * Latency
               t == Left + n
    <3>1. n \in Nat
      <4>1. IsFiniteSet(Requests(newest)) /\ Ahead(a) \subseteq Requests(newest)
        BY <1>10, Posting DEF Ahead
      <4>2. Cardinality(Ahead(a)) \in Nat
        BY <4>1, FS_Subset, FS_CardinalityType
      <4> QED
        BY <4>2, Products
    <3>2. HeldFor(a, t)
      BY <1>2, <1>10, <2>4 DEF HeldOf
    <3> HIDE DEF n
    <3>3. t \in Nat /\ t > 0 /\ t - 1 = Left' + n
      BY <1>5, <1>10, <3>1
    <3> HIDE DEF t
    <3>4. device'[a.method].value = a.arg /\ Left' + n < device'[a.method].lease
      BY <1>6, <3>2, <3>3
    <3> QED
      BY <3>4 DEF n
  <2> QED
    BY <1>1, <1>3, <1>7, <1>10, <2>1, <2>2, <2>3, <2>4 DEF HeldOf, HeldFor
<1> QED
  BY <1>9, <1>10

LEMMA HeldStep ==
  ASSUME Prompt, LeaseLasts, IInv, IInv', Undisturbed, Held, [Next]_vars
  PROVE  Held'
<1>1. CASE pc' = "over"
  BY <1>1 DEF Held, HeldOf
<1>2. CASE pc' # "over"
  BY <1>2, PromptSteps, HeldQuiet, HeldTaken, HeldRenewed, HeldPolled, HeldReached, HeldAnswered,
     HeldTicked
<1> QED
  BY <1>1, <1>2

(* While requests are answered promptly and the lease outlasts an interval,  *)
(* a poll and the requests of a renewal, no motion the plan leaves in force  *)
(* stalls: for every set of plans, however many commands of one channel they *)
(* hold, and every timing (_renew_if_due, _execute).                         *)
THEOREM MotionPersists == ASSUME Prompt, LeaseLasts PROVE Spec => []NoStall
<1>1. Init => Held
  BY DEF Init, Held
<1>2. IInv /\ IInv' /\ Undisturbed /\ Held /\ [Next]_vars => Held'
  BY HeldStep
<1>3. Held => NoStall
  <2> SUFFICES ASSUME Held, newest # None, NEW a \in Lasting(newest),
                      pc = "get" \/ (pc = "post" /\ renewing /\ ~Undoes(newest, a))
               PROVE  device[a.method].value = a.arg
    BY DEF NoStall
  <2>1. HeldOf(a)
    BY DEF Held
  <2> QED
    BY <2>1 DEF HeldOf, HeldFor
<1> QED
  BY <1>1, <1>2, <1>3, Invariance, UndisturbedInvariance, PTL DEF Spec

-----------------------------------------------------------------------------
LEMMA Elsewise ==
  ASSUME [Next]_vars, \A plan \in Plans : ~PlanArrives(plan), ~TakePlan
  PROVE  UNCHANGED <<queue, lastPut, newest>>
<1>1. CASE UNCHANGED vars
  BY <1>1 DEF vars, historyVars, callVars
<1>2. CASE IdlePoll
  BY <1>2 DEF IdlePoll, callVars
<1>3. CASE Reach \/ Stop \/ Crash \/ Tick
  BY <1>3 DEF Reach, Stop, Crash, Tick, historyVars, callVars
<1>4. CASE Answered \/ Rejected \/ SafetyStopEnds
  BY <1>4 DEF Answered, Rejected, SafetyStopEnds, NextAction, callVars
<1>5. CASE Failed \/ TimedOut
  BY <1>5 DEF Failed, TimedOut, Retry, NextAction, historyVars, callVars
<1>6. CASE BackoffEnds
  BY <1>6 DEF BackoffEnds, historyVars, callVars
<1>7. CASE \E body \in Bodies : LateArrives(body)
  BY <1>7 DEF LateArrives, callVars
<1> QED
  BY <1>1, <1>2, <1>3, <1>4, <1>5, <1>6, <1>7 DEF Next

LEMMA LastPutStep ==
  ASSUME IInv, LastPutIsLast, [Next]_vars
  PROVE  LastPutIsLast'
<1>1. queue \in Seq(Plans)
  BY DEF IInv, TypeOK
<1>2. ASSUME NEW plan \in Plans, PlanArrives(plan)
      PROVE  LastPutIsLast'
  <2>1. queue' = Append(queue, plan) /\ lastPut' = plan
    BY <1>2 DEF PlanArrives
  <2>2. Len(queue') = Len(queue) + 1 /\ queue'[Len(queue) + 1] = plan /\ queue' # <<>>
    BY <1>1, <2>1, AppendProperties
  <2> QED
    BY <2>1, <2>2 DEF LastPutIsLast
<1>3. CASE TakePlan
  <2>1. /\ queue # <<>> /\ queue' = Tail(queue) /\ newest' = Head(queue) /\ lastPut' = lastPut
    BY <1>3 DEF TakePlan, callVars
  <2>2. /\ Len(queue') = Len(queue) - 1 /\ Len(queue) \in Nat /\ Len(queue) >= 1
        /\ \A i \in 1 .. Len(queue') : queue'[i] = queue[i + 1]
        /\ queue' \in Seq(Plans) /\ Head(queue) = queue[1]
    BY <1>1, <2>1, HeadTailProperties, LenProperties, EmptySeq
  <2>3. queue[Len(queue)] = lastPut
    BY <2>1 DEF LastPutIsLast
  <2>4. CASE queue' = <<>>
    BY <2>1, <2>2, <2>3, <2>4 DEF LastPutIsLast
  <2>5. CASE queue' # <<>>
    <3>1. Len(queue') \in 1 .. Len(queue') /\ Len(queue') + 1 = Len(queue)
      BY <2>2, <2>5, EmptySeq, LenProperties
    <3>2. queue'[Len(queue')] = queue[Len(queue)]
      BY <2>2, <3>1
    <3> QED
      BY <2>1, <2>3, <2>5, <3>2 DEF LastPutIsLast
  <2> QED
    BY <2>4, <2>5
<1>4. CASE ~TakePlan /\ \A plan \in Plans : ~PlanArrives(plan)
  BY <1>4, Elsewise DEF LastPutIsLast
<1> QED
  BY <1>2, <1>3, <1>4

(* The channels a request has set.                                           *)
LEMMA SettledStep ==
  ASSUME Prompt, IInv, IInv', Undisturbed, Settled, [Next]_vars
  PROVE  Settled'
<1> SUFFICES ASSUME pc' # "over", newest' # None,
                    NEW a \in Requests(newest'), NEW ch \in Motion,
                    renewing' \/ Commanded(a)', Sets(a, ch)
             PROVE  device'[ch].value \in Asked(newest', ch) \cup {None}
  BY DEF Settled
<1>1. pc \in {"get", "post"}
  BY PromptSteps
<1>2. device \in DeviceType
  BY DEF IInv, TypeOK, DeviceType
<1>3. CASE Quiet
  <2>1. /\ UNCHANGED <<newest, renewing, todo, wire, device>>
    BY <1>3 DEF Quiet, clientVars, historyVars
  <2> QED
    BY <1>1, <2>1 DEF Settled, Commanded
<1>4. CASE TakePlan
  <2>1. todo' = Requests(newest') /\ (todo' # {} => wire' = "sent") /\ ~renewing'
    BY <1>4, Begins DEF TakePlan
  <2> QED
    BY <2>1 DEF Commanded
<1>5. CASE IdlePoll
  <2>1. UNCHANGED <<newest, device>> /\ pc = "get"
    BY <1>5 DEF IdlePoll
  <2>2. todo = {}
    BY <2>1 DEF IInv, TypeOK
  <2>3. Commanded(a)
    BY <2>2 DEF Commanded
  <2> QED
    BY <1>1, <2>1, <2>3 DEF Settled
<1>6. CASE pc = "post" /\ Reach
  <2>1. UNCHANGED <<newest, renewing, todo>> /\ wire = "sent" /\ device' = Obey(Awaited)
    BY <1>6 DEF Reach, clientVars
  <2>2. CASE ~Sets(First(todo), ch)
    <3>1. a # First(todo) /\ device'[ch] = device[ch]
      BY <1>6, <2>2, ReachSpares
    <3>2. renewing \/ Commanded(a)
      BY <2>1, <3>1 DEF Commanded
    <3> QED
      BY <1>1, <2>1, <3>1, <3>2 DEF Settled
  <2>3. CASE Sets(First(todo), ch)
    <3>1. Awaited.method = First(todo).method /\ Awaited.arg \in Asked(newest, Awaited.method)
      BY <1>6, AwaitedBody DEF Awaited, Body
    <3>2. CASE Awaited.method = ch
      <4>1. device' = [device EXCEPT ![ch] = [value |-> Awaited.arg, lease |-> Awaited.lease]]
        BY <2>1, <3>2, ObeyCases
      <4>2. device'[ch].value = Awaited.arg
        BY <1>2, <4>1 DEF DeviceType
      <4> QED
        BY <2>1, <3>1, <3>2, <4>2
    <3>3. CASE Awaited.method = "stop" /\ ch = "drive"
      <4>1. device' = [device EXCEPT !["drive"] = Idle]
        BY <2>1, <3>3, ObeyCases
      <4>2. device'[ch].value = None
        BY <1>2, <3>3, <4>1 DEF DeviceType, Idle
      <4> QED
        BY <4>2
    <3> QED
      BY <2>3, <3>1, <3>2, <3>3 DEF Sets
  <2> QED
    BY <2>2, <2>3
<1>7. CASE Answered
  <2>1. /\ pc = "post" /\ wire = "taken" /\ todo' = Rest /\ UNCHANGED <<renewing, device, newest>>
        /\ Rest # {} => wire' = "sent"
    BY <1>7, Answers
  <2>2. Commanded(a)' => a \notin Rest
    BY <2>1 DEF Commanded
  <2>3. a \notin Rest => Commanded(a)
    BY <2>1 DEF Commanded, Rest
  <2> QED
    BY <1>1, <2>1, <2>2, <2>3 DEF Settled
<1>8. CASE Tick
  <2>1. /\ UNCHANGED <<newest, renewing, todo, wire>> /\ device'[ch] = Watchdog(device[ch])
    BY <1>8 DEF Tick
  <2>2. device'[ch].value \in {device[ch].value, None}
    BY <1>2, <2>1, WatchdogCases DEF DeviceType, Idle
  <2>3. renewing \/ Commanded(a)
    BY <2>1 DEF Commanded
  <2> QED
    BY <1>1, <2>1, <2>2, <2>3 DEF Settled
<1> QED
  BY <1>3, <1>4, <1>5, <1>6, <1>7, <1>8, PromptSteps

(* The time of the plans that are queued.                                    *)
LEMMA Backlogs ==
  ASSUME Prompt, IInv
  PROVE  /\ MostRequests * Latency \in Nat /\ Backlog \in Nat
         /\ Len(queue) * (MostRequests * Latency) \in Nat
         /\ Len(queue) * (MostRequests * Latency) + MostRequests * Latency <= Backlog
         /\ Len(queue) \in Nat
<1>1. /\ MostRequests * Latency \in Nat /\ Len(queue) \in Nat /\ Capacity \in Nat
      /\ Len(queue) <= Capacity
  BY Products, LenProperties, VehicleAssumption DEF Prompt, IInv, TypeOK
<1> DEFINE d == MostRequests * Latency
           n == Len(queue)
<1>2. Backlog = (Capacity + 1) * d
  BY DEF Backlog
<1> HIDE DEF d, n
<1>3. d \in Nat /\ n \in Nat /\ n <= Capacity
  BY <1>1 DEF d, n
<1>4. \A x, y \in Nat : x * d \in Nat /\ (x + y) * d = x * d + y * d /\ 1 * d = d
  BY <1>3
<1>5. PICK m \in Nat : Capacity = n + m
  <2>1. Capacity - n \in Nat /\ Capacity = n + (Capacity - n)
    BY <1>1, <1>3
  <2> QED
    BY <2>1
<1>6. (Capacity + 1) * d = n * d + m * d + d
  BY <1>1, <1>3, <1>4, <1>5
<1>7. n * d \in Nat /\ m * d \in Nat
  BY <1>3, <1>4
<1>8. Backlog \in Nat /\ n * d \in Nat /\ n * d + d <= Backlog
  BY <1>2, <1>3, <1>6, <1>7
<1> QED
  BY <1>1, <1>8 DEF d, n

(* An execution that begins takes no longer than one of most requests.       *)
LEMMA BeginsFit ==
  ASSUME Prompt, TakePlan \/ (IdlePoll /\ RenewalDue), IInv, IInv', Undisturbed', pc' # "over"
  PROVE  Work' \in Nat /\ Work' <= MostRequests * Latency
<1>1. MostRequests * Latency \in Nat
  BY Products DEF Prompt
<1>2. pc' \in {"get", "post"}
  BY DEF Undisturbed
<1>3. CASE pc' = "get"
  BY <1>1, <1>3 DEF Work
<1>4. CASE pc' = "post"
  <2> DEFINE S == Requests(newest')
             n == Cardinality(S \ {First(S)})
  <2>1. newest' \in Plans /\ S # {} /\ todo' = S /\ wait' = Timeout
    BY <1>4, Begins DEF IInv, TypeOK, UnderWay, Busy
  <2>2. IsFiniteSet(S) /\ First(S) \in S
    BY <2>1, SomeRequests
  <2>3. Cardinality(S) \in Nat /\ Cardinality(S) <= MostRequests
    BY <2>1, <2>2, FS_CardinalityType DEF Prompt
  <2>4. n = Cardinality(S) - 1 /\ n \in Nat
    <3>1. n = Cardinality(S) - 1 /\ IsFiniteSet(S \ {First(S)})
      BY <2>2, FS_RemoveElement
    <3> QED
      BY <3>1, FS_CardinalityType
  <2>5. Work' = Latency + n * Latency
    BY <1>4, <2>1, VehicleAssumption DEF Work, Left, Rest
  <2> HIDE DEF n, S
  <2>6. /\ (n + 1) * Latency = n * Latency + Latency /\ n * Latency \in Nat
        /\ n + 1 \in Nat /\ n + 1 <= MostRequests
    <3>1. n + 1 = Cardinality(S) /\ n + 1 \in Nat
      BY <2>3, <2>4
    <3>2. (n + 1) * Latency = n * Latency + Latency /\ n * Latency \in Nat
      BY <2>4, Products
    <3> QED
      BY <2>3, <3>1, <3>2
  <2>7. (n + 1) * Latency <= MostRequests * Latency
    BY <2>6, Products DEF Prompt
  <2> QED
    BY <1>1, <2>5, <2>6, <2>7, VehicleAssumption
<1> QED
  BY <1>2, <1>3, <1>4

LEMMA OnTimeStep ==
  ASSUME Prompt, IInv, IInv', Undisturbed, Undisturbed', LastPutIsLast, OnTime, [Next]_vars
  PROVE  OnTime'
<1> SUFFICES ASSUME pc' # "over", lastPut' # None
             PROVE  OnTime'
  BY DEF OnTime
<1> DEFINE d == MostRequests * Latency
<1>1. /\ pc \in {"get", "post"} /\ pc' \in {"get", "post"}
      /\ Poll \in Nat /\ Poll > 0 /\ Lease \in Nat /\ Watch \in Nat
      /\ sincePut \in Nat /\ sinceTaken \in 0 .. Lease /\ wait \in Nat
      /\ queue \in Seq(Plans)
  <2>1. pc \in {"get", "post"} /\ pc' \in {"get", "post"}
    BY PromptSteps DEF Undisturbed
  <2>2. Poll \in Nat /\ Poll > 0 /\ Lease \in Nat /\ Watch \in Nat
    BY VehicleAssumption DEF Prompt
  <2> QED
    BY <2>1, <2>2 DEF IInv, TypeOK
<1>2. /\ d \in Nat /\ Backlog \in Nat /\ Len(queue) \in Nat
      /\ Len(queue) * d \in Nat /\ Len(queue) * d + d <= Backlog
  BY Backlogs
<1>3. Work \in Nat /\ Work <= d /\ (pc = "get" => Work = 0)
  <2>1. CASE pc = "get"
    BY <1>2, <2>1 DEF Work
  <2>2. CASE pc = "post"
    BY <2>2, Fits
  <2> QED
    BY <1>1, <2>1, <2>2
<1> HIDE DEF d
<1>4. CASE Quiet /\ UNCHANGED <<queue, lastPut, sincePut>>
  <2>1. UNCHANGED <<pc, wait, renewing, todo, sinceTaken, queue, lastPut, sincePut>>
    BY <1>4 DEF Quiet, clientVars, historyVars
  <2>2. Work' = Work
    BY <2>1 DEF Work, Left, Rest
  <2> QED
    BY <2>1, <2>2 DEF OnTime
<1>5. CASE Quiet /\ \E plan \in Plans : PlanArrives(plan)
  <2>1. UNCHANGED <<pc, wait, todo>> /\ sincePut' = 0
    BY <1>5 DEF Quiet, PlanArrives, clientVars
  <2>2. Work' = Work
    BY <2>1 DEF Work, Left, Rest
  <2>3. queue' # <<>>
    <3>1. PICK plan \in Plans : queue' = Append(queue, plan)
      BY <1>5 DEF PlanArrives
    <3> QED
      BY <1>1, <3>1, AppendProperties
  <2>4. Len(queue') * d + d <= Backlog /\ Len(queue') * d \in Nat
    <3>1. Len(queue') \in Nat /\ Len(queue') <= Capacity /\ Capacity \in Nat
      BY LenProperties, VehicleAssumption DEF IInv, TypeOK
    <3>2. PICK m \in Nat : Capacity = Len(queue') + m
      <4>1. Capacity - Len(queue') \in Nat /\ Capacity = Len(queue') + (Capacity - Len(queue'))
        BY <3>1
      <4> QED
        BY <4>1
    <3> DEFINE n == Len(queue')
    <3>3. n \in Nat /\ Capacity = n + m
      BY <3>1, <3>2
    <3> HIDE DEF n
    <3>4. \A x, y \in Nat : x * d \in Nat /\ (x + y) * d = x * d + y * d /\ 1 * d = d
      BY <1>2
    <3>5. (Capacity + 1) * d = n * d + m * d + d
      BY <3>1, <3>3, <3>4
    <3>6. Backlog = (Capacity + 1) * d
      BY DEF Backlog, d
    <3>7. n * d + d <= Backlog /\ n * d \in Nat
      BY <1>2, <3>3, <3>4, <3>5, <3>6
    <3> QED
      BY <3>7 DEF n
  <2>5. sincePut' + Len(queue') * d + Work' <= Backlog
    BY <1>2, <1>3, <2>1, <2>2, <2>4
  <2> QED
    BY <2>1, <2>3, <2>5 DEF OnTime, d
<1>6. CASE TakePlan
  <2>1. /\ queue # <<>> /\ queue' = Tail(queue) /\ pc = "get" /\ sinceTaken' = 0
        /\ UNCHANGED <<lastPut, sincePut>>
    BY <1>6 DEF TakePlan, callVars
  <2>2. sincePut + Len(queue) * d + Work <= Backlog
    BY <2>1 DEF OnTime, d
  <2>3. Work' \in Nat /\ Work' <= d
    BY <1>6, BeginsFit DEF d
  <2>4. Len(queue) * d = Len(queue') * d + d /\ Len(queue') * d \in Nat
    <3>1. Len(queue) = Len(queue') + 1 /\ Len(queue') \in Nat
      <4>1. Len(queue') = Len(queue) - 1 /\ Len(queue') \in Nat
        BY <1>1, <2>1, HeadTailProperties, LenProperties
      <4> QED
        BY <1>2, <4>1
    <3> DEFINE n == Len(queue')
    <3>2. n \in Nat /\ Len(queue) = n + 1
      BY <3>1
    <3> HIDE DEF n
    <3>3. (n + 1) * d = n * d + d /\ n * d \in Nat
      BY <1>2, <3>2
    <3> QED
      BY <3>2, <3>3 DEF n
  <2>5. sincePut' + Len(queue') * d + Work' <= Backlog
    BY <1>1, <1>2, <1>3, <2>1, <2>2, <2>3, <2>4
  <2>6. sincePut' <= Backlog + sinceTaken'
    BY <1>1, <1>2, <1>3, <2>1, <2>2
  <2>7. pc' = "get" => wait' > 0
    BY <1>1, <1>6, Begins
  <2> QED
    BY <2>5, <2>6, <2>7 DEF OnTime, d
<1>7. CASE IdlePoll
  <2>1. /\ UNCHANGED <<queue, lastPut, sincePut, sinceTaken>> /\ pc = "get" /\ wait = 0
    BY <1>7 DEF IdlePoll, callVars
  <2>2. queue # <<>> => sincePut = 0
    BY <1>1, <2>1 DEF OnTime
  <2>3. queue = <<>> /\ sinceTaken < Lease => sincePut <= Backlog + sinceTaken
    BY <1>1, <2>1 DEF OnTime
  <2>4. pc' = "get" => wait' > 0
    <3>1. CASE RenewalDue
      BY <1>1, <1>7, <3>1, Begins
    <3>2. CASE ~RenewalDue
      BY <1>1, <1>7, <3>2 DEF IdlePoll, NextTurn
    <3> QED
      BY <3>1, <3>2
  <2>5. Work' \in Nat /\ Work' <= d /\ (pc' = "post" => renewing')
    <3>1. CASE RenewalDue
      BY <1>7, <3>1, BeginsFit DEF IdlePoll, d
    <3>2. CASE ~RenewalDue
      <4>1. pc' = "get"
        BY <1>7, <3>2 DEF IdlePoll, NextTurn
      <4> QED
        BY <1>2, <4>1 DEF Work
    <3> QED
      BY <3>1, <3>2
  <2>6. queue # <<>> => sincePut' + Len(queue') * d + Work' <= Backlog
    BY <1>2, <2>1, <2>2, <2>5
  <2> QED
    BY <2>1, <2>3, <2>4, <2>5, <2>6 DEF OnTime, d
<1>8. CASE pc = "post" /\ Reach
  <2>1. UNCHANGED <<pc, wait, renewing, todo, sinceTaken, queue, lastPut, sincePut>>
    BY <1>8 DEF Reach, clientVars, callVars
  <2>2. Work' = Work
    BY <2>1 DEF Work, Left, Rest
  <2> QED
    BY <2>1, <2>2 DEF OnTime
<1>9. CASE Answered
  <2>1. /\ pc = "post" /\ UNCHANGED <<queue, renewing, sinceTaken, lastPut, sincePut>>
        /\ pc' = "get" => wait' = Poll
    BY <1>9, Answers DEF callVars
  <2>2. Work' \in Nat /\ Work' <= Work
    BY <1>9, WorkLess
  <2>3. pc' = "post" /\ ~renewing' => pc = "post" /\ ~renewing
    BY <2>1
  <2>4. sincePut + Len(queue) * d + Work <= Backlog =>
          sincePut' + Len(queue') * d + Work' <= Backlog
    BY <1>1, <1>2, <1>3, <2>1, <2>2
  <2> QED
    BY <1>1, <2>1, <2>3, <2>4 DEF OnTime, d
<1>10. CASE Tick
  <2>1. /\ UNCHANGED <<pc, renewing, queue, lastPut, todo>>
        /\ wait > 0 /\ wait' = wait - 1
        /\ pc = "get" => queue = <<>>
        /\ pc = "post" => Timeout - wait < Latency
        /\ sinceTaken' = UpTo(Lease, sinceTaken) /\ sincePut' = UpTo(Watch, sincePut)
    BY <1>1, <1>10 DEF Tick
  <2>2. sincePut' \in Nat /\ sincePut' <= sincePut + 1
    BY <1>1, <2>1 DEF UpTo
  <2>3. sinceTaken' < Lease => sinceTaken < Lease /\ sinceTaken' = sinceTaken + 1
    BY <1>1, <2>1 DEF UpTo
  <2>4. pc = "post" => Work' = Work - 1
    BY <2>1, WorkTicks
  <2>5. pc = "post" /\ sincePut + Len(queue) * d + Work <= Backlog =>
          sincePut' + Len(queue') * d + Work' <= Backlog
    BY <1>1, <1>2, <1>3, <2>1, <2>2, <2>4
  <2>6. queue = <<>> /\ sinceTaken' < Lease => sincePut' <= Backlog + sinceTaken'
    BY <1>1, <1>2, <2>1, <2>2, <2>3 DEF OnTime
  <2> QED
    BY <1>1, <2>1, <2>5, <2>6 DEF OnTime, d
<1> QED
  BY <1>4, <1>5, <1>6, <1>7, <1>8, <1>9, <1>10, PromptSteps DEF Called

LEMMA OnTimeInvariance ==
  ASSUME Prompt
  PROVE  Spec => [](LastPutIsLast /\ OnTime /\ Settled)
<1>1. Init => LastPutIsLast /\ OnTime /\ Settled
  BY DEF Init, LastPutIsLast, OnTime, Settled
<1>2. IInv /\ LastPutIsLast /\ [Next]_vars => LastPutIsLast'
  BY LastPutStep
<1>3. IInv /\ IInv' /\ Undisturbed /\ Undisturbed' /\ LastPutIsLast /\ OnTime /\ [Next]_vars => OnTime'
  BY OnTimeStep
<1>4. IInv /\ IInv' /\ Undisturbed /\ Settled /\ [Next]_vars => Settled'
  BY SettledStep
<1> QED
  BY <1>1, <1>2, <1>3, <1>4, Invariance, UndisturbedInvariance, PTL DEF Spec

(* While requests are answered promptly, motion the planner's last plan does *)
(* not ask for is over once a full queue and one execution are through, and  *)
(* on a channel that plan leaves alone a lease later: for every set of       *)
(* plans, every queue and every timing (run, _renew_if_due, the TTL).        *)
THEOREM BacklogClears == ASSUME Prompt PROVE Spec => []ReactsInTime
<1>1. IInv /\ Undisturbed /\ LastPutIsLast /\ OnTime /\ Settled => ReactsInTime
  <2> SUFFICES ASSUME IInv, Undisturbed, LastPutIsLast, OnTime, Settled, NEW ch \in Motion,
                      lastPut # None, pc # "over", Live(ch),
                      device[ch].value \notin Asked(lastPut, ch)
               PROVE  sincePut <= IF \E a \in Requests(lastPut) : Sets(a, ch)
                                  THEN Backlog ELSE Backlog + Lease
    BY DEF ReactsInTime
  <2>1. /\ Lease \in Nat /\ Backlog \in Nat /\ sincePut \in Nat /\ sinceTaken \in 0 .. Lease
        /\ device[ch].lease \in Nat /\ device[ch].lease > 0
        /\ pc \in {"get", "post"} /\ ~disturbed
    BY Backlogs, VehicleAssumption DEF IInv, TypeOK, Undisturbed
  <2>2. CASE queue # <<>> \/ (pc = "post" /\ ~renewing)
    <3>1. sincePut + Len(queue) * (MostRequests * Latency) + Work <= Backlog
      BY <2>2 DEF OnTime
    <3>2. Work \in Nat
      <4>1. CASE pc = "get"
        BY <4>1 DEF Work
      <4>2. CASE pc = "post"
        BY <4>2, Fits
      <4> QED
        BY <2>1, <4>1, <4>2
    <3>3. Len(queue) * (MostRequests * Latency) \in Nat
      BY Backlogs
    <3>4. sincePut <= Backlog /\ sincePut <= Backlog + Lease
      BY <2>1, <3>1, <3>2, <3>3
    <3> QED
      BY <3>4
  <2>3. CASE queue = <<>> /\ (pc = "get" \/ renewing)
    <3>1. newest = lastPut /\ newest # None
      BY <2>3 DEF LastPutIsLast
    <3>2. ASSUME NEW a \in Requests(newest), Sets(a, ch)
          PROVE  FALSE
      <4>1. renewing \/ Commanded(a)
        BY <2>3 DEF IInv, TypeOK, Commanded
      <4>2. device[ch].value \in Asked(newest, ch) \cup {None}
        BY <3>1, <3>2, <4>1 DEF Settled
      <4> QED
        BY <3>1, <4>2 DEF Live
    <3>3. sinceTaken + device[ch].lease <= Lease
      BY <2>1, <3>1 DEF IInv, StaleMotionLapses
    <3>4. sincePut <= Backlog + sinceTaken /\ sinceTaken < Lease
      BY <2>1, <2>3, <3>3 DEF OnTime
    <3>5. sincePut <= Backlog + Lease
      BY <2>1, <3>4
    <3> QED
      BY <3>1, <3>2, <3>5
  <2> QED
    BY <2>1, <2>2, <2>3
<1> QED
  BY <1>1, Invariance, UndisturbedInvariance, OnTimeInvariance, PTL
=============================================================================
