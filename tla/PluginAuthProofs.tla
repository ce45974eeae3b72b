-------------------------- MODULE PluginAuthProofs --------------------------
(***************************************************************************)
(* Proofs about the two sides of plugin_auth.py: TokenAuth, for every set  *)
(* of tasks and every number of tokens, and Deploy, for every set of       *)
(* deployers, every number of deployments and every number of tries.       *)
(***************************************************************************)
EXTENDS TokenAuth, Deploy, SequenceTheorems, TLAPS

Items(queue) == {queue[i] : i \in DOMAIN queue}

Distinct(queue) == \A i, j \in DOMAIN queue : queue[i] = queue[j] => i = j

(* The queue holds each waiting task once.                                   *)
QueueOK == Distinct(waiters) /\ \A w \in Items(waiters) : pc[w] = "queued"

(* A task that refreshes has a token that was rejected, or none; the one in  *)
(* the lock has the shared token, and a granted token is newer.              *)
RefreshOK ==
  /\ \A c \in Callers :
       /\ seen[c] <= token
       /\ pc[c] \in {"queued", "acquiring", "granted"} => seen[c] = NoToken \/ seen[c] \in expired
       /\ pc[c] = "granted" => token < issued
  /\ holder # None => token = seen[holder]

(* Inductive: what the two properties rest on.                               *)
IInv == TypeOK /\ QueueOK /\ RefreshOK

-----------------------------------------------------------------------------
(* What the queue's three operations do to its tasks.                        *)
LEMMA AppendKeepsQueue ==
  ASSUME NEW q \in Seq(Callers), NEW c \in Callers, Distinct(q), c \notin Items(q)
  PROVE  /\ Append(q, c) \in Seq(Callers)
         /\ Distinct(Append(q, c))
         /\ Items(Append(q, c)) = Items(q) \cup {c}
<1> DEFINE a == Append(q, c)
<1>1. /\ a \in Seq(Callers) /\ Len(a) = Len(q) + 1 /\ Len(q) \in Nat
      /\ \A i \in 1 .. Len(q) : a[i] = q[i]
      /\ a[Len(q) + 1] = c
  BY AppendProperties, LenProperties
<1>2. DOMAIN a = 1 .. Len(q) + 1 /\ DOMAIN q = 1 .. Len(q)
  BY <1>1, LenProperties
<1> HIDE DEF a
<1>3. Distinct(a)
  BY <1>1, <1>2 DEF Distinct, Items
<1>4. Items(a) = Items(q) \cup {c}
  BY <1>1, <1>2 DEF Items
<1> QED
  BY <1>1, <1>3, <1>4 DEF a

LEMMA TailKeepsQueue ==
  ASSUME NEW q \in Seq(Callers), q # <<>>, Distinct(q)
  PROVE  /\ Tail(q) \in Seq(Callers)
         /\ Distinct(Tail(q))
         /\ Head(q) \in Items(q)
         /\ Items(Tail(q)) \subseteq Items(q) \ {Head(q)}
<1> DEFINE t == Tail(q)
<1>1. /\ t \in Seq(Callers) /\ Len(t) = Len(q) - 1 /\ Len(q) \in Nat \ {0}
      /\ \A i \in 1 .. Len(t) : t[i] = q[i + 1]
      /\ Head(q) = q[1]
  BY HeadTailProperties, LenProperties, EmptySeq
<1>2. DOMAIN t = 1 .. Len(q) - 1 /\ DOMAIN q = 1 .. Len(q)
  BY <1>1, LenProperties
<1> HIDE DEF t
<1>3. Distinct(t)
  <2> SUFFICES ASSUME NEW i \in DOMAIN t, NEW j \in DOMAIN t, t[i] = t[j]
               PROVE  i = j
    BY DEF Distinct
  <2>1. i + 1 \in DOMAIN q /\ j + 1 \in DOMAIN q /\ q[i + 1] = q[j + 1]
    BY <1>1, <1>2
  <2>2. i + 1 = j + 1
    BY <2>1 DEF Distinct
  <2> QED
    BY <1>1, <1>2, <2>2
<1>4. Head(q) \in Items(q)
  BY <1>1, <1>2 DEF Items
<1>5. Items(t) \subseteq Items(q) \ {Head(q)}
  <2> SUFFICES ASSUME NEW i \in DOMAIN t
               PROVE  t[i] \in Items(q) /\ t[i] # Head(q)
    BY DEF Items
  <2>1. i + 1 \in DOMAIN q /\ 1 \in DOMAIN q /\ t[i] = q[i + 1]
    BY <1>1, <1>2
  <2> QED
    BY <1>1, <1>2, <2>1 DEF Distinct, Items
<1> QED
  BY <1>1, <1>3, <1>4, <1>5 DEF t

LEMMA WithoutKeepsQueue ==
  ASSUME NEW q \in Seq(Callers), NEW c \in Callers, Distinct(q)
  PROVE  /\ Without(q, c) \in Seq(Callers)
         /\ Distinct(Without(q, c))
         /\ Items(Without(q, c)) \subseteq Items(q) \ {c}
<1>1. DOMAIN q = 1 .. Len(q) /\ Len(q) \in Nat /\ \A i \in 1 .. Len(q) : q[i] \in Callers
  BY LenProperties, ElementOfSeq
<1>2. CASE \E i \in DOMAIN q : q[i] = c
  <2> DEFINE p == CHOOSE i \in DOMAIN q : q[i] = c
             l == SubSeq(q, 1, p - 1)
             r == SubSeq(q, p + 1, Len(q))
  <2>1. p \in 1 .. Len(q) /\ q[p] = c /\ Without(q, c) = l \o r
    BY <1>1, <1>2 DEF Without
  <2> HIDE DEF p
  <2>2. /\ l \in Seq(Callers) /\ Len(l) = p - 1
        /\ \A i \in 1 .. p - 1 : l[i] = q[i]
    <3>1. /\ SubSeq(q, 1, p - 1) \in Seq(Callers)
          /\ Len(SubSeq(q, 1, p - 1)) = IF 1 <= p - 1 THEN (p - 1) - 1 + 1 ELSE 0
          /\ \A i \in 1 .. (p - 1) - 1 + 1 : SubSeq(q, 1, p - 1)[i] = q[1 + i - 1]
      BY <1>1, <2>1, SubSeqProperties
    <3> QED
      BY <2>1, <3>1
  <2>3. /\ r \in Seq(Callers) /\ Len(r) = Len(q) - p
        /\ \A i \in 1 .. Len(q) - p : r[i] = q[p + i]
    <3>1. /\ SubSeq(q, p + 1, Len(q)) \in Seq(Callers)
          /\ Len(SubSeq(q, p + 1, Len(q))) = IF p + 1 <= Len(q) THEN Len(q) - (p + 1) + 1 ELSE 0
          /\ \A i \in 1 .. Len(q) - (p + 1) + 1 : SubSeq(q, p + 1, Len(q))[i] = q[(p + 1) + i - 1]
      BY <1>1, <2>1, SubSeqProperties
    <3> QED
      BY <1>1, <2>1, <3>1
  <2> HIDE DEF l, r
  <2> DEFINE w == l \o r
  <2>4. /\ w \in Seq(Callers) /\ DOMAIN w = 1 .. Len(q) - 1
        /\ \A i \in 1 .. Len(q) - 1 : w[i] = IF i <= p - 1 THEN q[i] ELSE q[i + 1]
    <3>1. /\ w \in Seq(Callers) /\ Len(w) = Len(l) + Len(r)
          /\ \A i \in 1 .. Len(l) + Len(r) : w[i] = IF i <= Len(l) THEN l[i] ELSE r[i - Len(l)]
      BY <2>2, <2>3, ConcatProperties
    <3>2. DOMAIN w = 1 .. Len(w)
      BY <3>1, LenProperties
    <3> HIDE DEF w
    <3>3. ASSUME NEW i \in 1 .. Len(q) - 1
          PROVE  w[i] = IF i <= p - 1 THEN q[i] ELSE q[i + 1]
      <4>1. CASE i <= p - 1
        <5>1. i \in 1 .. p - 1 /\ i \in 1 .. Len(l) + Len(r) /\ i <= Len(l)
          BY <1>1, <2>1, <2>2, <2>3, <4>1
        <5>2. w[i] = l[i]
          BY <3>1, <5>1
        <5> QED
          BY <2>2, <4>1, <5>1, <5>2
      <4>2. CASE ~(i <= p - 1)
        <5>1. i - (p - 1) \in 1 .. Len(q) - p /\ p + (i - (p - 1)) = i + 1
          BY <1>1, <2>1, <4>2
        <5>2. i \in 1 .. Len(l) + Len(r) /\ ~(i <= Len(l)) /\ Len(l) = p - 1
          BY <1>1, <2>1, <2>2, <2>3, <4>2
        <5>3. w[i] = r[i - (p - 1)]
          BY <3>1, <5>2
        <5>4. r[i - (p - 1)] = q[p + (i - (p - 1))]
          BY <2>3, <5>1
        <5> QED
          BY <4>2, <5>1, <5>3, <5>4
      <4> QED
        BY <4>1, <4>2
    <3> QED
      BY <1>1, <2>1, <2>2, <2>3, <3>1, <3>2, <3>3
  <2> HIDE DEF w
  <2>5. Distinct(w)
    <3> SUFFICES ASSUME NEW i \in DOMAIN w, NEW j \in DOMAIN w, w[i] = w[j]
                 PROVE  i = j
      BY DEF Distinct
    <3> DEFINE position(k) == IF k <= p - 1 THEN k ELSE k + 1
    <3>1. ASSUME NEW k \in DOMAIN w
          PROVE  position(k) \in DOMAIN q /\ w[k] = q[position(k)]
      BY <1>1, <2>1, <2>4
    <3>2. position(i) = position(j)
      <4> HIDE DEF position
      <4>1. position(i) \in DOMAIN q /\ position(j) \in DOMAIN q /\ q[position(i)] = q[position(j)]
        BY <3>1
      <4> QED
        BY <4>1 DEF Distinct
    <3>3. i \in Int /\ j \in Int /\ p \in Int
      BY <1>1, <2>1, <2>4
    <3> QED
      BY <3>2, <3>3
  <2>6. Items(w) \subseteq Items(q) \ {c}
    <3> SUFFICES ASSUME NEW i \in DOMAIN w
                 PROVE  w[i] \in Items(q) /\ w[i] # c
      BY DEF Items
    <3> DEFINE position == IF i <= p - 1 THEN i ELSE i + 1
    <3>1. position \in DOMAIN q /\ p \in DOMAIN q /\ position # p /\ w[i] = q[position]
      BY <1>1, <2>1, <2>4
    <3> HIDE DEF position
    <3> QED
      BY <2>1, <3>1 DEF Distinct, Items
  <2> QED
    BY <2>1, <2>4, <2>5, <2>6 DEF w
<1>3. CASE ~ \E i \in DOMAIN q : q[i] = c
  <2>1. Without(q, c) = q
    BY <1>3 DEF Without
  <2> QED
    BY <1>3, <2>1 DEF Items
<1> QED
  BY <1>2, <1>3

-----------------------------------------------------------------------------
LEMMA InitInvariant == Init => IInv
<1> SUFFICES ASSUME Init
             PROVE  IInv
  OBVIOUS
<1>1. TypeOK
  BY AuthAssumption, EmptySeq DEF Init, TypeOK, Awaits, NoToken
<1>2. QueueOK
  BY EmptySeq DEF Init, QueueOK, Distinct, Items
<1>3. RefreshOK
  BY DEF Init, RefreshOK, NoToken
<1> QED
  BY <1>1, <1>2, <1>3 DEF IInv

(* A task in no exchange that gets the lock with a token that was rejected.  *)
LEMMA LockedStep ==
  ASSUME TypeOK, RefreshOK, NEW c \in Callers, NEW stale \in Nat,
         holder = None, pc[c] \notin {"acquiring", "granted"},
         stale <= token, stale = NoToken \/ stale \in expired,
         Locked(c, stale), UNCHANGED <<token, issued, expired>>,
         waiters' \in Seq(Callers), retry' \in [Callers -> BOOLEAN]
  PROVE  /\ TypeOK' /\ RefreshOK'
         /\ \A w \in Callers \ {c} : pc'[w] = pc[w]
<1>1. CASE token = stale
  <2>1. holder' = c /\ pc' = [pc EXCEPT ![c] = "acquiring"] /\ seen' = [seen EXCEPT ![c] = stale]
    BY <1>1 DEF Locked, At
  <2>2. TypeOK'
    BY <2>1, AuthAssumption DEF TypeOK, Awaits
  <2>3. RefreshOK'
    BY <1>1, <2>1, AuthAssumption DEF TypeOK, RefreshOK
  <2> QED
    BY <2>1, <2>2, <2>3 DEF TypeOK
<1>2. CASE token # stale
  <2>1. holder' = None /\ pc' = [pc EXCEPT ![c] = "sent"] /\ seen' = [seen EXCEPT ![c] = token]
    BY <1>2 DEF Locked, At
  <2>2. TypeOK'
    BY <2>1, AuthAssumption DEF TypeOK, Awaits
  <2>3. RefreshOK'
    BY <2>1, AuthAssumption DEF TypeOK, RefreshOK
  <2> QED
    BY <2>1, <2>2, <2>3 DEF TypeOK
<1> QED
  BY <1>1, <1>2

(* A task that does not refresh yet enters the lock or its queue.            *)
LEMMA EnterStep ==
  ASSUME IInv, NEW c \in Callers, NEW stale \in Nat,
         pc[c] \notin {"queued", "acquiring", "granted"},
         stale <= token, stale = NoToken \/ stale \in expired,
         Enter(c, stale), UNCHANGED <<token, issued, expired>>,
         retry' \in [Callers -> BOOLEAN]
  PROVE  IInv'
<1>1. TypeOK /\ QueueOK /\ RefreshOK
  BY DEF IInv
<1>2. c \notin Items(waiters)
  BY <1>1 DEF QueueOK
<1>3. Items(waiters) \subseteq Callers
  BY <1>1, LenProperties, ElementOfSeq DEF TypeOK, Items
<1>4. CASE holder = None /\ waiters = <<>>
  <2>1. Locked(c, stale) /\ waiters' = waiters
    BY <1>4 DEF Enter
  <2>2. waiters' \in Seq(Callers)
    BY <1>1, <2>1 DEF TypeOK
  <2>3. TypeOK' /\ RefreshOK' /\ \A w \in Callers \ {c} : pc'[w] = pc[w]
    BY <1>1, <1>4, <2>1, <2>2, LockedStep
  <2>4. QueueOK'
    BY <1>1, <1>2, <1>3, <2>1, <2>3 DEF QueueOK
  <2> QED
    BY <2>3, <2>4 DEF IInv
<1>5. CASE ~(holder = None /\ waiters = <<>>)
  <2>1. /\ waiters' = Append(waiters, c) /\ holder' = holder
        /\ pc' = [pc EXCEPT ![c] = "queued"] /\ seen' = [seen EXCEPT ![c] = stale]
    BY <1>5 DEF Enter, At
  <2>2. /\ waiters' \in Seq(Callers) /\ Distinct(waiters')
        /\ Items(waiters') = Items(waiters) \cup {c}
    BY <1>1, <1>2, <2>1, AppendKeepsQueue DEF TypeOK, QueueOK
  <2>3. TypeOK'
    BY <1>1, <2>1, <2>2 DEF TypeOK, Awaits
  <2>4. QueueOK'
    BY <1>1, <1>3, <2>1, <2>2 DEF QueueOK, TypeOK
  <2>5. RefreshOK'
    <3>1. holder # c
      BY <1>1 DEF TypeOK
    <3> QED
      BY <1>1, <2>1, <3>1 DEF TypeOK, RefreshOK
  <2> QED
    BY <2>3, <2>4, <2>5 DEF IInv
<1> QED
  BY <1>4, <1>5

LEMMA WakeStep ==
  ASSUME IInv, NEW c \in Callers, Wake(c)
  PROVE  IInv'
<1>1. TypeOK /\ QueueOK /\ RefreshOK
  BY DEF IInv
<1>2. /\ waiters' = Tail(waiters) /\ waiters' \in Seq(Callers) /\ Distinct(waiters')
      /\ c \in Items(waiters) /\ Items(waiters') \subseteq Items(waiters) \ {c}
  BY <1>1, TailKeepsQueue DEF Wake, TypeOK, QueueOK
<1>3. Items(waiters) \subseteq Callers
  BY <1>1, LenProperties, ElementOfSeq DEF TypeOK, Items
<1>4. pc[c] = "queued"
  BY <1>1, <1>2 DEF QueueOK
<1>5. seen[c] \in Nat /\ seen[c] <= token /\ (seen[c] = NoToken \/ seen[c] \in expired)
  BY <1>1, <1>4 DEF TypeOK, RefreshOK
<1>6. /\ holder = None /\ Locked(c, seen[c]) /\ UNCHANGED <<token, issued, expired>>
      /\ retry' \in [Callers -> BOOLEAN]
  BY <1>1 DEF Wake, TypeOK
<1>7. TypeOK' /\ RefreshOK' /\ \A w \in Callers \ {c} : pc'[w] = pc[w]
  <2>1. pc[c] \notin {"acquiring", "granted"}
    BY <1>4
  <2> QED
    BY <1>1, <1>2, <1>5, <1>6, <2>1, LockedStep
<1>8. QueueOK'
  BY <1>1, <1>2, <1>3, <1>7 DEF QueueOK
<1> QED
  BY <1>7, <1>8 DEF IInv

LEMMA LeaveStep ==
  ASSUME IInv, NEW c \in Callers, Leave(c)
  PROVE  IInv'
<1>1. TypeOK /\ QueueOK /\ RefreshOK
  BY DEF IInv
<1>2. /\ waiters' \in Seq(Callers) /\ Distinct(waiters')
      /\ Items(waiters') \subseteq Items(waiters) \ {c}
  BY <1>1, WithoutKeepsQueue DEF Leave, TypeOK, QueueOK
<1>3. Items(waiters) \subseteq Callers
  BY <1>1, LenProperties, ElementOfSeq DEF TypeOK, Items
<1>4. /\ pc' = [pc EXCEPT ![c] = "idle"] /\ holder' = IF holder = c THEN None ELSE holder
      /\ UNCHANGED <<token, seen, retry, issued, expired>>
  BY DEF Leave
<1>5. TypeOK'
  BY <1>1, <1>2, <1>4, AuthAssumption DEF TypeOK, Awaits
<1>6. QueueOK'
  BY <1>1, <1>2, <1>3, <1>4 DEF QueueOK, TypeOK
<1>7. RefreshOK'
  BY <1>1, <1>4 DEF TypeOK, RefreshOK
<1> QED
  BY <1>5, <1>6, <1>7 DEF IInv

(* The exchange: the device grants a token, and the task stores it.          *)
LEMMA ExchangeStep ==
  ASSUME IInv, NEW c \in Callers, Grant(c) \/ Acquired(c)
  PROVE  IInv'
<1>1. TypeOK /\ QueueOK /\ RefreshOK
  BY DEF IInv
<1>2. Items(waiters) \subseteq Callers
  BY <1>1, LenProperties, ElementOfSeq DEF TypeOK, Items
<1>3. c \notin Items(waiters) /\ waiters' = waiters
  BY <1>1 DEF Grant, Acquired, QueueOK
<1>4. CASE Grant(c)
  <2>1. TypeOK'
    BY <1>1, <1>4 DEF Grant, TypeOK, Awaits
  <2>2. QueueOK'
    BY <1>1, <1>2, <1>3, <1>4 DEF Grant, QueueOK, TypeOK
  <2>3. RefreshOK'
    BY <1>1, <1>4 DEF Grant, TypeOK, RefreshOK
  <2> QED
    BY <2>1, <2>2, <2>3 DEF IInv
<1>5. CASE Acquired(c)
  <2>1. TypeOK'
    BY <1>1, <1>5, AuthAssumption DEF Acquired, At, TypeOK, Awaits
  <2>2. QueueOK'
    BY <1>1, <1>2, <1>3, <1>5 DEF Acquired, At, QueueOK, TypeOK
  <2>3. RefreshOK'
    BY <1>1, <1>5 DEF Acquired, At, TypeOK, RefreshOK
  <2> QED
    BY <2>1, <2>2, <2>3 DEF IInv
<1> QED
  BY <1>4, <1>5

LEMMA NextInvariant == IInv /\ [Next]_vars => IInv'
<1> SUFFICES ASSUME IInv, [Next]_vars
             PROVE  IInv'
  OBVIOUS
<1>1. TypeOK /\ QueueOK /\ RefreshOK
  BY DEF IInv
<1>2. ASSUME NEW c \in Callers, Request(c)
      PROVE  IInv'
  <2>1. /\ pc[c] = "idle" /\ retry' \in [Callers -> BOOLEAN]
        /\ UNCHANGED <<token, issued, expired>> /\ token \in Nat
    BY <1>1, <1>2 DEF Request, TypeOK
  <2>2. CASE token = NoToken
    <3>1. Enter(c, NoToken) /\ NoToken \in Nat /\ NoToken <= token
      BY <1>2, <2>1, <2>2 DEF Request, NoToken
    <3>2. pc[c] \notin {"queued", "acquiring", "granted"}
      BY <2>1
    <3> QED
      BY <2>1, <3>1, <3>2, EnterStep
  <2>3. CASE token # NoToken
    <3>1. /\ pc' = [pc EXCEPT ![c] = "sent"] /\ seen' = [seen EXCEPT ![c] = token]
          /\ UNCHANGED <<holder, waiters>>
      BY <1>2, <2>3 DEF Request, At
    <3>2. TypeOK'
      BY <1>1, <2>1, <3>1 DEF TypeOK, Awaits
    <3>3. QueueOK'
      <4>1. Items(waiters) \subseteq Callers /\ c \notin Items(waiters)
        BY <1>1, <2>1, LenProperties, ElementOfSeq DEF TypeOK, QueueOK, Items
      <4> QED
        BY <1>1, <3>1, <4>1 DEF QueueOK, TypeOK
    <3>4. RefreshOK'
      BY <1>1, <2>1, <3>1 DEF TypeOK, RefreshOK
    <3> QED
      BY <3>2, <3>3, <3>4 DEF IInv
  <2> QED
    BY <2>2, <2>3
<1>3. ASSUME NEW c \in Callers, Rejected(c)
      PROVE  IInv'
  <2>1. /\ pc[c] = "sent" /\ seen[c] \in expired /\ retry' \in [Callers -> BOOLEAN]
        /\ UNCHANGED <<token, issued, expired>> /\ Enter(c, seen[c])
    BY <1>1, <1>3 DEF Rejected, TypeOK
  <2>2. seen[c] \in Nat /\ seen[c] <= token
    BY <1>1 DEF TypeOK, RefreshOK
  <2>3. pc[c] \notin {"queued", "acquiring", "granted"}
    BY <2>1
  <2> QED
    BY <2>1, <2>2, <2>3, EnterStep
<1>4. CASE Expire
  <2>1. /\ expired \subseteq expired' /\ expired' \subseteq 1 .. issued
        /\ UNCHANGED <<token, holder, waiters, pc, seen, retry, issued>>
    BY <1>1, <1>4 DEF Expire, TypeOK
  <2>2. TypeOK'
    BY <1>1, <2>1 DEF TypeOK
  <2>3. QueueOK'
    BY <1>1, <2>1 DEF QueueOK
  <2>4. RefreshOK'
    BY <1>1, <2>1 DEF RefreshOK
  <2> QED
    BY <2>2, <2>3, <2>4 DEF IInv
<1>5. CASE UNCHANGED vars
  BY <1>1, <1>5 DEF vars, IInv, TypeOK, QueueOK, RefreshOK
<1> QED
  BY <1>2, <1>3, <1>4, <1>5, WakeStep, LeaveStep, ExchangeStep DEF Next

(* The invariant of every behaviour.                                         *)
THEOREM Invariance == Spec => []IInv
BY InitInvariant, NextInvariant, PTL DEF Spec

(* At most one task exchanges for a token at a time, and it holds the lock.  *)
THEOREM TypeCorrect == Spec => []TypeOK
<1>1. IInv => TypeOK
  BY DEF IInv
<1> QED
  BY <1>1, Invariance, PTL

(* A token that the device accepts is never replaced, for every set of tasks *)
(* and whatever fails, expires or is cancelled.                              *)
THEOREM SingleFlight == Spec => []AcquiresOnlyWhenStale
<1>1. IInv => AcquiresOnlyWhenStale
  BY DEF IInv, TypeOK, RefreshOK, AcquiresOnlyWhenStale
<1> QED
  BY <1>1, Invariance, PTL

(* A request answered 401 goes out again with a newer token, for every set   *)
(* of tasks.                                                                 *)
THEOREM RetryIsNewer == Spec => RetryUsesNewToken
<1> DEFINE Newer == \A c \in Callers :
             retry'[c] /\ pc'[c] = "sent" /\ ~(retry[c] /\ pc[c] = "sent") => seen'[c] > seen[c]
<1>1. IInv /\ [Next]_vars => [Newer]_vars
  <2> SUFFICES ASSUME IInv, Next, NEW d \in Callers,
                      retry'[d], pc'[d] = "sent", ~(retry[d] /\ pc[d] = "sent")
               PROVE  seen'[d] > seen[d]
    OBVIOUS
  <2>1. TypeOK /\ RefreshOK
    BY DEF IInv
  <2>2. ASSUME NEW c \in Callers, NEW stale \in Nat, Locked(c, stale) \/ Enter(c, stale),
               stale = seen[c], retry'[d] = retry[d] \/ c = d, d # c => retry'[d] = retry[d]
        PROVE  seen'[d] > seen[d]
    <3>1. \/ pc' = [pc EXCEPT ![c] = "queued"]
          \/ pc' = [pc EXCEPT ![c] = "acquiring"]
          \/ /\ token # stale
             /\ pc' = [pc EXCEPT ![c] = "sent"] /\ seen' = [seen EXCEPT ![c] = token]
      BY <2>2 DEF Locked, Enter, At
    <3>2. c = d /\ token # stale /\ seen' = [seen EXCEPT ![c] = token]
      BY <2>1, <2>2, <3>1 DEF TypeOK
    <3> QED
      BY <2>1, <2>2, <3>2 DEF TypeOK, RefreshOK
  <2>3. ASSUME NEW c \in Callers, Request(c)
        PROVE  FALSE
    <3>1. c # d
      BY <2>1, <2>3 DEF Request, TypeOK
    <3> QED
      BY <2>1, <2>3, <3>1 DEF Request, Enter, Locked, At, TypeOK
  <2>4. ASSUME NEW c \in Callers, Wake(c)
        PROVE  seen'[d] > seen[d]
    BY <2>1, <2>2, <2>4 DEF Wake, TypeOK
  <2>5. ASSUME NEW c \in Callers, Rejected(c)
        PROVE  seen'[d] > seen[d]
    BY <2>1, <2>2, <2>5 DEF Rejected, TypeOK
  <2>6. ASSUME NEW c \in Callers, Acquired(c)
        PROVE  seen'[d] > seen[d]
    BY <2>1, <2>6 DEF Acquired, At, TypeOK, RefreshOK
  <2>7. ASSUME NEW c \in Callers, Grant(c) \/ Leave(c)
        PROVE  FALSE
    BY <2>1, <2>7 DEF Grant, Leave, TypeOK
  <2>8. CASE Expire
    BY <2>8 DEF Expire
  <2> QED
    BY <2>3, <2>4, <2>5, <2>6, <2>7, <2>8 DEF Next
<1> QED
  BY <1>1, Invariance, PTL DEF Spec, RetryUsesNewToken

-----------------------------------------------------------------------------
(* The deployment of the key and the catalogue.                              *)
Published == {"verify", "keygen", "rename", "register", "post"}

Busy(d) == at[d] # "idle"

(* A deployment under way has a number, and a try left.                      *)
Numbered == \A d \in Deployers : Busy(d) => mine[d] \in 1 .. begun /\ tries[d] < Tries

(* What a deployment under way knows if no other one overlapped it: it is    *)
(* the latest, and the files are as it left them.                            *)
AloneOK(d) ==
  Busy(d) /\ alone[d] =>
    /\ mine[d] = begun
    /\ \A e \in Deployers \ {d} : ~Busy(e)
    /\ at[d] = "write" => handle[d] = "tmp" /\ tmp = Empty
    /\ at[d] = "replace" => tmp = begun
    /\ at[d] \in Published => target = begun
    /\ at[d] = "rename" => key = Nothing
    /\ at[d] = "post" => loaded[d] = key

(* As long as no deployments overlapped, each is alone, the catalogue is     *)
(* whole, and one key is known to everyone.                                  *)
Undisturbed ==
  ~overlapped =>
    /\ \A d \in Deployers : Busy(d) => alone[d]
    /\ target = Nothing \/ Whole(target)
    /\ registered \in {Nothing, key} /\ plugin \in {Nothing, key}

(* What one that settled has left, until the next one begins.                *)
SettledOK ==
  settled =>
    /\ \A d \in Deployers : ~Busy(d)
    /\ target = begun /\ key # Nothing /\ registered = key

EachOK == Numbered /\ \A d \in Deployers : AloneOK(d)
AllOK == Undisturbed /\ SettledOK

(* Inductive: what the properties rest on.                                   *)
DeploymentInv == DeployTypeOK /\ EachOK /\ AllOK

(* The initial states satisfy the invariant.                                 *)
LEMMA DeploymentInit ==
  ASSUME DeployInit
  PROVE  DeploymentInv
<1>1. DeployTypeOK
  <2>1. begun \in 0 .. MaxDeploys
        /\ mine \in [Deployers -> 0 .. begun]
        /\ tries \in [Deployers -> 0 .. Tries]
    BY DeployAssumption DEF DeployInit
  <2>2. at \in [Deployers -> Steps] /\ handle \in [Deployers -> {Nothing, "tmp", "target", "gone"}]
    BY DEF DeployInit, Steps
  <2>3. /\ loaded \in [Deployers -> Keys \cup {Nothing}]
        /\ {key, registered, plugin} \subseteq Keys \cup {Nothing}
    BY DEF DeployInit
  <2>4. {tmp, target} \subseteq Catalogues \cup {Nothing, Empty, Mixed}
    BY DEF DeployInit
  <2>5. alone \in [Deployers -> BOOLEAN] /\ overlapped \in BOOLEAN /\ settled \in BOOLEAN
    BY DEF DeployInit
  <2>6. \A d \in Deployers : handle[d] = Nothing /\ at[d] = "idle"
    BY DEF DeployInit
  <2> QED
    BY <2>1, <2>2, <2>3, <2>4, <2>5, <2>6 DEF DeployTypeOK
<1>2. EachOK /\ AllOK
  BY DEF DeployInit, EachOK, AllOK, Numbered, Busy, AloneOK, Undisturbed, SettledOK
<1> QED
  BY <1>1, <1>2 DEF DeploymentInv

(* The type invariant is kept.                                               *)
LEMMA DeploymentTypeStep ==
  ASSUME DeploymentInv, [DeployNext]_deployVars
  PROVE  DeployTypeOK'
<1> USE DeployAssumption DEF DeploymentInv, EachOK, Numbered, Busy,
            DeployTypeOK, Steps, Catalogues, Keys
<1>1. ASSUME NEW d \in Deployers, Begin(d) PROVE DeployTypeOK'
  <2>1. begun' \in 0 .. MaxDeploys /\ begun' = begun + 1
    BY <1>1 DEF Begin
  <2>2. mine' \in [Deployers -> 0 .. begun'] /\ tries' \in [Deployers -> 0 .. Tries]
    BY <1>1, <2>1 DEF Begin
  <2>3. at' \in [Deployers -> Steps]
    BY <1>1 DEF Begin, Goes
  <2>4. alone' \in [Deployers -> BOOLEAN] /\ overlapped' \in BOOLEAN /\ settled' \in BOOLEAN
    BY <1>1 DEF Begin
  <2>5. /\ handle' \in [Deployers -> {Nothing, "tmp", "target", "gone"}]
        /\ loaded' \in [Deployers -> Keys \cup {Nothing}]
        /\ {tmp', target'} \subseteq Catalogues \cup {Nothing, Empty, Mixed}
        /\ {key', registered', plugin'} \subseteq Keys \cup {Nothing}
    BY <1>1 DEF Begin, fileVars
  <2>6. \A e \in Deployers :
          /\ handle'[e] # Nothing => at'[e] = "write"
          /\ at'[e] \in {"register", "post"} => key' # Nothing
          /\ at'[e] = "post" => loaded'[e] # Nothing
    BY <1>1 DEF Begin, Goes, fileVars
  <2> QED
    BY <2>1, <2>2, <2>3, <2>4, <2>5, <2>6
<1>2. ASSUME NEW d \in Deployers, Open(d) PROVE DeployTypeOK'
  BY <1>2 DEF Open, Goes, fileVars, keyVars, historyVars
<1>3. ASSUME NEW d \in Deployers, Write(d) PROVE DeployTypeOK'
  BY <1>3 DEF Write, Goes, Over, fileVars, keyVars, historyVars
<1>4. ASSUME NEW d \in Deployers, Replace(d) PROVE DeployTypeOK'
  BY <1>4 DEF Replace, Goes, fileVars, keyVars, historyVars
<1>5. ASSUME NEW d \in Deployers, ReplaceFails(d) PROVE DeployTypeOK'
  BY <1>5 DEF ReplaceFails, Goes, fileVars, keyVars, historyVars
<1>6. ASSUME NEW d \in Deployers, Verify(d) PROVE DeployTypeOK'
  BY <1>6 DEF Verify, Goes, Whole, fileVars, keyVars, historyVars
<1>7. ASSUME NEW d \in Deployers, CheckKey(d) PROVE DeployTypeOK'
  BY <1>7 DEF CheckKey, Goes, fileVars, keyVars, historyVars
<1>8. ASSUME NEW d \in Deployers, RenameKey(d) PROVE DeployTypeOK'
  BY <1>8 DEF RenameKey, Goes, fileVars, keyVars, historyVars
<1>9. ASSUME NEW d \in Deployers, LoadKey(d) PROVE DeployTypeOK'
  BY <1>9 DEF LoadKey, Goes, fileVars, keyVars, historyVars
<1>10. ASSUME NEW d \in Deployers, Registered(d) PROVE DeployTypeOK'
  BY <1>10 DEF Registered, Goes, fileVars, keyVars, historyVars
<1>11. ASSUME NEW d \in Deployers, RegisterFails(d) PROVE DeployTypeOK'
  BY <1>11 DEF RegisterFails, Goes, fileVars, keyVars, historyVars
<1>12. ASSUME NEW d \in Deployers, Crash(d) PROVE DeployTypeOK'
  BY <1>12 DEF Crash, fileVars, keyVars, historyVars
<1>13. CASE Launch
  BY <1>13 DEF Launch, fileVars, keyVars, historyVars
<1>14. CASE PluginExits
  BY <1>14 DEF PluginExits, fileVars, keyVars, historyVars
<1>15. CASE UNCHANGED deployVars
  BY <1>15 DEF deployVars, fileVars, keyVars, historyVars
<1> QED
  BY <1>1, <1>2, <1>3, <1>4, <1>5, <1>6, <1>7, <1>8,
     <1>9, <1>10, <1>11, <1>12, <1>13, <1>14, <1>15 DEF DeployNext, Step

(* The numbers, and what a deployment knows that runs alone, are kept: a     *)
(* step of another one would contradict that it is alone.                    *)
LEMMA AloneStep ==
  ASSUME DeploymentInv, [DeployNext]_deployVars
  PROVE  EachOK'
<1> USE DeployAssumption DEF DeploymentInv, EachOK, Numbered, Busy, AloneOK, Published,
            DeployTypeOK, Steps, Catalogues, Keys
<1>1. ASSUME NEW d \in Deployers, Begin(d) PROVE EachOK'
  <2>1. begun' = begun + 1 /\ begun \in Nat
    BY <1>1 DEF Begin
  <2>2. Numbered'
    BY <1>1, <2>1 DEF Begin, Goes
  <2>3. AloneOK(d)'
    BY <1>1, <2>1 DEF Begin, Goes
  <2>4. ASSUME NEW e \in Deployers \ {d} PROVE AloneOK(e)'
    <3>1. at'[e] # "idle" => ~alone'[e]
      BY <1>1 DEF Begin, Goes
    <3> QED
      BY <3>1
  <2> QED
    BY <2>2, <2>3, <2>4
<1>2. ASSUME NEW d \in Deployers, Open(d) PROVE EachOK'
  BY <1>2 DEF Open, Goes, fileVars, keyVars, historyVars
<1>3. ASSUME NEW d \in Deployers, Write(d) PROVE EachOK'
  BY <1>3 DEF Write, Goes, Over, fileVars, keyVars, historyVars
<1>4. ASSUME NEW d \in Deployers, Replace(d) PROVE EachOK'
  BY <1>4 DEF Replace, Goes, fileVars, keyVars, historyVars
<1>5. ASSUME NEW d \in Deployers, ReplaceFails(d) PROVE EachOK'
  BY <1>5 DEF ReplaceFails, Goes, fileVars, keyVars, historyVars
<1>6. ASSUME NEW d \in Deployers, Verify(d) PROVE EachOK'
  BY <1>6 DEF Verify, Goes, Whole, fileVars, keyVars, historyVars
<1>7. ASSUME NEW d \in Deployers, CheckKey(d) PROVE EachOK'
  BY <1>7 DEF CheckKey, Goes, fileVars, keyVars, historyVars
<1>8. ASSUME NEW d \in Deployers, RenameKey(d) PROVE EachOK'
  BY <1>8 DEF RenameKey, Goes, fileVars, keyVars, historyVars
<1>9. ASSUME NEW d \in Deployers, LoadKey(d) PROVE EachOK'
  BY <1>9 DEF LoadKey, Goes, fileVars, keyVars, historyVars
<1>10. ASSUME NEW d \in Deployers, Registered(d) PROVE EachOK'
  BY <1>10 DEF Registered, Goes, fileVars, keyVars, historyVars
<1>11. ASSUME NEW d \in Deployers, RegisterFails(d) PROVE EachOK'
  BY <1>11 DEF RegisterFails, Goes, fileVars, keyVars, historyVars
<1>12. ASSUME NEW d \in Deployers, Crash(d) PROVE EachOK'
  BY <1>12 DEF Crash, fileVars, keyVars, historyVars
<1>13. CASE Launch
  BY <1>13 DEF Launch, fileVars, keyVars, historyVars
<1>14. CASE PluginExits
  BY <1>14 DEF PluginExits, fileVars, keyVars, historyVars
<1>15. CASE UNCHANGED deployVars
  BY <1>15 DEF deployVars, fileVars, keyVars, historyVars
<1> HIDE DEF EachOK
<1> QED
  BY <1>1, <1>2, <1>3, <1>4, <1>5, <1>6, <1>7, <1>8,
     <1>9, <1>10, <1>11, <1>12, <1>13, <1>14, <1>15 DEF DeployNext, Step

(* What holds as long as no deployments overlapped, and what holds once one  *)
(* has settled, is kept.                                                     *)
LEMMA GlobalStep ==
  ASSUME DeploymentInv, [DeployNext]_deployVars
  PROVE  AllOK'
<1> USE DeployAssumption DEF DeploymentInv, EachOK, AllOK, Numbered, Busy, AloneOK,
            Published, DeployTypeOK, Steps, Catalogues, Keys,
            Undisturbed, SettledOK, Whole
<1>1. ASSUME NEW d \in Deployers, Begin(d) PROVE AllOK'
  BY <1>1 DEF Begin, Goes, fileVars, keyVars, historyVars
<1>2. ASSUME NEW d \in Deployers, Open(d) PROVE AllOK'
  BY <1>2 DEF Open, Goes, fileVars, keyVars, historyVars
<1>3. ASSUME NEW d \in Deployers, Write(d) PROVE AllOK'
  BY <1>3 DEF Write, Goes, Over, fileVars, keyVars, historyVars
<1>4. ASSUME NEW d \in Deployers, Replace(d) PROVE AllOK'
  BY <1>4 DEF Replace, Goes, fileVars, keyVars, historyVars
<1>5. ASSUME NEW d \in Deployers, ReplaceFails(d) PROVE AllOK'
  BY <1>5 DEF ReplaceFails, Goes, fileVars, keyVars, historyVars
<1>6. ASSUME NEW d \in Deployers, Verify(d) PROVE AllOK'
  BY <1>6 DEF Verify, Goes, fileVars, keyVars, historyVars
<1>7. ASSUME NEW d \in Deployers, CheckKey(d) PROVE AllOK'
  BY <1>7 DEF CheckKey, Goes, fileVars, keyVars, historyVars
<1>8. ASSUME NEW d \in Deployers, RenameKey(d) PROVE AllOK'
  BY <1>8 DEF RenameKey, Goes, fileVars, keyVars, historyVars
<1>9. ASSUME NEW d \in Deployers, LoadKey(d) PROVE AllOK'
  BY <1>9 DEF LoadKey, Goes, fileVars, keyVars, historyVars
<1>10. ASSUME NEW d \in Deployers, Registered(d) PROVE AllOK'
  BY <1>10 DEF Registered, Goes, fileVars, keyVars, historyVars
<1>11. ASSUME NEW d \in Deployers, RegisterFails(d) PROVE AllOK'
  BY <1>11 DEF RegisterFails, Goes, fileVars, keyVars, historyVars
<1>12. ASSUME NEW d \in Deployers, Crash(d) PROVE AllOK'
  BY <1>12 DEF Crash, fileVars, keyVars, historyVars
<1>13. CASE Launch
  BY <1>13 DEF Launch, fileVars, keyVars, historyVars
<1>14. CASE PluginExits
  BY <1>14 DEF PluginExits, fileVars, keyVars, historyVars
<1>15. CASE UNCHANGED deployVars
  BY <1>15 DEF deployVars, fileVars, keyVars, historyVars
<1> HIDE DEF AllOK
<1> QED
  BY <1>1, <1>2, <1>3, <1>4, <1>5, <1>6, <1>7, <1>8,
     <1>9, <1>10, <1>11, <1>12, <1>13, <1>14, <1>15 DEF DeployNext, Step

(* The invariant holds in every reachable state.                             *)
THEOREM DeploymentInvariance == DeploySpec => []DeploymentInv
<1>1. DeploymentInv /\ [DeployNext]_deployVars => DeploymentInv'
  BY DeploymentTypeStep, AloneStep, GlobalStep DEF DeploymentInv
<1> QED
  BY DeploymentInit, <1>1, PTL DEF DeploySpec

(* The type invariant of Deploy, and that a deployment past its key check    *)
(* has a key (CheckKey, RenameKey), for all values of the constants.         *)
THEOREM DeploymentTypeCorrect == DeploySpec => []DeployTypeOK
<1>1. DeploymentInv => DeployTypeOK
  BY DEF DeploymentInv
<1> QED
  BY DeploymentInvariance, <1>1, PTL

(* While deployments do not overlap, wherever they die and however often     *)
(* they are repeated, the catalogue stays whole and a running plugin's key   *)
(* the registered one (publish, generate_keypair): a deployment that is      *)
(* alone finds the files as it left them, so it renames a whole catalogue    *)
(* and never makes a second key.                                             *)
THEOREM RepeatsKeepCatalogueAndKey == DeploySpec => []CatalogueAndKeyHold
<1>1. DeploymentInv => CatalogueAndKeyHold
  BY DEF DeploymentInv, AllOK, Undisturbed, CatalogueAndKeyHold, ReadersSeeWhole, StillWelcome
<1> QED
  BY DeploymentInvariance, <1>1, PTL

(* A deployment that ran alone and succeeded has put catalogue and keys      *)
(* right, whatever earlier ones left (deploy.sh, publish, register).         *)
THEOREM Repairs == DeploySpec => []SettledIsUsable
<1>1. DeploymentInv => SettledIsUsable
  BY DEF DeploymentInv, AllOK, SettledOK, SettledIsUsable
<1> QED
  BY DeploymentInvariance, <1>1, PTL
=============================================================================
