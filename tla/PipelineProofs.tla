--------------------------- MODULE PipelineProofs ---------------------------
(***************************************************************************)
(* Proofs about Pipeline for every sequence of sources and every capacity: *)
(* that a stop is orderly, and that the steps of a pipeline are steps of   *)
(* the PipelineRun it promises.                                            *)
(***************************************************************************)
EXTENDS Pipeline, SequenceTheorems, TLAPS

(* The action layer puts nothing.                                            *)
ActionPutsNothing == phase["action"] # "put"

(* Before run() nothing exists, and only the sources can have been told.     *)
Untouched ==
  outcome = "unrun" =>
    /\ \A t \in Tasks : phase[t] = "new" /\ ~doomed[t]
    /\ \A t \in Tasks \ SourceSet : ~flag[t]
    /\ \A p \in Stoppers : stopper[p] = Away

(* What a stopper has passed is over.                                        *)
Passed ==
  \A p \in Stoppers : \A i \in 1 .. Len(Order) :
    i < stopper[p].at => Finished(Order[i])

(* run() stops once its wait is over, and returns only if all was over.      *)
RunOK ==
  /\ outcome \in {"unrun", "none"} => stopper["run"] = Away
  /\ outcome \notin {"unrun", "none"} => stopper["run"] # Away
  /\ outcome = "returned" => AllOver

(* Inductive: what the orderly stop and the promise rest on.                 *)
IInv ==
  /\ TypeOK /\ ActionPutsNothing
  /\ Untouched /\ Passed /\ UpstreamFirst
  /\ RunOK

-----------------------------------------------------------------------------
(* Order holds every task once, the sources first.                           *)
LEMMA OrderFacts ==
  /\ Len(Sources) \in Nat \ {0}
  /\ Len(Order) = Len(Sources) + 3
  /\ \A i \in 1 .. Len(Sources) : Order[i] = Sources[i]
  /\ Order[Len(Sources) + 1] = "world_model"
  /\ Order[Len(Sources) + 2] = "planner"
  /\ Order[Len(Sources) + 3] = "action"
<1> DEFINE S == SourceSet \cup {"world_model", "planner", "action"}
           layers == <<"world_model", "planner", "action">>
           n == Len(Sources)
<1>1. n \in Nat \ {0} /\ DOMAIN Sources = 1 .. n
  BY PipelineAssumption, EmptySeq, LenProperties
<1>2. Sources \in Seq(S)
  <2>1. SourceSet = {Sources[i] : i \in DOMAIN Sources}
    BY <1>1 DEF SourceSet
  <2>2. Sources \in Seq(SourceSet)
    BY <2>1, PipelineAssumption
  <2> QED
    BY <2>2, SeqMonotonic, SourceSet \subseteq S
<1>3. layers \in Seq(S) /\ Len(layers) = 3
      /\ layers[1] = "world_model" /\ layers[2] = "planner" /\ layers[3] = "action"
  OBVIOUS
<1> HIDE DEF layers, S
<1>4. /\ Len(Sources \o layers) = n + 3
      /\ \A i \in 1 .. n + 3 :
           (Sources \o layers)[i] = IF i <= n THEN Sources[i] ELSE layers[i - n]
  <2>1. /\ Len(Sources \o layers) = n + Len(layers)
        /\ \A i \in 1 .. n + Len(layers) :
             (Sources \o layers)[i] = IF i <= n THEN Sources[i] ELSE layers[i - n]
    BY <1>2, <1>3, ConcatProperties
  <2> QED
    BY <1>3, <2>1
<1>5. Order = Sources \o layers
  BY DEF Order, layers
<1>6. \A i \in 1 .. n : i \in 1 .. n + 3 /\ i <= n
  BY <1>1
<1>7. /\ n + 1 \in 1 .. n + 3 /\ ~(n + 1 <= n) /\ (n + 1) - n = 1
      /\ n + 2 \in 1 .. n + 3 /\ ~(n + 2 <= n) /\ (n + 2) - n = 2
      /\ n + 3 \in 1 .. n + 3 /\ ~(n + 3 <= n) /\ (n + 3) - n = 3
  BY <1>1
<1> QED
  BY <1>1, <1>3, <1>4, <1>5, <1>6, <1>7

LEMMA OrderOfTasks ==
  /\ Len(Order) \in Nat \ {0}
  /\ \A i \in 1 .. Len(Order) : Order[i] \in Tasks
  /\ \A t \in Tasks : \E i \in 1 .. Len(Order) : Order[i] = t
  /\ \A i, j \in 1 .. Len(Order) : Order[i] = Order[j] => i = j
  /\ \A i \in 1 .. Len(Order) : Order[i] \in SourceSet <=> i <= Len(Sources)
<1> DEFINE n == Len(Sources)
<1>1. n \in Nat \ {0} /\ DOMAIN Sources = 1 .. n
  BY PipelineAssumption, EmptySeq, LenProperties
<1>2. /\ Len(Order) = n + 3
      /\ \A i \in 1 .. n : Order[i] = Sources[i]
      /\ Order[n + 1] = "world_model" /\ Order[n + 2] = "planner" /\ Order[n + 3] = "action"
  BY OrderFacts
<1>3. /\ \A i, j \in 1 .. n : Sources[i] = Sources[j] => i = j
      /\ \A i \in 1 .. n : Sources[i] \notin {"world_model", "planner", "action"}
  BY <1>1, PipelineAssumption DEF Middle
<1> HIDE DEF n
<1>4. \A i \in 1 .. n + 3 : i \in 1 .. n \/ i = n + 1 \/ i = n + 2 \/ i = n + 3
  BY <1>1
<1>5. SourceSet = {Sources[i] : i \in 1 .. n}
  BY DEF SourceSet, n
<1>6. Tasks = SourceSet \cup {"world_model", "planner", "action"}
  BY DEF Tasks, Middle
<1>7. \A i \in 1 .. n + 3 : Order[i] \in Tasks
  BY <1>2, <1>4, <1>5, <1>6
<1>8. \A t \in Tasks : \E i \in 1 .. n + 3 : Order[i] = t
  <2>1. \A i \in 1 .. n : i \in 1 .. n + 3
    BY <1>1
  <2>2. {n + 1, n + 2, n + 3} \subseteq 1 .. n + 3
    BY <1>1
  <2> QED
    BY <1>2, <1>5, <1>6, <2>1, <2>2
<1>9. \A i \in 1 .. n + 3 : Order[i] \in SourceSet <=> i <= n
  <2> SUFFICES ASSUME NEW i \in 1 .. n + 3
               PROVE  Order[i] \in SourceSet <=> i <= n
    OBVIOUS
  <2>1. CASE i \in 1 .. n
    BY <1>1, <1>2, <1>5, <2>1
  <2>2. CASE i \notin 1 .. n
    <3>1. Order[i] \in {"world_model", "planner", "action"} /\ ~(i <= n)
      BY <1>1, <1>2, <1>4, <2>2
    <3>2. Order[i] \notin SourceSet
      BY <1>3, <1>5, <3>1
    <3> QED
      BY <3>1, <3>2
  <2> QED
    BY <2>1, <2>2
<1>10. \A i, j \in 1 .. n + 3 : Order[i] = Order[j] => i = j
  BY <1>1, <1>2, <1>3, <1>4
<1> QED
  BY <1>1, <1>2, <1>7, <1>8, <1>9, <1>10 DEF n

-----------------------------------------------------------------------------
(* The initial states satisfy the invariant.                                 *)
LEMMA Initially == Init => IInv
<1> SUFFICES ASSUME Init PROVE IInv
  OBVIOUS
<1>1. TypeOK
  BY PipelineAssumption DEF Init, TypeOK, Over, Away
<1>2. ActionPutsNothing /\ Untouched /\ RunOK
  BY DEF Init, ActionPutsNothing, Untouched, RunOK, Tasks, Stoppers, Away
<1>3. Passed
  <2>1. \A p \in Stoppers : stopper[p].at = 0
    BY DEF Init, Away
  <2> QED
    BY <2>1 DEF Passed
<1>4. UpstreamFirst
  BY OrderOfTasks DEF Init, UpstreamFirst
<1> QED
  BY <1>1, <1>2, <1>3, <1>4 DEF IInv

(* A task that is not over goes somewhere, and nothing else moves.           *)
LEMMA TaskMoves ==
  ASSUME IInv, NEW t \in Tasks, NEW to, ~Finished(t), phase[t] # "new" \/ doomed[t],
         phase' = [phase EXCEPT ![t] = to],
         UNCHANGED <<flag, doomed, stopper, outcome>>
  PROVE  Untouched' /\ Passed' /\ UpstreamFirst' /\ RunOK'
<1>1. phase \in [Tasks -> {"new", "idle", "busy", "put"} \cup Over]
  BY DEF IInv, TypeOK
<1>2. \A u \in Tasks : Finished(u) => Finished(u)'
  BY <1>1 DEF Finished
<1>3. outcome # "unrun"
  BY DEF IInv, Untouched
<1>4. Untouched'
  BY <1>3 DEF Untouched
<1>5. Passed'
  BY <1>2, OrderOfTasks DEF IInv, Passed
<1>6. UpstreamFirst'
  BY <1>2, OrderOfTasks DEF IInv, UpstreamFirst
<1>7. RunOK'
  BY <1>2 DEF IInv, RunOK, AllOver
<1> QED
  BY <1>4, <1>5, <1>6, <1>7


Places == {Away, Ended} \cup [at : 1 .. Len(Order), doing : {"await", "reap"}]

(* Where a stopper can be, by number.                                        *)
LEMMA PlaceFacts ==
  ASSUME NEW s \in Places
  PROVE  /\ s.at \in 0 .. Len(Order) + 1
         /\ s.doing \in {"await", "reap"} => s.at \in 1 .. Len(Order)
         /\ s = Away <=> s.doing = "away"
         /\ s = Away <=> s.at = 0
         /\ s = Ended <=> s.at = Len(Order) + 1
<1>1. Len(Order) \in Nat \ {0}
  BY OrderOfTasks
<1>2. CASE s = Away
  BY <1>1, <1>2 DEF Away, Ended
<1>3. CASE s = Ended
  BY <1>1, <1>3 DEF Away, Ended
<1>4. CASE s \in [at : 1 .. Len(Order), doing : {"await", "reap"}]
  BY <1>1, <1>4 DEF Away, Ended
<1> QED
  BY <1>2, <1>3, <1>4 DEF Places

(* A stopper that has nothing left to wait for comes to a slot, or its end.  *)
LEMMA StopperEnters ==
  ASSUME IInv, NEW p \in Stoppers, NEW at \in 1 .. Len(Order) + 1,
         \A i \in 1 .. Len(Order) : i < at => Finished(Order[i]),
         Enter(p, at), UNCHANGED layerVars
  PROVE  /\ flag' \in [Tasks -> BOOLEAN] /\ stopper' \in [Stoppers -> Places]
         /\ stopper'[p].at = at
         /\ \A q \in Stoppers \ {p} : stopper'[q] = stopper[q]
         /\ Passed' /\ UpstreamFirst'
<1>1. Len(Order) \in Nat \ {0}
  BY OrderOfTasks
<1>2. stopper \in [Stoppers -> Places] /\ flag \in [Tasks -> BOOLEAN]
  BY DEF IInv, TypeOK, Places
<1>3. \A t : Finished(t) <=> Finished(t)'
  BY DEF layerVars, Finished
<1> DEFINE place == IF at > Len(Order) THEN Ended ELSE [at |-> at, doing |-> "await"]
<1>4. place \in Places /\ place.at = at
  BY <1>1 DEF Places, Ended
<1>5. stopper' = [stopper EXCEPT ![p] = place]
  BY DEF Enter
<1> HIDE DEF place
<1>6. flag' \in [Tasks -> BOOLEAN]
  BY <1>2 DEF Enter
<1>7. Passed'
  <2> SUFFICES ASSUME NEW q \in Stoppers, NEW i \in 1 .. Len(Order), i < stopper'[q].at
               PROVE  Finished(Order[i])'
    BY DEF Passed, Order
  <2>1. CASE q = p
    BY <1>2, <1>3, <1>4, <1>5, <2>1
  <2>2. CASE q # p
    BY <1>2, <1>3, <1>5, <2>2 DEF IInv, Passed
  <2> QED
    BY <2>1, <2>2
<1>8. UpstreamFirst'
  <2> SUFFICES ASSUME NEW i \in 1 .. Len(Order), NEW j \in 1 .. Len(Order),
                      i < j, SlotOf(Order[i]) # SlotOf(Order[j]), flag'[Order[j]]
               PROVE  Finished(Order[i])'
    BY DEF UpstreamFirst, Order, SlotOf, SourceSet
  <2>1. CASE flag[Order[j]]
    BY <1>3, <2>1 DEF IInv, UpstreamFirst
  <2>2. CASE ~flag[Order[j]]
    <3>1. at \in 1 .. Len(Order) /\ Order[j] \in SlotOf(Order[at])
      <4>1. ~(at > Len(Order))
        BY <2>2 DEF Enter
      <4>2. flag' = [t \in Tasks |-> flag[t] \/ t \in SlotOf(Order[at])]
        BY <4>1 DEF Enter
      <4>3. Order[j] \in Tasks
        BY OrderOfTasks
      <4>4. Order[j] \in SlotOf(Order[at])
        BY <2>2, <4>2, <4>3, Zenon
      <4> QED
        BY <1>1, <4>1, <4>4
    <3>2. CASE Order[at] \in SourceSet
      BY <1>1, <3>1, <3>2, OrderOfTasks, OrderFacts DEF SlotOf
    <3>3. CASE Order[at] \notin SourceSet
      <4>1. j = at
        BY <3>1, <3>3, OrderOfTasks DEF SlotOf
      <4> QED
        BY <1>3, <4>1
    <3> QED
      BY <3>2, <3>3
  <2> QED
    BY <2>1, <2>2
<1> QED
  BY <1>2, <1>4, <1>5, <1>6, <1>7, <1>8

-----------------------------------------------------------------------------
(* The steps, each with the conjuncts it can disturb.  A step of a task is   *)
(* its own, and it is over after it or in its loop.                          *)
LEMMA TaskEffect ==
  ASSUME IInv, NEW t \in Tasks, TaskStep(t)
  PROVE  /\ UNCHANGED <<flag, stopper, outcome>> /\ doomed' = doomed
         /\ ~Finished(t) /\ (phase[t] # "new" \/ doomed[t])
         /\ \E to \in {"idle", "busy", "put"} \cup Over :
              /\ phase' = [phase EXCEPT ![t] = to]
              /\ to = "put" => t \in SourceSet \cup Middle
<1>1. /\ phase \in [Tasks -> {"new", "idle", "busy", "put"} \cup Over]
      /\ flag \in [Tasks -> BOOLEAN] /\ doomed \in [Tasks -> BOOLEAN]
      /\ count \in [1 .. 3 -> 0 .. Capacity] /\ Capacity \in Nat
      /\ phase["action"] # "put"
  BY PipelineAssumption DEF IInv, TypeOK, ActionPutsNothing
<1>2. UNCHANGED <<flag, doomed, stopper, outcome>>
  BY DEF TaskStep, PollBegins, PollEnds, Turn, PutCompletes, Leave, Fail, CancelLands, Put
<1>3. ~Finished(t) /\ (phase[t] # "new" \/ doomed[t])
  BY DEF TaskStep, PollBegins, PollEnds, Turn, PutCompletes, Leave, Fail, CancelLands, Runnable
<1>4. \E to \in {"idle", "busy", "put"} \cup Over :
        /\ phase' = [phase EXCEPT ![t] = to]
        /\ to = "put" => t \in SourceSet \cup Middle
  <2>1. LoopTop(t) \in {"idle"} \cup Over
    BY DEF LoopTop, Over
  <2>2. ASSUME NEW c, Put(t, c)
        PROVE  phase' = [phase EXCEPT ![t] = LoopTop(t)] \/ phase' = [phase EXCEPT ![t] = "put"]
    BY <2>2 DEF Put
  <2>3. CASE PollBegins(t)
    BY <2>3 DEF PollBegins
  <2>4. CASE PollEnds(t)
    BY <2>1, <2>2, <2>4 DEF PollEnds, Over
  <2>5. CASE Turn(t)
    BY <2>1, <2>2, <2>5 DEF Turn, Over
  <2>6. CASE PutCompletes(t)
    <3>1. t \in SourceSet \cup Middle
      BY <1>1, <2>6 DEF PutCompletes, Tasks
    <3> QED
      BY <2>1, <2>2, <2>6, <3>1 DEF PutCompletes, Over
  <2>7. CASE Leave(t)
    BY <2>7 DEF Leave, Over
  <2>8. CASE Fail(t)
    BY <2>8 DEF Fail, Over
  <2>9. CASE CancelLands(t)
    BY <2>9 DEF CancelLands, Over
  <2> QED
    BY <2>3, <2>4, <2>5, <2>6, <2>7, <2>8, <2>9 DEF TaskStep
<1> QED
  BY <1>2, <1>3, <1>4

LEMMA TaskSteps ==
  ASSUME IInv, NEW t \in Tasks, TaskStep(t)
  PROVE  IInv'
<1>1. /\ phase \in [Tasks -> {"new", "idle", "busy", "put"} \cup Over]
      /\ flag \in [Tasks -> BOOLEAN] /\ doomed \in [Tasks -> BOOLEAN]
      /\ count \in [1 .. 3 -> 0 .. Capacity] /\ Capacity \in Nat
      /\ phase["action"] # "put"
  BY PipelineAssumption DEF IInv, TypeOK, ActionPutsNothing
<1>2. /\ UNCHANGED <<flag, doomed, stopper, outcome>>
      /\ ~Finished(t) /\ (phase[t] # "new" \/ doomed[t])
  BY TaskEffect
<1>3. \E to \in {"idle", "busy", "put"} \cup Over :
        /\ phase' = [phase EXCEPT ![t] = to]
        /\ to = "put" => t \in SourceSet \cup Middle
  BY TaskEffect
<1>4. "action" \notin SourceSet \cup Middle
  BY OrderFacts, PipelineAssumption, LenProperties DEF SourceSet, Middle
<1>5. count' \in [1 .. 3 -> 0 .. Capacity]
  <2>1. ASSUME NEW c \in [1 .. 3 -> 0 .. Capacity], t \in SourceSet \cup Middle, Put(t, c)
        PROVE  count' \in [1 .. 3 -> 0 .. Capacity]
    <3>1. Out(t) \in 1 .. 3
      BY <2>1 DEF Out, Middle
    <3>2. CASE c[Out(t)] < Capacity
      BY <1>1, <2>1, <3>1, <3>2 DEF Put
    <3>3. CASE ~(c[Out(t)] < Capacity)
      BY <2>1, <3>3 DEF Put
    <3> QED
      BY <3>2, <3>3
  <2>2. CASE PollEnds(t)
    BY <1>1, <2>1, <2>2 DEF PollEnds
  <2>3. CASE Turn(t)
    <3>1. PICK got \in {0, 1} :
            /\ got <= count[In(t)]
            /\ LET left == [count EXCEPT ![In(t)] = @ - got] IN
                 Put(t, left) \/ count' = left
      BY <2>3 DEF Turn
    <3> DEFINE left == [count EXCEPT ![In(t)] = @ - got]
    <3>2. In(t) \in 1 .. 3 /\ t \in Middle
      BY <2>3 DEF Turn, Middle, In
    <3>3. left \in [1 .. 3 -> 0 .. Capacity]
      BY <1>1, <3>1, <3>2
    <3> QED
      BY <2>1, <3>1, <3>2, <3>3
  <2>4. CASE PutCompletes(t)
    BY <1>1, <2>1, <2>4 DEF PutCompletes, Tasks
  <2>5. CASE UNCHANGED count
    BY <1>1, <2>5
  <2> QED
    BY <2>2, <2>3, <2>4, <2>5 DEF TaskStep, PollBegins, Leave, Fail, CancelLands
<1>6. TypeOK'
  <2>1. phase' \in [Tasks -> {"new", "idle", "busy", "put"} \cup Over]
    BY <1>1, <1>3
  <2> QED
    BY <1>1, <1>2, <1>5, <2>1 DEF IInv, TypeOK
<1>7. ActionPutsNothing'
  BY <1>1, <1>3, <1>4 DEF ActionPutsNothing
<1>8. Untouched' /\ Passed' /\ UpstreamFirst' /\ RunOK'
  BY <1>2, <1>3, TaskMoves
<1> QED
  BY <1>6, <1>7, <1>8 DEF IInv

(* ExecutionBegins, ExecutionEnds: the action layer between its get and its  *)
(* requests.                                                                 *)
LEMMA ExecutionSteps ==
  ASSUME IInv, ExecutionBegins \/ ExecutionEnds
  PROVE  IInv'
<1>1. /\ phase \in [Tasks -> {"new", "idle", "busy", "put"} \cup Over]
      /\ count \in [1 .. 3 -> 0 .. Capacity] /\ Capacity \in Nat
      /\ "action" \in Tasks
  BY PipelineAssumption DEF IInv, TypeOK, Tasks
<1>2. UNCHANGED <<flag, doomed, stopper, outcome>>
  BY DEF ExecutionBegins, ExecutionEnds
<1>3. ~Finished("action") /\ phase["action"] # "new"
  BY DEF ExecutionBegins, ExecutionEnds, Runnable
<1>4. \E to \in {"idle", "busy", "done"} : phase' = [phase EXCEPT !["action"] = to]
  BY DEF ExecutionBegins, ExecutionEnds, LoopTop
<1>5. count' \in [1 .. 3 -> 0 .. Capacity]
  BY <1>1 DEF ExecutionBegins, ExecutionEnds
<1>6. phase' \in [Tasks -> {"new", "idle", "busy", "put"} \cup Over] /\ phase'["action"] # "put"
  BY <1>1, <1>4 DEF Over
<1>7. TypeOK' /\ ActionPutsNothing'
  BY <1>2, <1>5, <1>6 DEF IInv, TypeOK, ActionPutsNothing
<1>8. Untouched' /\ Passed' /\ UpstreamFirst' /\ RunOK'
  BY <1>1, <1>2, <1>3, <1>4, TaskMoves
<1> QED
  BY <1>7, <1>8 DEF IInv

LEMMA AdvanceStep ==
  ASSUME IInv, NEW p \in Stoppers, Advance(p)
  PROVE  IInv'
<1>1. stopper \in [Stoppers -> Places] /\ stopper[p] \in Places
  BY DEF IInv, TypeOK, Places
<1>2. stopper[p].at \in 1 .. Len(Order) /\ stopper[p] # Away /\ Len(Order) \in Nat
  BY <1>1, PlaceFacts, OrderOfTasks DEF Advance, InStop
<1> DEFINE at == stopper[p].at + 1
<1>3. at \in 1 .. Len(Order) + 1
  BY <1>2
<1>4. \A i \in 1 .. Len(Order) : i < at => Finished(Order[i])
  <2> SUFFICES ASSUME NEW i \in 1 .. Len(Order), i < at
               PROVE  Finished(Order[i])
    OBVIOUS
  <2>1. i < stopper[p].at \/ i = stopper[p].at
    BY <1>2
  <2> QED
    BY <2>1 DEF Advance, Awaited, IInv, Passed
<1>5. Enter(p, at) /\ UNCHANGED <<layerVars, outcome>>
  BY DEF Advance
<1> HIDE DEF at
<1>6. /\ flag' \in [Tasks -> BOOLEAN] /\ stopper' \in [Stoppers -> Places]
      /\ stopper'[p].at = at
      /\ \A q \in Stoppers \ {p} : stopper'[q] = stopper[q]
      /\ Passed' /\ UpstreamFirst'
  BY <1>3, <1>4, <1>5, StopperEnters
<1>7. TypeOK' /\ ActionPutsNothing'
  BY <1>5, <1>6 DEF IInv, TypeOK, Places, ActionPutsNothing, layerVars
<1>8. outcome # "unrun"
  BY <1>2 DEF IInv, Untouched
<1>9. Untouched'
  BY <1>5, <1>8 DEF Untouched
<1>10. RunOK'
  <2>1. AllOver => AllOver'
    BY <1>5 DEF AllOver, Finished, layerVars
  <2>2. stopper'[p] # Away
    BY <1>3, <1>6, PlaceFacts, OrderOfTasks
  <2>3. outcome \in {"unrun", "none"} => p # "run"
    BY <1>2 DEF IInv, RunOK
  <2> QED
    BY <1>5, <1>6, <2>1, <2>2, <2>3 DEF IInv, RunOK, Stoppers
<1> QED
  BY <1>6, <1>7, <1>9, <1>10 DEF IInv

LEMMA StopTimesOutStep ==
  ASSUME IInv, NEW p \in Stoppers, StopTimesOut(p)
  PROVE  IInv'
<1>1. /\ stopper \in [Stoppers -> Places] /\ stopper[p] \in Places
      /\ doomed \in [Tasks -> BOOLEAN]
  BY DEF IInv, TypeOK, Places
<1>2. stopper[p].at \in 1 .. Len(Order) /\ stopper[p].doing = "await" /\ stopper[p] # Away
  BY <1>1, PlaceFacts DEF StopTimesOut
<1>3. stopper[p] \in [at : 1 .. Len(Order), doing : {"await", "reap"}]
  BY <1>1, <1>2 DEF Places, Away, Ended
<1> DEFINE place == [stopper[p] EXCEPT !.doing = "reap"]
<1>4. place \in Places /\ place.at = stopper[p].at
  BY <1>3 DEF Places
<1>5. /\ stopper' = [stopper EXCEPT ![p] = place]
      /\ doomed' = [doomed EXCEPT ![Awaited(p)] = TRUE]
      /\ UNCHANGED <<phase, count, flag, outcome>>
  BY DEF StopTimesOut
<1> HIDE DEF place
<1>6. /\ stopper' \in [Stoppers -> Places]
      /\ \A q \in Stoppers : stopper'[q].at = stopper[q].at
      /\ doomed' \in [Tasks -> BOOLEAN]
  BY <1>1, <1>4, <1>5
<1>7. TypeOK' /\ ActionPutsNothing'
  BY <1>5, <1>6 DEF IInv, TypeOK, Places, ActionPutsNothing
<1>8. Untouched'
  BY <1>2, <1>5 DEF IInv, Untouched
<1>9. Passed' /\ UpstreamFirst'
  BY <1>5, <1>6 DEF IInv, Passed, UpstreamFirst, Finished, Order, SlotOf, SourceSet
<1>10. RunOK'
  <2>1. \A q \in Stoppers : stopper'[q] = Away <=> stopper[q] = Away
    BY <1>1, <1>6, PlaceFacts
  <2> QED
    BY <1>5, <2>1 DEF IInv, RunOK, AllOver, Finished, Stoppers
<1> QED
  BY <1>7, <1>8, <1>9, <1>10 DEF IInv

LEMMA StopBeforeRunStep ==
  ASSUME IInv, StopBeforeRun
  PROVE  IInv'
<1>1. /\ UNCHANGED <<layerVars, stopper, outcome>>
      /\ flag' = [t \in Tasks |-> flag[t] \/ (t \in SourceSet /\ Len(Sources) > 1)]
  BY DEF StopBeforeRun
<1>2. flag \in [Tasks -> BOOLEAN]
  BY DEF IInv, TypeOK
<1>3. \A t \in Tasks \ SourceSet : ~flag'[t]
  BY <1>1, <1>2 DEF IInv, Untouched, StopBeforeRun
<1>4. flag' \in [Tasks -> BOOLEAN]
  BY <1>1, <1>2
<1>5. TypeOK' /\ ActionPutsNothing' /\ Untouched'
  BY <1>1, <1>3, <1>4 DEF IInv, TypeOK, ActionPutsNothing, Untouched, layerVars
<1>6. Passed' /\ RunOK'
  BY <1>1 DEF IInv, Passed, RunOK, AllOver, Finished, layerVars
<1>7. UpstreamFirst'
  <2> SUFFICES ASSUME NEW i \in 1 .. Len(Order), NEW j \in 1 .. Len(Order),
                      i < j, SlotOf(Order[i]) # SlotOf(Order[j]), flag'[Order[j]]
               PROVE  FALSE
    BY DEF UpstreamFirst
  <2>1. Order[j] \in SourceSet
    BY <1>3, OrderOfTasks
  <2>2. Order[i] \in SourceSet
    BY <2>1, OrderOfTasks, OrderFacts
  <2> QED
    BY <2>1, <2>2 DEF SlotOf
<1> QED
  BY <1>5, <1>6, <1>7 DEF IInv

LEMMA CallerStopsStep ==
  ASSUME IInv, CallerStops
  PROVE  IInv'
<1>1. "caller" \in Stoppers /\ 1 \in 1 .. Len(Order) + 1
  BY OrderOfTasks DEF Stoppers
<1>2. Enter("caller", 1) /\ UNCHANGED <<layerVars, outcome>> /\ outcome # "unrun"
  BY DEF CallerStops
<1>3. \A i \in 1 .. Len(Order) : i < 1 => Finished(Order[i])
  BY OrderOfTasks
<1>4. /\ flag' \in [Tasks -> BOOLEAN] /\ stopper' \in [Stoppers -> Places]
      /\ \A q \in Stoppers \ {"caller"} : stopper'[q] = stopper[q]
      /\ Passed' /\ UpstreamFirst'
  BY <1>1, <1>2, <1>3, StopperEnters
<1>5. TypeOK' /\ ActionPutsNothing' /\ Untouched'
  BY <1>2, <1>4 DEF IInv, TypeOK, Places, ActionPutsNothing, Untouched, layerVars
<1>6. RunOK'
  BY <1>2, <1>4 DEF IInv, RunOK, AllOver, Finished, Stoppers, layerVars
<1> QED
  BY <1>4, <1>5, <1>6 DEF IInv

(* The wait of run() is over, and it stops.                                  *)
LEMMA RunStopsStep ==
  ASSUME IInv, RunWakes \/ RunCancelled
  PROVE  IInv'
<1>1. "run" \in Stoppers /\ 1 \in 1 .. Len(Order) + 1
  BY OrderOfTasks DEF Stoppers
<1>2. /\ Enter("run", 1) /\ UNCHANGED layerVars
      /\ outcome' \in {"returned", "raised", "cancelled"}
      /\ outcome' = "returned" => AllOver
  BY DEF RunWakes, RunCancelled
<1>3. \A i \in 1 .. Len(Order) : i < 1 => Finished(Order[i])
  BY OrderOfTasks
<1>4. /\ flag' \in [Tasks -> BOOLEAN] /\ stopper' \in [Stoppers -> Places]
      /\ stopper'["run"].at = 1
      /\ Passed' /\ UpstreamFirst'
  BY <1>1, <1>2, <1>3, StopperEnters
<1>5. TypeOK' /\ ActionPutsNothing' /\ Untouched'
  BY <1>2, <1>4 DEF IInv, TypeOK, Places, ActionPutsNothing, Untouched, layerVars
<1>6. RunOK'
  <2>1. stopper'["run"] # Away
    BY <1>1, <1>4, PlaceFacts
  <2>2. AllOver => AllOver'
    BY <1>2 DEF AllOver, Finished, layerVars
  <2> QED
    BY <1>2, <2>1, <2>2 DEF RunOK
<1> QED
  BY <1>4, <1>5, <1>6 DEF IInv

LEMMA StartsRunStep ==
  ASSUME IInv, StartsRun
  PROVE  IInv'
<1>1. /\ outcome = "unrun" /\ outcome' = "none"
      /\ phase' = [t \in Tasks |-> LoopTop(t)]
      /\ UNCHANGED <<flag, doomed, count, stopper>>
  BY DEF StartsRun
<1>2. /\ \A t \in Tasks \ SourceSet : ~flag[t]
      /\ \A p \in Stoppers : stopper[p] = Away
  BY <1>1 DEF IInv, Untouched
<1>3. \A t \in Tasks : LoopTop(t) \in {"idle", "done"}
  BY DEF LoopTop
<1>4. TypeOK'
  <2>1. phase' \in [Tasks -> {"new", "idle", "busy", "put"} \cup Over]
    BY <1>1, <1>3 DEF Over
  <2> QED
    BY <1>1, <2>1 DEF IInv, TypeOK
<1>5. ActionPutsNothing'
  BY <1>1, <1>3 DEF ActionPutsNothing, Tasks
<1>6. Untouched' /\ RunOK'
  BY <1>1, <1>2 DEF Untouched, RunOK, Stoppers
<1>7. Passed'
  <2>1. \A p \in Stoppers : stopper'[p].at = 0
    BY <1>1, <1>2 DEF Away
  <2> QED
    BY <2>1 DEF Passed
<1>8. UpstreamFirst'
  <2> SUFFICES ASSUME NEW i \in 1 .. Len(Order), NEW j \in 1 .. Len(Order),
                      i < j, SlotOf(Order[i]) # SlotOf(Order[j]), flag'[Order[j]]
               PROVE  FALSE
    BY DEF UpstreamFirst
  <2>1. Order[j] \in SourceSet
    BY <1>1, <1>2, OrderOfTasks
  <2>2. Order[i] \in SourceSet
    BY <2>1, OrderOfTasks, OrderFacts
  <2> QED
    BY <2>1, <2>2 DEF SlotOf
<1> QED
  BY <1>4, <1>5, <1>6, <1>7, <1>8 DEF IInv

LEMMA Steps == IInv /\ [Next]_vars => IInv'
<1> SUFFICES ASSUME IInv, [Next]_vars PROVE IInv'
  OBVIOUS
<1>1. CASE \E task \in Tasks : TaskStep(task)
  BY <1>1, TaskSteps
<1>2. CASE ExecutionBegins \/ ExecutionEnds
  BY <1>2, ExecutionSteps
<1>3. CASE \E p \in Stoppers : Advance(p)
  BY <1>3, AdvanceStep
<1>4. CASE \E p \in Stoppers : StopTimesOut(p)
  BY <1>4, StopTimesOutStep
<1>5. CASE StopBeforeRun
  BY <1>5, StopBeforeRunStep
<1>6. CASE CallerStops
  BY <1>6, CallerStopsStep
<1>7. CASE StartsRun
  BY <1>7, StartsRunStep
<1>8. CASE RunWakes \/ RunCancelled
  BY <1>8, RunStopsStep
<1>9. CASE UNCHANGED vars
  BY <1>9 DEF vars, layerVars, IInv, TypeOK, ActionPutsNothing, Untouched, Passed, UpstreamFirst,
              RunOK, AllOver, Finished, Order, SlotOf, SourceSet
<1> QED
  BY <1>1, <1>2, <1>3, <1>4, <1>5, <1>6, <1>7, <1>8, <1>9 DEF Next

(* The inductive invariant holds throughout.                                 *)
THEOREM Invariance == Spec => []IInv
<1>1. Init => IInv
  BY Initially
<1>2. IInv /\ [Next]_vars => IInv'
  BY Steps
<1> QED
  BY <1>1, <1>2, PTL DEF Spec

(* Every variable keeps its type.                                            *)
THEOREM TypeCorrect == Spec => []TypeOK
<1>1. IInv => TypeOK
  BY DEF IInv
<1> QED
  BY <1>1, Invariance, PTL

(* As long as a task is not over, run() has not ended, nor returns.          *)
LEMMA Unfinished ==
  ASSUME IInv, NEW t \in Tasks, ~Finished(t)
  PROVE  /\ outcome # "returned"
         /\ \A p \in Stoppers : stopper[p] # Ended
<1>1. outcome # "returned"
  BY DEF IInv, RunOK, AllOver
<1>2. ASSUME NEW p \in Stoppers, stopper[p] = Ended
      PROVE  FALSE
  <2>1. PICK i \in 1 .. Len(Order) : Order[i] = t
    BY OrderOfTasks
  <2>2. i < stopper[p].at
    BY <1>2, OrderOfTasks DEF Ended
  <2> QED
    BY <2>1, <2>2 DEF IInv, Passed
<1> QED
  BY <1>1, <1>2

(* A stop is orderly, for every number of sources: layers are told from the  *)
(* source down, and whoever's stop has ended left no task behind             *)
(* (Pipeline.stop, LayerSlot.stop, FanInSlot.stop).                          *)
THEOREM StopsInOrder == Spec => []OrderlyStop
<1>1. IInv => OrderlyStop
  BY Unfinished DEF OrderlyStop, NothingOutlivesStop, AllOver, IInv
<1> QED
  BY <1>1, Invariance, PTL

-----------------------------------------------------------------------------
(* The promise: what the mapped state is, and what it takes to change it.    *)
LEMMA LifeIs ==
  /\ outcome = "unrun" => Life = "new" /\ Leaves = "none"
  /\ outcome = "none" => Life = "waiting" /\ Leaves = "none"
  /\ outcome \notin {"unrun", "none"} =>
       /\ Life = IF stopper["run"] = Ended THEN "over" ELSE "stopping"
       /\ Leaves = outcome
BY Zenon DEF Life, Leaves

(* A layer raises only while run() waits or stops, and stays failed.         *)
LEMMA FailuresStay ==
  ASSUME IInv, [Next]_vars
  PROVE  \/ SomeFailed' = SomeFailed
         \/ /\ SomeFailed' /\ ~SomeFailed
            /\ outcome \notin {"unrun", "returned"} /\ stopper["run"] # Ended
            /\ UNCHANGED <<outcome, stopper>>
<1>1. phase \in [Tasks -> {"new", "idle", "busy", "put"} \cup Over]
  BY DEF IInv, TypeOK
<1>2. ASSUME NEW t \in Tasks, NEW to, ~Finished(t), phase[t] # "new" \/ doomed[t],
             phase' = [phase EXCEPT ![t] = to], UNCHANGED <<outcome, stopper>>
      PROVE  \/ SomeFailed' = SomeFailed
             \/ /\ SomeFailed' /\ ~SomeFailed
                /\ outcome \notin {"unrun", "returned"} /\ stopper["run"] # Ended
                /\ UNCHANGED <<outcome, stopper>>
  <2>1. SomeFailed => SomeFailed'
    BY <1>1, <1>2 DEF SomeFailed, Finished, Over
  <2>2. outcome \notin {"unrun", "returned"} /\ stopper["run"] # Ended
    BY <1>2, Unfinished DEF IInv, Untouched, Stoppers
  <2> QED
    BY <1>2, <2>1, <2>2 DEF SomeFailed
<1>3. CASE \E t \in Tasks : TaskStep(t)
  BY <1>2, <1>3, TaskEffect
<1>4. CASE ExecutionBegins \/ ExecutionEnds
  <2>1. \E to : phase' = [phase EXCEPT !["action"] = to]
    BY <1>4 DEF ExecutionBegins, ExecutionEnds
  <2>2. ~Finished("action") /\ phase["action"] # "new" /\ "action" \in Tasks
    BY <1>4 DEF ExecutionBegins, ExecutionEnds, Runnable, Tasks
  <2> QED
    BY <1>2, <1>4, <2>1, <2>2 DEF ExecutionBegins, ExecutionEnds
<1>5. CASE StartsRun
  <2>1. ~SomeFailed
    BY <1>5 DEF StartsRun, SomeFailed, IInv, Untouched
  <2>2. ~SomeFailed'
    BY <1>5 DEF StartsRun, SomeFailed, LoopTop
  <2> QED
    BY <2>1, <2>2 DEF SomeFailed
<1>6. CASE \/ \E p \in Stoppers : Advance(p) \/ StopTimesOut(p)
           \/ StopBeforeRun \/ CallerStops \/ RunWakes \/ RunCancelled \/ UNCHANGED vars
  <2>1. UNCHANGED phase
    BY <1>6 DEF Advance, StopTimesOut, StopBeforeRun, CallerStops, RunWakes, RunCancelled, vars, layerVars
  <2> QED
    BY <2>1 DEF SomeFailed
<1> QED
  BY <1>3, <1>4, <1>5, <1>6 DEF Next

(* run() goes from one part of its life to the next, with its outcome.       *)
LEMMA RunAdvances ==
  ASSUME IInv, IInv', [Next]_vars
  PROVE  \/ Life' = Life /\ Leaves' = Leaves
         \/ /\ SomeFailed' = SomeFailed
            /\ \/ Life = "new" /\ Life' = "waiting" /\ Leaves' = Leaves
               \/ /\ Life = "waiting" /\ Life' = "stopping"
                  /\ Leaves' \in {IF SomeFailed THEN "raised" ELSE "returned", "cancelled"}
               \/ Life = "stopping" /\ Life' = "over" /\ Leaves' = Leaves
<1>1. /\ outcome' = "unrun" => Life' = "new" /\ Leaves' = "none"
      /\ outcome' = "none" => Life' = "waiting" /\ Leaves' = "none"
      /\ outcome' \notin {"unrun", "none"} =>
           /\ Life' = IF stopper'["run"] = Ended THEN "over" ELSE "stopping"
           /\ Leaves' = outcome'
  BY Zenon DEF Life, Leaves, Ended, Order
<1>2. ASSUME UNCHANGED outcome, stopper'["run"] = Ended <=> stopper["run"] = Ended
      PROVE  Life' = Life /\ Leaves' = Leaves
  BY <1>1, <1>2, LifeIs
<1>3. /\ "run" \in Stoppers /\ stopper \in [Stoppers -> Places] /\ stopper["run"] \in Places
      /\ stopper["run"].doing \in {"await", "reap"} => stopper["run"] \notin {Away, Ended}
  BY DEF IInv, TypeOK, Places, Stoppers, Away, Ended
<1>4. CASE (\E t \in Tasks : TaskStep(t)) \/ ExecutionBegins \/ ExecutionEnds \/ StopBeforeRun \/ UNCHANGED vars
  <2>1. UNCHANGED <<outcome, stopper>>
    BY <1>4, TaskEffect DEF ExecutionBegins, ExecutionEnds, StopBeforeRun, vars
  <2> QED
    BY <1>2, <2>1
<1>5. CASE CallerStops \/ Advance("caller")
  <2>1. UNCHANGED outcome /\ stopper'["run"] = stopper["run"]
    BY <1>3, <1>5 DEF CallerStops, Advance, Enter
  <2> QED
    BY <1>2, <2>1
<1>6. CASE \E p \in Stoppers : StopTimesOut(p)
  <2>1. PICK p \in Stoppers : StopTimesOut(p)
    BY <1>6
  <2>2. UNCHANGED outcome /\ stopper' = [stopper EXCEPT ![p].doing = "reap"] /\ stopper[p].doing = "await"
    BY <2>1 DEF StopTimesOut
  <2>3. CASE p = "run"
    <3>1. stopper["run"] \in [at : 1 .. Len(Order), doing : {"await", "reap"}]
      BY <1>3, <2>2, <2>3 DEF Places
    <3>2. stopper'["run"].doing = "reap" /\ stopper["run"].doing = "await"
      BY <1>3, <2>2, <2>3, <3>1
    <3>3. stopper'["run"] # Ended /\ stopper["run"] # Ended
      BY <3>2 DEF Ended
    <3> QED
      BY <1>2, <2>2, <3>3
  <2>4. CASE p # "run"
    BY <1>2, <1>3, <2>2, <2>4
  <2> QED
    BY <2>3, <2>4
<1>7. CASE Advance("run")
  <2>1. UNCHANGED outcome /\ UNCHANGED phase /\ stopper["run"] \notin {Away, Ended}
    BY <1>3, <1>7 DEF Advance, InStop, layerVars
  <2>2. outcome \notin {"unrun", "none"}
    BY <2>1 DEF IInv, RunOK
  <2>3. SomeFailed' = SomeFailed
    BY <2>1 DEF SomeFailed
  <2> QED
    BY <1>1, <2>1, <2>2, <2>3, LifeIs
<1>8. CASE StartsRun
  <2>1. outcome = "unrun" /\ outcome' = "none"
    BY <1>8 DEF StartsRun
  <2>2. SomeFailed' = SomeFailed
    BY <2>1, FailuresStay
  <2> QED
    BY <1>1, <2>1, <2>2, LifeIs
<1>9. CASE RunWakes \/ RunCancelled
  <2>1. /\ outcome = "none" /\ Enter("run", 1) /\ UNCHANGED phase
        /\ outcome' \in {IF SomeFailed THEN "raised" ELSE "returned", "cancelled"}
    BY <1>9 DEF RunWakes, RunCancelled, layerVars
  <2>2. SomeFailed' = SomeFailed
    BY <2>1 DEF SomeFailed
  <2>3. stopper'["run"].doing = "await"
    BY <1>3, <2>1, OrderOfTasks DEF Enter
  <2>4. stopper'["run"] # Ended
    BY <2>3 DEF Ended
  <2> QED
    BY <1>1, <2>1, <2>2, <2>4, LifeIs
<1> QED
  BY <1>4, <1>5, <1>6, <1>7, <1>8, <1>9 DEF Next, Stoppers

LEMMA PromiseStep == IInv /\ IInv' /\ [Next]_vars => [Promise!Next]_(Promise!runVars)
<1> SUFFICES ASSUME IInv, IInv', [Next]_vars
             PROVE  [Promise!Next]_(Promise!runVars)
  OBVIOUS
<1>1. CASE Life' = Life /\ Leaves' = Leaves /\ SomeFailed' = SomeFailed
  BY <1>1 DEF Promise!runVars
<1>2. CASE SomeFailed' # SomeFailed
  <2>1. /\ SomeFailed' /\ ~SomeFailed
        /\ outcome \notin {"unrun", "returned"} /\ stopper["run"] # Ended
        /\ UNCHANGED <<outcome, stopper>>
    BY <1>2, FailuresStay
  <2>2. Life' = Life /\ Leaves' = Leaves
    BY <2>1, Zenon DEF Life, Leaves, Ended, Order
  <2>3. Life \in {"waiting", "stopping"} /\ Leaves # "returned"
    BY <2>1, LifeIs
  <2>4. Promise!LayerRaises
    BY <2>1, <2>2, <2>3 DEF Promise!LayerRaises
  <2> QED
    BY <2>4 DEF Promise!Next
<1>3. CASE SomeFailed' = SomeFailed /\ ~(Life' = Life /\ Leaves' = Leaves)
  <2>1. \/ Life = "new" /\ Life' = "waiting" /\ Leaves' = Leaves
        \/ /\ Life = "waiting" /\ Life' = "stopping"
           /\ Leaves' \in {IF SomeFailed THEN "raised" ELSE "returned", "cancelled"}
        \/ Life = "stopping" /\ Life' = "over" /\ Leaves' = Leaves
    BY <1>3, RunAdvances
  <2> QED
    BY <1>3, <2>1 DEF Promise!Next, Promise!Start, Promise!Wakes, Promise!Cancelled, Promise!Stops
<1> QED
  BY <1>1, <1>2, <1>3

(* A pipeline's steps are those of the run it promises: run() returns only   *)
(* if no layer has failed, also one that fails while it is being stopped,    *)
(* and no step of layer or stopper shows in any other way (Pipeline.run).    *)
THEOREM ImplementsRun == Spec => Promise!Spec
<1>1. Init => Promise!Init
  <2> SUFFICES ASSUME Init PROVE Promise!Init
    OBVIOUS
  <2>1. Life = "new" /\ Leaves = "none"
    BY LifeIs DEF Init
  <2>2. SomeFailed = FALSE
    BY DEF Init, SomeFailed
  <2> QED
    BY <2>1, <2>2 DEF Promise!Init
<1>2. IInv /\ IInv' /\ [Next]_vars => [Promise!Next]_(Promise!runVars)
  BY PromiseStep
<1> QED
  BY <1>1, <1>2, Invariance, PTL DEF Spec, Promise!Spec
=============================================================================
