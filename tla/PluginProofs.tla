---------------------------- MODULE PluginProofs ----------------------------
(***************************************************************************)
(* Proofs about Plugin for every number of interrupts: what the events say *)
(* of the run, and what nomothetic is told of them.                        *)
(***************************************************************************)
EXTENDS Plugin, SequenceTheorems, TLAPS

-----------------------------------------------------------------------------
(* The inductive invariant.                                                  *)
Says == {"starting", "running", "stopping", "error"}

Typed ==
  /\ life \in {"new", "waiting", "stopping", "over"} /\ failed \in BOOLEAN
  /\ outcome \in {"none", "returned", "raised", "cancelled"}
  /\ pc \in {"main", "leave", "over"} \cup Running
  /\ leaving \in {"none", "0", "1", "cancelled", "raised"}
  /\ exit \in {"none", "0", "1", "killed"} /\ (exit = "none" <=> pc # "over")
  /\ interrupts \in Nat /\ forced \in BOOLEAN
  /\ events \in Seq(Says) /\ told \in Seq(Says)
  /\ strays \subseteq Says /\ gaveUp \in BOOLEAN

(* The layers run only in the await of the pipeline.                         *)
LayersAwaited == life \in {"waiting", "stopping"} => pc \in {"pipeline", "over"}

(* What the events say in each await, and of how run() is about to end.      *)
Underway ==
  /\ pc = "main" => events = <<>>
  /\ pc \in {"announce", "pipeline"} => events = <<"starting", "running">>
Ending ==
  pc \in {"farewell", "close", "leave"} =>
    /\ leaving # "none" /\ events # <<>>
    /\ leaving = "0" => Last(events) = "stopping" /\ ~Contains(events, "error")
    /\ leaving = "1" => Last(events) = "error"
    /\ leaving = "cancelled" => Last(events) \in Terminal
    /\ leaving = "raised" => pc = "leave" /\ events = <<"starting">>

(* Nothing is cancelled but by an interrupt, nor forced but by a second.     *)
InterruptedBefore ==
  /\ leaving = "cancelled" \/ outcome = "cancelled" => interrupts > 0
  /\ forced => interrupts > 1

(* Unless a post failed, nomothetic has the events from the second on, up to *)
(* the one that is being posted.                                             *)
InOrder == \A i \in 1 .. Len(told) : i < Len(events) /\ told[i] = events[i + 1]
Behind ==
  /\ pc = "main" => told = <<>>
  /\ Posting => Len(events) = Len(told) + 2
  /\ pc = "pipeline" => Len(events) = Len(told) + 1
  /\ pc \in {"close", "leave"} /\ told # <<>> => Len(events) = Len(told) + 1
Finally ==
  told # <<>> /\ exit \in {"0", "1"} /\ interrupts <= 2 => Last(told) \in Terminal
Reported ==
  /\ strays # {} => gaveUp
  /\ ~gaveUp => InOrder /\ Behind /\ Finally

RunInv == LayersAwaited /\ Underway /\ Ending /\ InterruptedBefore /\ LastWord
IInv == Typed /\ RunInv /\ Reported

-----------------------------------------------------------------------------
(* What Append does to the length, the items and the last item.              *)
LEMMA AppendFacts ==
  ASSUME NEW S, NEW q \in Seq(S), NEW e \in S
  PROVE  /\ Append(q, e) \in Seq(S) /\ q \o <<e>> = Append(q, e)
         /\ Len(q) \in Nat /\ Len(Append(q, e)) = Len(q) + 1
         /\ Append(q, e) # <<>> /\ Last(Append(q, e)) = e
         /\ \A i \in 1 .. Len(q) : Append(q, e)[i] = q[i]
         /\ Append(q, e)[Len(q) + 1] = e
<1>1. /\ Append(q, e) \in Seq(S)
      /\ Len(q) \in Nat /\ Len(Append(q, e)) = Len(q) + 1
      /\ \A i \in 1 .. Len(q) : Append(q, e)[i] = q[i]
      /\ Append(q, e)[Len(q) + 1] = e
  BY AppendProperties, LenProperties
<1>2. q \o <<e>> = Append(q, e)
  <2>1. <<e>> \in Seq(S) /\ Len(<<e>>) = 1 /\ <<e>>[1] = e
    OBVIOUS
  <2>2. /\ q \o <<e>> \in Seq(S) /\ Len(q \o <<e>>) = Len(q) + 1
        /\ \A i \in 1 .. Len(q) + 1 : (q \o <<e>>)[i] = IF i <= Len(q) THEN q[i] ELSE <<e>>[i - Len(q)]
    BY <2>1, ConcatProperties
  <2>3. \A i \in 1 .. Len(q) + 1 : (q \o <<e>>)[i] = Append(q, e)[i]
    BY <1>1, <2>1, <2>2
  <2> QED
    BY <1>1, <2>2, <2>3, SeqEqual
<1>3. Append(q, e) # <<>>
  BY <1>1, EmptySeq
<1> QED
  BY <1>1, <1>2, <1>3 DEF Last

(* The last item of a sequence that has one.                                 *)
LEMMA NonEmpty ==
  ASSUME NEW S, NEW q \in Seq(S), q # <<>>
  PROVE  Len(q) \in Nat \ {0} /\ Last(q) = q[Len(q)] /\ Last(q) \in S /\ DOMAIN q = 1 .. Len(q)
<1>1. Len(q) \in Nat \ {0} /\ DOMAIN q = 1 .. Len(q)
  BY EmptySeq, LenProperties
<1> QED
  BY <1>1, ElementOfSeq DEF Last

(* Once a terminal event is out, only "stopping" follows; that survives an   *)
(* event which is "stopping", or the first terminal one.                     *)
Orderly(s) ==
  \A i, j \in DOMAIN s : i < j /\ s[i] \in Terminal => s[j] = "stopping"
LEMMA StaysOrderly ==
  ASSUME NEW s \in Seq(Says), Orderly(s), NEW e \in Says,
         e = "stopping" \/ \A i \in DOMAIN s : s[i] \notin Terminal
  PROVE  Orderly(Append(s, e))
<1>1. /\ DOMAIN s = 1 .. Len(s) /\ DOMAIN Append(s, e) = 1 .. Len(s) + 1
      /\ Len(s) \in Nat
      /\ \A i \in 1 .. Len(s) : Append(s, e)[i] = s[i]
      /\ Append(s, e)[Len(s) + 1] = e
  BY AppendFacts, LenProperties
<1> QED
  BY <1>1 DEF Orderly

(* What Append does to what is contained.                                    *)
LEMMA ContainsAppended ==
  ASSUME NEW s \in Seq(Says), NEW e \in Says, NEW f \in Says
  PROVE  Contains(Append(s, e), f) <=> Contains(s, f) \/ e = f
<1>1. /\ Len(s) \in Nat /\ Len(Append(s, e)) = Len(s) + 1
      /\ \A i \in 1 .. Len(s) : Append(s, e)[i] = s[i]
      /\ Append(s, e)[Len(s) + 1] = e
  BY AppendFacts
<1> QED
  BY <1>1 DEF Contains

(* The sequences of events run() has written before it ends.                 *)
LEMMA FirstEvents ==
  /\ <<>> \in Seq(Says) /\ Len(<<>>) = 0 /\ Orderly(<<>>) /\ ~Contains(<<>>, "error")
  /\ <<"starting">> \in Seq(Says) /\ Len(<<"starting">>) = 1
  /\ Orderly(<<"starting">>) /\ ~Contains(<<"starting">>, "error")
  /\ <<"starting", "running">> \in Seq(Says) /\ Len(<<"starting", "running">>) = 2
  /\ Orderly(<<"starting", "running">>) /\ ~Contains(<<"starting", "running">>, "error")
  /\ \A i \in DOMAIN <<"starting", "running">> : <<"starting", "running">>[i] \notin Terminal
  /\ Last(<<"starting", "running">>) = "running"
  /\ <<"starting", "error">> \in Seq(Says) /\ Len(<<"starting", "error">>) = 2
  /\ Orderly(<<"starting", "error">>) /\ Last(<<"starting", "error">>) = "error"
  /\ <<"error">> \in Seq(Says) /\ Len(<<"error">>) = 1
  /\ Orderly(<<"error">>) /\ Last(<<"error">>) = "error"
  BY DEF Says, Orderly, Contains, Last, Terminal

(* LastWord, in terms of Orderly, before and after a step.                   *)
LEMMA LastWordIs ==
  LastWord <=>
    /\ exit = "0" => Last(events) = "stopping"
    /\ exit = "1" => events \in {<<>>, <<"starting">>} \/ Last(events) = "error"
    /\ exit = "0" /\ Contains(events, "error") => interrupts > 0
    /\ Orderly(events)
  BY DEF LastWord, Orderly

LEMMA Primed ==
  LastWord' <=>
    /\ exit' = "0" => Last(events') = "stopping"
    /\ exit' = "1" => events' \in {<<>>, <<"starting">>} \/ Last(events') = "error"
    /\ exit' = "0" /\ Contains(events', "error") => interrupts' > 0
    /\ Orderly(events')
  BY LastWordIs DEF LastWord, Orderly

-----------------------------------------------------------------------------
(* The invariant holds at first, and each action keeps it.                   *)
LEMMA Initially == Init => IInv
<1> SUFFICES ASSUME Init PROVE IInv
  OBVIOUS
<1>1. Typed
  BY FirstEvents DEF Init, Pipeline!Init, Typed, Running, Says
<1>2. RunInv
  BY FirstEvents, LastWordIs
     DEF Init, Pipeline!Init, RunInv, LayersAwaited, Underway, Ending, InterruptedBefore, Running
<1>3. Reported
  BY FirstEvents DEF Init, Reported, InOrder, Behind, Finally, Posting
<1> QED
  BY <1>1, <1>2, <1>3 DEF IInv

(* main ends before run() begins.                                            *)
LEMMA MainEnds ==
  ASSUME IInv, Refuse \/ MainRaises
  PROVE  IInv'
<1> USE DEF Exit, pipelineVars, postVars
<1>1. events = <<>> /\ <<>> \o <<"error">> = <<"error">> /\ <<>> \o <<>> = <<>>
  BY FirstEvents, ConcatEmptySeq DEF IInv, RunInv, Underway, Refuse, MainRaises
<1>2. events' \in {<<>>, <<"error">>} /\ pc = "main" /\ pc' = "over" /\ exit' = "1"
  BY <1>1 DEF Refuse, MainRaises
<1>3. UNCHANGED <<life, failed, outcome, told, strays, gaveUp, leaving, interrupts, forced>>
  BY DEF Refuse, MainRaises
<1>4. Typed'
  BY <1>2, <1>3, FirstEvents DEF IInv, Typed
<1>5. RunInv'
  BY <1>2, <1>3, FirstEvents, Primed
     DEF IInv, Typed, RunInv, LayersAwaited, Underway, Ending, InterruptedBefore, Running
<1>6. Reported'
  <2>1. ~gaveUp => told = <<>>
    BY <1>2 DEF IInv, Reported, Behind
  <2> QED
    BY <1>2, <1>3, <2>1, FirstEvents DEF IInv, Reported, InOrder, Behind, Finally, Posting
<1> QED
  BY <1>4, <1>5, <1>6 DEF IInv

LEMMA RunBeginsKeeps ==
  ASSUME IInv, RunBegins
  PROVE  IInv'
<1>1. UNCHANGED <<life, failed, outcome, told, strays, gaveUp, interrupts, forced, exit>> /\ pc = "main"
  BY DEF RunBegins, pipelineVars, postVars
<1>2. \/ events' = <<"starting", "error">> /\ pc' = "leave" /\ leaving' = "1"
      \/ events' = <<"starting">> /\ pc' = "leave" /\ leaving' = "raised"
      \/ events' = <<"starting", "error">> /\ pc' = "farewell" /\ leaving' = "1"
      \/ events' = <<"starting", "running">> /\ pc' = "announce" /\ leaving' = "none"
  BY DEF RunBegins
<1>3. Typed'
  BY <1>1, <1>2, FirstEvents DEF IInv, Typed, Running
<1>4. exit = "none" /\ life \notin {"waiting", "stopping"}
  BY <1>1 DEF IInv, Typed, RunInv, LayersAwaited
<1>5. RunInv'
  BY <1>1, <1>2, <1>4, FirstEvents, Primed
     DEF IInv, Typed, RunInv, LayersAwaited, Underway, Ending, InterruptedBefore, Running
<1>6. Reported'
  <2>1. ~gaveUp => told = <<>>
    BY <1>1 DEF IInv, Reported, Behind
  <2> QED
    <3>1. ~gaveUp => InOrder'
      BY <1>1, <2>1, FirstEvents DEF InOrder
    <3>2. ~gaveUp => Behind'
      BY <1>1, <1>2, <2>1, FirstEvents DEF Behind, Posting
    <3>3. Finally'
      BY <1>1, <1>4 DEF Finally
    <3> QED
      BY <1>1, <3>1, <3>2, <3>3 DEF IInv, Reported
<1> QED
  BY <1>3, <1>5, <1>6 DEF IInv

(* The two ends of a post: if it was answered, the event is told.            *)
LEMMA ReceivedKeeps ==
  ASSUME IInv, Posting, ~gaveUp, Received, UNCHANGED events
  PROVE  InOrder' /\ Len(events') = Len(told') + 1
<1>1. events \in Seq(Says) /\ told \in Seq(Says) /\ Len(events) = Len(told) + 2
  BY DEF IInv, Typed, Reported, Behind
<1>2. events # <<>>
  BY <1>1, FirstEvents, LenProperties
<1>3. Last(events) \in Says /\ Last(events) = events[Len(told) + 2]
  BY <1>1, <1>2, NonEmpty
<1>4. /\ Len(told) \in Nat /\ Len(told') = Len(told) + 1
      /\ \A i \in 1 .. Len(told) : told'[i] = told[i]
      /\ told'[Len(told) + 1] = events[Len(told) + 2]
  BY <1>1, <1>3, AppendFacts DEF Received
<1>5. \A i \in 1 .. Len(told) : i < Len(events) /\ told[i] = events[i + 1]
  BY DEF IInv, Reported, InOrder
<1> QED
  BY <1>1, <1>4, <1>5 DEF InOrder

(* What a post leaves behind, however it ends.                               *)
LEMMA PostEnds ==
  ASSUME IInv, Posting, (Received /\ UNCHANGED gaveUp) \/ GiveUp
  PROVE  /\ told' \in Seq(Says) /\ strays' \subseteq Says /\ gaveUp' \in BOOLEAN
         /\ strays' # {} => gaveUp'
<1>1. events \in Seq(Says) /\ told \in Seq(Says) /\ strays \subseteq Says /\ gaveUp \in BOOLEAN
      /\ (strays # {} => gaveUp)
  BY DEF IInv, Typed, Reported
<1>2. events # <<>>
  BY FirstEvents DEF Posting, IInv, RunInv, Underway, Ending
<1>3. Last(events) \in Says
  BY <1>1, <1>2, NonEmpty
<1>4. Append(told, Last(events)) \in Seq(Says)
  BY <1>1, <1>3, AppendFacts
<1>5. CASE Received /\ UNCHANGED gaveUp
  BY <1>1, <1>4, <1>5 DEF Received
<1>6. CASE GiveUp
  BY <1>1, <1>3, <1>4, <1>6 DEF GiveUp, Received
<1> QED
  BY <1>5, <1>6

LEMMA PostKeeps ==
  ASSUME IInv, PostAnswered \/ PostFails
  PROVE  IInv'
<1>1. /\ Posting
      /\ (Received /\ UNCHANGED gaveUp) \/ GiveUp
      /\ UNCHANGED <<leaving, interrupts, forced, events, exit>>
      /\ \/ /\ pc = "announce" /\ pc' = "pipeline" /\ life' = "waiting"
            /\ UNCHANGED <<failed, outcome>>
         \/ /\ pc = "farewell" /\ pc' = "close"
            /\ UNCHANGED <<life, failed, outcome>>
  BY DEF PostAnswered, PostFails, AfterPost, Posting, Pipeline!Start, pipelineVars
<1>2. exit = "none" /\ life \in {"new", "over"}
  BY <1>1 DEF Posting, IInv, Typed, RunInv, LayersAwaited
<1>3. Typed'
  BY <1>1, PostEnds DEF IInv, Typed, Running
<1>4. RunInv'
  BY <1>1, <1>2, Primed, LastWordIs
     DEF IInv, RunInv, LayersAwaited, Underway, Ending, InterruptedBefore, Typed
<1>5. Reported'
  <2>1. ASSUME ~gaveUp' PROVE ~gaveUp /\ Received
    BY <1>1, <2>1 DEF GiveUp, IInv, Typed
  <2>2. ASSUME ~gaveUp' PROVE InOrder' /\ Len(events') = Len(told') + 1
    BY <1>1, <2>1, <2>2, ReceivedKeeps
  <2>3. exit' = "none"
    BY <1>1, <1>2
  <2> QED
    BY <1>1, <2>2, <2>3, PostEnds DEF Reported, Behind, Finally, Posting
<1> QED
  BY <1>3, <1>4, <1>5 DEF IInv

LEMMA StrayKeeps ==
  ASSUME IInv, StrayArrives
  PROVE  IInv'
<1>1. PICK event \in strays : told' = Append(told, event) /\ strays' = strays \ {event}
  BY DEF StrayArrives
<1>2. UNCHANGED <<life, failed, outcome, pc, leaving, interrupts, forced, events, gaveUp, exit>>
  BY DEF StrayArrives, pipelineVars
<1>3. Append(told, event) \in Seq(Says)
  BY AppendFacts DEF IInv, Typed
<1>4. Typed'
  BY <1>1, <1>2, <1>3 DEF IInv, Typed
<1>5. RunInv'
  BY <1>2, Primed, LastWordIs
     DEF IInv, RunInv, LayersAwaited, Underway, Ending, InterruptedBefore
<1>6. Reported'
  BY <1>2 DEF IInv, Reported
<1> QED
  BY <1>4, <1>5, <1>6 DEF IInv

(* The steps that write no event and report none, in the awaits of the       *)
(* pipeline and of aclose.                                                   *)
LEMMA QuietKeeps ==
  ASSUME IInv, LayerRaises \/ PipelineWakes \/ Closed
  PROVE  IInv'
<1>1. /\ UNCHANGED <<told, strays, gaveUp, leaving, interrupts, forced, events, exit>>
      /\ \/ /\ pc = "pipeline" /\ pc' = pc
            /\ life' \in {"waiting", "stopping"} /\ failed' \in BOOLEAN
            /\ outcome' = outcome \/ outcome' \in {"raised", "returned"}
         \/ pc = "close" /\ pc' = "leave" /\ UNCHANGED <<life, failed, outcome>>
  BY DEF LayerRaises, PipelineWakes, Closed, Pipeline!LayerRaises, Pipeline!Wakes,
         pipelineVars, postVars, IInv, Typed
<1>2. exit = "none"
  BY <1>1 DEF IInv, Typed
<1>3. Typed'
  BY <1>1 DEF IInv, Typed, Running
<1>4. RunInv'
  BY <1>1, <1>2, Primed, LastWordIs
     DEF IInv, Typed, RunInv, LayersAwaited, Underway, Ending, InterruptedBefore
<1>5. Reported'
  BY <1>1, <1>2 DEF IInv, Reported, InOrder, Behind, Finally, Posting
<1> QED
  BY <1>3, <1>4, <1>5 DEF IInv

(* run() writes an event that ends it.                                       *)
LEMMA EventWritten ==
  ASSUME IInv, NEW e \in {"stopping", "error"}, events' = Append(events, e),
         e = "stopping" \/ pc = "pipeline"
  PROVE  /\ events' \in Seq(Says) /\ events' # <<>> /\ Last(events') = e
         /\ Len(events) \in Nat /\ Len(events') = Len(events) + 1 /\ Orderly(events')
         /\ Contains(events', "error") <=> Contains(events, "error") \/ e = "error"
         /\ told' = told /\ InOrder => InOrder'
<1>1. events \in Seq(Says) /\ told \in Seq(Says) /\ Orderly(events) /\ e \in Says /\ "error" \in Says
  BY LastWordIs DEF IInv, Typed, RunInv, Says
<1>2. e = "stopping" \/ \A i \in DOMAIN events : events[i] \notin Terminal
  BY FirstEvents DEF IInv, RunInv, Underway
<1>3. Orderly(events')
  BY <1>1, <1>2, StaysOrderly
<1>4. Contains(events', "error") <=> Contains(events, "error") \/ e = "error"
  BY <1>1, ContainsAppended
<1>5. /\ events' \in Seq(Says) /\ events' # <<>> /\ Last(events') = e
      /\ Len(events) \in Nat /\ Len(events') = Len(events) + 1
      /\ \A i \in 1 .. Len(events) : events'[i] = events[i]
  BY <1>1, AppendFacts
<1>6. told' = told /\ InOrder => InOrder'
  <2>1. Len(told) \in Nat
    BY <1>1, LenProperties
  <2> QED
    BY <1>5, <2>1 DEF InOrder
<1> QED
  BY <1>3, <1>4, <1>5, <1>6

LEMMA PipelineEndsKeeps ==
  ASSUME IInv, PipelineEnds
  PROVE  IInv'
<1>1. /\ pc = "pipeline" /\ pc' = "farewell" /\ life' = "over"
      /\ UNCHANGED <<failed, outcome, told, strays, gaveUp, interrupts, forced, exit>>
  BY DEF PipelineEnds, Say, Pipeline!Stops, postVars
<1>2. PICK e \in {"stopping", "error"} :
        /\ events' = Append(events, e)
        /\ \/ e = "stopping" /\ leaving' = "0"
           \/ e = "error" /\ leaving' = "1"
           \/ e = "stopping" /\ leaving' = "cancelled" /\ outcome = "cancelled"
  BY DEF PipelineEnds, Say
<1>3. /\ events' \in Seq(Says) /\ events' # <<>> /\ Last(events') = e
      /\ Len(events) \in Nat /\ Len(events') = Len(events) + 1 /\ Orderly(events')
      /\ Contains(events', "error") <=> Contains(events, "error") \/ e = "error"
      /\ told' = told /\ InOrder => InOrder'
  BY <1>1, <1>2, EventWritten
<1>4. exit = "none" /\ ~Contains(events, "error")
  BY <1>1, FirstEvents DEF IInv, Typed, RunInv, Underway
<1>5. Typed'
  BY <1>1, <1>2, <1>3 DEF IInv, Typed, Running
<1>6. RunInv'
  <2>1. Ending'
    BY <1>1, <1>2, <1>3, <1>4 DEF Ending, Terminal
  <2>2. LayersAwaited' /\ Underway' /\ InterruptedBefore'
    BY <1>1, <1>2 DEF IInv, RunInv, LayersAwaited, Underway, InterruptedBefore
  <2>3. LastWord'
    BY <1>1, <1>3, <1>4, Primed
  <2> QED
    BY <2>1, <2>2, <2>3 DEF RunInv
<1>7. Reported'
  <2>1. ~gaveUp => InOrder /\ Len(events) = Len(told) + 1
    BY <1>1 DEF IInv, Reported, Behind
  <2>2. Len(told) \in Nat
    BY LenProperties DEF IInv, Typed
  <2>3. ~gaveUp => Behind'
    BY <1>1, <1>3, <2>1, <2>2 DEF Behind, Posting
  <2> QED
    BY <1>1, <1>3, <1>4, <2>1, <2>3 DEF IInv, Reported, Finally
<1> QED
  BY <1>5, <1>6, <1>7 DEF IInv

(* After the last post, what was told last is the event that ended the run.  *)
LEMMA EndWasTold ==
  ASSUME IInv, ~gaveUp, pc \in {"close", "leave"}, told # <<>>
  PROVE  Last(told) \in Terminal
<1>1. told \in Seq(Says) /\ events \in Seq(Says) /\ Len(events) = Len(told) + 1
  BY DEF IInv, Typed, Reported, Behind
<1>2. Len(told) \in Nat \ {0} /\ Last(told) = told[Len(told)]
  BY <1>1, NonEmpty
<1>3. leaving # "raised" /\ events # <<>>
  <2>1. events # <<>> /\ (leaving = "raised" => events = <<"starting">>)
    BY DEF IInv, RunInv, Ending
  <2>2. Len(<<"starting">>) = 1
    OBVIOUS
  <2> QED
    BY <1>1, <1>2, <2>1, <2>2
<1>4. Last(events) = events[Len(told) + 1]
  BY <1>1, <1>3, NonEmpty
<1>5. Last(told) = Last(events)
  BY <1>2, <1>4 DEF IInv, Reported, InOrder
<1> QED
  BY <1>3, <1>5 DEF IInv, Typed, RunInv, Ending, Terminal

LEMMA LeaveKeeps ==
  ASSUME IInv, Leave
  PROVE  IInv'
<1>1. /\ pc = "leave" /\ pc' = "over"
      /\ UNCHANGED <<life, failed, outcome, told, strays, gaveUp, leaving, interrupts, forced>>
      /\ \/ (forced \/ leaving = "cancelled") /\ events' = events \o <<"stopping">> /\ exit' = "0"
         \/ leaving = "raised" /\ events' = events \o <<>> /\ exit' = "1"
         \/ leaving \notin {"raised", "cancelled"} /\ events' = events \o <<>> /\ exit' = leaving
  BY DEF Leave, Exit, pipelineVars, postVars
<1>2. events \in Seq(Says) /\ "stopping" \in Says
  BY DEF IInv, Typed, Says
<1>3. events \o <<"stopping">> = Append(events, "stopping") /\ events \o <<>> = events
  BY <1>2, AppendFacts, ConcatEmptySeq
<1>4. Ending /\ InterruptedBefore /\ Orderly(events) /\ interrupts \in Nat
  BY LastWordIs DEF IInv, RunInv, Typed
<1>5. leaving \in {"0", "1", "cancelled", "raised"}
  BY <1>1, <1>4 DEF Ending, IInv, Typed
<1>6. CASE (forced \/ leaving = "cancelled") /\ events' = Append(events, "stopping") /\ exit' = "0"
  <2>1. /\ events' \in Seq(Says) /\ Last(events') = "stopping" /\ Orderly(events')
        /\ told' = told /\ InOrder => InOrder'
    BY <1>6, EventWritten
  <2>2. interrupts' > 0
    BY <1>1, <1>4, <1>6 DEF InterruptedBefore
  <2>3. Typed' /\ LastWord'
    BY <1>1, <1>6, <2>1, <2>2, Primed DEF IInv, Typed
  <2>4. ~gaveUp => InOrder'
    BY <1>1, <2>1 DEF IInv, Reported
  <2> QED
    BY <1>1, <2>3, <2>4, EndWasTold
       DEF IInv, RunInv, LayersAwaited, Underway, Ending, InterruptedBefore, Reported, Behind, Finally, Posting
<1>7. CASE /\ events' = events
           /\ \/ leaving = "raised" /\ exit' = "1"
              \/ leaving \in {"0", "1"} /\ exit' = leaving
  <2>1. Typed'
    BY <1>1, <1>7 DEF IInv, Typed
  <2>2. LastWord'
    BY <1>1, <1>4, <1>7, Primed DEF Ending
  <2>3. ~gaveUp => InOrder'
    BY <1>1, <1>7 DEF IInv, Reported, InOrder
  <2> QED
    BY <1>1, <2>1, <2>2, <2>3, EndWasTold
       DEF IInv, RunInv, LayersAwaited, Underway, Ending, InterruptedBefore, Reported, Behind, Finally, Posting
<1> QED
  BY <1>1, <1>3, <1>5, <1>6, <1>7

-----------------------------------------------------------------------------
(* An interrupt that cancels the await of run().                             *)
LEMMA InterruptCancelsKeeps ==
  ASSUME IInv, InterruptCancels
  PROVE  IInv'
<1>1. /\ interrupts' = interrupts + 1 /\ interrupts \in Nat /\ exit' = exit
      /\ forced' = (interrupts > 0) /\ pc \in Running
  BY DEF InterruptCancels, Interrupted, IInv, Typed
<1>2. exit = "none"
  BY <1>1 DEF IInv, Typed, Running
<1>3. InterruptedBefore'
  <2>1. interrupts' > 0
    BY <1>1
  <2>2. ASSUME forced' PROVE interrupts > 0
    BY <1>1, <2>2, Zenon
  <2>3. forced' => interrupts' > 1
    BY <1>1, <2>2
  <2> QED
    BY <2>1, <2>3 DEF InterruptedBefore
<1>4. CASE /\ pc \in {"announce", "farewell"} /\ pc' = "farewell" /\ leaving' = "cancelled"
           /\ GiveUp /\ events' = Append(events, "stopping")
           /\ UNCHANGED <<life, failed, outcome>>
  <2>1. /\ events' \in Seq(Says) /\ events' # <<>> /\ Last(events') = "stopping" /\ Orderly(events')
    BY <1>4, EventWritten
  <2>2. gaveUp' = TRUE /\ told' \in Seq(Says) /\ strays' \subseteq Says
    BY <1>4, PostEnds DEF GiveUp, Posting
  <2>3. life \notin {"waiting", "stopping"}
    BY <1>4 DEF IInv, RunInv, LayersAwaited
  <2>4. Typed'
    BY <1>1, <1>4, <2>1, <2>2 DEF IInv, Typed, Running
  <2>5. RunInv'
    BY <1>1, <1>2, <1>3, <1>4, <2>1, <2>3, Primed
       DEF RunInv, LayersAwaited, Underway, Ending, Terminal
  <2> QED
    BY <2>2, <2>4, <2>5 DEF IInv, Reported
<1>5. CASE /\ pc = "farewell" /\ pc' = "close" /\ leaving' = "cancelled" /\ GiveUp
           /\ UNCHANGED <<life, failed, outcome, events>>
  <2>1. gaveUp' = TRUE /\ told' \in Seq(Says) /\ strays' \subseteq Says
    BY <1>5, PostEnds DEF GiveUp, Posting
  <2>2. Last(events) \in Terminal /\ events # <<>>
    BY <1>5 DEF IInv, RunInv, Ending, Typed, Terminal
  <2>3. Typed'
    BY <1>1, <1>5, <2>1 DEF IInv, Typed, Running
  <2>4. RunInv'
    BY <1>1, <1>2, <1>3, <1>5, <2>2, Primed, LastWordIs
       DEF IInv, RunInv, LayersAwaited, Underway, Ending
  <2> QED
    BY <2>1, <2>3, <2>4 DEF IInv, Reported
<1>6. CASE /\ pc = "close" /\ pc' = "leave" /\ leaving' = "cancelled"
           /\ UNCHANGED <<life, failed, outcome, told, strays, gaveUp, events>>
  <2>1. Last(events) \in Terminal /\ events # <<>>
    BY <1>6 DEF IInv, RunInv, Ending, Typed, Terminal
  <2>2. Typed'
    BY <1>1, <1>6 DEF IInv, Typed
  <2>3. RunInv'
    BY <1>1, <1>2, <1>3, <1>6, <2>1, Primed, LastWordIs
       DEF IInv, RunInv, LayersAwaited, Underway, Ending
  <2>4. Reported'
    BY <1>1, <1>2, <1>6 DEF IInv, Reported, InOrder, Behind, Finally, Posting
  <2> QED
    BY <2>2, <2>3, <2>4 DEF IInv
<1>7. CASE /\ pc = "pipeline" /\ life' = "stopping" /\ outcome' \in {outcome, "cancelled"}
           /\ UNCHANGED <<failed, told, strays, gaveUp, pc, leaving, events>>
  <2>1. Typed'
    BY <1>1, <1>7 DEF IInv, Typed
  <2>2. RunInv'
    BY <1>1, <1>2, <1>3, <1>7, Primed, LastWordIs
       DEF IInv, RunInv, LayersAwaited, Underway, Ending
  <2>3. Reported'
    BY <1>1, <1>2, <1>7 DEF IInv, Reported, InOrder, Behind, Finally, Posting
  <2> QED
    BY <2>1, <2>2, <2>3 DEF IInv
<1>8. CancelLands
  BY DEF InterruptCancels
<1> QED
  BY <1>4, <1>5, <1>6, <1>7, <1>8
     DEF CancelLands, Say, Pipeline!Cancelled, pipelineVars, postVars

(* What an abandoned or killed process leaves of a post.                     *)
LEMMA PostLeft ==
  ASSUME IInv, IF Posting THEN GiveUp ELSE UNCHANGED postVars
  PROVE  /\ told' \in Seq(Says) /\ strays' \subseteq Says /\ gaveUp' \in BOOLEAN
         /\ strays' # {} => gaveUp'
         /\ ~gaveUp' => ~gaveUp /\ ~Posting /\ told' = told
<1>1. CASE Posting /\ GiveUp
  BY <1>1, PostEnds DEF GiveUp
<1>2. CASE ~Posting /\ UNCHANGED postVars
  BY <1>2 DEF postVars, IInv, Typed, Reported
<1> QED
  BY <1>1, <1>2

LEMMA InterruptAbandonsKeeps ==
  ASSUME IInv, InterruptAbandons
  PROVE  IInv'
<1>1. /\ interrupts' = interrupts + 1 /\ interrupts \in Nat /\ pc' = "over" /\ exit' = "0"
      /\ events' = Append(events, "stopping")
      /\ UNCHANGED <<life, failed, outcome, leaving, forced>>
  BY DEF InterruptAbandons, Interrupted, IInv, Typed, pipelineVars
<1>2. /\ told' \in Seq(Says) /\ strays' \subseteq Says /\ gaveUp' \in BOOLEAN
      /\ strays' # {} => gaveUp'
      /\ ~gaveUp' => ~gaveUp /\ ~Posting /\ told' = told
  BY PostLeft DEF InterruptAbandons
<1>3. /\ events' \in Seq(Says) /\ Last(events') = "stopping" /\ Orderly(events')
      /\ told' = told /\ InOrder => InOrder'
  BY <1>1, EventWritten
<1>4. interrupts' > 0 /\ (forced => interrupts' > 2)
  BY <1>1 DEF IInv, RunInv, InterruptedBefore
<1>5. Typed'
  BY <1>1, <1>2, <1>3 DEF IInv, Typed
<1>6. RunInv'
  <2>1. InterruptedBefore'
    BY <1>1, <1>4 DEF InterruptedBefore
  <2>2. LastWord'
    BY <1>1, <1>3, <1>4, Primed
  <2> QED
    BY <1>1, <2>1, <2>2 DEF RunInv, LayersAwaited, Underway, Ending
<1>7. ASSUME ~gaveUp' PROVE Finally'
  <2>1. pc = "leave" \/ forced
    BY DEF InterruptAbandons
  <2> QED
    BY <1>1, <1>2, <1>4, <1>7, <2>1, EndWasTold DEF Finally
<1>8. Reported'
  BY <1>1, <1>2, <1>3, <1>7 DEF IInv, Reported, Behind, Posting
<1> QED
  BY <1>5, <1>6, <1>8 DEF IInv

LEMMA KilledKeeps ==
  ASSUME IInv, Killed
  PROVE  IInv'
<1>1. /\ pc' = "over" /\ exit' = "killed"
      /\ UNCHANGED <<life, failed, outcome, leaving, interrupts, forced, events>>
  BY DEF Killed, pipelineVars
<1>2. /\ told' \in Seq(Says) /\ strays' \subseteq Says /\ gaveUp' \in BOOLEAN
      /\ strays' # {} => gaveUp'
      /\ ~gaveUp' => ~gaveUp /\ ~Posting /\ told' = told
  BY PostLeft DEF Killed
<1>3. Typed'
  BY <1>1, <1>2 DEF IInv, Typed
<1>4. RunInv'
  BY <1>1, Primed, LastWordIs
     DEF IInv, RunInv, LayersAwaited, Underway, Ending, InterruptedBefore
<1>5. Reported'
  BY <1>1, <1>2 DEF IInv, Reported, InOrder, Behind, Finally, Posting
<1> QED
  BY <1>3, <1>4, <1>5 DEF IInv

LEMMA Steps == IInv /\ [Next]_vars => IInv'
<1> SUFFICES ASSUME IInv, [Next]_vars PROVE IInv'
  OBVIOUS
<1>1. CASE Refuse \/ MainRaises
  BY <1>1, MainEnds
<1>2. CASE RunBegins
  BY <1>2, RunBeginsKeeps
<1>3. CASE PostAnswered \/ PostFails
  BY <1>3, PostKeeps
<1>4. CASE StrayArrives
  BY <1>4, StrayKeeps
<1>5. CASE LayerRaises \/ PipelineWakes \/ Closed
  BY <1>5, QuietKeeps
<1>6. CASE PipelineEnds
  BY <1>6, PipelineEndsKeeps
<1>7. CASE Leave
  BY <1>7, LeaveKeeps
<1>8. CASE InterruptCancels
  BY <1>8, InterruptCancelsKeeps
<1>9. CASE InterruptAbandons
  BY <1>9, InterruptAbandonsKeeps
<1>10. CASE Killed
  BY <1>10, KilledKeeps
<1>11. CASE UNCHANGED vars
  <2>1. UNCHANGED <<life, failed, outcome, told, strays, gaveUp, pc, leaving, interrupts, forced, events, exit>>
    BY <1>11 DEF vars, pipelineVars, postVars
  <2>2. Typed' /\ Reported'
    BY <2>1 DEF IInv, Typed, Reported, InOrder, Behind, Finally, Posting
  <2>3. RunInv'
    BY <2>1, Primed, LastWordIs
       DEF IInv, RunInv, LayersAwaited, Underway, Ending, InterruptedBefore
  <2> QED
    BY <2>2, <2>3 DEF IInv
<1> QED
  BY <1>1, <1>2, <1>3, <1>4, <1>5, <1>6, <1>7, <1>8, <1>9, <1>10, <1>11 DEF Next

-----------------------------------------------------------------------------
(* However the process is interrupted, its events and awaits, the layers'    *)
(* life and nomothetic's record fit together (main, run, report).            *)
THEOREM Invariance == Spec => []IInv
<1>1. Init => IInv
  BY Initially
<1>2. IInv /\ [Next]_vars => IInv'
  BY Steps
<1> QED
  BY <1>1, <1>2, PTL DEF Spec

(* While layers may move the robot the last event says that they run, and    *)
(* the last event and the exit code agree, for every number of interrupts.   *)
THEOREM EventsAreTrue == Spec => []EventsTellTheRun
<1>1. IInv => EventsTellTheRun
  <2> SUFFICES ASSUME IInv, pc # "over", life \in {"waiting", "stopping"}
               PROVE  Last(events) = "running"
    BY DEF EventsTellTheRun, AnnouncedWhileRunning, IInv, RunInv
  <2> QED
    BY FirstEvents DEF IInv, RunInv, LayersAwaited, Underway
<1> QED
  BY <1>1, Invariance, PTL

(* Unless a post failed, nomothetic was told the events in their order, the  *)
(* end included (report), for every number of interrupts.                    *)
THEOREM EndIsTold == Spec => []ToldTheEnd
<1>1. IInv => ToldTheEnd
  <2> SUFFICES ASSUME IInv, ~gaveUp
               PROVE  /\ told = SubSeq(events, 2, Len(told) + 1)
                      /\ told # <<>> /\ exit \in {"0", "1"} /\ interrupts <= 2 => Last(told) \in Terminal
    BY DEF ToldTheEnd
  <2>1. told # <<>> /\ exit \in {"0", "1"} /\ interrupts <= 2 => Last(told) \in Terminal
    BY DEF IInv, Reported, Finally
  <2>2. /\ told \in Seq(Says) /\ events \in Seq(Says) /\ Len(told) \in Nat /\ Len(events) \in Nat
        /\ \A i \in 1 .. Len(told) : i < Len(events) /\ told[i] = events[i + 1]
    BY LenProperties DEF IInv, Typed, Reported, InOrder
  <2>3. \A i \in 2 .. Len(told) + 1 : events[i] \in Says
    <3> SUFFICES ASSUME NEW i \in 2 .. Len(told) + 1 PROVE events[i] \in Says
      OBVIOUS
    <3>1. i - 1 \in 1 .. Len(told) /\ i \in Int
      BY <2>2
    <3>2. i \in 1 .. Len(events)
      BY <2>2, <3>1
    <3> QED
      BY <2>2, <3>2, ElementOfSeq
  <2>4. /\ SubSeq(events, 2, Len(told) + 1) \in Seq(Says)
        /\ Len(SubSeq(events, 2, Len(told) + 1)) = Len(told)
        /\ \A i \in 1 .. Len(told) : SubSeq(events, 2, Len(told) + 1)[i] = events[i + 1]
    <3>1. /\ SubSeq(events, 2, Len(told) + 1) \in Seq(Says)
          /\ Len(SubSeq(events, 2, Len(told) + 1))
               = IF 2 <= Len(told) + 1 THEN (Len(told) + 1) - 2 + 1 ELSE 0
          /\ \A i \in 1 .. (Len(told) + 1) - 2 + 1 :
               SubSeq(events, 2, Len(told) + 1)[i] = events[2 + i - 1]
      BY <2>2, <2>3, SubSeqProperties
    <3> QED
      BY <2>2, <3>1
  <2>5. told = SubSeq(events, 2, Len(told) + 1)
    BY <2>2, <2>4, SeqEqual
  <2> QED
    BY <2>1, <2>5
<1> QED
  BY <1>1, Invariance, PTL
=============================================================================
