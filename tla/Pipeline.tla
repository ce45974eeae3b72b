------------------------------ MODULE Pipeline ------------------------------
(***************************************************************************)
(* The life of a pipeline (src/autonomon/pipeline.py), of the slots that   *)
(* own its layer tasks (slot.py, fan_in.py) and of the layers' loops as    *)
(* far as stopping sees them: what a task is suspended in, and whether it  *)
(* has been told to stop.  The queues are counted, not their items.        *)
(*                                                                         *)
(* Two coroutines can be in Pipeline.stop at a time: run's own finally     *)
(* clause ("run") and a caller's stop() ("caller"), which may also come    *)
(* before run.  Timers are left untimed: a timeout may fire whenever its   *)
(* await is pending.                                                       *)
(***************************************************************************)
EXTENDS Integers, Sequences

CONSTANTS
  Sources,      (* the perception tasks of the FanInSlot, a sequence         *)
  Capacity      (* maxsize of every queue                                    *)

Middle == {"world_model", "planner"}

(* A pipeline has a source, and no task stands twice in it.                  *)
ASSUME PipelineAssumption ==
  /\ Capacity \in Nat
  /\ Sources \in Seq({Sources[i] : i \in DOMAIN Sources}) /\ Sources # <<>>
  /\ \A i, j \in DOMAIN Sources : Sources[i] = Sources[j] => i = j
  /\ \A i \in DOMAIN Sources : Sources[i] \notin Middle \cup {"action"}

(* The tasks in the order in which stop awaits them, and their slots.        *)
Order == Sources \o <<"world_model", "planner", "action">>
SourceSet == {Sources[i] : i \in 1 .. Len(Sources)}
Tasks == SourceSet \cup Middle \cup {"action"}
SlotOf(task) == IF task \in SourceSet THEN SourceSet ELSE {task}

(* The queue a task reads and the one it writes: q_perception, q_world and   *)
(* q_plan are 1, 2 and 3.                                                    *)
In(task) == CASE task = "world_model" -> 1 [] task = "planner" -> 2 [] task = "action" -> 3
Out(task) == CASE task \in SourceSet -> 1 [] task = "world_model" -> 2 [] task = "planner" -> 3

Stoppers == {"run", "caller"}
Over == {"done", "failed", "cancelled"}

VARIABLES
  phase,        (* per task: "new" (not created), "idle" (in its get or sleep), *)
                (* "busy" (in an HTTP request), "put" (on a full queue) or over *)
  flag,         (* per task: its layer's _stop event                          *)
  doomed,       (* per task: cancelled, the CancelledError not yet raised     *)
  count,        (* items in each queue                                        *)
  stopper,      (* per stopper: where it is in Pipeline.stop                  *)
  outcome       (* "unrun" before run(), "none" while it waits for its tasks, *)
                (* and then how it ends                                       *)

layerVars == <<phase, doomed, count>>
vars == <<layerVars, flag, stopper, outcome>>

Finished(task) == phase[task] \in Over
Runnable(task) == ~Finished(task) /\ ~doomed[task]

(* The position in Order, and "await" (shield), "reap" (after cancel), or    *)
(* not in stop at all.                                                       *)
Away == [at |-> 0, doing |-> "away"]
Ended == [at |-> Len(Order) + 1, doing |-> "ended"]

Init ==
  /\ phase = [t \in Tasks |-> "new"]
  /\ flag = [t \in Tasks |-> FALSE]
  /\ doomed = [t \in Tasks |-> FALSE]
  /\ count = [q \in 1 .. 3 |-> 0]
  /\ stopper = [p \in Stoppers |-> Away]
  /\ outcome = "unrun"

-----------------------------------------------------------------------------
(* The layers.  A loop that comes to its top leaves if it was told to stop.  *)
LoopTop(task) == IF flag[task] THEN "done" ELSE "idle"

PutUnbounded(task, c) ==   (* mutant: the queues have no maxsize *)
  /\ count' = [c EXCEPT ![Out(task)] = @ + 1]
  /\ phase' = [phase EXCEPT ![task] = LoopTop(task)]

(* A put that finds room, or suspends.  c is count before it.                *)
Put(task, c) ==
  IF c[Out(task)] < Capacity
  THEN /\ count' = [c EXCEPT ![Out(task)] = @ + 1]
       /\ phase' = [phase EXCEPT ![task] = LoopTop(task)]
  ELSE /\ count' = c
       /\ phase' = [phase EXCEPT ![task] = "put"]

(* A source polls after its sleep, unless the sleep was interrupted.         *)
PollBegins(task) ==
  /\ task \in SourceSet /\ Runnable(task)
  /\ phase[task] = "idle" /\ ~flag[task]
  /\ phase' = [phase EXCEPT ![task] = "busy"]
  /\ UNCHANGED <<flag, doomed, count, stopper, outcome>>

(* The poll yields an event or, on an error it absorbs, none.                *)
PollEnds(task) ==
  /\ task \in SourceSet /\ Runnable(task) /\ phase[task] = "busy"
  /\ \/ Put(task, count)
     \/ phase' = [phase EXCEPT ![task] = LoopTop(task)] /\ UNCHANGED count
  /\ UNCHANGED <<flag, doomed, stopper, outcome>>

(* A turn of a middle layer: it got an item or timed out, and emits or not.  *)
Turn(task) ==
  /\ task \in Middle /\ Runnable(task) /\ phase[task] = "idle"
  /\ \E got \in {0, 1} :
       /\ got <= count[In(task)]
       /\ LET left == [count EXCEPT ![In(task)] = @ - got] IN
            \/ Put(task, left)
            \/ count' = left /\ phase' = [phase EXCEPT ![task] = LoopTop(task)]
  /\ UNCHANGED <<flag, doomed, stopper, outcome>>

PutCompletes(task) ==
  /\ Runnable(task) /\ phase[task] = "put"
  /\ count[Out(task)] < Capacity
  /\ Put(task, count)
  /\ UNCHANGED <<flag, doomed, stopper, outcome>>

(* The action layer takes a plan, or renews the last one, and executes it.   *)
ExecutionBegins ==
  /\ Runnable("action") /\ phase["action"] = "idle"
  /\ \E got \in {0, 1} :
       got <= count[3] /\ count' = [count EXCEPT ![3] = @ - got]
  /\ phase' = [phase EXCEPT !["action"] = "busy"]
  /\ UNCHANGED <<flag, doomed, stopper, outcome>>

ExecutionEnds ==
  /\ Runnable("action") /\ phase["action"] = "busy"
  /\ phase' = [phase EXCEPT !["action"] = LoopTop("action")]
  /\ UNCHANGED <<flag, doomed, count, stopper, outcome>>

(* An idle source or action layer that was told to stop leaves its loop.     *)
Leave(task) ==
  /\ task \notin Middle /\ Runnable(task)
  /\ phase[task] = "idle" /\ flag[task]
  /\ phase' = [phase EXCEPT ![task] = "done"]
  /\ UNCHANGED <<flag, doomed, count, stopper, outcome>>

(* An exception the layer does not absorb.                                   *)
Fail(task) ==
  /\ Runnable(task) /\ phase[task] \in {"idle", "busy"}
  /\ phase' = [phase EXCEPT ![task] = "failed"]
  /\ UNCHANGED <<flag, doomed, count, stopper, outcome>>

CancelLands(task) ==
  /\ doomed[task] /\ ~Finished(task)
  /\ phase' = [phase EXCEPT ![task] = "cancelled"]
  /\ UNCHANGED <<flag, doomed, count, stopper, outcome>>

-----------------------------------------------------------------------------
(* Pipeline.stop and the slots' stop.  Coming to a slot raises the flags of  *)
(* all its layers.                                                           *)
Enter(p, at) ==
  IF at > Len(Order)
  THEN stopper' = [stopper EXCEPT ![p] = Ended] /\ UNCHANGED flag
  ELSE /\ stopper' = [stopper EXCEPT ![p] = [at |-> at, doing |-> "await"]]
       /\ flag' = [t \in Tasks |-> flag[t] \/ t \in SlotOf(Order[at])]

InStop(p) == stopper[p].doing \in {"await", "reap"}
Awaited(p) == Order[stopper[p].at]

(* The awaited task is over, however it ended: its exception is swallowed.   *)
Advance(p) ==
  /\ InStop(p) /\ Finished(Awaited(p))
  /\ Enter(p, stopper[p].at + 1)
  /\ UNCHANGED <<layerVars, outcome>>

GiveUp(p) ==   (* mutant: a task that does not stop in time is left behind *)
  /\ stopper[p].doing = "await" /\ ~Finished(Awaited(p))
  /\ Enter(p, stopper[p].at + 1)
  /\ UNCHANGED <<layerVars, outcome>>

WaitOn(p) ==   (* mutant: after the timeout the task is awaited, not cancelled *)
  /\ stopper[p].doing = "await" /\ ~Finished(Awaited(p))
  /\ stopper' = [stopper EXCEPT ![p].doing = "reap"]
  /\ UNCHANGED <<layerVars, flag, outcome>>

(* The timeout, or a cancellation of the stopper itself, which is swallowed: *)
(* the task is cancelled and awaited once more.                              *)
StopTimesOut(p) ==
  /\ stopper[p].doing = "await" /\ ~Finished(Awaited(p))
  /\ doomed' = [doomed EXCEPT ![Awaited(p)] = TRUE]
  /\ stopper' = [stopper EXCEPT ![p].doing = "reap"]
  /\ UNCHANGED <<phase, count, flag, outcome>>

(* Before run() every slot is STOPPED and returns at once, but a FanInSlot   *)
(* tells its sources to stop, and they stay told.                            *)
StopBeforeRun ==
  /\ outcome = "unrun"
  /\ flag' = [t \in Tasks |-> flag[t] \/ (t \in SourceSet /\ Len(Sources) > 1)]
  /\ UNCHANGED <<layerVars, stopper, outcome>>

CallerStops ==
  /\ outcome # "unrun" /\ stopper["caller"] = Away
  /\ Enter("caller", 1)
  /\ UNCHANGED <<layerVars, outcome>>

-----------------------------------------------------------------------------
(* run creates the tasks, waits until one raises or all are over, and stops. *)
StartsRun ==
  /\ outcome = "unrun" /\ outcome' = "none"
  /\ phase' = [t \in Tasks |-> LoopTop(t)]
  /\ UNCHANGED <<flag, doomed, count, stopper>>

SomeFailed == \E t \in Tasks : phase[t] = "failed"
AllOver == \A t \in Tasks : Finished(t)

RunForgetsErrors ==   (* mutant: the done tasks' exceptions are not looked at *)
  /\ outcome = "none" /\ (SomeFailed \/ AllOver)
  /\ outcome' = "returned"
  /\ Enter("run", 1)
  /\ UNCHANGED layerVars

RunWakes ==
  /\ outcome = "none" /\ (SomeFailed \/ AllOver)
  /\ outcome' = IF SomeFailed THEN "raised" ELSE "returned"
  /\ Enter("run", 1)
  /\ UNCHANGED layerVars

(* The task of run() is cancelled while it waits (an interrupt).             *)
RunCancelled ==
  /\ outcome = "none"
  /\ outcome' = "cancelled"
  /\ Enter("run", 1)
  /\ UNCHANGED layerVars

TaskStep(task) ==
  \/ PollBegins(task)
  \/ PollEnds(task)
  \/ Turn(task)
  \/ PutCompletes(task)
  \/ Leave(task)
  \/ Fail(task)
  \/ CancelLands(task)

Next ==
  \/ \E task \in Tasks : TaskStep(task)
  \/ ExecutionBegins
  \/ ExecutionEnds
  \/ \E p \in Stoppers : Advance(p)
  \/ \E p \in Stoppers : StopTimesOut(p)
  \/ StopBeforeRun
  \/ CallerStops
  \/ StartsRun
  \/ RunWakes
  \/ RunCancelled

Spec == Init /\ [][Next]_vars

(* The loop runs what is ready: a wake-up, a due timer, a cancellation.  No  *)
(* layer is assumed to answer its flag, its request or its queue.            *)
FairSpec ==
  /\ Spec
  /\ WF_vars(RunWakes)
  /\ \A p \in Stoppers : WF_vars(Advance(p)) /\ WF_vars(StopTimesOut(p))
  /\ \A task \in Tasks : WF_vars(CancelLands(task))

-----------------------------------------------------------------------------
(* The type invariant.                                                       *)
TypeOK ==
  /\ phase \in [Tasks -> {"new", "idle", "busy", "put"} \cup Over]
  /\ flag \in [Tasks -> BOOLEAN] /\ doomed \in [Tasks -> BOOLEAN]
  /\ count \in [1 .. 3 -> 0 .. Capacity]
  /\ stopper \in [Stoppers -> {Away, Ended}
                              \cup [at : 1 .. Len(Order), doing : {"await", "reap"}]]
  /\ outcome \in {"unrun", "none", "returned", "raised", "cancelled"}

(* No layer task outlives the stop that awaited it: when run() has ended, or *)
(* a caller's stop() made while it ran has returned, every task is over,     *)
(* though stops overlap, one came too early, layers fail or hang in a put or *)
(* a request, and stoppers are cancelled.                                    *)
NothingOutlivesStop ==
  \A p \in Stoppers : stopper[p] = Ended => AllOver

(* Layers are told to stop from the source downwards: a task's flag is down  *)
(* until every task upstream of it is over, so no producer is left with a    *)
(* full queue that nobody reads because of the stop.                         *)
UpstreamFirst ==
  \A i, j \in 1 .. Len(Order) :
    i < j /\ SlotOf(Order[i]) # SlotOf(Order[j]) /\ flag[Order[j]] => Finished(Order[i])

(* A stop is orderly: from the source down, and leaving nothing behind.      *)
OrderlyStop == UpstreamFirst /\ NothingOutlivesStop

(* Where run() is, and the outcome it has so far.                            *)
Life ==
  CASE outcome = "unrun" -> "new"
    [] outcome = "none" -> "waiting"
    [] OTHER -> IF stopper["run"] = Ended THEN "over" ELSE "stopping"
Leaves == IF outcome = "unrun" THEN "none" ELSE outcome

Promise == INSTANCE PipelineRun WITH life <- Life, failed <- SomeFailed, outcome <- Leaves

(* run() keeps the promise of PipelineRun: it returns normally only if no    *)
(* layer has failed, also when the failure falls into a caller's stop() that *)
(* swallows it, and a failure ends it, whatever the layers are suspended in. *)
KeepsPromise == Promise!FairSpec

(* A stop always ends: once one is under way it comes to its end, whatever   *)
(* the layers are suspended in and whoever else is stopping them.            *)
StopEnds == \A p \in Stoppers : InStop(p) ~> stopper[p] = Ended
=============================================================================
