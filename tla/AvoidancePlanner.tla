-------------------------- MODULE AvoidancePlanner --------------------------
(***************************************************************************)
(* The hand-written planner of the explore routine                         *)
(* (src/autonomon/planning/avoidance.py).  It selects "avoid" or "cruise"  *)
(* from the latest world state, commits to an avoid manoeuvre for          *)
(* AvoidDuration, and puts a plan only when the selected kind changes.     *)
(*                                                                         *)
(* A plan is its kind: _select fixes the actions of each kind.  The        *)
(* deadline _avoid_until is kept as holdLeft, the time left until it; the  *)
(* code never tells an expired deadline from None, and both are 0 here.    *)
(***************************************************************************)
EXTENDS Integers, Sequences

CONSTANTS
  None,
  Capacity,
  AvoidDuration    (* avoid_duration_s in clock ticks; 0 commits to nothing  *)

VARIABLES
  qWorld,     (* WorldStateUpdates waiting to be read                        *)
  qPlan,      (* ActionPlans put towards the action layer                    *)
  lastState,  (* _last_state, None before the first update                   *)
  lastKind,   (* _last_kind, None before the first plan                      *)
  holdLeft    (* _avoid_until - loop.time(), 0 when past or None             *)

Kinds == {"avoid", "cruise"}

(* _select: the kind for a world state.                                      *)
Blocked(state) == state["obstacle_ahead"] \/ state["cliff_detected"]

SelectIgnoringCliff(state) ==   (* mutant: one field left out *)
  IF state["obstacle_ahead"] THEN "avoid" ELSE "cruise"

Select(state) == IF Blocked(state) THEN "avoid" ELSE "cruise"

-----------------------------------------------------------------------------
InitPlanner ==
  /\ lastState = None
  /\ lastKind = None
  /\ holdLeft = 0

(* _tick returns before it selects: no state yet, or a manoeuvre is on.      *)
Committed(state) ==
  /\ state = None \/ holdLeft > 0
  /\ UNCHANGED <<lastKind, holdLeft, qPlan>>

(* _tick selects, re-arms the hold, and puts a plan if the kind changed.     *)
Reevaluate(state) ==
  /\ state # None /\ holdLeft = 0
  /\ holdLeft' = IF Select(state) = "avoid" THEN AvoidDuration ELSE 0
  /\ lastKind' = Select(state)
  /\ qPlan' = IF Select(state) = lastKind THEN qPlan ELSE Append(qPlan, Select(state))

Tick(state) == Committed(state) \/ Reevaluate(state)

ReceiveUpdateUnbounded ==   (* mutant: an unbounded queue *)
  /\ qWorld # <<>>
  /\ qWorld' = Tail(qWorld)
  /\ lastState' = Head(qWorld).state
  /\ Tick(Head(qWorld).state)

UpdateBreaksHold ==   (* mutant: an update ends the hold *)
  /\ qWorld # <<>>
  /\ Len(qPlan) <= Capacity
  /\ qWorld' = Tail(qWorld)
  /\ lastState' = Head(qWorld).state
  /\ lastKind' = Select(lastState')
  /\ holdLeft' = IF lastKind' = "avoid" THEN AvoidDuration ELSE 0
  /\ qPlan' = IF lastKind' = lastKind THEN qPlan ELSE Append(qPlan, lastKind')

(* One turn of run() that got an update.                                     *)
ReceiveUpdate ==
  /\ qWorld # <<>>
  /\ Len(qPlan) <= Capacity
  /\ qWorld' = Tail(qWorld)
  /\ lastState' = Head(qWorld).state
  /\ Tick(Head(qWorld).state)

IdleReturns ==   (* mutant: no tick when idle *)
  /\ Len(qPlan) <= Capacity
  /\ UNCHANGED <<qWorld, qPlan, lastState, lastKind, holdLeft>>

(* One turn of run() whose get timed out.  The timeout can fire in the loop  *)
(* iteration in which an update arrives, so qWorld need not be empty.        *)
IdleTick ==
  /\ Len(qPlan) <= Capacity
  /\ Tick(lastState)
  /\ UNCHANGED <<qWorld, lastState>>

(* loop.time() advances towards the deadline.                                *)
TimePasses ==
  /\ holdLeft > 0
  /\ holdLeft' = holdLeft - 1
  /\ UNCHANGED <<qWorld, qPlan, lastState, lastKind>>
=============================================================================
