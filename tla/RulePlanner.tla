---------------------------- MODULE RulePlanner ----------------------------
(***************************************************************************)
(* The table-driven planner (src/autonomon/planning/rule.py): the first    *)
(* rule whose condition holds in the latest world state is selected, held  *)
(* for its hold_s, and put as a plan when its name changes.                *)
(*                                                                         *)
(* A rule is [name, when, anyOf, hold]; a condition is a set of clauses    *)
(* [field, op, value], all of which must hold.  A bare value in the table  *)
(* is an "eq" clause, and a map of operators is a clause for each.  A      *)
(* clause compares a field with values of the field's own type.  A plan is *)
(* its rule's name, which the tables use once.  holdLeft is what is left   *)
(* until _hold_until, 0 when it is past or None.                           *)
(***************************************************************************)
EXTENDS Integers, Sequences

CONSTANTS
  None,
  Capacity,
  Rules,          (* the table, a sequence of rules                          *)
  Default,        (* default_name                                            *)
  Numeric         (* the fields that hold a number when they hold anything   *)

VARIABLES
  qWorld,     (* WorldStateUpdates waiting to be read                        *)
  qPlan,      (* ActionPlans put towards the action layer                    *)
  lastState,  (* _last_state, None before the first update                   *)
  lastName,   (* _last_name, None before the first plan                      *)
  holdLeft    (* _hold_until - loop.time(), 0 when past or None              *)

(* state.get(field)                                                          *)
Get(state, field) == IF field \in DOMAIN state THEN state[field] ELSE None

(* _op_match, for an observed value of the clause's field.  A value that is  *)
(* missing or not a number matches no numeric bound.                         *)
Truthy(field, actual) ==
  actual # None /\ IF field \in Numeric THEN actual # 0 ELSE actual

Bound(op, number, expected) ==
  CASE op = "lt" -> number < expected
    [] op = "le" -> number <= expected
    [] op = "gt" -> number > expected
    [] op = "ge" -> number >= expected

OpMatch(clause, actual) ==
  CASE clause.op = "eq"     -> actual = clause.value
    [] clause.op = "ne"     -> actual # clause.value
    [] clause.op = "in"     -> actual \in clause.value
    [] clause.op = "truthy" -> Truthy(clause.field, actual) = clause.value
    [] clause.op = "exists" -> (actual # None) = clause.value
    [] OTHER -> /\ clause.field \in Numeric /\ actual # None
                /\ Bound(clause.op, actual, clause.value)

AllMatch(clauses, state) ==
  \A c \in clauses : OpMatch(c, Get(state, c.field))

MatchesAllOf(rule, state) ==   (* mutant: any_of read as all of *)
  AllMatch(rule.when, state) /\ \A clauses \in rule.anyOf : AllMatch(clauses, state)

RuleMatches(rule, state) ==
  /\ AllMatch(rule.when, state)
  /\ rule.anyOf # {} => \E clauses \in rule.anyOf : AllMatch(clauses, state)

(* _select: the first rule that matches, or the default, which is not held.  *)
Hits(state) == {i \in DOMAIN Rules : RuleMatches(Rules[i], state)}

Select(state) ==
  IF Hits(state) = {} THEN [name |-> Default, hold |-> 0]
  ELSE LET rule == Rules[CHOOSE i \in Hits(state) : \A j \in Hits(state) : i <= j]
       IN  [name |-> rule.name, hold |-> rule.hold]

-----------------------------------------------------------------------------
InitPlanner ==
  /\ lastState = None
  /\ lastName = None
  /\ holdLeft = 0

(* _tick returns before it selects: no state yet, or a hold is open.         *)
Committed(state) ==
  /\ state = None \/ holdLeft > 0
  /\ UNCHANGED <<lastName, holdLeft, qPlan>>

(* _tick selects, re-arms the hold, and puts a plan if the name changed.     *)
Reevaluate(state) ==
  /\ state # None /\ holdLeft = 0
  /\ LET rule == Select(state) IN
       /\ holdLeft' = rule.hold
       /\ lastName' = rule.name
       /\ qPlan' = IF rule.name = lastName THEN qPlan ELSE Append(qPlan, rule.name)

Tick(state) == Committed(state) \/ Reevaluate(state)

UpdateBreaksHold ==   (* mutant: an update ends the hold *)
  /\ qWorld # <<>>
  /\ Len(qPlan) <= Capacity
  /\ qWorld' = Tail(qWorld)
  /\ lastState' = Head(qWorld).state
  /\ LET rule == Select(lastState') IN
       /\ holdLeft' = rule.hold
       /\ lastName' = rule.name
       /\ qPlan' = IF rule.name = lastName THEN qPlan ELSE Append(qPlan, rule.name)

(* One turn of run() that got an update.                                     *)
ReceiveUpdate ==
  /\ qWorld # <<>>
  /\ Len(qPlan) <= Capacity
  /\ qWorld' = Tail(qWorld)
  /\ lastState' = Head(qWorld).state
  /\ Tick(Head(qWorld).state)

(* One turn of run() whose get timed out.                                    *)
IdleTick ==
  /\ Len(qPlan) <= Capacity
  /\ Tick(lastState)
  /\ UNCHANGED <<qWorld, lastState>>

(* loop.time() advances towards the deadline.                                *)
HoldPasses == holdLeft' = IF holdLeft > 0 THEN holdLeft - 1 ELSE 0
=============================================================================
