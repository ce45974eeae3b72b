---------------------------- MODULE RuleExplore ----------------------------
(***************************************************************************)
(* The explore routine with planner = "rule": the pipeline of ExploreLoop  *)
(* with a RulePlanner that runs the bundled table                          *)
(* src/autonomon/planning/rules/explore.toml in AvoidancePlanner's place.  *)
(* ExploreLoop!Spec is what the table promises to reproduce.               *)
(***************************************************************************)
EXTENDS ExploreLoop

IsTrue(field) == [field |-> field, op |-> "eq", value |-> TRUE]

(* explore.toml, whose hold_s is AvoidDuration.                              *)
ExploreTable ==
  << [name |-> "avoid", hold |-> AvoidDuration, when |-> {},
      anyOf |-> {{IsTrue("obstacle_ahead")}, {IsTrue("cliff_detected")}}],
     [name |-> "cruise", hold |-> 0, when |-> {}, anyOf |-> {}] >>

Rule == INSTANCE RulePlanner WITH
          Rules <- ExploreTable, Default <- "default", Numeric <- {}, lastName <- lastKind

RuleReceive ==
  /\ Rule!ReceiveUpdate
  /\ ManoeuvreStarts
  /\ UNCHANGED <<qPerception, worldVars, lastPlan, sensed>>

RuleIdle ==
  /\ Rule!IdleTick
  /\ ManoeuvreStarts
  /\ UNCHANGED <<qPerception, worldVars, lastPlan, sensed>>

RuleTimePasses ==
  /\ holdLeft > 0
  /\ Rule!HoldPasses
  /\ manoeuvre' = IF manoeuvre < AvoidDuration THEN manoeuvre + 1 ELSE manoeuvre
  /\ UNCHANGED <<qPerception, qWorld, qPlan, worldVars, lastState, lastKind, lastPlan, sensed>>

RuleNext ==
  \/ \E event \in Readings : Poll(event)
  \/ WorldStep
  \/ RuleReceive
  \/ RuleIdle
  \/ RuleTimePasses
  \/ Execute

RuleSpec == Init /\ [][RuleNext]_vars

(* The table reproduces the hand-written planner: every behaviour of the     *)
(* pipeline with the table, through every queue content, hold and idle tick, *)
(* is one of the pipeline with AvoidancePlanner (rule.py:8-11,               *)
(* explore.toml:1-3, ADR-007).                                               *)
ReproducesAvoidance == Spec
=============================================================================
