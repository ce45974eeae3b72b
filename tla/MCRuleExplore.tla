---------------------------- MODULE MCRuleExplore ----------------------------
(* The explore loop's readings, and a check of _op_match.                    *)
EXTENDS RuleExplore

Ultrasonic(d) == [sensor |-> "ultrasonic", distance |-> d]
Grayscale(vs) == [sensor |-> "grayscale", values |-> vs]

MCThreshold == 2

MCReadings ==
  {Ultrasonic(None), Ultrasonic(2), Ultrasonic(3),
   Grayscale({2, 3}), Grayscale({3, None})}

Numbers == INSTANCE RulePlanner WITH
             Rules <- <<>>, Default <- "default", Numeric <- {"x"}, lastName <- lastKind

X(op, value, actual) == Numbers!OpMatch([field |-> "x", op |-> op, value |-> value], actual)

(* The operators of _op_match against each other: of two opposite bounds a   *)
(* number meets exactly one and a missing value neither; "in" is a choice of *)
(* "eq"; "truthy" is neither missing nor zero.                               *)
ASSUME OperatorsAgree ==
  \A actual \in {None} \cup 0 .. 3, v \in 0 .. 3 :
    /\ ~(X("lt", v, actual) /\ X("ge", v, actual))
    /\ (X("lt", v, actual) \/ X("ge", v, actual)) = X("exists", TRUE, actual)
    /\ X("le", v, actual) = (X("lt", v, actual) \/ X("eq", v, actual))
    /\ X("gt", v, actual) = (X("ge", v, actual) /\ X("ne", v, actual))
    /\ X("in", {v, 3}, actual) = (X("eq", v, actual) \/ X("eq", 3, actual))
    /\ X("truthy", TRUE, actual) = (X("exists", TRUE, actual) /\ X("ne", 0, actual))
=============================================================================
