-------------------------- MODULE MCVehicleHealthy --------------------------
(* Timings under which no motion stalls, and a plan that sets one channel    *)
(* only: the stop of a rule table, planned besides the explore plans.        *)
EXTENDS MCVehicleAction

ASSUME Healthy == Prompt /\ LeaseLasts

StopOnly == {Action("stop", None, 0)}
HealthyPlans == MCPlans \cup {StopOnly}
=============================================================================
