-------------------------- MODULE MCVehicleAction --------------------------
(* The explore routine's two plans, in ticks.                                *)
EXTENDS VehicleAction

Action(m, x, n) == [method |-> m, arg |-> x, priority |-> n]

Cruise == {Action("steer", "straight", 0), Action("drive", "forward", 1)}
Avoid == {Action("stop", None, 0), Action("drive", "reverse", 1), Action("steer", "turn", 2)}

MCPlans == {Cruise, Avoid}
NoFaults == {}
AllFaults == {"error", "reject"}
=============================================================================
