---------------------------- MODULE PipelineRun ----------------------------
(***************************************************************************)
(* What Pipeline.run (src/autonomon/pipeline.py) promises its caller, with *)
(* the layers reduced to whether one of them has raised: run waits, stops  *)
(* its layers whatever ended the wait, and leaves with an outcome.         *)
(* Pipeline implements it, and the entry point (Plugin) is built on it.    *)
(***************************************************************************)
VARIABLES
  life,         (* "new", "waiting", "stopping" (run's finally) or "over"    *)
  failed,       (* some layer has raised                                     *)
  outcome       (* how run leaves: "none" until its wait is over             *)

runVars == <<life, failed, outcome>>

Init == life = "new" /\ failed = FALSE /\ outcome = "none"

Start ==
  /\ life = "new" /\ life' = "waiting"
  /\ UNCHANGED <<failed, outcome>>

(* A layer raises: while run waits, or while it stops what is left.          *)
LayerRaises ==
  /\ life \in {"waiting", "stopping"} /\ outcome # "returned"
  /\ failed' = TRUE
  /\ UNCHANGED <<life, outcome>>

(* The wait ends by itself: a layer raised, or all of them are over.         *)
Wakes ==
  /\ life = "waiting" /\ life' = "stopping"
  /\ outcome' = IF failed THEN "raised" ELSE "returned"
  /\ UNCHANGED failed

(* The wait is cancelled.                                                    *)
Cancelled ==
  /\ life = "waiting" /\ life' = "stopping"
  /\ outcome' = "cancelled"
  /\ UNCHANGED failed

(* Every layer is over, and run leaves.                                      *)
Stops ==
  /\ life = "stopping" /\ life' = "over"
  /\ UNCHANGED <<failed, outcome>>

Next == Start \/ LayerRaises \/ Wakes \/ Cancelled \/ Stops

Spec == Init /\ [][Next]_runVars

(* A layer's error ends the wait, and a stop ends.                           *)
FairSpec ==
  /\ Spec
  /\ WF_runVars(failed /\ Wakes)
  /\ WF_runVars(Stops)
=============================================================================
