---------------------------- MODULE MCPipeline ----------------------------
(* Two sensors, as in the explore routine.                                  *)
EXTENDS Pipeline
MCSources == <<"ultrasonic", "grayscale">>
=============================================================================
