------------------------------ MODULE MCDeploy ------------------------------
(* The two deployers are interchangeable.                                   *)
EXTENDS Deploy, TLC
Deployment == Permutations(Deployers)
=============================================================================
