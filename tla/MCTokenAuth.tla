----------------------------- MODULE MCTokenAuth -----------------------------
(* Three tasks: both sensors and the action layer.                           *)
EXTENDS TokenAuth
CONSTANTS c1, c2, c3
MCCallers == {c1, c2, c3}
=============================================================================
