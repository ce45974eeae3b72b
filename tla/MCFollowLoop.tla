---------------------------- MODULE MCFollowLoop ----------------------------
(* A target ahead and one to the right, frames without it, and echoes too    *)
(* near.  The roll has a step per half turn.                                 *)
EXTENDS FollowLoop

Seen(b) == [sensor |-> "vision", detected |-> TRUE, bearing |-> b, vertical |-> 0, distance |-> 75]
Missed == [sensor |-> "vision", detected |-> FALSE]
EchoAt(d) == [sensor |-> "ultrasonic", distance |-> d]

MCReadings == {Seen(0), Seen(20), Missed, EchoAt(40)}

MCRoll == << [sin |-> 0, cos |-> -100], [sin |-> 0, cos |-> 100] >>
MCPanGain == -50
=============================================================================
