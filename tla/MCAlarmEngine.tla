---------------------------- MODULE MCAlarmEngine ----------------------------
(* A tag or two with one setpoint for AlarmEngine. *)
EXTENDS AlarmEngine

CONSTANT None   \* the model value given to NoLevel

MCFewReadings == {[value |-> 0, quality |-> "ok"], [value |-> 10, quality |-> "ok"]}

MCReadings == MCFewReadings \cup {[value |-> None, quality |-> "bad"]}

MCOneSetpoint == {[lolo |-> None, lo |-> None, hi |-> 10, hihi |-> None]}

MCSetpointChoices == MCOneSetpoint \cup {NoSetpoints}

=============================================================================
