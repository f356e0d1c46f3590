----------------------------- MODULE MCAlarmTag -----------------------------
(* Small signals and setpoints for AlarmTag. *)
EXTENDS AlarmTag

CONSTANT None   \* the model value given to NoLevel

SP(lolo, lo, hi, hihi) == [lolo |-> lolo, lo |-> lo, hi |-> hi, hihi |-> hihi]

MCValues == 0..12 \cup {None}

\* Every side with no, an inner, an outer or both thresholds.
MCAllSetpoints ==
    {SP(lolo, lo, hi, hihi) : lolo \in {None, 2}, lo \in {None, 4},
                              hi \in {None, 8}, hihi \in {None, 10}}

=============================================================================
